----------------------------- MODULE MCPwDaemon -----------------------------
(***************************************************************************)
(* Two daemons started at any time, one client with the daemon's uid and   *)
(* one with another; a single port, so that a daemon can find it taken.    *)
(***************************************************************************)
EXTENDS PwDaemon

MCPorts == {40000}
=============================================================================
