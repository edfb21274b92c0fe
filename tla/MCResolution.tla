---------------------------- MODULE MCResolution ----------------------------
(***************************************************************************)
(* Every world, three timers and up to two hotplug events.                 *)
(***************************************************************************)
EXTENDS Resolution
=============================================================================
