---------------------------- MODULE MCPwExchange ----------------------------
(***************************************************************************)
(* Two daemons and one port, so that a new daemon gets the port of the one *)
(* that died; another query of the same user, which makes that daemon open *)
(* its port; a guest without shares of its own that asks at most twice.    *)
(***************************************************************************)
EXTENDS PwExchange, TLC

MCPorts == {40000}

MCSymmetry == Permutations(Daemons)

Setting(sh, k) == [share |-> sh, key |-> k, remap |-> 0, persistent |-> FALSE, noHomeWarn |-> FALSE]

MCConfigs == {Setting("ok", d) : d \in Daemons} \cup {Setting("demo", NoOne), Setting("bad", NoOne)}
=============================================================================
