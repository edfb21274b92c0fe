------------------------------ MODULE Delivery ------------------------------
(***************************************************************************)
(* What the password exchange promises, without sockets, timers or         *)
(* retries: a daemon releases its password, the guest obtains at most one  *)
(* password, that of the one daemon it was introduced to and only after    *)
(* that daemon released it, and an erased password never comes back.       *)
(***************************************************************************)
CONSTANTS Daemons,   \* the daemons, each with a password
          NoDaemon   \* the guest was introduced to none

VARIABLES peer,      \* the daemon the guest was introduced to
          released,  \* the daemons that gave their password away
          held       \* what the guest has: "none", a daemon's password, "erased"

vars == <<peer, released, held>>

Init ==
    /\ peer \in Daemons \cup {NoDaemon}
    /\ released = {}
    /\ held = "none"

Release(d) ==
    /\ released' = released \cup {d}
    /\ UNCHANGED <<peer, held>>

\* The guest may have no use for the password any more and erase it at once.
Obtain ==
    /\ held = "none"
    /\ peer \in released
    /\ held' \in {peer, "erased"}
    /\ UNCHANGED <<peer, released>>

Erase ==
    /\ held \in Daemons
    /\ held' = "erased"
    /\ UNCHANGED <<peer, released>>

Next == (\E d \in Daemons : Release(d)) \/ Obtain \/ Erase

Spec == Init /\ [][Next]_vars
=============================================================================
