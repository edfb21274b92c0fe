---------------------------- MODULE MCRateLimiter ----------------------------
(* A ring of six slots, so that the duplicate check of five does not cover   *)
(* the ring, wraps after the sixth message and meets expired entries.       *)
EXTENDS RateLimiter

CONSTANTS m1, m2, m3

MCMsgs == {m1, m2, m3}
=============================================================================
