------------------------------ MODULE MCReloader ------------------------------
(* Two rule files; two contents that sed makes of each other (it adds a -w    *)
(* each time, and only whether their number is odd is told apart), one that   *)
(* fails.                                                                     *)
EXTENDS Reloader

CONSTANTS odd, even, failing, r1, r2

MCContents == {odd, even, failing}
MCPatch == [c \in MCContents |-> CASE c = odd -> even [] c = even -> odd [] OTHER -> c]
MCBad == {failing}
MCShipped == {<<odd, failing>>}
MCReloads == {r1, r2}
=============================================================================
