------------------------------ MODULE MCFsPanel ------------------------------
(* Two windows, one of which may be there before the panel, two desktops and  *)
(* a task area in which a press lands on the first task, on the second one or *)
(* beside them.                                                              *)
EXTENDS FsPanel

CONSTANTS w1, w2

MCWindows == {w1, w2}
MCKdeIcon == {w2}
MCTitles == {"a", "b"}
MCOlder == {w1}
=============================================================================
