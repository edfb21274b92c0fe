---------------------------- MODULE MCBrightness ----------------------------
(* Four device numbers, of which any may be missing and one cannot be opened;*)
(* a gap of two ends the scan.  Records of three bytes, so that a record may *)
(* take up to three reads; more steps than values; a brightness outside the  *)
(* limits to begin with.                                                     *)
EXTENDS Brightness

MCIds == 0 .. 3
=============================================================================
