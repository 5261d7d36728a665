--------------------------- MODULE MCAndroidScanner ---------------------------
(***************************************************************************)
(* Instances of AndroidScanner for TLC.                                     *)
(***************************************************************************)
EXTENDS AndroidScanner

CONSTANTS s1, s2
=============================================================================
