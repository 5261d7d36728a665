---------------------------- MODULE MCWinRTClient ----------------------------
(***************************************************************************)
(* An instance of WinRTClient for TLC: the disconnects are interchangeable.  *)
(***************************************************************************)
EXTENDS WinRTClient, TLC

Symmetry == Permutations(Disconnects)
=============================================================================
