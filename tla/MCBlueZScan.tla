----------------------------- MODULE MCBlueZScan -----------------------------
(***************************************************************************)
(* Instances of BlueZScan for TLC: active scanners a1 and a2, a passive p1. *)
(***************************************************************************)
EXTENDS BlueZScan

CONSTANTS a1, a2, p1, d1

PassiveOne == {p1}
AllThree   == {a1, a2, p1}
Again(s)   == [x \in AllThree |-> IF x = s THEN 2 ELSE 1]
P1Again    == Again(p1)
P1Sees     == {<<p1, d1>>}
=============================================================================
