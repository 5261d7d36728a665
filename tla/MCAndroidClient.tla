--------------------------- MODULE MCAndroidClient ---------------------------
(***************************************************************************)
(* An instance of AndroidClient for TLC: a read and a start_notify().        *)
(***************************************************************************)
EXTENDS AndroidClient

Names == {"r", "n"}
Answers == [x \in Names |-> IF x = "r" THEN "onCharacteristicRead" ELSE "onDescriptorWrite"]
=============================================================================
