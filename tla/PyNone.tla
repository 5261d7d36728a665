-------------------------------- MODULE PyNone --------------------------------
(***************************************************************************)
(* The None of Python, which is no call, no object and no value of a model: *)
(* one constant for the models whose theorems are proved side by side.      *)
(***************************************************************************)
CONSTANT None
=============================================================================
