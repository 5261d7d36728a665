----------------------------- MODULE MCCBCentral -----------------------------
(***************************************************************************)
(* An instance of CBCentral for TLC: only connect() is cancelled.           *)
(***************************************************************************)
EXTENDS CBCentral

CancelConnects == Connects
=============================================================================
