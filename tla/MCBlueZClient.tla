---------------------------- MODULE MCBlueZClient ----------------------------
(***************************************************************************)
(* Instances of BlueZClient for TLC: which calls of a client may overlap.   *)
(***************************************************************************)
EXTENDS BlueZClient, TLC

\* One task uses the client; a second one may call disconnect() too.
Sequential == {<<"disconnect", "disconnect">>}

\* disconnect() is called whenever the program likes, and so is connect().
Overlapping == Sequential \cup {<<"disconnect", "connect">>, <<"connect", "disconnect">>}

\* The disconnect() calls are alike.
DisconnectSymmetry == Permutations(Disconnects)
=============================================================================
