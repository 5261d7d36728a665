----------------------------- MODULE MCBlueZGatt -----------------------------
(***************************************************************************)
(* An instance of BlueZGatt for TLC.  Characteristics a and c have           *)
(* NotifyAcquired and share one file descriptor number: when stop_notify()   *)
(* or on_data() has closed it for one of them it is given out again for the  *)
(* other.  a is started, which may be cancelled, and stopped, c is started.  *)
(* b has no NotifyAcquired; it is started, stopped, and read.                *)
(***************************************************************************)
EXTENDS BlueZGatt

CONSTANTS a, b, c

ABC   == {a, b, c}
AC    == {a, c}
Kinds == [a1 |-> "start", ax |-> "stop", c1 |-> "start",
          b1 |-> "start", bx |-> "stop", r |-> "io"]
Names == DOMAIN Kinds
Where == [k \in Names |-> CASE k \in {"a1", "ax"} -> a [] k = "c1" -> c [] OTHER -> b]
=============================================================================
