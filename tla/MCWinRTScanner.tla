---------------------------- MODULE MCWinRTScanner ----------------------------
(***************************************************************************)
(* An instance of WinRTScanner for TLC: a find, a start() and a stop() on   *)
(* one scanner.  The wanted device d1 has its service UUID in its scan      *)
(* response, d2 in its advertisement.                                       *)
(***************************************************************************)
EXTENDS WinRTScanner

CONSTANTS f, s1, p1, d1, d2

AllUsers == {f, s1, p1}
ServiceUuids == {<<d1, "scan">>, <<d2, "adv">>}
=============================================================================
