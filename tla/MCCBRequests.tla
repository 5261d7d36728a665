---------------------------- MODULE MCCBRequests ----------------------------
(***************************************************************************)
(* An instance of CBRequests for TLC: a read, two starts and a stop, and a  *)
(* request of any of the kinds that are only answered.                      *)
(***************************************************************************)
EXTENDS CBRequests

Names == {"r1", "s1", "s2", "t1", "o1"}
AnyOther ==
    {[x \in Names |-> CASE x = "r1" -> "read" [] x = "t1" -> "stop"
                         [] x = "o1" -> k [] OTHER -> "start"] :
        k \in {"write", "readDescriptor", "writeDescriptor", "rssi"}}
=============================================================================
