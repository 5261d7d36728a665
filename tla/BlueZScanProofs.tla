---------------------------- MODULE BlueZScanProofs ----------------------------
(***************************************************************************)
(* Theorems about BlueZScan, for any set of scanners, of stop() calls and   *)
(* of devices.                                                              *)
(***************************************************************************)
EXTENDS BlueZScan, SequenceTheorems, TLAPS

\* What the tasks know of themselves: each is at one of its own awaits.
LocalTypeOK ==
    /\ pc \in [Tasks -> StartPC \cup StopPC]
    /\ \A s \in Scanners : pc[s] \in StartPC
    /\ \A k \in StopCalls : pc[k] \in StopPC
    /\ hasStop \subseteq Scanners
    /\ seen \in [Scanners -> SUBSET Devices]

\* Every task is at an await of its own code.
THEOREM LocalTypes == Spec => []LocalTypeOK
<1> USE ScannersAssumption, DevicesAssumption
<1>1. Init => LocalTypeOK
  BY DEF Init, LocalTypeOK, Tasks, StartPC, StopPC
<1>2. LocalTypeOK /\ [Next]_vars => LocalTypeOK'
  <2> SUFFICES ASSUME LocalTypeOK, [Next]_vars PROVE LocalTypeOK'
    OBVIOUS
  <2> USE DEF LocalTypeOK, Tasks, StopCalls, StartPC, StopPC, Goto, local, bluez, devices
  <2>1. ASSUME NEW s \in Scanners, Start(s) PROVE LocalTypeOK'
    BY <2>1 DEF Start
  <2>2. ASSUME NEW s \in Scanners, EnterActive(s) PROVE LocalTypeOK'
    BY <2>2 DEF EnterActive, Enter, Acquire, Call
  <2>3. ASSUME NEW s \in Scanners, EnterPassive(s) PROVE LocalTypeOK'
    BY <2>3 DEF EnterPassive, Enter, Acquire, Call
  <2>4. ASSUME NEW s \in Scanners, NoAdapter(s) PROVE LocalTypeOK'
    BY <2>4 DEF NoAdapter, Acquire
  <2>5. ASSUME NEW s \in Scanners, FilterSet(s) PROVE LocalTypeOK'
    BY <2>5 DEF FilterSet, Call
  <2>6. ASSUME NEW s \in Scanners, DiscoveryStarted(s) PROVE LocalTypeOK'
    BY <2>6 DEF DiscoveryStarted, Keep
  <2>7. ASSUME NEW s \in Scanners, MonitorRegistered(s) PROVE LocalTypeOK'
    BY <2>7 DEF MonitorRegistered, Keep
  <2>8. ASSUME NEW s \in Scanners, StartRaises(s) PROVE LocalTypeOK'
    BY <2>8 DEF StartRaises
  <2>9. ASSUME NEW k \in StopCalls, Stop(k) PROVE LocalTypeOK'
    BY <2>9 DEF Stop
  <2>10. ASSUME NEW k \in StopCalls, StopDiscovery(k) PROVE LocalTypeOK'
    BY <2>10 DEF StopDiscovery, Acquire, Call
  <2>11. ASSUME NEW k \in StopCalls, UnregisterMonitor(k) PROVE LocalTypeOK'
    BY <2>11 DEF UnregisterMonitor, Acquire, Call
  <2>12. ASSUME NEW k \in StopCalls, ClearFilter(k) PROVE LocalTypeOK'
    BY <2>12 DEF ClearFilter, Call
  <2>13. ASSUME NEW k \in StopCalls, Stopped(k) PROVE LocalTypeOK'
    BY <2>13 DEF Stopped
  <2>14. ASSUME NEW k \in StopCalls, StopRaises(k) PROVE LocalTypeOK'
    BY <2>14 DEF StopRaises
  <2>15. ASSUME NEW t \in Tasks, CancelWaiting(t) PROVE LocalTypeOK'
    BY <2>15 DEF CancelWaiting
  <2>16. ASSUME NEW d \in Devices, Advertised(d) PROVE LocalTypeOK'
    BY <2>16 DEF Advertised
  <2>17. ASSUME NEW d \in Devices, Forgotten(d) PROVE LocalTypeOK'
    BY <2>17 DEF Forgotten
  <2>18. CASE Serve
    BY <2>18 DEF Serve, ServeFilter, ServeStartDiscovery, ServeStopDiscovery, ServeRegister,
       ServeUnregister
  <2>19. CASE PowerOff \/ PowerOn
    BY <2>19 DEF PowerOff, PowerOn
  <2>20. CASE UNCHANGED vars
    BY <2>20 DEF vars
  <2> QED
    BY <2>1, <2>2, <2>3, <2>4, <2>5, <2>6, <2>7, <2>8, <2>9, <2>10, <2>11, <2>12, <2>13,
       <2>14, <2>15, <2>16, <2>17, <2>18, <2>19, <2>20
       DEF Next, EnterScan, EnterStop, StartReplied, StopReplied
<1> QED
  BY <1>1, <1>2, PTL DEF Spec

\* Whatever fails or is cancelled, the lock has one holder, and no holder that has left.
THEOREM BusLockIsExclusive == Spec => []LockExclusive
<1> USE ScannersAssumption
<1>1. Init => LockExclusive
  BY DEF Init, LockExclusive, Tasks, StopCalls, Critical
<1>2. LocalTypeOK /\ LockExclusive /\ [Next]_vars => LockExclusive'
  <2> SUFFICES ASSUME LocalTypeOK, LockExclusive, [Next]_vars PROVE LockExclusive'
    OBVIOUS
  <2> USE DEF LockExclusive, LocalTypeOK, Critical, Tasks, StopCalls, StartPC, StopPC, Goto,
      local, bluez, devices
  <2>1. ASSUME NEW s \in Scanners, Start(s) PROVE LockExclusive'
    BY <2>1 DEF Start
  <2>2. ASSUME NEW s \in Scanners, EnterActive(s) PROVE LockExclusive'
    BY <2>2 DEF EnterActive, Enter, Acquire, Call
  <2>3. ASSUME NEW s \in Scanners, EnterPassive(s) PROVE LockExclusive'
    BY <2>3 DEF EnterPassive, Enter, Acquire, Call
  <2>4. ASSUME NEW s \in Scanners, NoAdapter(s) PROVE LockExclusive'
    BY <2>4 DEF NoAdapter, Acquire
  <2>5. ASSUME NEW s \in Scanners, FilterSet(s) PROVE LockExclusive'
    BY <2>5 DEF FilterSet, Call
  <2>6. ASSUME NEW s \in Scanners, DiscoveryStarted(s) PROVE LockExclusive'
    BY <2>6 DEF DiscoveryStarted, Keep
  <2>7. ASSUME NEW s \in Scanners, MonitorRegistered(s) PROVE LockExclusive'
    BY <2>7 DEF MonitorRegistered, Keep
  <2>8. ASSUME NEW s \in Scanners, StartRaises(s) PROVE LockExclusive'
    BY <2>8 DEF StartRaises
  <2>9. ASSUME NEW k \in StopCalls, Stop(k) PROVE LockExclusive'
    BY <2>9 DEF Stop
  <2>10. ASSUME NEW k \in StopCalls, StopDiscovery(k) PROVE LockExclusive'
    BY <2>10 DEF StopDiscovery, Acquire, Call
  <2>11. ASSUME NEW k \in StopCalls, UnregisterMonitor(k) PROVE LockExclusive'
    BY <2>11 DEF UnregisterMonitor, Acquire, Call
  <2>12. ASSUME NEW k \in StopCalls, ClearFilter(k) PROVE LockExclusive'
    BY <2>12 DEF ClearFilter, Call
  <2>13. ASSUME NEW k \in StopCalls, Stopped(k) PROVE LockExclusive'
    BY <2>13 DEF Stopped
  <2>14. ASSUME NEW k \in StopCalls, StopRaises(k) PROVE LockExclusive'
    BY <2>14 DEF StopRaises
  <2>15. ASSUME NEW t \in Tasks, CancelWaiting(t) PROVE LockExclusive'
    BY <2>15 DEF CancelWaiting
  <2>16. ASSUME NEW d \in Devices, Advertised(d) PROVE LockExclusive'
    BY <2>16 DEF Advertised
  <2>17. ASSUME NEW d \in Devices, Forgotten(d) PROVE LockExclusive'
    BY <2>17 DEF Forgotten
  <2>18. CASE Serve
    BY <2>18 DEF Serve, ServeFilter, ServeStartDiscovery, ServeStopDiscovery, ServeRegister,
       ServeUnregister
  <2>19. CASE PowerOff \/ PowerOn
    BY <2>19 DEF PowerOff, PowerOn
  <2>20. CASE UNCHANGED vars
    BY <2>20 DEF vars
  <2> QED
    BY <2>1, <2>2, <2>3, <2>4, <2>5, <2>6, <2>7, <2>8, <2>9, <2>10, <2>11, <2>12, <2>13,
       <2>14, <2>15, <2>16, <2>17, <2>18, <2>19, <2>20
       DEF Next, EnterScan, EnterStop, StartReplied, StopReplied
<1> QED
  BY <1>1, <1>2, LocalTypes, PTL DEF Spec

\* The inductive form of CallbacksOwned: a scanner that is starting has no stop() yet, so
\* that the two reasons to be registered never meet.
CallbacksInv ==
    /\ CallbacksOwned
    /\ \A s \in Scanners : pc[s] \in {"lock", "filter", "discover", "register"} => s \notin
       hasStop

\* CallbacksInv is inductive.
THEOREM CallbacksInvariant == Spec => []CallbacksInv
<1> USE ScannersAssumption
<1>1. Init => CallbacksInv
  BY DEF Init, CallbacksInv, CallbacksOwned, Tasks, StopCalls, Critical
<1>2. LocalTypeOK /\ CallbacksInv /\ [Next]_vars => CallbacksInv'
  <2> SUFFICES ASSUME LocalTypeOK, CallbacksInv, [Next]_vars PROVE CallbacksInv'
    OBVIOUS
  <2> USE DEF CallbacksInv, LocalTypeOK, CallbacksOwned, Tasks, StopCalls, StartPC, StopPC, Goto,
      local, bluez, devices
  <2>1. ASSUME NEW s \in Scanners, Start(s) PROVE CallbacksInv'
    BY <2>1 DEF Start
  <2>2. ASSUME NEW s \in Scanners, EnterActive(s) PROVE CallbacksInv'
    BY <2>2 DEF EnterActive, Enter, Acquire, Call
  <2>3. ASSUME NEW s \in Scanners, EnterPassive(s) PROVE CallbacksInv'
    BY <2>3 DEF EnterPassive, Enter, Acquire, Call
  <2>4. ASSUME NEW s \in Scanners, NoAdapter(s) PROVE CallbacksInv'
    BY <2>4 DEF NoAdapter, Acquire
  <2>5. ASSUME NEW s \in Scanners, FilterSet(s) PROVE CallbacksInv'
    BY <2>5 DEF FilterSet, Call
  <2>6. ASSUME NEW s \in Scanners, DiscoveryStarted(s) PROVE CallbacksInv'
    BY <2>6 DEF DiscoveryStarted, Keep
  <2>7. ASSUME NEW s \in Scanners, MonitorRegistered(s) PROVE CallbacksInv'
    BY <2>7 DEF MonitorRegistered, Keep
  <2>8. ASSUME NEW s \in Scanners, StartRaises(s) PROVE CallbacksInv'
    BY <2>8 DEF StartRaises
  <2>9. ASSUME NEW k \in StopCalls, Stop(k) PROVE CallbacksInv'
    BY <2>9 DEF Stop
  <2>10. ASSUME NEW k \in StopCalls, StopDiscovery(k) PROVE CallbacksInv'
    BY <2>10 DEF StopDiscovery, Acquire, Call
  <2>11. ASSUME NEW k \in StopCalls, UnregisterMonitor(k) PROVE CallbacksInv'
    BY <2>11 DEF UnregisterMonitor, Acquire, Call
  <2>12. ASSUME NEW k \in StopCalls, ClearFilter(k) PROVE CallbacksInv'
    BY <2>12 DEF ClearFilter, Call
  <2>13. ASSUME NEW k \in StopCalls, Stopped(k) PROVE CallbacksInv'
    BY <2>13 DEF Stopped
  <2>14. ASSUME NEW k \in StopCalls, StopRaises(k) PROVE CallbacksInv'
    BY <2>14 DEF StopRaises
  <2>15. ASSUME NEW t \in Tasks, CancelWaiting(t) PROVE CallbacksInv'
    BY <2>15 DEF CancelWaiting
  <2>16. ASSUME NEW d \in Devices, Advertised(d) PROVE CallbacksInv'
    BY <2>16 DEF Advertised
  <2>17. ASSUME NEW d \in Devices, Forgotten(d) PROVE CallbacksInv'
    BY <2>17 DEF Forgotten
  <2>18. CASE Serve
    BY <2>18 DEF Serve, ServeFilter, ServeStartDiscovery, ServeStopDiscovery, ServeRegister,
       ServeUnregister
  <2>19. CASE PowerOff \/ PowerOn
    BY <2>19 DEF PowerOff, PowerOn
  <2>20. CASE UNCHANGED vars
    BY <2>20 DEF vars
  <2> QED
    BY <2>1, <2>2, <2>3, <2>4, <2>5, <2>6, <2>7, <2>8, <2>9, <2>10, <2>11, <2>12, <2>13,
       <2>14, <2>15, <2>16, <2>17, <2>18, <2>19, <2>20
       DEF Next, EnterScan, EnterStop, StartReplied, StopReplied
<1> QED
  BY <1>1, <1>2, LocalTypes, PTL DEF Spec

\* No scanner that is not starting or started keeps a callback in the manager.
THEOREM CallbacksAreOwned == Spec => []CallbacksOwned
<1>1. CallbacksInv => CallbacksOwned
  BY DEF CallbacksInv
<1> QED
  BY <1>1, CallbacksInvariant, PTL

\* The inductive form of SeenIsKnown: a scanner that waits for the lock is not registered
\* yet, so that no removal reaches it, but it has nothing to remove.
SeenInv ==
    /\ SeenIsKnown
    /\ \A s \in Scanners : pc[s] = "lock" => seen[s] = {}

\* A scanner that scans, or is about to, has not seen a device that BlueZ has forgotten.
THEOREM SeenDevicesAreKnown == Spec => []SeenIsKnown
<1> USE ScannersAssumption, DevicesAssumption
<1>1. Init => SeenInv
  BY DEF Init, SeenInv, SeenIsKnown, Tasks, StopCalls
<1>2. LocalTypeOK /\ CallbacksInv /\ SeenInv /\ [Next]_vars => SeenInv'
  <2> SUFFICES ASSUME LocalTypeOK, CallbacksInv, SeenInv, [Next]_vars PROVE SeenInv'
    OBVIOUS
  <2> USE DEF SeenInv, LocalTypeOK, CallbacksInv, CallbacksOwned, SeenIsKnown,
     Tasks, StopCalls, StartPC, StopPC, Goto, local, bluez, devices
  <2>1. ASSUME NEW s \in Scanners, Start(s) PROVE SeenInv'
    BY <2>1 DEF Start
  <2>2. ASSUME NEW s \in Scanners, EnterActive(s) PROVE SeenInv'
    BY <2>2 DEF EnterActive, Enter, Acquire, Call
  <2>3. ASSUME NEW s \in Scanners, EnterPassive(s) PROVE SeenInv'
    BY <2>3 DEF EnterPassive, Enter, Acquire, Call
  <2>4. ASSUME NEW s \in Scanners, NoAdapter(s) PROVE SeenInv'
    BY <2>4 DEF NoAdapter, Acquire
  <2>5. ASSUME NEW s \in Scanners, FilterSet(s) PROVE SeenInv'
    BY <2>5 DEF FilterSet, Call
  <2>6. ASSUME NEW s \in Scanners, DiscoveryStarted(s) PROVE SeenInv'
    BY <2>6 DEF DiscoveryStarted, Keep
  <2>7. ASSUME NEW s \in Scanners, MonitorRegistered(s) PROVE SeenInv'
    BY <2>7 DEF MonitorRegistered, Keep
  <2>8. ASSUME NEW s \in Scanners, StartRaises(s) PROVE SeenInv'
    BY <2>8 DEF StartRaises
  <2>9. ASSUME NEW k \in StopCalls, Stop(k) PROVE SeenInv'
    BY <2>9 DEF Stop
  <2>10. ASSUME NEW k \in StopCalls, StopDiscovery(k) PROVE SeenInv'
    BY <2>10 DEF StopDiscovery, Acquire, Call
  <2>11. ASSUME NEW k \in StopCalls, UnregisterMonitor(k) PROVE SeenInv'
    BY <2>11 DEF UnregisterMonitor, Acquire, Call
  <2>12. ASSUME NEW k \in StopCalls, ClearFilter(k) PROVE SeenInv'
    BY <2>12 DEF ClearFilter, Call
  <2>13. ASSUME NEW k \in StopCalls, Stopped(k) PROVE SeenInv'
    BY <2>13 DEF Stopped
  <2>14. ASSUME NEW k \in StopCalls, StopRaises(k) PROVE SeenInv'
    BY <2>14 DEF StopRaises
  <2>15. ASSUME NEW t \in Tasks, CancelWaiting(t) PROVE SeenInv'
    BY <2>15 DEF CancelWaiting
  <2>16. ASSUME NEW d \in Devices, Advertised(d) PROVE SeenInv'
    BY <2>16 DEF Advertised
  <2>17. ASSUME NEW d \in Devices, Forgotten(d) PROVE SeenInv'
    BY <2>17 DEF Forgotten
  <2>18. CASE Serve
    BY <2>18 DEF Serve, ServeFilter, ServeStartDiscovery, ServeStopDiscovery, ServeRegister,
       ServeUnregister
  <2>19. CASE PowerOff \/ PowerOn
    BY <2>19 DEF PowerOff, PowerOn
  <2>20. CASE UNCHANGED vars
    BY <2>20 DEF vars
  <2> QED
    BY <2>1, <2>2, <2>3, <2>4, <2>5, <2>6, <2>7, <2>8, <2>9, <2>10, <2>11, <2>12, <2>13,
       <2>14, <2>15, <2>16, <2>17, <2>18, <2>19, <2>20
       DEF Next, EnterScan, EnterStop, StartReplied, StopReplied
<1>3. SeenInv => SeenIsKnown
  BY DEF SeenInv
<1> QED
  BY <1>1, <1>2, <1>3, LocalTypes, CallbacksInvariant, PTL DEF Spec

-----------------------------------------------------------------------------
\* The entries of a queue whose first one has been taken.
LEMMA Taken ==
  ASSUME NEW S, NEW q \in Seq(S), q # <<>>
  PROVE  /\ Head(q) \in S /\ Head(q) = q[1]
         /\ Tail(q) \in Seq(S) /\ Len(q) \in Nat /\ Len(q) >= 1 /\ Len(Tail(q)) = Len(q) - 1
         /\ \A i \in 1..Len(Tail(q)) : i + 1 \in 1..Len(q) /\ Tail(q)[i] = q[i + 1]
BY HeadTailProperties

\* The entries of a queue that has one more.
LEMMA Added ==
  ASSUME NEW S, NEW q \in Seq(S), NEW e \in S
  PROVE  /\ Append(q, e) \in Seq(S) /\ Len(q) \in Nat /\ Len(Append(q, e)) = Len(q) + 1
         /\ \A i \in 1..Len(q) : Append(q, e)[i] = q[i]
         /\ Append(q, e)[Len(q) + 1] = e
BY AppendProperties

\* What a task can have asked of BlueZ.
Messages ==
    ((Scanners \ Passive) \X {"SetFilter", "StartDiscovery"})
    \cup (Passive \X {"RegisterMonitor"})
    \cup ({k \in StopCalls : k[1] \notin Passive} \X {"StopDiscovery", "ClearFilter"})
    \cup ({k \in StopCalls : k[1] \in Passive} \X {"UnregisterMonitor"})

\* The calls on their way are such messages, and a task is at the awaits of its own mode.
MessageInv ==
    /\ wire \in Seq(Messages)
    /\ reply \in [Tasks -> Replies \cup {None}]
    /\ \A s \in Scanners : /\ pc[s] \in {"filter", "discover"} => s \notin Passive
                           /\ pc[s] = "register" => s \in Passive
    /\ \A k \in StopCalls : /\ pc[k] \in {"stop", "clear"} => k[1] \notin Passive
                            /\ pc[k] = "unregister" => k[1] \in Passive

\* The calls on their way when a task has called BlueZ.
LEMMA Called ==
  ASSUME LocalTypeOK, MessageInv, NEW t \in Tasks, NEW m, NEW l,
         <<t, m>> \in Messages, Call(t, m, l)
  PROVE  /\ wire' \in Seq(Messages) /\ reply' \in [Tasks -> Replies \cup {None}]
         /\ Len(wire) \in Nat /\ Len(wire') = Len(wire) + 1
         /\ \A i \in 1..Len(wire) : wire'[i] = wire[i]
         /\ wire'[Len(wire) + 1] = <<t, m>>
  BY Added DEF Call, MessageInv

\* The calls on their way when BlueZ has taken the first one.
LEMMA Served ==
  ASSUME LocalTypeOK, MessageInv, wire # <<>>, wire' = Tail(wire)
  PROVE  /\ wire' \in Seq(Messages) /\ Len(wire) \in Nat /\ Len(wire) >= 1
         /\ Len(wire') = Len(wire) - 1
         /\ Head(wire) \in Messages /\ Head(wire) = wire[1]
         /\ \A i \in 1..Len(wire') : i + 1 \in 1..Len(wire) /\ wire'[i] = wire[i + 1]
  BY Taken DEF MessageInv

\* Whatever call BlueZ serves, it takes the first and answers at most the task that made it.
LEMMA ServeStep ==
  ASSUME LocalTypeOK, MessageInv, Serve
  PROVE  /\ wire # <<>> /\ wire' = Tail(wire) /\ pc' = pc
         /\ Head(wire)[1] \in Tasks /\ Head(wire) = <<Head(wire)[1], Head(wire)[2]>>
         /\ \E r \in Replies : Answer(Head(wire)[1], r)
         /\ reply' \in [Tasks -> Replies \cup {None}]
<1>1. wire # <<>> /\ wire' = Tail(wire) /\ pc' = pc
  BY DEF Serve, ServeFilter, ServeStartDiscovery, ServeStopDiscovery, ServeRegister,
     ServeUnregister, NextCall
<1>2. Head(wire) \in Messages
  BY <1>1, Served
<1>3. Head(wire)[1] \in Tasks /\ Head(wire) = <<Head(wire)[1], Head(wire)[2]>>
  BY <1>2, ScannersAssumption DEF Messages, Tasks
<1>4. PICK r \in Replies : Answer(Head(wire)[1], r)
  BY DEF Serve, ServeFilter, ServeStartDiscovery, ServeStopDiscovery, ServeRegister,
     ServeUnregister, Replies
<1>5. reply' \in [Tasks -> Replies \cup {None}]
  BY <1>3, <1>4 DEF Answer, MessageInv
<1> QED
  BY <1>1, <1>3, <1>4, <1>5

\* Active scanners use discovery, passive ones monitors, and no task waits for what it has
\* not asked.
THEOREM MessagesInvariant == Spec => []MessageInv
<1> USE ScannersAssumption
<1>1. Init => MessageInv
  <2> SUFFICES ASSUME Init PROVE MessageInv
    OBVIOUS
  <2>1. wire \in Seq(Messages) /\ reply \in [Tasks -> Replies \cup {None}]
    BY DEF Init
  <2> QED
    BY <2>1 DEF Init, MessageInv, Tasks
<1>2. LocalTypeOK /\ MessageInv /\ [Next]_vars => MessageInv'
  <2> SUFFICES ASSUME LocalTypeOK, MessageInv, [Next]_vars PROVE MessageInv'
    OBVIOUS
  <2>a. ASSUME NEW t \in Tasks, NEW m, NEW l, <<t, m>> \in Messages, Call(t, m, l),
               l \in {"filter", "discover"} => t \in Scanners \ Passive,
               l = "register" => t \in Passive,
               l \in {"stop", "clear"} => t \in StopCalls /\ t[1] \notin Passive,
               l = "unregister" => t \in StopCalls /\ t[1] \in Passive
        PROVE  MessageInv'
    <3>1. wire' \in Seq(Messages) /\ reply' \in [Tasks -> Replies \cup {None}]
      BY <2>a, Called
    <3> QED
      BY <2>a, <3>1 DEF MessageInv, LocalTypeOK, Call, Goto, Tasks, StopCalls
  <2>b. ASSUME NEW t \in Tasks, Goto(t, "idle") \/ Goto(t, "lock"), wire' = wire, reply' = reply
        PROVE  MessageInv'
    BY <2>b DEF MessageInv, LocalTypeOK, Goto, Tasks, StopCalls
  <2>c. ASSUME pc' = pc, wire' = wire, reply' = reply PROVE MessageInv'
    BY <2>c DEF MessageInv
  <2> USE DEF Tasks
  <2>1. ASSUME NEW s \in Scanners, Start(s) PROVE MessageInv'
    BY <2>1, <2>b, <2>c DEF Start
  <2>2. ASSUME NEW s \in Scanners, EnterActive(s) PROVE MessageInv'
    BY <2>2, <2>a DEF EnterActive, Enter, Messages
  <2>3. ASSUME NEW s \in Scanners, EnterPassive(s) PROVE MessageInv'
    BY <2>3, <2>a DEF EnterPassive, Enter, Messages
  <2>4. ASSUME NEW s \in Scanners, FilterSet(s) PROVE MessageInv'
    BY <2>4, <2>a DEF FilterSet, Messages, MessageInv
  <2>5. ASSUME NEW s \in Scanners,
               NoAdapter(s) \/ DiscoveryStarted(s) \/ MonitorRegistered(s) \/ StartRaises(s)
        PROVE  MessageInv'
    BY <2>5, <2>b DEF NoAdapter, DiscoveryStarted, MonitorRegistered, Keep, StartRaises
  <2>6. ASSUME NEW k \in StopCalls, StopDiscovery(k) PROVE MessageInv'
    BY <2>6, <2>a DEF StopDiscovery, Messages
  <2>7. ASSUME NEW k \in StopCalls, UnregisterMonitor(k) PROVE MessageInv'
    BY <2>7, <2>a DEF UnregisterMonitor, Messages
  <2>8. ASSUME NEW k \in StopCalls, ClearFilter(k) PROVE MessageInv'
    BY <2>8, <2>a DEF ClearFilter, Messages, MessageInv
  <2>9. ASSUME NEW k \in StopCalls, Stop(k) \/ Stopped(k) \/ StopRaises(k) PROVE MessageInv'
    BY <2>9, <2>b DEF Stop, Stopped, StopRaises
  <2>10. ASSUME NEW t \in Tasks, CancelWaiting(t) PROVE MessageInv'
    BY <2>10, <2>b DEF CancelWaiting
  <2>11. CASE Serve
    <3>1. wire' \in Seq(Messages) /\ reply' \in [Tasks -> Replies \cup {None}] /\ pc' = pc
      BY <2>11, ServeStep, Served
    <3> QED
      BY <3>1 DEF MessageInv
  <2>12. CASE PowerOff \/ PowerOn \/ (\E d \in Devices : Advertised(d) \/ Forgotten(d))
    BY <2>12, <2>c DEF PowerOff, PowerOn, Advertised, Forgotten
  <2>13. CASE UNCHANGED vars
    BY <2>13, <2>c DEF vars
  <2> QED
    BY <2>1, <2>2, <2>3, <2>4, <2>5, <2>6, <2>7, <2>8, <2>9, <2>10, <2>11, <2>12, <2>13
       DEF Next, EnterScan, EnterStop, StartReplied, StopReplied
<1> QED
  BY <1>1, <1>2, LocalTypes, PTL DEF Spec

-----------------------------------------------------------------------------
\* The i-th call on its way ends the monitor of s.
Unregisters(i, s) == wire[i][2] = "UnregisterMonitor" /\ wire[i][1][1] = s

\* A reply comes after the calls of its task; an UnregisterMonitor that a cancelled stop()
\* has left on its way is served before the RegisterMonitor of the next scan; and none is on
\* its way for a monitor that is exported.
ExportInv ==
    /\ \A t \in Tasks : pc[t] \in Critical /\ reply[t] # None =>
          \A i \in 1..Len(wire) : wire[i][1] # t
    /\ \A s \in Scanners : pc[s] = "register" =>
          /\ \A i \in 1..Len(wire) : Unregisters(i, s) =>
                \E j \in 1..Len(wire) : j > i /\ wire[j][1] = s
          /\ reply[s] = "ok" => s \in monitors
    /\ \A s \in exported :
          s \in monitors /\ \A i \in 1..Len(wire) : ~Unregisters(i, s)

\* A monitor is only exported while BlueZ has it, whatever is cancelled or fails.
THEOREM ExportInvariant == Spec => []ExportInv
<1> USE ScannersAssumption
<1>1. Init => ExportInv
  BY DEF Init, ExportInv, Tasks, Critical, StopCalls
<1>2. LocalTypeOK /\ LockExclusive /\ MessageInv /\ ExportInv /\ [Next]_vars => ExportInv'
  <2> SUFFICES ASSUME LocalTypeOK, LockExclusive, MessageInv, ExportInv, [Next]_vars
               PROVE  ExportInv'
    OBVIOUS
  \* A call to BlueZ, by the only task that has the lock.
  <2>a. ASSUME NEW t \in Tasks, NEW m, NEW l, <<t, m>> \in Messages, Call(t, m, l),
               \A x \in Scanners \ {t} : pc[x] # "register",
               monitors' = monitors, exported' \subseteq exported,
               l = "register" => t \in Scanners,
               m = "UnregisterMonitor" => t[1] \notin exported' /\ t \notin Scanners
        PROVE  ExportInv'
    <3>1. /\ Len(wire) \in Nat /\ Len(wire') = Len(wire) + 1
          /\ \A i \in 1..Len(wire) : wire'[i] = wire[i]
          /\ wire'[Len(wire) + 1] = <<t, m>>
      BY <2>a, Called
    <3>2. reply'[t] = None /\ \A x \in Tasks \ {t} : reply'[x] = reply[x] /\ pc'[x] = pc[x]
      BY <2>a DEF Call, Goto, LocalTypeOK, MessageInv
    <3>3. \A x \in Tasks : pc'[x] \in Critical /\ reply'[x] # None =>
             \A i \in 1..Len(wire') : wire'[i][1] # x
      <4> SUFFICES ASSUME NEW x \in Tasks, pc'[x] \in Critical, reply'[x] # None,
                          NEW i \in 1..Len(wire')
                   PROVE  wire'[i][1] # x
        OBVIOUS
      <4>1. x # t /\ reply[x] # None /\ pc[x] \in Critical
        BY <3>2
      <4>2. CASE i \in 1..Len(wire)
        BY <3>1, <4>1, <4>2 DEF ExportInv
      <4>3. CASE i = Len(wire) + 1
        BY <3>1, <4>1, <4>3
      <4> QED
        BY <3>1, <4>2, <4>3
    <3>4. ASSUME NEW s \in Scanners, pc'[s] = "register"
          PROVE  /\ \A i \in 1..Len(wire') : Unregisters(i, s)' =>
                       \E j \in 1..Len(wire') : j > i /\ wire'[j][1] = s
                 /\ reply'[s] = "ok" => s \in monitors'
      <4>1. s = t
        BY <2>a, <3>2, <3>4 DEF Tasks
      <4>2. m # "UnregisterMonitor" /\ wire'[Len(wire) + 1][2] = m
        BY <2>a, <4>1, <3>1
      <4>3. wire'[Len(wire) + 1][1] = s /\ Len(wire) + 1 \in 1..Len(wire')
        BY <3>1, <4>1
      <4>4. \A i \in 1..Len(wire') : Unregisters(i, s)' => i < Len(wire) + 1
        BY <3>1, <4>2 DEF Unregisters
      <4> QED
        BY <3>2, <4>1, <4>3, <4>4
    <3>5. ASSUME NEW s \in exported'
          PROVE  s \in monitors' /\ \A i \in 1..Len(wire') : ~Unregisters(i, s)'
      <4>1. s \in monitors' /\ \A i \in 1..Len(wire) : ~Unregisters(i, s)
        BY <2>a DEF ExportInv
      <4>2. wire'[Len(wire) + 1][2] = m /\ wire'[Len(wire) + 1][1][1] = t[1]
        BY <3>1
      <4>3. ASSUME NEW i \in 1..Len(wire') PROVE ~Unregisters(i, s)'
        <5>1. CASE i \in 1..Len(wire)
          BY <3>1, <4>1, <5>1 DEF Unregisters
        <5>2. CASE i = Len(wire) + 1
          BY <2>a, <4>2, <5>2 DEF Unregisters
        <5> QED
          BY <3>1, <5>1, <5>2
      <4> QED
        BY <4>1, <4>3
    <3> QED
      BY <3>3, <3>4, <3>5 DEF ExportInv
  \* A step of a task that calls nothing.
  <2>b. ASSUME NEW t \in Tasks, Goto(t, "idle") \/ Goto(t, "lock"), wire' = wire, reply' = reply,
               monitors' = monitors,
               \/ exported' = exported
               \/ MonitorRegistered(t) /\ t \in Scanners
        PROVE  ExportInv'
    <3>1. \A x \in Tasks : pc'[x] \in Critical \cup {"register"} => x # t /\ pc'[x] = pc[x]
      BY <2>b DEF Goto, LocalTypeOK, Critical
    <3>2. CASE exported' = exported
      BY <2>b, <3>1, <3>2 DEF ExportInv, Unregisters, Tasks
    <3>3. CASE MonitorRegistered(t) /\ t \in Scanners
      <4>1. t \in monitors /\ exported' = exported \cup {t}
        BY <3>3 DEF ExportInv, MonitorRegistered
      <4>2. \A i \in 1..Len(wire) : wire[i][1] # t
        BY <3>3 DEF ExportInv, MonitorRegistered, Critical, Tasks
      <4>3. \A i \in 1..Len(wire) : ~Unregisters(i, t)
        BY <3>3, <4>2 DEF ExportInv, MonitorRegistered
      <4> QED
        BY <2>b, <3>1, <4>1, <4>3 DEF ExportInv, Unregisters, Tasks
    <3> QED
      BY <2>b, <3>2, <3>3
  <2>c. ASSUME pc' = pc, wire' = wire, reply' = reply, monitors' = monitors, exported' = exported
        PROVE  ExportInv'
    BY <2>c DEF ExportInv, Unregisters
  \* BlueZ serves the first call.
  <2>d. CASE Serve
    <3> DEFINE t == Head(wire)[1]
    <3>1. /\ wire # <<>> /\ wire' = Tail(wire) /\ pc' = pc /\ exported' = exported
          /\ t \in Tasks /\ reply' \in [Tasks -> Replies \cup {None}]
      BY <2>d, ServeStep DEF Serve, ServeFilter, ServeStartDiscovery, ServeStopDiscovery,
         ServeRegister, ServeUnregister, local
    <3>2. /\ Len(wire) \in Nat /\ Len(wire) >= 1 /\ Len(wire') = Len(wire) - 1
          /\ Head(wire) = wire[1] /\ Head(wire) \in Messages
          /\ \A i \in 1..Len(wire') : i + 1 \in 1..Len(wire) /\ wire'[i] = wire[i + 1]
      BY <3>1, Served
    <3>3. PICK r \in Replies : Answer(t, r)
      BY <2>d, ServeStep
    <3>4. \A x \in Tasks : reply'[x] # reply[x] =>
             x = t /\ pc[t] \in Critical /\ \A i \in 2..Len(wire) : wire[i][1] # t
      BY <3>3 DEF Answer, MessageInv
    <3>5. \A x \in Tasks : pc'[x] \in Critical /\ reply'[x] # None =>
             \A i \in 1..Len(wire') : wire'[i][1] # x
      <4> SUFFICES ASSUME NEW x \in Tasks, pc'[x] \in Critical, reply'[x] # None,
                          NEW i \in 1..Len(wire')
                   PROVE  wire'[i][1] # x
        OBVIOUS
      <4>1. i + 1 \in 2..Len(wire) /\ wire'[i] = wire[i + 1]
        BY <3>2
      <4>2. CASE reply'[x] = reply[x]
        BY <3>1, <4>1, <4>2 DEF ExportInv
      <4>3. CASE reply'[x] # reply[x]
        BY <3>4, <4>1, <4>3
      <4> QED
        BY <4>2, <4>3
    <3>6. ASSUME NEW s \in Scanners, pc'[s] = "register"
          PROVE  \A i \in 1..Len(wire') : Unregisters(i, s)' =>
                    \E j \in 1..Len(wire') : j > i /\ wire'[j][1] = s
      <4> SUFFICES ASSUME NEW i \in 1..Len(wire'), Unregisters(i, s)'
                   PROVE  \E j \in 1..Len(wire') : j > i /\ wire'[j][1] = s
        OBVIOUS
      <4>1. i + 1 \in 1..Len(wire) /\ Unregisters(i + 1, s)
        BY <3>2 DEF Unregisters
      <4>2. PICK j \in 1..Len(wire) : j > i + 1 /\ wire[j][1] = s
        BY <3>1, <3>6, <4>1 DEF ExportInv
      <4>3. j - 1 \in 1..Len(wire') /\ wire'[j - 1] = wire[j] /\ j - 1 > i
        BY <3>2, <4>1, <4>2
      <4> QED
        BY <4>2, <4>3
    <3>7. \A s \in Scanners : s \in monitors /\ s \notin monitors' => Unregisters(1, s)
      BY <2>d, <3>2 DEF Serve, ServeFilter, ServeStartDiscovery, ServeStopDiscovery,
         ServeRegister, ServeUnregister, NextCall, bluez, Unregisters
    <3>8. ASSUME NEW s \in Scanners, pc'[s] = "register", reply'[s] = "ok" PROVE s \in monitors'
      <4>1. CASE reply[s] = "ok"
        <5>1. s \in monitors
          BY <3>1, <3>8, <4>1 DEF ExportInv
        <5>2. ~Unregisters(1, s)
          <6> SUFFICES ASSUME Unregisters(1, s) PROVE FALSE
            OBVIOUS
          <6>1. PICK j \in 1..Len(wire) : j > 1 /\ wire[j][1] = s
            BY <3>1, <3>2, <3>8 DEF ExportInv
          <6>2. \A i \in 1..Len(wire) : wire[i][1] # s
            BY <3>1, <3>8, <4>1 DEF ExportInv, Tasks, Critical
          <6> QED
            BY <6>1, <6>2
        <5> QED
          BY <3>7, <5>1, <5>2
      <4>2. CASE reply[s] # "ok"
        <5>1. s = t
          BY <3>4, <3>8, <4>2 DEF Tasks
        <5>2. s \in Passive
          BY <3>1, <3>8 DEF MessageInv
        <5>3. Head(wire)[2] = "RegisterMonitor"
          BY <3>2, <5>1, <5>2 DEF Messages, StopCalls
        <5>4. ServeRegister
          BY <2>d, <5>3 DEF Serve, ServeFilter, ServeStartDiscovery, ServeStopDiscovery,
             ServeRegister, ServeUnregister, NextCall
        <5>5. CASE Answer(t, "error")
          BY <3>8, <4>2, <5>1, <5>5 DEF Answer, MessageInv, Tasks
        <5> QED
          BY <5>1, <5>4, <5>5 DEF ServeRegister
      <4> QED
        BY <4>1, <4>2
    <3>9. ASSUME NEW s \in exported'
          PROVE  s \in monitors' /\ \A i \in 1..Len(wire') : ~Unregisters(i, s)'
      <4>1. s \in monitors /\ \A i \in 1..Len(wire) : ~Unregisters(i, s)
        BY <3>1 DEF ExportInv
      <4>2. s \in monitors'
        BY <2>d, <3>2, <4>1 DEF Serve, ServeFilter, ServeStartDiscovery, ServeStopDiscovery,
           ServeRegister, ServeUnregister, NextCall, bluez, Unregisters
      <4> QED
        BY <3>2, <4>1, <4>2 DEF Unregisters
    <3> QED
      BY <3>5, <3>6, <3>8, <3>9 DEF ExportInv
  <2> USE DEF Tasks, local, bluez, devices
  <2>f. \A x \in Scanners : lock \in {None, x} => \A y \in Scanners \ {x} : pc[y] # "register"
    BY DEF LockExclusive, Critical
  <2>g. lock \in {None} \cup StopCalls => \A y \in Scanners : pc[y] # "register"
    BY DEF LockExclusive, Critical, StopCalls
  <2>1. ASSUME NEW s \in Scanners, Start(s) PROVE ExportInv'
    BY <2>1, <2>b, <2>c DEF Start
  <2>2. ASSUME NEW s \in Scanners, EnterActive(s) PROVE ExportInv'
    BY <2>2, <2>a, <2>f DEF EnterActive, Enter, Messages, Acquire
  <2>3. ASSUME NEW s \in Scanners, EnterPassive(s) PROVE ExportInv'
    BY <2>3, <2>a, <2>f DEF EnterPassive, Enter, Messages, Acquire
  <2>4. ASSUME NEW s \in Scanners, FilterSet(s) PROVE ExportInv'
    <3>1. lock = s /\ s \notin Passive
      BY <2>4 DEF FilterSet, LockExclusive, Critical, MessageInv
    <3> QED
      BY <2>4, <3>1, <2>a, <2>f DEF FilterSet, Messages
  <2>5. ASSUME NEW s \in Scanners,
               NoAdapter(s) \/ DiscoveryStarted(s) \/ MonitorRegistered(s) \/ StartRaises(s)
        PROVE  ExportInv'
    BY <2>5, <2>b DEF NoAdapter, DiscoveryStarted, MonitorRegistered, Keep, StartRaises
  <2>6. ASSUME NEW k \in StopCalls, StopDiscovery(k) PROVE ExportInv'
    BY <2>6, <2>a, <2>g DEF StopDiscovery, Messages, Acquire
  <2>7. ASSUME NEW k \in StopCalls, UnregisterMonitor(k) PROVE ExportInv'
    BY <2>7, <2>a, <2>g DEF UnregisterMonitor, Messages, Acquire, StopCalls
  <2>8. ASSUME NEW k \in StopCalls, ClearFilter(k) PROVE ExportInv'
    <3>1. lock = k /\ k[1] \notin Passive
      BY <2>8 DEF ClearFilter, LockExclusive, Critical, MessageInv
    <3> QED
      BY <2>8, <3>1, <2>a, <2>g DEF ClearFilter, Messages
  <2>9. ASSUME NEW k \in StopCalls, Stop(k) \/ Stopped(k) \/ StopRaises(k) PROVE ExportInv'
    BY <2>9, <2>b DEF Stop, Stopped, StopRaises
  <2>10. ASSUME NEW t \in Tasks, CancelWaiting(t) PROVE ExportInv'
    BY <2>10, <2>b DEF CancelWaiting
  <2>12. CASE PowerOff \/ PowerOn \/ (\E d \in Devices : Advertised(d) \/ Forgotten(d))
    BY <2>12, <2>c DEF PowerOff, PowerOn, Advertised, Forgotten
  <2>13. CASE UNCHANGED vars
    BY <2>13, <2>c DEF vars
  <2> QED
    BY <2>1, <2>2, <2>3, <2>4, <2>5, <2>6, <2>7, <2>8, <2>9, <2>10, <2>d, <2>12, <2>13
       DEF Next, EnterScan, EnterStop, StartReplied, StopReplied
<1> QED
  BY <1>1, <1>2, LocalTypes, BusLockIsExclusive, MessagesInvariant, PTL DEF Spec

-----------------------------------------------------------------------------
\* The queue of the lock has the tasks that wait for it, each once; a stop() comes before a
\* start() of the same scanner, so that until it has the lock the scanner is not started again.
QueueInv ==
    /\ queue \in Seq(Tasks)
    /\ \A i \in 1..Len(queue) : pc[queue[i]] = "lock"
    /\ \A i, j \in 1..Len(queue) : queue[i] = queue[j] => i = j
    /\ \A t \in Tasks : pc[t] = "lock" => \E i \in 1..Len(queue) : queue[i] = t
    /\ \A i, j \in 1..Len(queue) : queue[j] \in StopCalls /\ queue[i] = queue[j][1] => j < i
    /\ \A k \in StopCalls : pc[k] = "lock" =>
          /\ k[1] \notin hasStop /\ pc[k[1]] \in {"idle", "lock"}
          /\ \A x \in StopCalls : x[1] = k[1] /\ pc[x] = "lock" => x = k

\* A task joins the queue.
LEMMA Joins ==
  ASSUME LocalTypeOK, CallbacksInv, QueueInv, NEW t \in Tasks,
         pc[t] = "idle", queue' = Append(queue, t), Goto(t, "lock"),
         \/ t \in Scanners /\ hasStop' = hasStop
         \/ t \in StopCalls /\ t[1] \in hasStop /\ hasStop' = hasStop \ {t[1]}
  PROVE  QueueInv'
<1> USE ScannersAssumption DEF QueueInv, LocalTypeOK, Tasks, Goto
<1> DEFINE n == Len(queue) + 1
<1>1. /\ queue' \in Seq(Tasks) /\ Len(queue) \in Nat /\ Len(queue') = n
      /\ \A i \in 1..Len(queue) : queue'[i] = queue[i]
      /\ queue'[n] = t /\ n \in 1..Len(queue')
  BY Added
<1>2. \A i \in 1..Len(queue') : i \in 1..Len(queue) \/ i = n
  BY <1>1
<1> HIDE DEF n
<1>3. \A x \in Tasks \ {t} : pc'[x] = pc[x]
  OBVIOUS
<1>4. \A i \in 1..Len(queue) : queue[i] # t /\ queue[i] \in Tasks
  BY <1>1
<1>5. \A i \in 1..Len(queue') : pc'[queue'[i]] = "lock"
  BY <1>1, <1>2, <1>3, <1>4
<1>6. \A i, j \in 1..Len(queue') : queue'[i] = queue'[j] => i = j
  BY <1>1, <1>2, <1>4
<1>7. \A x \in Tasks : pc'[x] = "lock" => \E i \in 1..Len(queue') : queue'[i] = x
  BY <1>1, <1>3
<1>8. \A i, j \in 1..Len(queue') : queue'[j] \in StopCalls /\ queue'[i] = queue'[j][1] => j < i
  <2> SUFFICES ASSUME NEW i \in 1..Len(queue'), NEW j \in 1..Len(queue'),
                      queue'[j] \in StopCalls, queue'[i] = queue'[j][1]
               PROVE  j < i
    OBVIOUS
  <2>1. CASE i \in 1..Len(queue) /\ j \in 1..Len(queue)
    BY <1>1, <2>1
  <2>2. CASE i = n /\ j \in 1..Len(queue)
    BY <1>1, <2>2 DEF n
  <2>3. CASE j = n
    <3>1. t \in StopCalls /\ t[1] \in hasStop /\ t[1] \in Scanners
      BY <1>1, <2>3 DEF StopCalls
    <3>2. pc[t[1]] # "lock" /\ t # t[1]
      BY <3>1 DEF CallbacksInv, StopCalls
    <3>3. pc'[t[1]] # "lock"
      BY <3>1, <3>2
    <3> QED
      BY <1>1, <1>5, <2>3, <3>3
  <2> QED
    BY <1>2, <2>1, <2>2, <2>3
<1>9. ASSUME NEW k \in StopCalls, pc'[k] = "lock"
      PROVE  /\ k[1] \notin hasStop' /\ pc'[k[1]] \in {"idle", "lock"}
             /\ \A x \in StopCalls : x[1] = k[1] /\ pc'[x] = "lock" => x = k
  <2>1. (k[1] \in Scanners /\ t # k[1]) \/ t \in Scanners
    BY DEF StopCalls
  <2>2. CASE t \in Scanners
    BY <1>9, <2>2 DEF StopCalls, StartPC
  <2>3. CASE t \in StopCalls
    <3>1. pc[t[1]] = "idle" /\ pc'[t[1]] = "idle"
      BY <2>3 DEF CallbacksInv, StopCalls, StartPC
    <3> QED
      BY <1>9, <2>3, <3>1 DEF StopCalls
  <2> QED
    BY <2>2, <2>3
<1> QED
  BY <1>1, <1>5, <1>6, <1>7, <1>8, <1>9

\* The first task of the queue leaves it.
LEMMA Leaves ==
  ASSUME LocalTypeOK, CallbacksInv, QueueInv, NEW t \in Tasks,
         NEW l, Acquire(t), Goto(t, l), l # "lock",
         hasStop' = hasStop
  PROVE  QueueInv'
<1> USE ScannersAssumption DEF QueueInv, LocalTypeOK, Tasks, Goto, Acquire
<1>1. /\ queue' \in Seq(Tasks) /\ Len(queue) \in Nat /\ Len(queue) >= 1
      /\ Len(queue') = Len(queue) - 1 /\ queue[1] = t
      /\ \A i \in 1..Len(queue') : i + 1 \in 1..Len(queue) /\ queue'[i] = queue[i + 1]
  BY Taken
<1>2. \A i \in 1..Len(queue') : queue'[i] # t /\ queue'[i] \in Tasks
  BY <1>1
<1>3. \A x \in Tasks \ {t} : pc'[x] = pc[x]
  OBVIOUS
<1>4. \A i \in 1..Len(queue') : pc'[queue'[i]] = "lock"
  BY <1>1, <1>2, <1>3
<1>5. \A i, j \in 1..Len(queue') : queue'[i] = queue'[j] => i = j
  BY <1>1
<1>6. ASSUME NEW x \in Tasks, pc'[x] = "lock" PROVE \E i \in 1..Len(queue') : queue'[i] = x
  <2>1. x # t /\ pc[x] = "lock"
    BY <1>6
  <2>2. PICK i \in 1..Len(queue) : queue[i] = x
    BY <2>1
  <2>3. i - 1 \in 1..Len(queue') /\ queue'[i - 1] = x
    BY <1>1, <2>1, <2>2
  <2> QED
    BY <2>3
<1>7. \A i, j \in 1..Len(queue') : queue'[j] \in StopCalls /\ queue'[i] = queue'[j][1] => j < i
  BY <1>1
<1>8. ASSUME NEW k \in StopCalls, pc'[k] = "lock"
      PROVE  /\ k[1] \notin hasStop' /\ pc'[k[1]] \in {"idle", "lock"}
             /\ \A x \in StopCalls : x[1] = k[1] /\ pc'[x] = "lock" => x = k
  <2>1. k # t /\ pc[k] = "lock"
    BY <1>8
  <2>2. PICK j \in 1..Len(queue) : queue[j] = k
    BY <2>1
  <2>3. k[1] # t
    BY <1>1, <2>2
  <2> QED
    BY <1>3, <2>1, <2>3 DEF StopCalls
<1> QED
  BY <1>1, <1>4, <1>5, <1>6, <1>7, <1>8

\* A task that is not in the queue goes on; a start() may return a stop().
LEMMA Passes ==
  ASSUME LocalTypeOK, CallbacksInv, QueueInv, NEW t \in Tasks,
         NEW l, pc[t] \notin {"idle", "lock"}, l # "lock", Goto(t, l),
         queue' = queue,
         hasStop' = hasStop \/ (t \in Scanners /\ hasStop' = hasStop \cup {t}),
         t \in Scanners
           => l \in {"idle", "filter", "discover", "register"}
  PROVE  QueueInv'
<1> USE ScannersAssumption DEF QueueInv, LocalTypeOK, Tasks, Goto
<1>1. \A x \in Tasks : pc'[x] = "lock" <=> pc[x] = "lock"
  OBVIOUS
<1>2. \A i \in 1..Len(queue) : queue[i] \in Tasks /\ queue[i] # t
  OBVIOUS
<1>3. \A k \in StopCalls : pc'[k] = "lock" => k[1] # t /\ k # t
  BY DEF StopCalls
<1> QED
  BY <1>1, <1>2, <1>3 DEF StopCalls

\* The entries of a queue that the n-th has left.
LEMMA Closed ==
  ASSUME NEW S, NEW q \in Seq(S), NEW n \in 1..Len(q)
  PROVE  /\ RemoveAt(q, n) \in Seq(S) /\ Len(RemoveAt(q, n)) = Len(q) - 1
         /\ \A i \in 1..Len(RemoveAt(q, n)) :
               RemoveAt(q, n)[i] = q[IF i < n THEN i ELSE i + 1]
<1>0. q \in Seq(S) /\ Len(q) \in Nat
  OBVIOUS
<1> DEFINE r == RemoveAt(q, n)
           a == SubSeq(q, 1, n - 1)
           b == SubSeq(q, n + 1, Len(q))
<1>1. a \in Seq(S) /\ Len(a) = n - 1 /\ \A i \in 1..(n - 1) : a[i] = q[i]
  BY <1>0, SubSeqProperties
<1>2. b \in Seq(S) /\ Len(b) = Len(q) - n /\ \A i \in 1..(Len(q) - n) : b[i] = q[n + i]
  BY <1>0, SubSeqProperties
<1>3. r = a \o b
  BY DEF RemoveAt
<1> HIDE DEF a, b, r
<1>4. /\ r \in Seq(S) /\ Len(r) = Len(q) - 1
      /\ \A i \in 1..Len(r) : r[i] = IF i <= n - 1 THEN a[i] ELSE b[i - (n - 1)]
  <2>1. /\ r \in Seq(S) /\ Len(r) = Len(a) + Len(b)
        /\ \A i \in 1..Len(a) + Len(b) : r[i] = IF i <= Len(a) THEN a[i] ELSE b[i - Len(a)]
    <3>1. a \in Seq(S) /\ b \in Seq(S)
      BY <1>1, <1>2
    <3> QED
      BY <1>3, <3>1, ConcatProperties
  <2> QED
    BY <1>0, <1>1, <1>2, <2>1
<1>5. \A i \in 1..Len(r) : i < n => r[i] = q[i]
  BY <1>0, <1>1, <1>4
<1>6. ASSUME NEW i \in 1..Len(r), ~(i < n) PROVE r[i] = q[i + 1]
  <2>1. /\ ~(i <= n - 1) /\ i - (n - 1) \in 1..(Len(q) - n)
        /\ n + (i - (n - 1)) = i + 1
    BY <1>0, <1>4, <1>6
  <2>2. r[i] = b[i - (n - 1)]
    BY <1>4, <2>1
  <2> QED
    BY <1>2, <2>1, <2>2
<1> QED
  BY <1>4, <1>5, <1>6 DEF r

\* A task leaves the queue from anywhere in it, to give up.
LEMMA GivesUp ==
  ASSUME LocalTypeOK, CallbacksInv, QueueInv, NEW n \in DOMAIN queue,
         queue' = RemoveAt(queue, n), Goto(queue[n], "idle"), hasStop' = hasStop
  PROVE  QueueInv'
<1> USE ScannersAssumption DEF QueueInv, LocalTypeOK, Tasks, Goto
<1> DEFINE t == queue[n]
           At(i) == IF i < n THEN i ELSE i + 1
<1>1. n \in 1..Len(queue) /\ Len(queue) \in Nat /\ t \in Tasks /\ pc[t] = "lock"
  OBVIOUS
<1>2. /\ queue' \in Seq(Tasks) /\ Len(queue') = Len(queue) - 1
      /\ \A i \in 1..Len(queue') : queue'[i] = queue[At(i)]
  <2> HIDE DEF QueueInv
  <2>1. queue \in Seq(Tasks)
    BY DEF QueueInv
  <2> QED
    BY <1>1, <2>1, Closed
<1>3. \A i \in 1..Len(queue') : At(i) \in 1..Len(queue) /\ At(i) # n /\ queue'[i] # t
  BY <1>1, <1>2
<1>4. \A i, j \in 1..Len(queue') : /\ At(i) = At(j) => i = j
                                   /\ At(i) < At(j) => i < j
  BY <1>1, <1>2
<1>5. \A i \in 1..Len(queue) : i # n => \E j \in 1..Len(queue') : At(j) = i
  <2> SUFFICES ASSUME NEW i \in 1..Len(queue), i # n PROVE \E j \in 1..Len(queue') : At(j) = i
    OBVIOUS
  <2>1. CASE i < n
    <3>1. i \in 1..Len(queue') /\ At(i) = i
      BY <1>1, <1>2, <2>1
    <3> QED
      BY <3>1
  <2>2. CASE i > n
    <3>1. i - 1 \in 1..Len(queue') /\ At(i - 1) = i
      BY <1>1, <1>2, <2>2
    <3> QED
      BY <3>1
  <2> QED
    BY <1>1, <2>1, <2>2
<1> HIDE DEF At
<1>6. \A x \in Tasks \ {t} : pc'[x] = pc[x]
  BY <1>1
<1>7. pc'[t] = "idle"
  BY <1>1
<1> HIDE DEF t
<1>8. \A i \in 1..Len(queue') : queue'[i] \in Tasks /\ pc'[queue'[i]] = "lock"
  BY <1>2, <1>3, <1>6
<1>9. \A i, j \in 1..Len(queue') : queue'[i] = queue'[j] => i = j
  BY <1>2, <1>3, <1>4
<1>10. ASSUME NEW x \in Tasks, pc'[x] = "lock" PROVE \E i \in 1..Len(queue') : queue'[i] = x
  <2>1. x # t /\ pc[x] = "lock"
    BY <1>6, <1>7, <1>10
  <2>2. PICK i \in 1..Len(queue) : queue[i] = x
    BY <2>1
  <2>3. i # n
    BY <2>1, <2>2 DEF t
  <2>4. PICK j \in 1..Len(queue') : At(j) = i
    BY <1>5, <2>3
  <2> QED
    BY <1>2, <2>2, <2>4
<1>11. \A i, j \in 1..Len(queue') : queue'[j] \in StopCalls /\ queue'[i] = queue'[j][1] => j < i
  BY <1>2, <1>3, <1>4
<1>12. \A x \in Tasks : pc'[x] = "lock" => pc[x] = "lock" /\ x # t
  BY <1>6, <1>7
<1>13. ASSUME NEW k \in StopCalls, pc'[k] = "lock"
       PROVE  /\ k[1] \notin hasStop' /\ pc'[k[1]] \in {"idle", "lock"}
              /\ \A x \in StopCalls : x[1] = k[1] /\ pc'[x] = "lock" => x = k
  <2>1. pc[k] = "lock" /\ k[1] \in Tasks
    BY <1>12, <1>13 DEF StopCalls
  <2>2. pc'[k[1]] \in {"idle", "lock"}
    BY <1>6, <1>7, <2>1
  <2> QED
    BY <1>12, <2>1, <2>2
<1> QED
  BY <1>2, <1>8, <1>9, <1>10, <1>11, <1>13

\* Whoever waits for the lock is in its queue, whatever is cancelled; and no start() overtakes
\* the stop() of the same scanner that was called before it.
THEOREM QueueInvariant == Spec => []QueueInv
<1> USE ScannersAssumption
<1>1. Init => QueueInv
  <2> SUFFICES ASSUME Init PROVE QueueInv
    OBVIOUS
  <2>1. queue \in Seq(Tasks) /\ Len(queue) = 0 /\ \A t \in Tasks : pc[t] = "idle"
    BY DEF Init
  <2> QED
    BY <2>1 DEF QueueInv, Tasks
<1>2. LocalTypeOK /\ CallbacksInv /\ QueueInv /\ [Next]_vars => QueueInv'
  <2> SUFFICES ASSUME LocalTypeOK, CallbacksInv, QueueInv, [Next]_vars PROVE QueueInv'
    OBVIOUS
  <2>a. ASSUME UNCHANGED <<pc, queue, hasStop>> PROVE QueueInv'
    BY <2>a DEF QueueInv
  <2> USE DEF Tasks, local, Call
  <2>1. ASSUME NEW s \in Scanners, Start(s) PROVE QueueInv'
    BY <2>1, <2>a, Joins DEF Start
  <2>2. ASSUME NEW s \in Scanners, EnterScan(s) PROVE QueueInv'
    BY <2>2, Leaves DEF EnterScan, EnterActive, EnterPassive, Enter, NoAdapter
  <2>3. ASSUME NEW s \in Scanners, StartReplied(s) PROVE QueueInv'
    BY <2>3, Passes DEF StartReplied, FilterSet, DiscoveryStarted, MonitorRegistered, Keep,
       StartRaises
  <2>4. ASSUME NEW k \in StopCalls, Stop(k) PROVE QueueInv'
    BY <2>4, Joins DEF Stop
  <2>5. ASSUME NEW k \in StopCalls, EnterStop(k) PROVE QueueInv'
    BY <2>5, Leaves DEF EnterStop, StopDiscovery, UnregisterMonitor
  <2>6. ASSUME NEW k \in StopCalls, StopReplied(k) PROVE QueueInv'
    <3>1. k \notin Scanners
      BY DEF StopCalls
    <3> QED
      BY <2>6, <3>1, Passes DEF StopReplied, ClearFilter, Stopped, StopRaises
  <2>7. ASSUME NEW t \in Tasks, CancelWaiting(t) PROVE QueueInv'
    BY <2>7, GivesUp DEF CancelWaiting
  <2>8. CASE Serve \/ PowerOff \/ PowerOn \/ (\E d \in Devices : Advertised(d) \/ Forgotten(d))
    BY <2>8, <2>a DEF Serve, ServeFilter, ServeStartDiscovery, ServeStopDiscovery,
       ServeRegister, ServeUnregister, PowerOff, PowerOn, Advertised, Forgotten
  <2>9. CASE UNCHANGED vars
    BY <2>9, <2>a DEF vars
  <2> QED
    BY <2>1, <2>2, <2>3, <2>4, <2>5, <2>6, <2>7, <2>8, <2>9 DEF Next
<1> QED
  BY <1>1, <1>2, LocalTypes, CallbacksInvariant, PTL DEF Spec

-----------------------------------------------------------------------------
\* No call has been cancelled, and the adapter has not lost its power.
Calm == power = 0 /\ cancels = 0

\* What a task has called when it is at an await.
Asked == [l \in Critical |->
            CASE l = "filter" -> "SetFilter" [] l = "discover" -> "StartDiscovery"
              [] l = "register" -> "RegisterMonitor" [] l = "stop" -> "StopDiscovery"
              [] l = "clear" -> "ClearFilter" [] l = "unregister" -> "UnregisterMonitor"]

\* The one call on its way is that of the holder of the lock.
AskInv ==
    /\ powered /\ lock \in Tasks \cup {None}
    /\ lock = None => wire = <<>>
    /\ \A t \in Tasks : lock = t =>
          IF reply[t] = None THEN wire = <<<<t, Asked[pc[t]]>>>> ELSE wire = <<>>

\* The task that BlueZ has started for and that has not resumed, or that it has still to stop
\* for.
Changing == {t \in Tasks : \/ pc[t] \in {"discover", "register"} /\ reply[t] = "ok"
                           \/ pc[t] \in {"stop", "unregister"} /\ reply[t] = None}

\* The scanner of a task.
ScannerOf(t) == IF t \in Scanners THEN t ELSE t[1]

\* The scanners that are neither open nor closed, and all that BlueZ has something for.
Moving == {ScannerOf(t) : t \in Changing}
Held == Open \cup Moving

\* BlueZ has what the scanners hold: one discovery, for one scanner, and their monitors.
OpenInv ==
    /\ Open \cap Moving = {}
    /\ \A s, t \in Held \ Passive : s = t
    /\ discovering <=> Held \ Passive # {}
    /\ monitors = Passive \cap Held

\* What the proofs of the steps start from.
Known == LocalTypeOK /\ LockExclusive /\ CallbacksInv /\ MessageInv
         /\ Calm /\ QueueInv /\ AskInv /\ OpenInv

-----------------------------------------------------------------------------
\* What a step means for BlueZ, when it is the client that takes it: the scanners BlueZ holds
\* something for are the same, and so is what it holds.
LEMMA HeldKept ==
  ASSUME Known, Held' = Held, Open' \cap Moving' = {}, discovering' = discovering,
         monitors' = monitors
  PROVE  OpenInv'
  BY DEF Known, OpenInv

\* A task that is not the last to have the lock changes nothing at BlueZ.
LEMMA OnlyTheHolderMoves ==
  ASSUME Known
  PROVE  /\ Changing \subseteq {lock}
         /\ lock = None => Changing = {}
  BY ScannersAssumption
     DEF Known, Changing, LockExclusive, Critical, AskInv, Tasks, StopCalls

\* The lock is taken and the first call is made.
LEMMA Takes ==
  ASSUME Known, NEW t \in Tasks, NEW m, NEW l \in Critical, Acquire(t), lock' = t,
         Call(t, m, l), m = Asked[l], <<t, m>> \in Messages, hasStop' = hasStop,
         t \in Scanners => l \in {"filter", "register"},
         t \in StopCalls => l \in {"stop", "unregister"},
         powered' = powered, discovering' = discovering, monitors' = monitors
  PROVE  AskInv' /\ OpenInv'
<1> USE ScannersAssumption DEF Known
<1>2. /\ reply'[t] = None /\ pc'[t] = l
      /\ \A x \in Tasks \ {t} : reply'[x] = reply[x] /\ pc'[x] = pc[x]
  BY DEF Call, Goto, LocalTypeOK, MessageInv
<1>3. wire' = <<<<t, m>>>>
  <2>1. wire = <<>>
    BY DEF AskInv, Acquire
  <2> QED
    BY <2>1 DEF Call
<1>4. AskInv'
  BY <1>2, <1>3 DEF AskInv, Tasks, StopCalls
<1>5. Changing = {}
  BY OnlyTheHolderMoves DEF Acquire
<1>6. CASE t \in Scanners
  <2>1. Changing' = {}
    BY <1>2, <1>5, <1>6 DEF Changing, Tasks, StopCalls
  <2>2. Open' = Open
    BY <1>2, <1>6 DEF Open, Tasks, StopCalls
  <2> QED
    BY <1>4, <1>5, <2>1, <2>2, HeldKept DEF Held, Moving
<1>7. CASE t \in StopCalls
  <2>1. Changing' = {t} /\ ScannerOf(t) = t[1]
    BY <1>2, <1>5, <1>7 DEF Changing, Tasks, StopCalls, ScannerOf
  <2>2. Moving = {} /\ Moving' = {t[1]}
    BY <2>1, <1>5 DEF Moving
  <2>3. pc[t] = "lock" /\ t[1] \notin hasStop
    BY <1>7 DEF Acquire, QueueInv
  <2>4. \A k \in StopCalls : k[1] = t[1] /\ pc[k] = "lock" => k = t
    BY <1>7, <2>3 DEF QueueInv
  <2>5. \A k \in StopCalls \ {t} : pc'[k] = pc[k]
    BY <1>2 DEF Tasks
  <2>6. pc'[t] # "lock"
    BY <1>2 DEF Critical
  <2>7. Open' = Open \ {t[1]} /\ t[1] \in Open
    BY <1>7, <2>3, <2>4, <2>5, <2>6 DEF Open
  <2> QED
    BY <1>4, <2>2, <2>7, HeldKept DEF Held
<1> QED
  BY <1>6, <1>7 DEF Tasks

\* The holder of the lock has its reply and makes the next call.
LEMMA GoesOn ==
  ASSUME Known, NEW t \in Tasks, NEW m, NEW l \in Critical, lock = t, lock' = lock,
         pc[t] \in Critical, reply[t] = "ok", pc[t] \notin {"discover", "register"},
         Call(t, m, l), m = Asked[l], <<t, m>> \in Messages, l \notin {"stop", "unregister"},
         t \in Scanners => l \in {"discover"},
         UNCHANGED <<queue, local, bluez>>
  PROVE  AskInv' /\ OpenInv'
<1> USE ScannersAssumption DEF Known, local, bluez
<1>2. /\ reply'[t] = None /\ pc'[t] = l
      /\ \A x \in Tasks \ {t} : reply'[x] = reply[x] /\ pc'[x] = pc[x]
  BY DEF Call, Goto, LocalTypeOK, MessageInv
<1>3. wire' = <<<<t, m>>>>
  <2>1. wire = <<>>
    BY DEF AskInv
  <2> QED
    BY <2>1 DEF Call
<1>4. AskInv'
  BY <1>2, <1>3 DEF AskInv, Tasks, StopCalls
<1>5. Changing = {} /\ Changing' = {}
  BY <1>2, OnlyTheHolderMoves DEF Changing
<1>6. Open' = Open
  BY <1>2 DEF Open, Tasks, Critical
<1> QED
  BY <1>4, <1>5, <1>6, HeldKept DEF Held, Moving

\* The holder of the lock has its last reply and leaves the lock.
LEMMA Releases ==
  ASSUME Known, NEW t \in Tasks, lock = t, lock' = None, pc[t] \in Critical,
         reply[t] \in Replies, Goto(t, "idle"), UNCHANGED <<queue, reply, wire, bluez>>,
         IF t \in Changing THEN t \in Scanners /\ hasStop' = hasStop \cup {t}
                           ELSE hasStop' = hasStop
  PROVE  AskInv' /\ OpenInv'
<1> USE ScannersAssumption DEF Known, bluez
<1>2. pc'[t] = "idle" /\ \A x \in Tasks \ {t} : pc'[x] = pc[x]
  BY DEF Goto, LocalTypeOK
<1>3. reply[t] # None
  BY DEF Replies
<1>4. AskInv'
  BY <1>3 DEF AskInv, Tasks, StopCalls
<1>5. Changing' = {}
  BY <1>2, OnlyTheHolderMoves DEF Changing
<1>6. \A k \in StopCalls : pc'[k] = "lock" <=> pc[k] = "lock"
  BY <1>2 DEF Tasks, Critical
<1>7. CASE t \in Changing
  <2>1. Changing = {t} /\ ScannerOf(t) = t
    BY <1>7, OnlyTheHolderMoves DEF ScannerOf
  <2>2. Open' = Open \cup {t}
    BY <1>6, <1>7 DEF Open
  <2>3. Moving = {t} /\ Moving' = {}
    BY <1>5, <2>1 DEF Moving
  <2> QED
    BY <1>4, <2>2, <2>3, HeldKept DEF Held
<1>8. CASE t \notin Changing
  <2>1. Changing = {}
    BY <1>8, OnlyTheHolderMoves
  <2>2. Open' = Open
    BY <1>6, <1>8 DEF Open
  <2> QED
    BY <1>4, <1>5, <2>1, <2>2, HeldKept DEF Held, Moving
<1> QED
  BY <1>7, <1>8

\* BlueZ serves the call of the holder of the lock.
LEMMA Serves ==
  ASSUME Known, Serve
  PROVE  AskInv' /\ OpenInv'
<1> USE ScannersAssumption DEF Known, local, bluez
<1> DEFINE t == Head(wire)[1]
<1>1. /\ wire # <<>> /\ wire' = Tail(wire) /\ pc' = pc /\ t \in Tasks
      /\ reply' \in [Tasks -> Replies \cup {None}]
  BY ServeStep
<1>2. UNCHANGED <<queue, hasStop, lock, powered>>
  BY DEF Serve, ServeFilter, ServeStartDiscovery, ServeStopDiscovery, ServeRegister,
     ServeUnregister
<1>4. lock \in Tasks /\ reply[lock] = None /\ wire = <<<<lock, Asked[pc[lock]]>>>>
  BY <1>1 DEF AskInv
<1>5. t = lock /\ Head(wire)[2] = Asked[pc[t]] /\ Len(wire) = 1 /\ wire' = <<>>
  BY <1>1, <1>4
<1>6. pc[t] \in Critical
  BY <1>4, <1>5 DEF LockExclusive
<1>7. \A r \in Replies : Answer(t, r) =>
         reply'[t] = r /\ \A x \in Tasks \ {t} : reply'[x] = reply[x]
  BY <1>4, <1>5, <1>6 DEF Answer, MessageInv
<1>8. PICK r \in Replies : Answer(t, r)
  BY ServeStep
<1>9. AskInv'
  BY <1>1, <1>2, <1>4, <1>5, <1>7, <1>8 DEF AskInv, Replies
<1>10. Open' = Open
  BY <1>1, <1>2 DEF Open
<1>11. /\ Changing = IF pc[t] \in {"stop", "unregister"} THEN {t} ELSE {}
       /\ Changing' = IF pc[t] \in {"discover", "register"} /\ reply'[t] = "ok" THEN {t} ELSE {}
  BY <1>1, <1>4, <1>5, <1>7, <1>8, OnlyTheHolderMoves DEF Changing, Replies
<1>12. OpenInv'
  <2> USE <1>1, <1>10
  <2>1. CASE ServeFilter
    <3>1. pc[t] \in {"filter", "clear"}
      BY <2>1, <1>5, <1>6 DEF ServeFilter, NextCall, Asked, Critical
    <3> QED
      BY <2>1, <3>1, <1>11, HeldKept DEF ServeFilter, Held, Moving, OpenInv
  <2>2. CASE ServeStartDiscovery
    <3>1. pc[t] = "discover" /\ t \in Scanners \ Passive
      BY <2>2, <1>5, <1>6 DEF ServeStartDiscovery, NextCall, Asked, Critical, MessageInv,
         LocalTypeOK, Tasks, StopPC
    <3>2. ScannerOf(t) = t /\ t \notin Open /\ Moving = {}
      BY <3>1, <1>11 DEF ScannerOf, Open, CallbacksInv, QueueInv, Moving
    <3>3. CASE Answer(t, "ok") /\ ~discovering /\ discovering' = TRUE /\ monitors' = monitors
      <4>1. Changing' = {t}
        BY <3>1, <3>3, <1>7, <1>11 DEF Replies
      <4>2. Moving' = {t}
        BY <3>2, <4>1 DEF Moving
      <4> QED
        BY <3>1, <3>2, <3>3, <4>2 DEF OpenInv, Held
    <3>4. CASE Answer(t, "error") /\ discovering' = discovering /\ monitors' = monitors
      <4>1. Changing' = {}
        BY <3>4, <1>7, <1>11 DEF Replies
      <4>2. Moving' = {}
        BY <4>1 DEF Moving
      <4> QED
        BY <3>2, <3>4, <4>2, HeldKept DEF Held
    <3> QED
      BY <2>2, <3>3, <3>4 DEF ServeStartDiscovery, AskInv
  <2>3. CASE ServeStopDiscovery
    <3>1. pc[t] = "stop" /\ t \in StopCalls /\ t[1] \notin Passive /\ t[1] \in Scanners
      BY <2>3, <1>5, <1>6 DEF ServeStopDiscovery, NextCall, Asked, Critical, MessageInv,
         LocalTypeOK, Tasks, StartPC, StopCalls
    <3>2. ScannerOf(t) = t[1] /\ Moving = {t[1]} /\ Moving' = {}
      BY <3>1, <1>11 DEF ScannerOf, Moving, StopCalls
    <3>3. discovering' = FALSE /\ monitors' = monitors
      BY <2>3 DEF ServeStopDiscovery
    <3> QED
      BY <3>1, <3>2, <3>3 DEF OpenInv, Held
  <2>4. CASE ServeRegister
    <3>1. pc[t] = "register" /\ t \in Passive
      BY <2>4, <1>5, <1>6 DEF ServeRegister, NextCall, Asked, Critical, MessageInv,
         LocalTypeOK, Tasks, StopPC
    <3>2. ScannerOf(t) = t /\ t \notin Open /\ Moving = {}
      BY <3>1, <1>11 DEF ScannerOf, Open, CallbacksInv, QueueInv, Moving
    <3>3. CASE Answer(t, "ok") /\ monitors' = monitors \cup {t} /\ discovering' = discovering
      <4>1. Changing' = {t}
        BY <3>1, <3>3, <1>7, <1>11 DEF Replies
      <4>2. Moving' = {t}
        BY <3>2, <4>1 DEF Moving
      <4> QED
        BY <3>1, <3>2, <3>3, <4>2 DEF OpenInv, Held
    <3>4. CASE Answer(t, "error") /\ discovering' = discovering /\ monitors' = monitors
      <4>1. Changing' = {}
        BY <3>4, <1>7, <1>11 DEF Replies
      <4>2. Moving' = {}
        BY <4>1 DEF Moving
      <4> QED
        BY <3>2, <3>4, <4>2, HeldKept DEF Held
    <3> QED
      BY <2>4, <3>3, <3>4 DEF ServeRegister
  <2>5. CASE ServeUnregister
    <3>1. pc[t] = "unregister" /\ t \in StopCalls /\ t[1] \in Passive
      BY <2>5, <1>5, <1>6 DEF ServeUnregister, NextCall, Asked, Critical, MessageInv,
         LocalTypeOK, Tasks, StartPC, StopCalls
    <3>2. ScannerOf(t) = t[1] /\ Moving = {t[1]} /\ Moving' = {}
      BY <3>1, <1>11 DEF ScannerOf, Moving, StopCalls
    <3>3. discovering' = discovering /\ monitors' = monitors \ {t[1]}
      BY <2>5 DEF ServeUnregister
    <3> QED
      BY <3>1, <3>2, <3>3 DEF OpenInv, Held
  <2> QED
    BY <2>1, <2>2, <2>3, <2>4, <2>5 DEF Serve
<1> QED
  BY <1>9, <1>12

-----------------------------------------------------------------------------
\* The inductive invariant of ScansOwned.
CalmInv == power \in Nat /\ cancels \in Nat /\ (Calm => AskInv /\ OpenInv)

\* Every step keeps it: while nothing is cancelled and the power stays, the client and BlueZ
\* agree at every await, whatever the order of the tasks.
LEMMA CalmStep ==
  ASSUME LocalTypeOK, LockExclusive, CallbacksInv, MessageInv, QueueInv, CalmInv, [Next]_vars
  PROVE  CalmInv'
<1> USE ScannersAssumption, LimitsAssumption DEF local, bluez, devices
<1>1. /\ power' \in Nat /\ cancels' \in Nat
      /\ Calm' => Calm /\ power' = power /\ cancels' = cancels
  <2>1. power' \in {power, power + 1} /\ cancels' \in {cancels, cancels + 1}
    BY DEF Next, vars, EnterScan, EnterStop, StartReplied, StopReplied, Start, EnterActive,
       EnterPassive, Enter, NoAdapter, FilterSet, DiscoveryStarted, MonitorRegistered, Keep,
       StartRaises, Stop, StopDiscovery, UnregisterMonitor, ClearFilter, Stopped, StopRaises,
       CancelWaiting, Cancelled, Advertised, Forgotten, Serve, ServeFilter,
       ServeStartDiscovery, ServeStopDiscovery, ServeRegister, ServeUnregister, PowerOff,
       PowerOn
  <2> QED
    BY <2>1 DEF CalmInv, Calm
<1> SUFFICES ASSUME Calm' PROVE AskInv' /\ OpenInv'
  BY <1>1 DEF CalmInv
<1>2. Known /\ power' = power /\ cancels' = cancels
  BY <1>1 DEF Known, CalmInv
<1>3. ~Cancelled
  BY <1>1 DEF Cancelled, CalmInv
<1>a. ASSUME UNCHANGED <<pc, lock, queue, reply, wire, hasStop, discovering, monitors, powered>>
      PROVE  AskInv' /\ OpenInv'
  BY <1>2, <1>a DEF Known, AskInv, OpenInv, Held, Open, Moving, Changing
\* A task that joins the queue changes neither its lock nor BlueZ.
<1>b. ASSUME NEW t \in Tasks, pc[t] = "idle", queue' = Append(queue, t), Goto(t, "lock"),
             UNCHANGED <<lock, reply, wire, discovering, monitors, powered>>,
             \/ t \in Scanners /\ hasStop' = hasStop
             \/ t \in StopCalls /\ t[1] \in hasStop /\ hasStop' = hasStop \ {t[1]}
      PROVE  AskInv' /\ OpenInv'
  <2>2. pc'[t] = "lock" /\ \A x \in Tasks \ {t} : pc'[x] = pc[x]
    BY <1>2, <1>b DEF Known, Goto, LocalTypeOK
  <2>3. lock # t
    BY <1>2, <1>b DEF Known, LockExclusive, Critical
  <2>4. AskInv'
    BY <1>2, <1>b, <2>2, <2>3 DEF Known, AskInv
  <2>5. Changing' = Changing
    BY <1>b, <2>2 DEF Changing
  <2>6. Open' = Open
    <3>1. CASE t \in Scanners
      BY <1>b, <2>2, <3>1 DEF Open, Tasks, StopCalls
    <3>2. CASE t \in StopCalls
      <4>1. {x \in StopCalls : pc'[x] = "lock"} = {x \in StopCalls : pc[x] = "lock"} \cup {t}
        BY <2>2, <3>2 DEF Tasks
      <4>2. t \notin Scanners /\ hasStop = hasStop' \cup {t[1]}
        BY <1>b, <3>2 DEF StopCalls
      <4> QED
        BY <4>1, <4>2 DEF Open
    <3> QED
      BY <3>1, <3>2 DEF Tasks
  <2> QED
    BY <1>2, <1>b, <2>4, <2>5, <2>6, HeldKept DEF Held, Moving, Known, OpenInv
<1>4. ASSUME NEW s \in Scanners, Start(s) PROVE AskInv' /\ OpenInv'
  BY <1>4, <1>a, <1>b DEF Start, Tasks
<1>5. ASSUME NEW s \in Scanners, EnterActive(s) PROVE AskInv' /\ OpenInv'
  <2>1. "filter" \in Critical /\ Asked["filter"] = "SetFilter" /\ <<s, "SetFilter">> \in Messages
    BY <1>5 DEF EnterActive, Messages, Asked, Critical
  <2> QED
    BY <1>2, <1>5, <2>1, Takes DEF EnterActive, Enter, Tasks, StopCalls
<1>6. ASSUME NEW s \in Scanners, EnterPassive(s) PROVE AskInv' /\ OpenInv'
  <2>1. /\ "register" \in Critical /\ Asked["register"] = "RegisterMonitor"
        /\ <<s, "RegisterMonitor">> \in Messages
    BY <1>6 DEF EnterPassive, Messages, Asked, Critical
  <2> QED
    BY <1>2, <1>6, <2>1, Takes DEF EnterPassive, Enter, Tasks, StopCalls
<1>7. ASSUME NEW s \in Scanners, NoAdapter(s) PROVE AskInv' /\ OpenInv'
  <2>2. Changing = {} /\ Changing' = {} /\ Open' = Open
    BY <1>2, <1>7, OnlyTheHolderMoves
       DEF Known, NoAdapter, Acquire, Changing, Open, Goto, LocalTypeOK, Tasks, StopCalls
  <2>3. AskInv'
    BY <1>2, <1>7 DEF Known, NoAdapter, Acquire, AskInv, Tasks, StopCalls
  <2> QED
    BY <1>2, <1>7, <2>2, <2>3, HeldKept DEF NoAdapter, Held, Moving
<1>8. ASSUME NEW s \in Scanners, FilterSet(s) PROVE AskInv' /\ OpenInv'
  <2>1. /\ "discover" \in Critical /\ Asked["discover"] = "StartDiscovery"
        /\ <<s, "StartDiscovery">> \in Messages /\ lock = s /\ s \in Tasks /\ pc[s] \in Critical
    BY <1>2, <1>8 DEF Known, FilterSet, Messages, MessageInv, Asked, Critical,
       LockExclusive, Tasks
  <2> QED
    BY <1>2, <1>8, <2>1, GoesOn DEF FilterSet
<1>9. ASSUME NEW s \in Scanners, DiscoveryStarted(s) \/ MonitorRegistered(s)
      PROVE  AskInv' /\ OpenInv'
  <2>1. lock = s /\ s \in Tasks /\ s \in Changing /\ pc[s] \in Critical /\ reply[s] \in Replies
    BY <1>2, <1>9 DEF Known, DiscoveryStarted, MonitorRegistered, LockExclusive, Critical,
       Tasks, Changing, Replies
  <2> QED
    BY <1>2, <1>9, <2>1, Releases DEF DiscoveryStarted, MonitorRegistered, Keep
<1>10. ASSUME NEW s \in Scanners, StartRaises(s) PROVE AskInv' /\ OpenInv'
  <2>1. lock = s /\ s \in Tasks /\ s \notin Changing /\ pc[s] \in Critical /\ reply[s] \in Replies
    BY <1>2, <1>3, <1>10 DEF Known, StartRaises, LockExclusive, Critical, Tasks,
       Changing, Replies
  <2> QED
    BY <1>2, <1>10, <2>1, Releases DEF StartRaises
<1>11. ASSUME NEW k \in StopCalls, Stop(k) PROVE AskInv' /\ OpenInv'
  BY <1>11, <1>b DEF Stop, Tasks
<1>12. ASSUME NEW k \in StopCalls, StopDiscovery(k) PROVE AskInv' /\ OpenInv'
  <2>1. /\ "stop" \in Critical /\ Asked["stop"] = "StopDiscovery"
        /\ <<k, "StopDiscovery">> \in Messages
    BY <1>12 DEF StopDiscovery, Messages, Asked, Critical
  <2> QED
    BY <1>2, <1>12, <2>1, Takes DEF StopDiscovery, Tasks, StopCalls
<1>13. ASSUME NEW k \in StopCalls, UnregisterMonitor(k) PROVE AskInv' /\ OpenInv'
  <2>1. /\ "unregister" \in Critical /\ Asked["unregister"] = "UnregisterMonitor"
        /\ <<k, "UnregisterMonitor">> \in Messages
    BY <1>13 DEF UnregisterMonitor, Messages, Asked, Critical
  <2> QED
    BY <1>2, <1>13, <2>1, Takes DEF UnregisterMonitor, Tasks, StopCalls
<1>14. ASSUME NEW k \in StopCalls, ClearFilter(k) PROVE AskInv' /\ OpenInv'
  <2>1. /\ "clear" \in Critical /\ Asked["clear"] = "ClearFilter"
        /\ <<k, "ClearFilter">> \in Messages /\ lock = k /\ k \in Tasks /\ pc[k] \in Critical
    BY <1>2, <1>14 DEF Known, ClearFilter, Messages, MessageInv, Asked, Critical,
       LockExclusive,
       Tasks
  <2>2. k \notin Scanners
    BY DEF StopCalls
  <2> QED
    BY <1>2, <1>14, <2>1, <2>2, GoesOn DEF ClearFilter
<1>15. ASSUME NEW k \in StopCalls, Stopped(k) \/ StopRaises(k)
       PROVE  AskInv' /\ OpenInv'
  <2>1. lock = k /\ k \in Tasks /\ k \notin Changing /\ pc[k] \in Critical /\ reply[k] \in Replies
    BY <1>2, <1>3, <1>15 DEF Known, Stopped, StopRaises, LockExclusive, Critical, Tasks,
       Changing,
       Replies
  <2> QED
    BY <1>2, <1>15, <2>1, Releases DEF Stopped, StopRaises
<1>16. ASSUME NEW t \in Tasks, CancelWaiting(t) PROVE AskInv' /\ OpenInv'
  BY <1>3, <1>16 DEF CancelWaiting
<1>17. CASE Serve
  BY <1>2, <1>17, Serves
<1>18. CASE PowerOff
  BY <1>1, <1>18 DEF PowerOff, CalmInv
<1>19. CASE PowerOn
  BY <1>2, <1>19 DEF PowerOn, Known, AskInv
<1>20. ASSUME NEW d \in Devices, Advertised(d) \/ Forgotten(d)
       PROVE  AskInv' /\ OpenInv'
  BY <1>20, <1>a DEF Advertised, Forgotten
<1>21. CASE UNCHANGED vars
  BY <1>21, <1>a DEF vars
<1> QED
  BY <1>4, <1>5, <1>6, <1>7, <1>8, <1>9, <1>10, <1>11, <1>12, <1>13, <1>14, <1>15, <1>16,
     <1>17, <1>18, <1>19, <1>20, <1>21
     DEF Next, EnterScan, EnterStop, StartReplied, StopReplied

\* CalmInv is an invariant.
THEOREM CalmInvariant == Spec => []CalmInv
<1>1. Init => CalmInv
  <2> SUFFICES ASSUME Init PROVE CalmInv
    OBVIOUS
  <2> USE ScannersAssumption DEF Init
  <2>3. AskInv
    BY DEF AskInv, Tasks, StopCalls
  <2>4. Changing = {} /\ Open = {}
    BY DEF Changing, Open, Tasks, StopCalls
  <2>5. Moving = {} /\ Held = {}
    BY <2>4 DEF Moving, Held
  <2>6. OpenInv
    BY <2>4, <2>5 DEF OpenInv
  <2> QED
    BY <2>3, <2>6 DEF CalmInv
<1>2. LocalTypeOK /\ LockExclusive /\ CallbacksInv /\ MessageInv /\ QueueInv /\ CalmInv
        /\ [Next]_vars
        => CalmInv'
  BY CalmStep
<1> QED
  BY <1>1, <1>2, LocalTypes, BusLockIsExclusive, CallbacksInvariant, MessagesInvariant,
     QueueInvariant, PTL
     DEF Spec

\* BlueZ discovers exactly for the one active scanner that is started, and has exactly the
\* monitors of the started passive scanners, when no call is in progress; no monitor is exported
\* that BlueZ does not have.
THEOREM ScansAreOwned == Spec => []ScansOwned
<1>1. LocalTypeOK /\ LockExclusive /\ CallbacksInv /\ MessageInv /\ QueueInv /\ ExportInv
        /\ CalmInv
        => ScansOwned
  <2> SUFFICES ASSUME LocalTypeOK, LockExclusive, CallbacksInv, MessageInv, QueueInv, ExportInv,
                      CalmInv
               PROVE  ScansOwned
    OBVIOUS
  <2>1. exported \subseteq monitors
    BY DEF ExportInv
  <2>2. ASSUME Calm
        PROVE  /\ \A s, t \in hasStop \ Passive : s = t
               /\ lock = None => /\ discovering <=> \E s \in Scanners \ Passive : s \in Open
                                 /\ monitors = Passive \cap Open
    <3>1. Known
      BY <2>2 DEF Known, CalmInv
    <3>2. \A s, t \in hasStop \ Passive : s = t
      BY <3>1 DEF Known, OpenInv, Held, Open
    <3>3. lock = None => Held = Open
      BY <3>1, OnlyTheHolderMoves DEF Held, Moving
    <3>4. Open \subseteq Scanners
      BY <3>1 DEF Known, LocalTypeOK, Open, StopCalls
    <3> QED
      BY <3>1, <3>2, <3>3, <3>4 DEF Known, OpenInv
  <2> QED
    BY <2>1, <2>2 DEF ScansOwned, Calm
<1> QED
  BY <1>1, LocalTypes, BusLockIsExclusive, CallbacksInvariant, MessagesInvariant,
     QueueInvariant, ExportInvariant, CalmInvariant, PTL
-----------------------------------------------------------------------------
\* What the other proofs leave out of the types: the bounds of the environment, who may hold the
\* lock, and that only passive scanners have monitors.
BoundInv ==
    /\ starts \in [Scanners -> Nat] /\ \A s \in Scanners : starts[s] <= MaxStarts[s]
    /\ lock \in Tasks \cup {None}
    /\ registered \subseteq Scanners /\ known \subseteq Devices
    /\ exported \subseteq Passive /\ monitors \subseteq Passive
    /\ discovering \in BOOLEAN /\ powered \in BOOLEAN
    /\ power \in 0..MaxPower /\ cancels \in 0..MaxCancels /\ forgotten \in 0..MaxForgotten

\* Every variable holds what the code could put there, for any scanners, devices and limits.
THEOREM TypeInvariant == Spec => []TypeOK
<1> USE ScannersAssumption, LimitsAssumption
<1>1. Init => BoundInv
  <2> SUFFICES ASSUME Init PROVE BoundInv
    OBVIOUS
  <2>1. starts \in [Scanners -> Nat] /\ \A s \in Scanners : starts[s] <= MaxStarts[s]
    BY DEF Init
  <2>2. power \in 0..MaxPower /\ cancels \in 0..MaxCancels /\ forgotten \in 0..MaxForgotten
    BY DEF Init
  <2> QED
    BY <2>1, <2>2 DEF Init, BoundInv
<1>2. LocalTypeOK /\ MessageInv /\ BoundInv /\ [Next]_vars => BoundInv'
  <2> SUFFICES ASSUME LocalTypeOK, MessageInv, BoundInv, [Next]_vars PROVE BoundInv'
    OBVIOUS
  <2> USE DEF Tasks, local, bluez, devices
  <2>a. ASSUME UNCHANGED <<bluez, starts>>, UNCHANGED cancels \/ Cancelled,
               lock' \in {lock, None} \cup Tasks,
               registered' \subseteq registered \cup Scanners,
               exported' \subseteq exported \cup Passive
        PROVE  BoundInv'
    BY <2>a DEF BoundInv, Cancelled
  <2>b. ASSUME UNCHANGED <<lock, local, cancels, devices, power, powered>>,
               discovering' \in BOOLEAN, monitors' \subseteq Passive
        PROVE  BoundInv'
    BY <2>b DEF BoundInv
  <2>1. ASSUME NEW s \in Scanners, Start(s) PROVE BoundInv'
    BY <2>1 DEF Start, BoundInv
  <2>2. ASSUME NEW s \in Scanners, EnterScan(s) PROVE BoundInv'
    BY <2>2, <2>a DEF EnterScan, EnterActive, EnterPassive, Enter, NoAdapter
  <2>3. ASSUME NEW s \in Scanners, MonitorRegistered(s) PROVE BoundInv'
    <3>1. s \in Passive
      BY <2>3 DEF MonitorRegistered, MessageInv
    <3> QED
      BY <2>3, <2>a, <3>1 DEF MonitorRegistered, Keep
  <2>4. ASSUME NEW s \in Scanners, FilterSet(s) \/ DiscoveryStarted(s) \/ StartRaises(s)
        PROVE  BoundInv'
    BY <2>4, <2>a DEF FilterSet, DiscoveryStarted, Keep, StartRaises
  <2>5. ASSUME NEW k \in StopCalls, Stop(k) \/ EnterStop(k) \/ StopReplied(k) PROVE BoundInv'
    BY <2>5, <2>a DEF Stop, EnterStop, StopDiscovery, UnregisterMonitor, StopReplied,
       ClearFilter, Stopped, StopRaises
  <2>6. ASSUME NEW t \in Tasks, CancelWaiting(t) PROVE BoundInv'
    BY <2>6, <2>a DEF CancelWaiting
  <2>7. ASSUME NEW d \in Devices, Advertised(d) \/ Forgotten(d) PROVE BoundInv'
    BY <2>7 DEF Advertised, Forgotten, BoundInv
  <2>8. CASE Serve
    <3>1. monitors' \subseteq Passive
      <4>1. CASE ServeRegister
        <5>1. Head(wire)[2] = "RegisterMonitor" /\ Head(wire) \in Messages
          BY <4>1, Served DEF ServeRegister, NextCall
        <5>2. Head(wire)[1] \in Passive
          BY <5>1 DEF Messages
        <5> QED
          BY <4>1, <5>2 DEF ServeRegister, BoundInv
      <4> QED
        BY <2>8, <4>1 DEF Serve, ServeFilter, ServeStartDiscovery, ServeStopDiscovery,
           ServeUnregister, BoundInv
    <3>2. discovering' \in BOOLEAN
      BY <2>8 DEF Serve, ServeFilter, ServeStartDiscovery, ServeStopDiscovery, ServeRegister,
         ServeUnregister, BoundInv
    <3> QED
      BY <2>8, <2>b, <3>1, <3>2 DEF Serve, ServeFilter, ServeStartDiscovery,
         ServeStopDiscovery, ServeRegister, ServeUnregister
  <2>9. CASE PowerOff \/ PowerOn
    <3>1. power' \in 0..MaxPower
      BY <2>9 DEF PowerOff, PowerOn, BoundInv
    <3>2. powered' \in BOOLEAN /\ discovering' \in BOOLEAN
      BY <2>9 DEF PowerOff, PowerOn, BoundInv
    <3>3. UNCHANGED <<lock, local, monitors, devices, cancels>>
      BY <2>9 DEF PowerOff, PowerOn
    <3> QED
      BY <3>1, <3>2, <3>3 DEF BoundInv
  <2>10. CASE UNCHANGED vars
    BY <2>10, <2>a DEF vars
  <2> QED
    BY <2>1, <2>2, <2>3, <2>4, <2>5, <2>6, <2>7, <2>8, <2>9, <2>10
       DEF Next, StartReplied
<1>3. LocalTypeOK /\ MessageInv /\ QueueInv /\ BoundInv => TypeOK
  <2> SUFFICES ASSUME LocalTypeOK, MessageInv, QueueInv, BoundInv PROVE TypeOK
    OBVIOUS
  <2>1. Messages \subseteq Tasks \X Members
    BY DEF Messages, Tasks, Members
  <2>2. wire \in Seq(Tasks \X Members)
    BY <2>1 DEF MessageInv
  <2> QED
    BY <2>2 DEF TypeOK, LocalTypeOK, MessageInv, QueueInv, BoundInv
<1> QED
  BY <1>1, <1>2, <1>3, LocalTypes, MessagesInvariant, QueueInvariant, PTL DEF Spec
=============================================================================
