--------------------------- MODULE BlueZClientProofs ---------------------------
(***************************************************************************)
(* Theorems about BlueZClient, for any set of calls and any bounds.         *)
(***************************************************************************)
EXTENDS BlueZClient, SequenceTheorems, TLAPS

\* An attempt of a connect() is an attempt.
LEMMA AttType ==
  ASSUME CallTypeOK, NEW c \in Connects
  PROVE  Att(c) \in Attempts
BY DEF CallTypeOK, Att, Attempts

\* The end of an exit stack keeps the types of what it changes.
LEMMA FinishUnwindType ==
  ASSUME TypeOK, NEW c \in Connects, NEW why \in {"retry", "raise"}, FinishUnwind(c, why)
  PROVE  /\ pc' \in [Calls -> ConnectPC \cup DisconnectPC]
         /\ \A x \in Connects : pc'[x] \in ConnectPC
         /\ \A d \in Disconnects : pc'[d] \in DisconnectPC
         /\ try' \in [Connects -> 1..MaxTries]
         /\ bus' \in Ref /\ services' \in Ref /\ removeWatcher' \in Ref
         /\ open' \subseteq Attempts /\ monSet' \subseteq Attempts /\ watchers' \subseteq Attempts
<1> USE CallsAssumption, BoundsAssumption, AttType
<1>1. /\ services' \in Ref /\ removeWatcher' \in Ref
      /\ monSet' \subseteq Attempts /\ watchers' \subseteq Attempts
  BY DEF FinishUnwind, CleanupAll, TypeOK, ClientTypeOK, Ref
<1>2. CASE why = "raise"
  BY <1>1, <1>2 DEF FinishUnwind, Goto, TypeOK, CallTypeOK, ClientTypeOK, Calls, ConnectPC
<1>3. CASE why = "retry"
  <2>1. try' \in [Connects -> 1..MaxTries] /\ <<c, try[c] + 1>> \in Attempts
    BY <1>3 DEF FinishUnwind, TypeOK, CallTypeOK, Attempts
  <2> QED
    BY <1>1, <1>3, <2>1 DEF FinishUnwind, Goto, TypeOK, CallTypeOK, ClientTypeOK, Calls,
       ConnectPC, Ref
<1> QED
  BY <1>2, <1>3

\* A method call on _bus keeps the types of what it changes.
LEMMA SendType ==
  ASSUME TypeOK, NEW x \in Calls, NEW m \in Members, bus # None, Send(x, m)
  PROVE  /\ requests' \subseteq Calls \X Members \X Attempts
         /\ reply' \in [Calls -> Replies \cup {None}]
BY DEF Send, TypeOK, CallTypeOK, ClientTypeOK, BlueZTypeOK, Ref

\* The exit stack keeps the types of what it changes.
LEMMA UnwindType ==
  ASSUME TypeOK, NEW c \in Connects, NEW why \in {"retry", "raise"}, Unwind(c, why)
  PROVE  /\ pc' \in [Calls -> ConnectPC \cup DisconnectPC]
         /\ \A x \in Connects : pc'[x] \in ConnectPC
         /\ \A d \in Disconnects : pc'[d] \in DisconnectPC
         /\ try' \in [Connects -> 1..MaxTries]
         /\ leaving' \in [Connects -> {"retry", "raise"}]
         /\ bus' \in Ref /\ services' \in Ref /\ removeWatcher' \in Ref
         /\ open' \subseteq Attempts /\ monSet' \subseteq Attempts /\ watchers' \subseteq Attempts
         /\ requests' \subseteq Calls \X Members \X Attempts
         /\ reply' \in [Calls -> Replies \cup {None}]
<1> USE CallsAssumption, AttType
<1>1. leaving' \in [Connects -> {"retry", "raise"}]
  BY DEF Unwind, TypeOK, CallTypeOK
<1>2. CASE bus # None /\ bus \in open
  <2>1. c \in Calls /\ "Disconnect" \in Members
    BY DEF Calls, Members
  <2>2. Send(c, "Disconnect")
    BY <1>2 DEF Unwind
  <2>3. /\ requests' \subseteq Calls \X Members \X Attempts
        /\ reply' \in [Calls -> Replies \cup {None}]
    BY <1>2, <2>1, <2>2, SendType
  <2> QED
    BY <1>1, <1>2, <2>3 DEF Unwind, Goto, TypeOK, CallTypeOK, ClientTypeOK, Calls, ConnectPC
<1>3. CASE ~(bus # None /\ bus \in open)
  <2>1. FinishUnwind(c, why) /\ UNCHANGED <<requests, reply>>
    BY <1>3 DEF Unwind
  <2> QED
    BY <1>1, <2>1, FinishUnwindType DEF TypeOK, CallTypeOK, BlueZTypeOK
<1> QED
  BY <1>2, <1>3

\* Every variable of the client, the manager and BlueZ keeps its type (TypeOK), whatever the
\* calls, the bounds and the overlaps.
THEOREM TypeInvariant == Spec => []TypeOK
<1> USE CallsAssumption, BoundsAssumption
<1>1. Init => TypeOK
  <2> SUFFICES ASSUME Init PROVE TypeOK
    OBVIOUS
  <2>1. CallTypeOK
    BY DEF Init, CallTypeOK, Calls, ConnectPC, DisconnectPC
  <2>2. ClientTypeOK
    BY DEF Init, ClientTypeOK, Ref
  <2>3. BlueZTypeOK
    <3>1. signals \in Seq(SignalKinds) /\ faults \in 0..MaxFaults
      BY DEF Init
    <3> QED
      BY <3>1 DEF Init, BlueZTypeOK
  <2> QED
    BY <2>1, <2>2, <2>3 DEF TypeOK
<1>2. TypeOK /\ [Next]_vars => TypeOK'
  <2> SUFFICES ASSUME TypeOK, [Next]_vars PROVE TypeOK'
    OBVIOUS
  <2> USE DEF TypeOK, CallTypeOK, Calls, ConnectPC, DisconnectPC, ClientTypeOK, Attempts, Ref,
          BlueZTypeOK, Goto, allButPc, fields, objects, manager, bluez
  <2>up. /\ Append(signals, "up") \in Seq(SignalKinds)
         /\ Append(signals, "down") \in Seq(SignalKinds)
         /\ Append(signals, "added") \in Seq(SignalKinds)
         /\ Append(signals, "removed") \in Seq(SignalKinds)
         /\ signals \o <<"up", "down">> \in Seq(SignalKinds)
         /\ signals \o <<"down", "removed">> \in Seq(SignalKinds)
    <3>1. "up" \in SignalKinds /\ "down" \in SignalKinds /\ "added" \in SignalKinds
          /\ "removed" \in SignalKinds
      BY DEF SignalKinds
    <3>2. signals \in Seq(SignalKinds)
      OBVIOUS
    <3>3. <<"up", "down">> \in Seq(SignalKinds) /\ <<"down", "removed">> \in Seq(SignalKinds)
      BY <3>1
    <3> QED
      BY <3>1, <3>2, <3>3, AppendProperties, ConcatProperties
  <2>1. ASSUME NEW c \in Connects, StartConnect(c) PROVE TypeOK'
    BY <2>1, AttType DEF StartConnect, IsConnected
  <2>2. ASSUME NEW c \in Connects, PrepareFails(c) PROVE TypeOK'
    BY <2>2, AttType DEF PrepareFails
  <2>3. ASSUME NEW c \in Connects, NewBus(c) PROVE TypeOK'
    BY <2>3, AttType DEF NewBus, Att
  <2>4. ASSUME NEW c \in Connects, BusFails(c) PROVE TypeOK'
    BY <2>4, AttType DEF BusFails, Att
  <2>5. ASSUME NEW c \in Connects, WatcherFails(c) PROVE TypeOK'
    BY <2>5, AttType DEF WatcherFails, Att, CleanupAll
  <2>6. ASSUME NEW c \in Connects, BusCleared(c) PROVE TypeOK'
    BY <2>6, AttType DEF BusCleared, Att
  <2>7. ASSUME NEW c \in Connects, SendConnect(c) PROVE TypeOK'
    <3>1. CallTypeOK'
      BY <2>7, AttType DEF Replies, SendConnect, Att, Watch, Send, Members
    <3>2. ClientTypeOK'
      BY <2>7, AttType DEF SendConnect, Att, Watch, Send, Members
    <3>3. BlueZTypeOK'
      <4>1. c \in Calls /\ "Connect" \in Members
        BY DEF Members
      <4>2. bus # None /\ Send(c, "Connect")
        BY <2>7 DEF SendConnect
      <4> QED
        BY <2>7, <4>1, <4>2, SendType DEF SendConnect
    <3> QED
      BY <3>1, <3>2, <3>3
  <2>8. ASSUME NEW c \in Connects, SkipConnect(c) PROVE TypeOK'
    <3>1. CallTypeOK'
      <4>1. Goto(c, "ok") \/ Goto(c, "discover") \/ Goto(c, "manager")
        BY <2>8 DEF SkipConnect, GetServices, AskServices
      <4>2. UNCHANGED <<try, leaving, reply, awaited>>
        BY <2>8 DEF SkipConnect
      <4> QED
        BY <4>1, <4>2
    <3>2. ClientTypeOK'
      BY <2>8, AttType DEF SkipConnect, Att, Watch, BecomeConnected, GetServices, AskServices,
         MayUseCache
    <3>3. BlueZTypeOK'
      BY <2>8, AttType DEF SkipConnect, Att, Watch, BecomeConnected, GetServices, AskServices,
         MayUseCache
    <3> QED
      BY <3>1, <3>2, <3>3
  <2>9. ASSUME NEW c \in Connects, ConnectOk(c) PROVE TypeOK'
    <3>1. CallTypeOK'
      <4>1. Goto(c, "ok") \/ Goto(c, "discover") \/ Goto(c, "manager")
        BY <2>9 DEF ConnectOk, GetServices, AskServices
      <4>2. UNCHANGED <<try, leaving, reply, awaited>>
        BY <2>9 DEF ConnectOk
      <4> QED
        BY <4>1, <4>2
    <3>2. ClientTypeOK'
      BY <2>9, AttType DEF ConnectOk, Att, BecomeConnected, GetServices, AskServices,
         MayUseCache
    <3>3. BlueZTypeOK'
      BY <2>9, AttType DEF ConnectOk, Att, BecomeConnected, GetServices, AskServices,
         MayUseCache
    <3> QED
      BY <3>1, <3>2, <3>3
  <2>10. ASSUME NEW c \in Connects, ConnectOkTooLate(c) PROVE TypeOK'
    <3>1. Unwind(c, "raise")
      BY <2>10 DEF ConnectOkTooLate
    <3> QED
      BY <2>10, <3>1, UnwindType, AttType DEF ConnectOkTooLate, Att, BecomeConnected,
         MayUseCache
  <2>11. ASSUME NEW c \in Connects, ConnectAborts(c) PROVE TypeOK'
    BY <2>11, AttType DEF ConnectAborts, Att
  <2>12. ASSUME NEW c \in Connects, Retry(c) PROVE TypeOK'
    <3>1. Unwind(c, "retry")
      BY <2>12 DEF Retry
    <3> QED
      BY <2>12, <3>1, UnwindType, AttType DEF Retry, Att
  <2>13. ASSUME NEW c \in Connects, ConnectRaises(c) PROVE TypeOK'
    <3>1. Unwind(c, "raise")
      BY <2>13 DEF ConnectRaises
    <3> QED
      BY <2>13, <3>1, UnwindType, AttType DEF ConnectRaises, Att
  <2>14. ASSUME NEW c \in Connects, Undone(c) PROVE TypeOK'
    <3>1. FinishUnwind(c, leaving[c]) /\ leaving[c] \in {"retry", "raise"}
      BY <2>14 DEF Undone
    <3> QED
      <4> HIDE DEF Calls, ConnectPC, DisconnectPC, Attempts, Ref
      <4> QED
        BY <2>14, <3>1, FinishUnwindType DEF Undone
  <2>15. ASSUME NEW c \in Connects, UndoInterrupted(c) PROVE TypeOK'
    <3>1. FinishUnwind(c, "raise") /\ "raise" \in {"retry", "raise"}
      BY <2>15 DEF UndoInterrupted
    <3> QED
      BY <2>15, <3>1, FinishUnwindType DEF UndoInterrupted
  <2>16. ASSUME NEW c \in Connects, Resolve(c) PROVE TypeOK'
    BY <2>16, AttType DEF Resolve
  <2>17. ASSUME NEW c \in Connects, TakeServices(c) PROVE TypeOK'
    BY <2>17, AttType DEF TakeServices, Att
  <2>ask. ASSUME NEW c \in Connects, AskManager(c) PROVE TypeOK'
    <3>1. CallTypeOK'
      <4>1. Goto(c, "ok") \/ Goto(c, "discover")
        BY <2>ask DEF AskManager, AskServices
      <4> QED
        BY <2>ask, <4>1 DEF AskManager
    <3>2. ClientTypeOK'
      BY <2>ask, AttType DEF AskManager, AskServices, Att, MayUseCache
    <3>3. BlueZTypeOK'
      BY <2>ask DEF AskManager, AskServices, MayUseCache
    <3> QED
      BY <3>1, <3>2, <3>3
  <2>18. ASSUME NEW d \in Disconnects, DisconnectNoBus(d) PROVE TypeOK'
    BY <2>18 DEF DisconnectNoBus
  <2>19. ASSUME NEW d \in Disconnects, DisconnectJoin(d) PROVE TypeOK'
    BY <2>19 DEF DisconnectJoin
  <2>20. ASSUME NEW d \in Disconnects, DisconnectSend(d) PROVE TypeOK'
    BY <2>20 DEF DisconnectSend, Send, Members
  <2>21. ASSUME NEW d \in Disconnects, DisconnectOnClosedBus(d) PROVE TypeOK'
    BY <2>21 DEF DisconnectOnClosedBus
  <2>22. ASSUME NEW d \in Disconnects, DisconnectIdle(d) PROVE TypeOK'
    BY <2>22 DEF DisconnectIdle, CloseBus
  <2>23. ASSUME NEW d \in Disconnects, DisconnectOk(d) PROVE TypeOK'
    BY <2>23 DEF DisconnectOk
  <2>24. ASSUME NEW d \in Disconnects, DisconnectSeen(d) PROVE TypeOK'
    BY <2>24 DEF DisconnectSeen, CloseBus
  <2>25. ASSUME NEW d \in Disconnects, DisconnectFails(d) PROVE TypeOK'
    BY <2>25 DEF DisconnectFails, DisconnectLeaves
  <2>26. ASSUME NEW d \in Disconnects, DisconnectTimeout(d) PROVE TypeOK'
    BY <2>26 DEF DisconnectTimeout, DisconnectLeaves
  <2>27. ASSUME NEW d \in Disconnects, DisconnectCancelled(d) PROVE TypeOK'
    BY <2>27 DEF DisconnectCancelled, DisconnectLeaves
  <2>28. ASSUME NEW d \in Disconnects, DisconnectClosed(d) PROVE TypeOK'
    BY <2>28 DEF DisconnectClosed, Sanity
  <2>29. ASSUME NEW d \in Disconnects, CloseCancelled(d) PROVE TypeOK'
    BY <2>29 DEF CloseCancelled
  <2>30. ASSUME NEW d \in Disconnects, JoinSeen(d) PROVE TypeOK'
    BY <2>30 DEF JoinSeen, Sanity
  <2>31. ASSUME NEW d \in Disconnects, JoinTimeout(d) PROVE TypeOK'
    BY <2>31 DEF JoinTimeout
  <2>32. ASSUME NEW a \in Attempts, MonitorEnds(a) PROVE TypeOK'
    BY <2>32 DEF MonitorEnds
  <2>33. CASE SeeDown
    <3>1. CallTypeOK'
      <4>1. CASE UNCHANGED pc
        BY <2>33, <4>1 DEF SeeDown
      <4>2. CASE WakeDiscovery
        BY <2>33, <4>2 DEF SeeDown, WakeDiscovery
      <4> QED
        BY <2>33, <4>1, <4>2 DEF SeeDown
    <3>2. ClientTypeOK'
      <4>1. CASE OnDisconnected
        <5>1. /\ monSet' \subseteq Attempts /\ monitor' \in Ref /\ watchers' \subseteq Attempts
              /\ removeWatcher' \in Ref /\ services' \in Ref
          BY <4>1 DEF OnDisconnected, CleanupAll
        <5>2. isConn' = FALSE /\ fired' \subseteq Attempts /\ discSet' \subseteq Disconnects
          BY <4>1 DEF OnDisconnected
        <5> QED
          BY <2>33, <5>1, <5>2 DEF SeeDown
      <4>2. CASE UNCHANGED <<isConn, monSet, monitor, watchers, removeWatcher, services,
                             fired, discSet>>
        BY <2>33, <4>2 DEF SeeDown
      <4> QED
        BY <2>33, <4>1, <4>2 DEF SeeDown
    <3>3. BlueZTypeOK'
      BY <2>33, HeadTailProperties DEF SeeDown, NextSignal, WakeDiscovery, OnDisconnected,
         CleanupAll
    <3> QED
      BY <3>1, <3>2, <3>3
  <2>34. CASE SeeRemoved
    <3>1. CallTypeOK'
      BY <2>34, HeadTailProperties DEF Replies, SeeRemoved, NextSignal, WakeDiscovery
    <3>2. ClientTypeOK'
      BY <2>34, HeadTailProperties DEF SeeRemoved, NextSignal, WakeDiscovery
    <3>3. BlueZTypeOK'
      BY <2>34, HeadTailProperties DEF SeeRemoved, NextSignal, WakeDiscovery
    <3> QED
      BY <3>1, <3>2, <3>3
  <2>35. CASE SeeUp
    <3>1. CallTypeOK'
      BY <2>35, HeadTailProperties DEF Replies, SeeUp, NextSignal
    <3>2. ClientTypeOK'
      BY <2>35, HeadTailProperties DEF SeeUp, NextSignal
    <3>3. BlueZTypeOK'
      BY <2>35, HeadTailProperties DEF SeeUp, NextSignal
    <3> QED
      BY <3>1, <3>2, <3>3
  <2>36. CASE SeeAdded
    <3>1. CallTypeOK'
      BY <2>36, HeadTailProperties DEF Replies, SeeAdded, NextSignal
    <3>2. ClientTypeOK'
      BY <2>36, HeadTailProperties DEF SeeAdded, NextSignal
    <3>3. BlueZTypeOK'
      BY <2>36, HeadTailProperties DEF SeeAdded, NextSignal
    <3> QED
      BY <3>1, <3>2, <3>3
  <2>37. ASSUME NEW q \in requests, ServeConnect(q) PROVE TypeOK'
    <3>1. CallTypeOK'
      BY <2>37, <2>up DEF Replies, ServeConnect, Answer, Waits
    <3>2. ClientTypeOK'
      BY <2>37, <2>up DEF ServeConnect, Answer, Waits
    <3>3. BlueZTypeOK'
      BY <2>37, <2>up DEF ServeConnect, Answer, Waits
    <3> QED
      BY <3>1, <3>2, <3>3
  <2>38. ASSUME NEW q \in requests, ServeDisconnect(q) PROVE TypeOK'
    <3>1. CallTypeOK'
      BY <2>38, <2>up DEF Replies, ServeDisconnect, Answer, Waits
    <3>2. ClientTypeOK'
      BY <2>38, <2>up DEF ServeDisconnect, Answer, Waits
    <3>3. BlueZTypeOK'
      BY <2>38, <2>up DEF ServeDisconnect, Answer, Waits
    <3> QED
      BY <3>1, <3>2, <3>3
  <2>39. CASE LinkLost
    <3>1. CallTypeOK'
      BY <2>39, <2>up DEF Replies, LinkLost
    <3>2. ClientTypeOK'
      BY <2>39, <2>up DEF LinkLost
    <3>3. BlueZTypeOK'
      <4>1. signals' \in Seq(SignalKinds)
        BY <2>39, <2>up DEF LinkLost
      <4>2. faults' \in 0..MaxFaults
        BY <2>39 DEF LinkLost
      <4> QED
        BY <2>39, <4>1, <4>2 DEF LinkLost
    <3> QED
      BY <3>1, <3>2, <3>3
  <2>40. CASE DeviceRemoved
    <3>1. CallTypeOK'
      BY <2>40, <2>up DEF Replies, DeviceRemoved
    <3>2. ClientTypeOK'
      BY <2>40, <2>up DEF DeviceRemoved
    <3>3. BlueZTypeOK'
      <4>1. signals' \in Seq(SignalKinds)
        BY <2>40, <2>up DEF DeviceRemoved
      <4>2. faults' \in 0..MaxFaults
        BY <2>40 DEF DeviceRemoved
      <4> QED
        BY <2>40, <4>1, <4>2 DEF DeviceRemoved
    <3> QED
      BY <3>1, <3>2, <3>3
  <2>41. CASE DeviceAdded
    <3>1. CallTypeOK'
      BY <2>41, <2>up DEF Replies, DeviceAdded
    <3>2. ClientTypeOK'
      BY <2>41, <2>up DEF DeviceAdded
    <3>3. BlueZTypeOK'
      BY <2>41, <2>up DEF DeviceAdded
    <3> QED
      BY <3>1, <3>2, <3>3
  <2>42. CASE UNCHANGED vars
    <3>1. CallTypeOK'
      BY <2>42 DEF Replies, vars
    <3>2. ClientTypeOK'
      BY <2>42 DEF vars
    <3>3. BlueZTypeOK'
      BY <2>42 DEF vars
    <3> QED
      BY <3>1, <3>2, <3>3
  <2> QED
    BY <2>1, <2>2, <2>3, <2>4, <2>5, <2>6, <2>7, <2>8, <2>9, <2>10, <2>11, <2>12, <2>13,
       <2>14, <2>15, <2>16, <2>17, <2>ask, <2>18, <2>19, <2>20, <2>21, <2>22, <2>23, <2>24, <2>25,
       <2>26, <2>27, <2>28, <2>29, <2>30, <2>31, <2>32, <2>33, <2>34, <2>35, <2>36, <2>37,
       <2>38, <2>39, <2>40, <2>41, <2>42
       DEF Next, ConnectStep, ConnectRuns, DisconnectStep, HandleSignal, BlueZStep
<1> QED
  BY <1>1, <1>2, PTL DEF Spec

-----------------------------------------------------------------------------
\* What any step may do to the watchers: nothing, clean up, or add one and remember it.
LEMMA WatcherSteps ==
  ASSUME [Next]_vars
  PROVE  \/ UNCHANGED <<watchers, removeWatcher>>
         \/ removeWatcher' = None
         \/ \E a : watchers' = watchers \cup {a} /\ removeWatcher' = a
<1> DEFINE Steps == \/ UNCHANGED <<watchers, removeWatcher>>
                    \/ removeWatcher' = None
                    \/ \E a : watchers' = watchers \cup {a} /\ removeWatcher' = a
<1> USE DEF fields, objects, manager, allButPc
<1>1. ASSUME NEW c \in Connects, StartConnect(c) PROVE Steps
  BY <1>1 DEF StartConnect
<1>2. ASSUME NEW c \in Connects, PrepareFails(c) PROVE Steps
  BY <1>2 DEF PrepareFails
<1>3. ASSUME NEW c \in Connects, NewBus(c) PROVE Steps
  BY <1>3 DEF NewBus
<1>4. ASSUME NEW c \in Connects, BusFails(c) PROVE Steps
  BY <1>4 DEF BusFails
<1>5. ASSUME NEW c \in Connects, WatcherFails(c) PROVE Steps
  BY <1>5 DEF WatcherFails, CleanupAll
<1>6. ASSUME NEW c \in Connects, BusCleared(c) PROVE Steps
  BY <1>6 DEF BusCleared
<1>7. ASSUME NEW c \in Connects, SendConnect(c) PROVE Steps
  BY <1>7 DEF SendConnect, Watch
<1>8. ASSUME NEW c \in Connects, SkipConnect(c) PROVE Steps
  BY <1>8 DEF SkipConnect, Watch
<1>9. ASSUME NEW c \in Connects, ConnectOk(c) PROVE Steps
  BY <1>9 DEF ConnectOk
<1>10. ASSUME NEW c \in Connects, ConnectOkTooLate(c) PROVE Steps
  BY <1>10 DEF ConnectOkTooLate, CleanupAll, FinishUnwind, Unwind
<1>11. ASSUME NEW c \in Connects, ConnectAborts(c) PROVE Steps
  BY <1>11 DEF ConnectAborts
<1>12. ASSUME NEW c \in Connects, Retry(c) PROVE Steps
  BY <1>12 DEF Retry, CleanupAll, FinishUnwind, Unwind
<1>13. ASSUME NEW c \in Connects, ConnectRaises(c) PROVE Steps
  BY <1>13 DEF ConnectRaises, CleanupAll, FinishUnwind, Unwind
<1>14. ASSUME NEW c \in Connects, Undone(c) PROVE Steps
  BY <1>14 DEF Undone, CleanupAll, FinishUnwind
<1>15. ASSUME NEW c \in Connects, UndoInterrupted(c) PROVE Steps
  BY <1>15 DEF UndoInterrupted, CleanupAll, FinishUnwind
<1>16. ASSUME NEW c \in Connects, Resolve(c) PROVE Steps
  BY <1>16 DEF Resolve
<1>17. ASSUME NEW c \in Connects, TakeServices(c) PROVE Steps
  BY <1>17 DEF TakeServices
<1>ask. ASSUME NEW c \in Connects, AskManager(c) PROVE Steps
  BY <1>ask DEF AskManager
<1>18. ASSUME NEW d \in Disconnects, DisconnectStep(d) PROVE Steps
  BY <1>18 DEF DisconnectStep, DisconnectNoBus, DisconnectJoin, DisconnectSend,
     DisconnectOnClosedBus, DisconnectIdle, DisconnectOk, DisconnectSeen, DisconnectFails,
     DisconnectTimeout, DisconnectCancelled, DisconnectClosed, CloseCancelled, JoinSeen,
     JoinTimeout, CloseBus, DisconnectLeaves
<1>19. CASE \E a \in Attempts : MonitorEnds(a)
  BY <1>19 DEF MonitorEnds
<1>20. CASE HandleSignal
  BY <1>20 DEF HandleSignal, SeeDown, SeeRemoved, SeeUp, SeeAdded, OnDisconnected, CleanupAll
<1>21. CASE BlueZStep
  BY <1>21 DEF BlueZStep, ServeConnect, ServeDisconnect, LinkLost, DeviceRemoved, DeviceAdded
<1>22. CASE UNCHANGED vars
  BY <1>22 DEF vars
<1> QED
  BY <1>1, <1>2, <1>3, <1>4, <1>5, <1>6, <1>7, <1>8, <1>9, <1>10, <1>11, <1>12, <1>13, <1>14,
     <1>15, <1>16, <1>17, <1>ask, <1>18, <1>19, <1>20, <1>21, <1>22 DEF Next, ConnectStep,
     ConnectRuns

\* _cleanup_all never asks the manager to remove a watcher it does not have, however
\* connect(), disconnect() and the signals interleave.
THEOREM CleanupFindsWatcher == Spec => []RemoveFindsWatcher
<1>1. Init => RemoveFindsWatcher
  BY DEF Init, RemoveFindsWatcher
<1>2. RemoveFindsWatcher /\ [Next]_vars => RemoveFindsWatcher'
  BY WatcherSteps DEF RemoveFindsWatcher
<1> QED
  BY <1>1, <1>2, PTL DEF Spec

-----------------------------------------------------------------------------
\* Only the steps of a disconnect() touch the disconnect() calls and _disconnecting_event.
LEMMA OtherStepsKeepDisconnects ==
  ASSUME TypeOK, [Next]_vars, ~\E d \in Disconnects : DisconnectStep(d)
  PROVE  discEvent' = discEvent /\ \A d \in Disconnects : pc'[d] = pc[d]
<1> DEFINE Keep == discEvent' = discEvent /\ \A d \in Disconnects : pc'[d] = pc[d]
<1> USE CallsAssumption DEF fields, objects, manager, allButPc, Goto, TypeOK, CallTypeOK, Calls
<1>1. ASSUME NEW c \in Connects, StartConnect(c) PROVE Keep
  BY <1>1 DEF StartConnect
<1>2. ASSUME NEW c \in Connects, PrepareFails(c) PROVE Keep
  BY <1>2 DEF PrepareFails
<1>3. ASSUME NEW c \in Connects, NewBus(c) PROVE Keep
  BY <1>3 DEF NewBus
<1>4. ASSUME NEW c \in Connects, BusFails(c) PROVE Keep
  BY <1>4 DEF BusFails
<1>5. ASSUME NEW c \in Connects, WatcherFails(c) PROVE Keep
  BY <1>5 DEF WatcherFails
<1>6. ASSUME NEW c \in Connects, BusCleared(c) PROVE Keep
  BY <1>6 DEF BusCleared
<1>7. ASSUME NEW c \in Connects, SendConnect(c) PROVE Keep
  BY <1>7 DEF SendConnect
<1>8. ASSUME NEW c \in Connects, SkipConnect(c) PROVE Keep
  BY <1>8 DEF SkipConnect, GetServices, AskServices
<1>9. ASSUME NEW c \in Connects, ConnectOk(c) PROVE Keep
  BY <1>9 DEF ConnectOk, GetServices, AskServices
<1>10. ASSUME NEW c \in Connects, ConnectOkTooLate(c) PROVE Keep
  BY <1>10 DEF ConnectOkTooLate, FinishUnwind, Unwind
<1>11. ASSUME NEW c \in Connects, ConnectAborts(c) PROVE Keep
  BY <1>11 DEF ConnectAborts
<1>12. ASSUME NEW c \in Connects, Retry(c) PROVE Keep
  BY <1>12 DEF Retry, FinishUnwind, Unwind
<1>13. ASSUME NEW c \in Connects, ConnectRaises(c) PROVE Keep
  BY <1>13 DEF ConnectRaises, FinishUnwind, Unwind
<1>14. ASSUME NEW c \in Connects, Undone(c) PROVE Keep
  BY <1>14 DEF Undone, FinishUnwind
<1>15. ASSUME NEW c \in Connects, UndoInterrupted(c) PROVE Keep
  BY <1>15 DEF UndoInterrupted, FinishUnwind
<1>16. ASSUME NEW c \in Connects, Resolve(c) PROVE Keep
  BY <1>16 DEF Resolve
<1>17. ASSUME NEW c \in Connects, TakeServices(c) PROVE Keep
  BY <1>17 DEF TakeServices
<1>ask. ASSUME NEW c \in Connects, AskManager(c) PROVE Keep
  BY <1>ask DEF AskManager, AskServices
<1>18. CASE \E a \in Attempts : MonitorEnds(a)
  BY <1>18 DEF MonitorEnds
<1>19. CASE HandleSignal
  BY <1>19 DEF HandleSignal, SeeDown, SeeRemoved, SeeUp, SeeAdded, OnDisconnected,
     WakeDiscovery, DisconnectPC
<1>20. CASE BlueZStep
  BY <1>20 DEF BlueZStep, ServeConnect, ServeDisconnect, LinkLost, DeviceRemoved, DeviceAdded
<1>21. CASE UNCHANGED vars
  BY <1>21 DEF vars
<1> QED
  BY <1>1, <1>2, <1>3, <1>4, <1>5, <1>6, <1>7, <1>8, <1>9, <1>10, <1>11, <1>12, <1>13, <1>14,
     <1>15, <1>16, <1>17, <1>ask, <1>18, <1>19, <1>20, <1>21 DEF Next, ConnectStep, ConnectRuns

\* Any number of disconnect() calls may run: one of them at most talks to BlueZ.
THEOREM DisconnectIsExclusive == Spec => []OneDisconnecting
<1>1. Init => OneDisconnecting
  BY CallsAssumption DEF Init, OneDisconnecting, Calls
<1>2. TypeOK /\ OneDisconnecting /\ [Next]_vars => OneDisconnecting'
  <2> SUFFICES ASSUME TypeOK, OneDisconnecting, [Next]_vars PROVE OneDisconnecting'
    OBVIOUS
  <2>1. CASE ~\E d \in Disconnects : DisconnectStep(d)
    BY <2>1, OtherStepsKeepDisconnects DEF OneDisconnecting
  <2>2. ASSUME NEW d \in Disconnects, DisconnectStep(d) PROVE OneDisconnecting'
    <3> USE CallsAssumption DEF OneDisconnecting, TypeOK, CallTypeOK, Calls, Goto, allButPc,
            fields
    <3>1. CASE DisconnectNoBus(d)
      BY <3>1 DEF DisconnectNoBus
    <3>2. CASE DisconnectJoin(d)
      BY <3>2 DEF DisconnectJoin
    <3>3. CASE DisconnectSend(d)
      BY <3>3 DEF DisconnectSend
    <3>4. CASE DisconnectOnClosedBus(d)
      BY <3>4 DEF DisconnectOnClosedBus
    <3>5. CASE DisconnectIdle(d)
      BY <3>5 DEF DisconnectIdle, CloseBus
    <3>6. CASE DisconnectOk(d)
      BY <3>6 DEF DisconnectOk
    <3>7. CASE DisconnectSeen(d)
      BY <3>7 DEF DisconnectSeen, CloseBus
    <3>8. CASE DisconnectFails(d)
      BY <3>8 DEF DisconnectFails, DisconnectLeaves
    <3>9. CASE DisconnectTimeout(d)
      BY <3>9 DEF DisconnectTimeout, DisconnectLeaves
    <3>10. CASE DisconnectCancelled(d)
      BY <3>10 DEF DisconnectCancelled, DisconnectLeaves
    <3>11. CASE DisconnectClosed(d)
      BY <3>11 DEF DisconnectClosed, Sanity
    <3>12. CASE CloseCancelled(d)
      BY <3>12 DEF CloseCancelled
    <3>13. CASE JoinSeen(d)
      BY <3>13 DEF JoinSeen, Sanity
    <3>14. CASE JoinTimeout(d)
      BY <3>14 DEF JoinTimeout
    <3> QED
      BY <2>2, <3>1, <3>2, <3>3, <3>4, <3>5, <3>6, <3>7, <3>8, <3>9, <3>10, <3>11, <3>12, <3>13,
         <3>14 DEF DisconnectStep
  <2> QED
    BY <2>1, <2>2
<1> QED
  BY <1>1, <1>2, TypeInvariant, PTL DEF Spec

-----------------------------------------------------------------------------
\* A connect() that raises has closed the bus of each of its iterations.
THEOREM RaisingClosesTheBus == Spec => []RaisedClosesBus
<1>1. Init => RaisedClosesBus
  BY DEF Init, RaisedClosesBus
<1>2. TypeOK /\ RaisedClosesBus /\ [Next]_vars => RaisedClosesBus'
  <2> SUFFICES ASSUME TypeOK, RaisedClosesBus, [Next]_vars PROVE RaisedClosesBus'
    OBVIOUS
  <2> USE CallsAssumption DEF RaisedClosesBus, TypeOK, CallTypeOK, ClientTypeOK, Calls,
          Attempts, Att, Goto, allButPc, fields, objects, manager
  <2>1. ASSUME NEW c \in Connects, StartConnect(c) PROVE RaisedClosesBus'
    BY <2>1 DEF StartConnect
  <2>2. ASSUME NEW c \in Connects, PrepareFails(c) PROVE RaisedClosesBus'
    BY <2>2 DEF PrepareFails
  <2>3. ASSUME NEW c \in Connects, NewBus(c) PROVE RaisedClosesBus'
    BY <2>3 DEF NewBus
  <2>4. ASSUME NEW c \in Connects, BusFails(c) PROVE RaisedClosesBus'
    BY <2>4 DEF BusFails
  <2>5. ASSUME NEW c \in Connects, WatcherFails(c) PROVE RaisedClosesBus'
    BY <2>5 DEF WatcherFails
  <2>6. ASSUME NEW c \in Connects, BusCleared(c) PROVE RaisedClosesBus'
    BY <2>6 DEF BusCleared
  <2>7. ASSUME NEW c \in Connects, SendConnect(c) PROVE RaisedClosesBus'
    BY <2>7 DEF SendConnect, Watch
  <2>8. ASSUME NEW c \in Connects, SkipConnect(c) PROVE RaisedClosesBus'
    BY <2>8 DEF SkipConnect, GetServices, AskServices, Watch
  <2>9. ASSUME NEW c \in Connects, ConnectOk(c) PROVE RaisedClosesBus'
    BY <2>9 DEF ConnectOk, GetServices, AskServices
  <2>10. ASSUME NEW c \in Connects, ConnectOkTooLate(c) PROVE RaisedClosesBus'
    BY <2>10 DEF ConnectOkTooLate, FinishUnwind, Unwind
  <2>11. ASSUME NEW c \in Connects, ConnectAborts(c) PROVE RaisedClosesBus'
    BY <2>11 DEF ConnectAborts
  <2>12. ASSUME NEW c \in Connects, Retry(c) PROVE RaisedClosesBus'
    BY <2>12 DEF Retry, FinishUnwind, Unwind
  <2>13. ASSUME NEW c \in Connects, ConnectRaises(c) PROVE RaisedClosesBus'
    BY <2>13 DEF ConnectRaises, FinishUnwind, Unwind
  <2>14. ASSUME NEW c \in Connects, Undone(c) PROVE RaisedClosesBus'
    BY <2>14 DEF Undone, FinishUnwind
  <2>15. ASSUME NEW c \in Connects, UndoInterrupted(c) PROVE RaisedClosesBus'
    BY <2>15 DEF UndoInterrupted, FinishUnwind
  <2>16. ASSUME NEW c \in Connects, Resolve(c) PROVE RaisedClosesBus'
    BY <2>16 DEF Resolve
  <2>17. ASSUME NEW c \in Connects, TakeServices(c) PROVE RaisedClosesBus'
    BY <2>17 DEF TakeServices
  <2>ask. ASSUME NEW c \in Connects, AskManager(c) PROVE RaisedClosesBus'
    BY <2>ask DEF AskManager, AskServices
  <2>18. ASSUME NEW d \in Disconnects, DisconnectNoBus(d) PROVE RaisedClosesBus'
    BY <2>18 DEF DisconnectNoBus
  <2>19. ASSUME NEW d \in Disconnects, DisconnectJoin(d) PROVE RaisedClosesBus'
    BY <2>19 DEF DisconnectJoin
  <2>20. ASSUME NEW d \in Disconnects, DisconnectSend(d) PROVE RaisedClosesBus'
    BY <2>20 DEF DisconnectSend
  <2>21. ASSUME NEW d \in Disconnects, DisconnectOnClosedBus(d) PROVE RaisedClosesBus'
    BY <2>21 DEF DisconnectOnClosedBus
  <2>22. ASSUME NEW d \in Disconnects, DisconnectIdle(d) PROVE RaisedClosesBus'
    BY <2>22 DEF DisconnectIdle, CloseBus
  <2>23. ASSUME NEW d \in Disconnects, DisconnectOk(d) PROVE RaisedClosesBus'
    BY <2>23 DEF DisconnectOk
  <2>24. ASSUME NEW d \in Disconnects, DisconnectSeen(d) PROVE RaisedClosesBus'
    BY <2>24 DEF DisconnectSeen, CloseBus
  <2>25. ASSUME NEW d \in Disconnects, DisconnectFails(d) PROVE RaisedClosesBus'
    BY <2>25 DEF DisconnectFails, DisconnectLeaves
  <2>26. ASSUME NEW d \in Disconnects, DisconnectTimeout(d) PROVE RaisedClosesBus'
    BY <2>26 DEF DisconnectTimeout, DisconnectLeaves
  <2>27. ASSUME NEW d \in Disconnects, DisconnectCancelled(d) PROVE RaisedClosesBus'
    BY <2>27 DEF DisconnectCancelled, DisconnectLeaves
  <2>28. ASSUME NEW d \in Disconnects, DisconnectClosed(d) PROVE RaisedClosesBus'
    BY <2>28 DEF DisconnectClosed
  <2>29. ASSUME NEW d \in Disconnects, CloseCancelled(d) PROVE RaisedClosesBus'
    BY <2>29 DEF CloseCancelled
  <2>30. ASSUME NEW d \in Disconnects, JoinSeen(d) PROVE RaisedClosesBus'
    BY <2>30 DEF JoinSeen
  <2>31. ASSUME NEW d \in Disconnects, JoinTimeout(d) PROVE RaisedClosesBus'
    BY <2>31 DEF JoinTimeout
  <2>32. CASE \E a \in Attempts : MonitorEnds(a)
    BY <2>32 DEF MonitorEnds
  <2>33. CASE HandleSignal
    BY <2>33 DEF HandleSignal, SeeDown, SeeRemoved, SeeUp, SeeAdded, OnDisconnected,
       WakeDiscovery
  <2>34. CASE BlueZStep
    BY <2>34 DEF BlueZStep, ServeConnect, ServeDisconnect, LinkLost, DeviceRemoved, DeviceAdded
  <2>35. CASE UNCHANGED vars
    BY <2>35 DEF vars
  <2> QED
    BY <2>1, <2>2, <2>3, <2>4, <2>5, <2>6, <2>7, <2>8, <2>9, <2>10, <2>11, <2>12, <2>13, <2>14,
       <2>15, <2>16, <2>17, <2>ask, <2>18, <2>19, <2>20, <2>21, <2>22, <2>23, <2>24, <2>25,
       <2>26, <2>27, <2>28, <2>29, <2>30, <2>31, <2>32, <2>33, <2>34, <2>35 DEF Next,
       ConnectStep, ConnectRuns, DisconnectStep
<1> QED
  BY <1>1, <1>2, TypeInvariant, PTL DEF Spec

-----------------------------------------------------------------------------
\* Leaving the exit stack keeps SessionInv: the session of the call is over.
LEMMA FinishUnwindSession ==
  ASSUME TypeOK, SessionInv, NEW c \in Connects, NEW why, FinishUnwind(c, why),
         HoldsWatcher(c), UNCHANGED <<monitor, discEvent, discSet>>,
         monTasks' \subseteq monTasks \cup {Att(c)}
  PROVE  SessionInv'
<1> USE CallsAssumption, AttType
    DEF SessionInv, HoldsWatcher, Running, Finished, TypeOK, CallTypeOK, Calls, Att, Goto,
        FinishUnwind, CleanupAll
<1>1. WatcherTracked' /\ removeWatcher' = None
  BY DEF WatcherTracked
<1>2. MonitorReleased'
  <2>1. watchers \subseteq {Att(c)}
    BY DEF WatcherTracked
  <2>2. monSet' = monSet \cup {Att(c)}
    OBVIOUS
  <2> QED
    BY <2>1, <2>2 DEF MonitorReleased
<1>3. pc' = [pc EXCEPT ![c] = "bus"] \/ pc' = [pc EXCEPT ![c] = "raised"]
  OBVIOUS
<1>4. OneDisconnecting'
  BY <1>3 DEF OneDisconnecting
<1>5. /\ \A x \in Connects, y \in Calls : x # y /\ Running(x)' => ~Running(y)'
      /\ \A x \in Connects : ~HoldsWatcher(x)'
  BY <1>3
<1>6. \A d \in Disconnects : d \in discSet' => pc'[d] # "idle"
  BY <1>3
<1> QED
  BY <1>1, <1>2, <1>4, <1>5, <1>6

\* Without overlapping calls the client never loses track of a session.
THEOREM SessionInvariant == NoOverlap => (Spec => []SessionInv)
<1> SUFFICES ASSUME NoOverlap PROVE Spec => []SessionInv
  OBVIOUS
<1>1. Init => SessionInv
  BY CallsAssumption DEF Init, SessionInv, WatcherTracked, MonitorReleased, OneDisconnecting,
     HoldsWatcher, Running, Finished, Calls
<1>2. TypeOK /\ SessionInv /\ [Next]_vars => SessionInv'
  <2> SUFFICES ASSUME TypeOK, SessionInv, [Next]_vars PROVE SessionInv'
    OBVIOUS
  <2> USE CallsAssumption, AttType
      DEF NoOverlap, SessionInv, WatcherTracked, MonitorReleased, OneDisconnecting, HoldsWatcher,
          Running, Finished, TypeOK, CallTypeOK, ClientTypeOK, Calls, Ref, Att, Goto, allButPc,
          fields, objects, manager
  <2>1. ASSUME NEW c \in Connects, StartConnect(c) PROVE SessionInv'
    BY <2>1 DEF StartConnect, MayStart, Kind, IsConnected
  <2>2. ASSUME NEW c \in Connects, PrepareFails(c) PROVE SessionInv'
    BY <2>2 DEF PrepareFails
  <2>3. ASSUME NEW c \in Connects, NewBus(c) PROVE SessionInv'
    BY <2>3 DEF NewBus
  <2>4. ASSUME NEW c \in Connects, BusFails(c) PROVE SessionInv'
    BY <2>4 DEF BusFails
  <2>5. ASSUME NEW c \in Connects, WatcherFails(c) PROVE SessionInv'
    BY <2>5 DEF WatcherFails, CleanupAll
  <2>6. ASSUME NEW c \in Connects, BusCleared(c) PROVE SessionInv'
    BY <2>6 DEF BusCleared
  <2>7. ASSUME NEW c \in Connects, SendConnect(c) PROVE SessionInv'
    BY <2>7 DEF SendConnect, Watch
  <2>8. ASSUME NEW c \in Connects, SkipConnect(c) PROVE SessionInv'
    BY <2>8 DEF SkipConnect, GetServices, AskServices, Watch, BecomeConnected
  <2>9. ASSUME NEW c \in Connects, ConnectOk(c) PROVE SessionInv'
    BY <2>9 DEF ConnectOk, GetServices, AskServices, BecomeConnected
  <2>10. ASSUME NEW c \in Connects, ConnectOkTooLate(c) PROVE SessionInv'
    <3>1. CASE bus # None /\ bus \in open
      BY <2>10, <3>1 DEF ConnectOkTooLate, Unwind, BecomeConnected
    <3>2. CASE ~(bus # None /\ bus \in open)
      BY <2>10, <3>2, FinishUnwindSession DEF ConnectOkTooLate, Unwind, BecomeConnected
    <3> QED
      BY <3>1, <3>2
  <2>11. ASSUME NEW c \in Connects, ConnectAborts(c) PROVE SessionInv'
    BY <2>11 DEF ConnectAborts
  <2>12. ASSUME NEW c \in Connects, Retry(c) PROVE SessionInv'
    <3>1. CASE bus # None /\ bus \in open
      BY <2>12, <3>1 DEF Retry, Unwind
    <3>2. CASE ~(bus # None /\ bus \in open)
      BY <2>12, <3>2, FinishUnwindSession DEF Retry, Unwind
    <3> QED
      BY <3>1, <3>2
  <2>13. ASSUME NEW c \in Connects, ConnectRaises(c) PROVE SessionInv'
    <3>1. CASE bus # None /\ bus \in open
      BY <2>13, <3>1 DEF ConnectRaises, Unwind
    <3>2. CASE ~(bus # None /\ bus \in open)
      BY <2>13, <3>2, FinishUnwindSession DEF ConnectRaises, Unwind
    <3> QED
      BY <3>1, <3>2
  <2>14. ASSUME NEW c \in Connects, Undone(c) PROVE SessionInv'
    BY <2>14, FinishUnwindSession DEF Undone
  <2>15. ASSUME NEW c \in Connects, UndoInterrupted(c) PROVE SessionInv'
    BY <2>15, FinishUnwindSession DEF UndoInterrupted
  <2>16. ASSUME NEW c \in Connects, Resolve(c) PROVE SessionInv'
    BY <2>16 DEF Resolve
  <2>17. ASSUME NEW c \in Connects, TakeServices(c) PROVE SessionInv'
    BY <2>17 DEF TakeServices
  <2>ask. ASSUME NEW c \in Connects, AskManager(c) PROVE SessionInv'
    BY <2>ask DEF AskManager, AskServices
  <2>18. ASSUME NEW d \in Disconnects, DisconnectNoBus(d) PROVE SessionInv'
    BY <2>18 DEF DisconnectNoBus, MayStart, Kind
  <2>19. ASSUME NEW d \in Disconnects, DisconnectJoin(d) PROVE SessionInv'
    BY <2>19 DEF DisconnectJoin, MayStart, Kind
  <2>20. ASSUME NEW d \in Disconnects, DisconnectSend(d) PROVE SessionInv'
    BY <2>20 DEF DisconnectSend, MayStart, Kind
  <2>21. ASSUME NEW d \in Disconnects, DisconnectOnClosedBus(d) PROVE SessionInv'
    BY <2>21 DEF DisconnectOnClosedBus, MayStart, Kind
  <2>22. ASSUME NEW d \in Disconnects, DisconnectIdle(d) PROVE SessionInv'
    BY <2>22 DEF DisconnectIdle, CloseBus, MayStart, Kind
  <2>23. ASSUME NEW d \in Disconnects, DisconnectOk(d) PROVE SessionInv'
    BY <2>23 DEF DisconnectOk
  <2>24. ASSUME NEW d \in Disconnects, DisconnectSeen(d) PROVE SessionInv'
    BY <2>24 DEF DisconnectSeen, CloseBus
  <2>25. ASSUME NEW d \in Disconnects, DisconnectFails(d) PROVE SessionInv'
    BY <2>25 DEF DisconnectFails, DisconnectLeaves
  <2>26. ASSUME NEW d \in Disconnects, DisconnectTimeout(d) PROVE SessionInv'
    BY <2>26 DEF DisconnectTimeout, DisconnectLeaves
  <2>27. ASSUME NEW d \in Disconnects, DisconnectCancelled(d) PROVE SessionInv'
    BY <2>27 DEF DisconnectCancelled, DisconnectLeaves
  <2>28. ASSUME NEW d \in Disconnects, DisconnectClosed(d) PROVE SessionInv'
    BY <2>28 DEF DisconnectClosed, Sanity
  <2>29. ASSUME NEW d \in Disconnects, CloseCancelled(d) PROVE SessionInv'
    BY <2>29 DEF CloseCancelled
  <2>30. ASSUME NEW d \in Disconnects, JoinSeen(d) PROVE SessionInv'
    BY <2>30 DEF JoinSeen, Sanity
  <2>31. ASSUME NEW d \in Disconnects, JoinTimeout(d) PROVE SessionInv'
    BY <2>31 DEF JoinTimeout
  <2>32. ASSUME NEW a \in Attempts, MonitorEnds(a) PROVE SessionInv'
    BY <2>32 DEF MonitorEnds
  <2>33. CASE SeeDown
    BY <2>33 DEF SeeDown, OnDisconnected, CleanupAll, WakeDiscovery
  <2>34. CASE SeeRemoved
    BY <2>34 DEF SeeRemoved, WakeDiscovery
  <2>35. CASE SeeUp
    BY <2>35 DEF SeeUp
  <2>36. CASE SeeAdded
    BY <2>36 DEF SeeAdded
  <2>37. CASE BlueZStep
    BY <2>37 DEF BlueZStep, ServeConnect, ServeDisconnect, LinkLost, DeviceRemoved, DeviceAdded
  <2>38. CASE UNCHANGED vars
    BY <2>38 DEF vars
  <2> QED
    BY <2>1, <2>2, <2>3, <2>4, <2>5, <2>6, <2>7, <2>8, <2>9, <2>10, <2>11, <2>12, <2>13, <2>14,
       <2>15, <2>16, <2>17, <2>ask, <2>18, <2>19, <2>20, <2>21, <2>22, <2>23, <2>24, <2>25,
       <2>26, <2>27, <2>28, <2>29, <2>30, <2>31, <2>32, <2>33, <2>34, <2>35, <2>36, <2>37, <2>38
       DEF Next, ConnectStep, ConnectRuns, DisconnectStep, HandleSignal
<1> QED
  BY <1>1, <1>2, TypeInvariant, PTL DEF Spec

\* So no session outlives its watcher's owner, and no monitor task waits for ever.
THEOREM SessionsAreReleased == NoOverlap => (Spec => [](WatcherTracked /\ MonitorReleased))
<1> SUFFICES ASSUME NoOverlap PROVE Spec => [](WatcherTracked /\ MonitorReleased)
  OBVIOUS
<1>1. SessionInv => WatcherTracked /\ MonitorReleased
  BY DEF SessionInv
<1> QED
  BY <1>1, SessionInvariant, PTL

-----------------------------------------------------------------------------
\* How a session ends, attempt by attempt: the inductive form of the properties below.

\* A watcher has fired only for an attempt that is over or that watches the device.
FiredOver ==
    \A c \in Connects, n \in 1..MaxTries : <<c, n>> \in fired =>
        n < try[c] \/ (n = try[c] /\ pc[c] \notin {"idle", "prepare", "bus"})

\* The session the client tracks is one that has not been reported, of a connect() that
\* is running or has returned.
TrackedLive ==
    \A c \in Connects, n \in 1..MaxTries : removeWatcher = <<c, n>> =>
        n = try[c] /\ <<c, n>> \notin fired /\ (HoldsWatcher(c) \/ pc[c] = "ok")

\* A session that has not been reported is the one the client tracks.
LiveTracked ==
    \A c \in Connects : HoldsWatcher(c) \/ pc[c] = "ok" =>
        removeWatcher = Att(c) \/ Att(c) \in fired

\* What a disconnect() finds once its event is set and while it closes the bus.
DisconnectSees ==
    \A d \in Disconnects :
        /\ pc[d] = "close" => ~isConn /\ discEvent = None
        /\ pc[d] \in {"call", "event"} => bus # None
        /\ pc[d] \in {"call", "event"} /\ d \in discSet =>
              ~isConn /\ services = None /\ monitor = None

LossInv == FiredOver /\ TrackedLive /\ LiveTracked /\ DisconnectSees

\* Leaving the exit stack keeps LossInv.
LEMMA FinishUnwindLoss ==
  ASSUME TypeOK, SessionInv, LossInv, NEW c \in Connects, NEW why \in {"retry", "raise"},
         FinishUnwind(c, why), HoldsWatcher(c), UNCHANGED <<fired, discEvent, discSet>>
  PROVE  LossInv'
<1> USE CallsAssumption, BoundsAssumption, AttType
    DEF LossInv, SessionInv, HoldsWatcher, Running, Finished, TypeOK, CallTypeOK, Calls,
       Att,
        Goto, FinishUnwind, CleanupAll
<1>1. removeWatcher' = None
  OBVIOUS
<1>2. \/ pc' = [pc EXCEPT ![c] = "raised"] /\ try' = try
      \/ pc' = [pc EXCEPT ![c] = "bus"] /\ try' = [try EXCEPT ![c] = @ + 1]
  OBVIOUS
<1>3. FiredOver'
  BY <1>2 DEF FiredOver
<1>4. TrackedLive'
  BY <1>1 DEF TrackedLive
<1>5. LiveTracked'
  <2>1. \A x \in Connects \ {c} : ~HoldsWatcher(x)
    OBVIOUS
  <2>2. \A x \in Connects : x # c => pc'[x] = pc[x] /\ try'[x] = try[x]
    BY <1>2
  <2>4. pc'[c] # "ok" /\ ~HoldsWatcher(c)'
    BY <1>2
  <2>3. \A x \in Connects : pc[x] = "ok" => removeWatcher # Att(x)
    <3>1. removeWatcher \in {None, Att(c)}
      OBVIOUS
    <3> QED
      BY <3>1
  <2> QED
    BY <2>1, <2>2, <2>3, <2>4 DEF LiveTracked
<1>6. DisconnectSees'
  BY <1>2 DEF DisconnectSees
<1> QED
  BY <1>3, <1>4, <1>5, <1>6

\* Without overlapping calls every step keeps LossInv.
LEMMA LossStep ==
  ASSUME NoOverlap, TypeOK, SessionInv, LossInv, [Next]_vars
  PROVE  LossInv'
<1> USE CallsAssumption, BoundsAssumption, AttType
    DEF NoOverlap, LossInv, FiredOver, TrackedLive, LiveTracked, DisconnectSees,
        SessionInv, WatcherTracked, OneDisconnecting, HoldsWatcher, Running, Finished,
        TypeOK, CallTypeOK, ClientTypeOK, Calls, Attempts, Ref, Att, Goto, allButPc,
        fields, objects, manager
<1>1. ASSUME NEW c \in Connects, StartConnect(c) PROVE LossInv'
  BY <1>1 DEF StartConnect, MayStart, Kind, IsConnected
<1>2. ASSUME NEW c \in Connects, PrepareFails(c) PROVE LossInv'
  BY <1>2 DEF PrepareFails
<1>3. ASSUME NEW c \in Connects, NewBus(c) PROVE LossInv'
  BY <1>3 DEF NewBus
<1>4. ASSUME NEW c \in Connects, BusFails(c) PROVE LossInv'
  BY <1>4 DEF BusFails
<1>5. ASSUME NEW c \in Connects, WatcherFails(c) PROVE LossInv'
  <2>1. pc' = [pc EXCEPT ![c] = "raised"] /\ removeWatcher' = None /\ UNCHANGED <<try, fired>>
    BY <1>5 DEF WatcherFails, CleanupAll
  <2>2. FiredOver'
    <3>1. <<c, try[c]>> \notin fired
      BY <1>5 DEF WatcherFails
    <3> QED
      BY <2>1, <3>1
  <2>5. TrackedLive'
    BY <2>1
  <2>3. LiveTracked'
    BY <1>5, <2>1 DEF WatcherFails
  <2>4. DisconnectSees'
    BY <1>5, <2>1 DEF WatcherFails
  <2> QED
    BY <2>2, <2>3, <2>4, <2>5
<1>6. ASSUME NEW c \in Connects, BusCleared(c) PROVE LossInv'
  BY <1>6 DEF BusCleared
<1>7. ASSUME NEW c \in Connects, SendConnect(c) PROVE LossInv'
  BY <1>7 DEF SendConnect, Watch
<1>8. ASSUME NEW c \in Connects, SkipConnect(c) PROVE LossInv'
  BY <1>8 DEF SkipConnect, GetServices, AskServices, Watch, BecomeConnected
<1>9. ASSUME NEW c \in Connects, ConnectOk(c) PROVE LossInv'
  BY <1>9 DEF ConnectOk, GetServices, AskServices, BecomeConnected
<1>10. ASSUME NEW c \in Connects, ConnectOkTooLate(c) PROVE LossInv'
  <2>1. CASE bus # None /\ bus \in open
    BY <1>10, <2>1 DEF ConnectOkTooLate, BecomeConnected, Unwind
  <2>2. CASE ~(bus # None /\ bus \in open)
    <3>1. FinishUnwind(c, "raise")
      BY <1>10, <2>2 DEF ConnectOkTooLate, Unwind
    <3> QED
      BY <1>10, <3>1, FinishUnwindLoss DEF ConnectOkTooLate, Unwind
  <2> QED
    BY <2>1, <2>2
<1>11. ASSUME NEW c \in Connects, ConnectAborts(c) PROVE LossInv'
  BY <1>11 DEF ConnectAborts
<1>12. ASSUME NEW c \in Connects, Retry(c) PROVE LossInv'
  <2>1. CASE bus # None /\ bus \in open
    BY <1>12, <2>1 DEF Retry, BecomeConnected, Unwind
  <2>2. CASE ~(bus # None /\ bus \in open)
    <3>1. FinishUnwind(c, "retry")
      BY <1>12, <2>2 DEF Retry, Unwind
    <3> QED
      BY <1>12, <3>1, FinishUnwindLoss DEF Retry, Unwind
  <2> QED
    BY <2>1, <2>2
<1>13. ASSUME NEW c \in Connects, ConnectRaises(c) PROVE LossInv'
  <2>1. CASE bus # None /\ bus \in open
    BY <1>13, <2>1 DEF ConnectRaises, BecomeConnected, Unwind
  <2>2. CASE ~(bus # None /\ bus \in open)
    <3>1. FinishUnwind(c, "raise")
      BY <1>13, <2>2 DEF ConnectRaises, Unwind
    <3> QED
      BY <1>13, <3>1, FinishUnwindLoss DEF ConnectRaises, Unwind
  <2> QED
    BY <2>1, <2>2
<1>14. ASSUME NEW c \in Connects, Undone(c) PROVE LossInv'
  <2>1. FinishUnwind(c, leaving[c]) /\ leaving[c] \in {"retry", "raise"}
    BY <1>14 DEF Undone
  <2> QED
    BY <1>14, <2>1, FinishUnwindLoss DEF Undone
<1>15. ASSUME NEW c \in Connects, UndoInterrupted(c) PROVE LossInv'
  <2>1. FinishUnwind(c, "raise") /\ "raise" \in {"retry", "raise"}
    BY <1>15 DEF UndoInterrupted
  <2> QED
    BY <1>15, <2>1, FinishUnwindLoss DEF UndoInterrupted
<1>16. ASSUME NEW c \in Connects, Resolve(c) PROVE LossInv'
  BY <1>16 DEF Resolve
<1>17. ASSUME NEW c \in Connects, TakeServices(c) PROVE LossInv'
  BY <1>17 DEF TakeServices
<1>18. ASSUME NEW c \in Connects, AskManager(c) PROVE LossInv'
  BY <1>18 DEF AskManager, AskServices
<1>19. ASSUME NEW d \in Disconnects, DisconnectNoBus(d) PROVE LossInv'
  BY <1>19 DEF DisconnectNoBus
<1>20. ASSUME NEW d \in Disconnects, DisconnectJoin(d) PROVE LossInv'
  BY <1>20 DEF DisconnectJoin
<1>21. ASSUME NEW d \in Disconnects, DisconnectSend(d) PROVE LossInv'
  BY <1>21 DEF DisconnectSend
<1>22. ASSUME NEW d \in Disconnects, DisconnectOnClosedBus(d) PROVE LossInv'
  BY <1>22 DEF DisconnectOnClosedBus
<1>23. ASSUME NEW d \in Disconnects, DisconnectIdle(d) PROVE LossInv'
  BY <1>23 DEF DisconnectIdle, CloseBus
<1>24. ASSUME NEW d \in Disconnects, DisconnectOk(d) PROVE LossInv'
  BY <1>24 DEF DisconnectOk
<1>25. ASSUME NEW d \in Disconnects, DisconnectSeen(d) PROVE LossInv'
  BY <1>25 DEF DisconnectSeen, CloseBus
<1>26. ASSUME NEW d \in Disconnects, DisconnectFails(d) PROVE LossInv'
  BY <1>26 DEF DisconnectFails, DisconnectLeaves
<1>27. ASSUME NEW d \in Disconnects, DisconnectTimeout(d) PROVE LossInv'
  BY <1>27 DEF DisconnectTimeout, DisconnectLeaves
<1>28. ASSUME NEW d \in Disconnects, DisconnectCancelled(d) PROVE LossInv'
  BY <1>28 DEF DisconnectCancelled, DisconnectLeaves
<1>29. ASSUME NEW d \in Disconnects, DisconnectClosed(d) PROVE LossInv'
  BY <1>29 DEF DisconnectClosed, Sanity
<1>30. ASSUME NEW d \in Disconnects, CloseCancelled(d) PROVE LossInv'
  BY <1>30 DEF CloseCancelled
<1>31. ASSUME NEW d \in Disconnects, JoinSeen(d) PROVE LossInv'
  BY <1>31 DEF JoinSeen, Sanity
<1>32. ASSUME NEW d \in Disconnects, JoinTimeout(d) PROVE LossInv'
  BY <1>32 DEF JoinTimeout
<1>33. ASSUME NEW a \in Attempts, MonitorEnds(a) PROVE LossInv'
  BY <1>33 DEF MonitorEnds
<1>34. CASE SeeDown
  BY <1>34 DEF SeeDown, OnDisconnected, CleanupAll, WakeDiscovery
<1>35. CASE SeeRemoved
  BY <1>35 DEF SeeRemoved, WakeDiscovery
<1>36. CASE SeeUp
  BY <1>36 DEF SeeUp
<1>37. CASE SeeAdded
  BY <1>37 DEF SeeAdded
<1>38. CASE BlueZStep
  BY <1>38 DEF BlueZStep, ServeConnect, ServeDisconnect, LinkLost, DeviceRemoved,
     DeviceAdded
<1>39. CASE UNCHANGED vars
  BY <1>39 DEF vars
<1> QED
  BY <1>1, <1>2, <1>3, <1>4, <1>5, <1>6, <1>7, <1>8, <1>9, <1>10, <1>11, <1>12, <1>13,
       <1>14, <1>15, <1>16, <1>17, <1>18, <1>19, <1>20, <1>21, <1>22, <1>23, <1>24, <1>25,
       <1>26, <1>27, <1>28, <1>29, <1>30, <1>31, <1>32, <1>33, <1>34, <1>35, <1>36, <1>37,
       <1>38, <1>39 DEF Next, ConnectStep, ConnectRuns, DisconnectStep, HandleSignal

\* Without overlapping calls each session ends once, and by being reported or by its own
\* connect() raising.
THEOREM LossInvariant == NoOverlap => (Spec => []LossInv)
<1> SUFFICES ASSUME NoOverlap PROVE Spec => []LossInv
  OBVIOUS
<1>1. Init => LossInv
  BY CallsAssumption DEF Init, LossInv, FiredOver, TrackedLive, LiveTracked, DisconnectSees,
     HoldsWatcher, Calls
<1>2. TypeOK /\ SessionInv /\ LossInv /\ [Next]_vars => LossInv'
  BY LossStep
<1> QED
  BY <1>1, <1>2, TypeInvariant, SessionInvariant, PTL DEF Spec

\* is_connected becomes false only in the signal handler.
LEMMA OnlySignalsDisconnect ==
  ASSUME NoOverlap, TypeOK, SessionInv, LossInv, [Next]_vars, IsConnected, ~IsConnected'
  PROVE  watchers # {} /\ OnDisconnected
<1> USE CallsAssumption, AttType
    DEF TypeOK, CallTypeOK, ClientTypeOK, Att, Attempts, IsConnected, allButPc, fields,
       objects, manager, bluez
<1>fu. ASSUME NEW c \in Connects, NEW why, FinishUnwind(c, why) PROVE bus' # None \/ bus' = bus
  <2>1. CASE try[c] < MaxTries /\ bus' = <<c, try[c] + 1>>
    <3>1. <<c, try[c] + 1>> \in Connects \X (1..MaxTries)
      BY <2>1, BoundsAssumption
    <3> QED
      BY <2>1, <3>1
  <2> QED
    BY <1>fu, <2>1 DEF FinishUnwind
<1>u. ASSUME NEW c \in Connects, NEW why, Unwind(c, why) PROVE bus' # None \/ bus' = bus
  BY <1>u, <1>fu DEF Unwind
<1>1. ASSUME NEW c \in Connects, ConnectStep(c) PROVE FALSE
  <2>1. isConn' = isConn \/ isConn' = TRUE
    BY <1>1 DEF ConnectStep, ConnectRuns, StartConnect, PrepareFails, NewBus, BusFails,
       WatcherFails, BusCleared, SendConnect, SkipConnect, ConnectOk, ConnectOkTooLate,
       ConnectAborts, Retry, ConnectRaises, Undone, UndoInterrupted, AskManager, Resolve,
       TakeServices, BecomeConnected
  <2>2. bus' # None \/ bus' = bus
    <3>1. CASE NewBus(c)
      BY <3>1 DEF NewBus
    <3>2. CASE \/ ConnectOkTooLate(c) \/ Retry(c) \/ ConnectRaises(c) \/ Undone(c)
               \/ UndoInterrupted(c)
      BY <3>2, <1>u, <1>fu DEF ConnectOkTooLate, Retry, ConnectRaises, Undone,
         UndoInterrupted
    <3> QED
      BY <1>1, <3>1, <3>2 DEF ConnectStep, ConnectRuns, StartConnect, PrepareFails,
         BusFails, WatcherFails, BusCleared, SendConnect, SkipConnect, ConnectOk,
         ConnectAborts, AskManager, Resolve, TakeServices
  <2> QED
    BY <2>1, <2>2
<1>2. ASSUME NEW d \in Disconnects, DisconnectStep(d) PROVE FALSE
  <2>1. CASE DisconnectClosed(d)
    BY <2>1 DEF DisconnectClosed, LossInv, DisconnectSees
  <2> QED
    BY <1>2, <2>1 DEF DisconnectStep, DisconnectNoBus, DisconnectJoin, DisconnectSend,
       DisconnectOnClosedBus, DisconnectIdle, DisconnectOk, DisconnectSeen, DisconnectFails,
       DisconnectTimeout, DisconnectCancelled, CloseCancelled, JoinSeen, JoinTimeout,
       DisconnectLeaves
<1>3. CASE SeeDown
  BY <1>3 DEF SeeDown
<1>4. CASE SeeRemoved \/ SeeUp \/ SeeAdded
  BY <1>4 DEF SeeRemoved, SeeUp, SeeAdded
<1>5. CASE (\E a \in Attempts : MonitorEnds(a)) \/ BlueZStep \/ UNCHANGED vars
  BY <1>5 DEF MonitorEnds, BlueZStep, ServeConnect, ServeDisconnect, LinkLost,
     DeviceRemoved, DeviceAdded, vars
<1> QED
  BY <1>1, <1>2, <1>3, <1>4, <1>5 DEF Next, HandleSignal

\* Without overlapping calls is_connected goes from true to false only in the step that
\* also calls the disconnected callback of the session (LossReported).
THEOREM LossIsReported == NoOverlap => (Spec => LossReported)
<1> SUFFICES ASSUME NoOverlap PROVE Spec => LossReported
  OBVIOUS
<1>3. TypeOK /\ SessionInv /\ LossInv /\ [Next]_vars
        => [IsConnected /\ ~IsConnected' => fired' # fired]_vars
  <2> SUFFICES ASSUME TypeOK, SessionInv, LossInv, [Next]_vars, IsConnected, ~IsConnected'
               PROVE  fired' # fired
    OBVIOUS
  <2>1. watchers # {} /\ fired' = fired \cup watchers
    BY OnlySignalsDisconnect DEF OnDisconnected
  <2>2. watchers \cap fired = {}
    <3>1. ASSUME removeWatcher # None PROVE removeWatcher \notin fired
      <4>1. removeWatcher \in Connects \X (1..MaxTries)
        BY <3>1 DEF TypeOK, ClientTypeOK, Ref, Attempts
      <4>2. /\ removeWatcher[1] \in Connects /\ removeWatcher[2] \in 1..MaxTries
            /\ removeWatcher = <<removeWatcher[1], removeWatcher[2]>>
        BY <4>1
      <4> QED
        BY <4>2 DEF LossInv, TrackedLive
    <3>2. removeWatcher # None => removeWatcher \notin fired
      BY <3>1
    <3> QED
      BY <3>2 DEF SessionInv, WatcherTracked
  <2> QED
    BY <2>1, <2>2
<1> QED
  BY <1>3, TypeInvariant, SessionInvariant, LossInvariant, PTL DEF Spec, LossReported

\* Without overlapping calls a disconnect() that waited for the signal finds the session
\* torn down (DisconnectSettled).
THEOREM DisconnectsSettle == NoOverlap => (Spec => DisconnectSettled)
<1> SUFFICES ASSUME NoOverlap PROVE Spec => DisconnectSettled
  OBVIOUS
<1>3. TypeOK /\ SessionInv /\ LossInv /\ [Next]_vars
        => [\A d \in Disconnects : pc[d] \in {"call", "event"} /\ pc'[d] = "close" =>
              ~isConn /\ watchers = {} /\ services = None /\ monitor = None]_vars
  <2> SUFFICES ASSUME TypeOK, SessionInv, LossInv, [Next]_vars,
                      NEW d \in Disconnects, pc[d] \in {"call", "event"}, pc'[d] = "close"
               PROVE  ~isConn /\ watchers = {} /\ services = None /\ monitor = None
    OBVIOUS
  <2>1. \E e \in Disconnects : DisconnectStep(e)
    BY OtherStepsKeepDisconnects DEF OneDisconnecting
  <2>2. PICK e \in Disconnects : DisconnectStep(e)
    BY <2>1
  <2>3. d \in discSet
    BY <2>2 DEF DisconnectStep, DisconnectNoBus, DisconnectJoin, DisconnectSend,
       DisconnectOnClosedBus, DisconnectIdle, DisconnectOk, DisconnectSeen, DisconnectFails,
       DisconnectTimeout, DisconnectCancelled, CloseCancelled, JoinSeen, JoinTimeout,
       DisconnectLeaves, DisconnectClosed, Sanity, CloseBus, Goto, TypeOK, CallTypeOK,
       Calls, allButPc
  <2> QED
    BY <2>3 DEF LossInv, DisconnectSees, SessionInv, WatcherTracked
<1> QED
  BY <1>3, TypeInvariant, SessionInvariant, LossInvariant, PTL DEF Spec, DisconnectSettled

-----------------------------------------------------------------------------
\* A step of one connect() moves that call alone.
LEMMA ConnectStepMoves ==
  ASSUME TypeOK, NEW c \in Connects, ConnectStep(c)
  PROVE  /\ fired' = fired
         /\ \A x \in Connects \ {c} : pc'[x] = pc[x] /\ try'[x] = try[x]
         /\ pc[c] \notin {"ok", "raised"} /\ pc'[c] # "idle"
         /\ pc[c] = "idle" => StartConnect(c)
<1> DEFINE Moves == /\ fired' = fired
                    /\ \A x \in Connects \ {c} : pc'[x] = pc[x] /\ try'[x] = try[x]
                    /\ pc[c] \notin {"ok", "raised"} /\ pc'[c] # "idle"
                    /\ pc[c] = "idle" => StartConnect(c)
<1> USE DEF TypeOK, CallTypeOK, Calls, Goto, allButPc
<1>fu. ASSUME NEW why, FinishUnwind(c, why), UNCHANGED fired
       PROVE  /\ \A x \in Connects \ {c} : pc'[x] = pc[x] /\ try'[x] = try[x]
              /\ pc'[c] # "idle"
  BY <1>fu DEF FinishUnwind
<1>u. ASSUME NEW why, Unwind(c, why), UNCHANGED fired
      PROVE  /\ \A x \in Connects \ {c} : pc'[x] = pc[x] /\ try'[x] = try[x]
             /\ pc'[c] # "idle"
  BY <1>u, <1>fu DEF Unwind
<1>1. CASE StartConnect(c)
  BY <1>1 DEF StartConnect
<1>2. CASE \/ ConnectOkTooLate(c) \/ Retry(c) \/ ConnectRaises(c)
  BY <1>2, <1>u DEF ConnectOkTooLate, Retry, ConnectRaises
<1>3. CASE Undone(c) \/ UndoInterrupted(c)
  BY <1>3, <1>fu DEF Undone, UndoInterrupted
<1>4. CASE PrepareFails(c) \/ NewBus(c) \/ BusFails(c) \/ WatcherFails(c) \/ BusCleared(c)
           \/ SendConnect(c)
  BY <1>4 DEF PrepareFails, NewBus, BusFails, WatcherFails, BusCleared, SendConnect, Watch
<1>5. CASE SkipConnect(c) \/ ConnectOk(c)
  BY <1>5 DEF SkipConnect, ConnectOk, Watch, GetServices, AskServices
<1>6. CASE ConnectAborts(c) \/ AskManager(c) \/ Resolve(c) \/ TakeServices(c)
  BY <1>6 DEF ConnectAborts, AskManager, AskServices, Resolve, TakeServices
<1> QED
  BY <1>1, <1>2, <1>3, <1>4, <1>5, <1>6 DEF ConnectStep, ConnectRuns

\* The refinement mapping of SessionsInTurn.
PhaseBar == [c \in Connects |-> Phase(c)]

\* Every step of the client is a step of Session or leaves its phases alone.
LEMMA PhaseStep ==
  ASSUME NoOverlap, TypeOK, TypeOK', SessionInv, LossInv, LossInv', [Next]_vars
  PROVE  [Sessions!Next]_PhaseBar
<1> USE CallsAssumption, AttType DEF TypeOK, CallTypeOK, Calls
<1>1. ASSUME NEW c \in Connects, ConnectStep(c) PROVE [Sessions!Next]_PhaseBar
  <2>1. \A x \in Connects \ {c} : Phase(x)' = Phase(x)
    BY <1>1, ConnectStepMoves DEF Phase, Att
  <2>2. PhaseBar' = [PhaseBar EXCEPT ![c] = Phase(c)']
    BY <2>1 DEF PhaseBar
  <2>3. CASE StartConnect(c)
    <3>1. CASE pc'[c] = "raised"
      <4>1. Sessions!Refuse(c)
        BY <2>2, <2>3, <3>1 DEF StartConnect, Phase, PhaseBar, Sessions!Refuse,
           Sessions!Become
      <4> QED
        BY <4>1 DEF Sessions!Next
    <3>2. CASE pc'[c] = "prepare"
      <4>1. ~IsConnected /\ \A x \in Connects \ {c} : ~Running(x)
        BY <2>3, <3>2 DEF StartConnect, MayStart, Kind, NoOverlap, Goto
      <4>2. \A x \in Connects \ {c} : Phase(x) \notin {"trying", "open"}
        <5> SUFFICES ASSUME NEW x \in Connects \ {c} PROVE Phase(x) \notin {"trying", "open"}
          OBVIOUS
        <5>1. CASE pc[x] = "ok"
          <6>1. Att(x) \in fired
            <7> SUFFICES ASSUME Att(x) \notin fired PROVE FALSE
              OBVIOUS
            <7>1. removeWatcher = Att(x) /\ Att(x) # None
              BY <5>1 DEF LossInv, LiveTracked, Attempts
            <7>2. bus # None /\ ~isConn
              BY <4>1, <7>1 DEF SessionInv, IsConnected
            <7>3. PICK y \in Connects : pc[y] \in {"call", "retry", "undo"}
              BY <7>1, <7>2 DEF SessionInv
            <7>4. removeWatcher \in {None, Att(y)}
              BY <7>3 DEF SessionInv, HoldsWatcher
            <7> QED
              BY <5>1, <7>1, <7>3, <7>4 DEF Att
          <6> QED
            BY <5>1, <6>1 DEF Phase
        <5>2. CASE pc[x] # "ok"
          BY <4>1, <5>2 DEF Phase, Running, Finished, ConnectPC
        <5> QED
          BY <5>1, <5>2
      <4>3. pc[c] = "idle" /\ Phase(c) = "idle" /\ Phase(c)' = "trying"
        BY <2>3, <3>2 DEF StartConnect, Phase
      <4>4. Sessions!Try(c)
        BY <2>2, <4>2, <4>3 DEF PhaseBar, Sessions!Try, Sessions!Become, Sessions!Alive
      <4> QED
        BY <4>4 DEF Sessions!Next
    <3> QED
      BY <2>3, <3>1, <3>2 DEF StartConnect, Goto
  <2>4. CASE ~StartConnect(c)
    <3>1. Phase(c) = "trying"
      BY <1>1, <2>4, ConnectStepMoves DEF Phase
    <3>2. Phase(c)' \in {"trying", "failed", "open", "reported"}
      BY <1>1, ConnectStepMoves DEF Phase
    <3>3. CASE Phase(c)' = "trying"
      <4>1. \A x \in Connects : Phase(x)' = Phase(x)
        BY <2>1, <3>1, <3>3
      <4> QED
        BY <4>1 DEF PhaseBar
    <3>4. CASE Phase(c)' # "trying"
      <4>1. Sessions!Fail(c) \/ Sessions!Open(c) \/ Sessions!Report(c)
        BY <2>2, <3>1, <3>2, <3>4
           DEF PhaseBar, Sessions!Fail, Sessions!Open, Sessions!Report, Sessions!Become,
               Sessions!Alive
      <4> QED
        BY <4>1 DEF Sessions!Next
    <3> QED
      BY <3>3, <3>4
  <2> QED
    BY <2>3, <2>4
<1>2. ASSUME fired' = fired, \A x \in Connects : pc'[x] = pc[x] /\ try'[x] = try[x]
      PROVE  PhaseBar' = PhaseBar
  BY <1>2 DEF PhaseBar, Phase, Att
<1>3. ASSUME NEW d \in Disconnects, DisconnectStep(d) PROVE PhaseBar' = PhaseBar
  BY <1>2, <1>3 DEF DisconnectStep, DisconnectNoBus, DisconnectJoin, DisconnectSend,
     DisconnectOnClosedBus, DisconnectIdle, DisconnectOk, DisconnectSeen, DisconnectFails,
     DisconnectTimeout, DisconnectCancelled, CloseCancelled, JoinSeen, JoinTimeout,
     DisconnectLeaves, DisconnectClosed, Sanity, CloseBus, Goto, allButPc
<1>4. CASE SeeDown
  <2>1. try' = try
    BY <1>4 DEF SeeDown
  <2>2. \A x \in Connects : \/ pc'[x] = pc[x]
                            \/ pc[x] \in {"discover", "resolved"} /\ pc'[x] = "lost"
    BY <1>4 DEF SeeDown, WakeDiscovery
  <2>3. fired' = fired \/ fired' = fired \cup watchers
    BY <1>4 DEF SeeDown, OnDisconnected
  <2>4. \A x \in Connects : Phase(x)' = IF pc[x] = "ok" /\ Att(x) \in fired'
                                         THEN "reported" ELSE Phase(x)
    BY <2>1, <2>2, <2>3 DEF Phase, Att
  <2>5. CASE \E x \in Connects : Phase(x)' # Phase(x)
    <3>1. PICK c \in Connects : Phase(c)' # Phase(c)
      BY <2>5
    <3>2. pc[c] = "ok" /\ Att(c) \in watchers /\ Phase(c) = "open" /\ Phase(c)' = "reported"
      BY <2>3, <2>4, <3>1 DEF Phase
    <3>3. \A x \in Connects \ {c} : Phase(x)' = Phase(x)
      <4>1. watchers = {Att(c)}
        BY <3>2 DEF SessionInv, WatcherTracked
      <4>2. \A x \in Connects \ {c} : Att(x) \notin watchers
        BY <4>1 DEF Att
      <4> QED
        BY <2>3, <2>4, <4>2 DEF Phase
    <3>4. Sessions!Report(c)
      BY <3>2, <3>3 DEF PhaseBar, Sessions!Report, Sessions!Become, Sessions!Alive
    <3> QED
      BY <3>4 DEF Sessions!Next
  <2>6. CASE \A x \in Connects : Phase(x)' = Phase(x)
    BY <2>6 DEF PhaseBar
  <2> QED
    BY <2>5, <2>6
<1>5. CASE SeeRemoved
  <2>1. \A x \in Connects : Phase(x)' = Phase(x)
    BY <1>5 DEF SeeRemoved, WakeDiscovery, Phase, Att
  <2> QED
    BY <2>1 DEF PhaseBar
<1>6. CASE SeeUp \/ SeeAdded \/ (\E a \in Attempts : MonitorEnds(a)) \/ BlueZStep
  BY <1>2, <1>6 DEF SeeUp, SeeAdded, MonitorEnds, BlueZStep, ServeConnect, ServeDisconnect,
     LinkLost, DeviceRemoved, DeviceAdded
<1>7. CASE UNCHANGED vars
  BY <1>2, <1>7 DEF vars
<1> QED
  BY <1>1, <1>3, <1>4, <1>5, <1>6, <1>7 DEF Next, HandleSignal

\* Without overlapping calls the client implements Session (SessionsInTurn): no session
\* begins before the last one has been reported or has failed.
THEOREM SessionsRefine == NoOverlap => (Spec => SessionsInTurn)
<1> SUFFICES ASSUME NoOverlap PROVE Spec => SessionsInTurn
  OBVIOUS
<1>3. Init => Sessions!Init
  BY DEF Init, Sessions!Init, Phase, Calls
<1>4. TypeOK /\ TypeOK' /\ SessionInv /\ LossInv /\ LossInv' /\ [Next]_vars
        => [Sessions!Next]_PhaseBar
  BY PhaseStep
<1> QED
  BY <1>3, <1>4, TypeInvariant, SessionInvariant, LossInvariant, PTL DEF Spec,
     SessionsInTurn, Sessions!Spec, PhaseBar
=============================================================================
