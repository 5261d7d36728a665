---------------------------- MODULE CBRequestsProofs ----------------------------
(***************************************************************************)
(* Theorems about CBRequests, for any calls, any programs and any bounds.   *)
(***************************************************************************)
EXTENDS CBRequests, SequenceTheorems, TLAPS

Notification == <<"value", "notification">>

\* What CoreBluetooth reports.
EventTypes ==
    {<<"disconnected">>} \cup ({"value"} \X {"answer", "notification", "error"})
        \cup ((Slots \ {"read"}) \X {"ok", "error"})

QueueTypes == wire \in Seq(Calls) /\ events \in Seq(EventTypes)

\* A future is only in the place of its kind.
SlotsOwn == \A s \in Slots : slot[s] # None => SlotOf(slot[s]) = s

TypeInv == TypeOK /\ QueueTypes /\ SlotsOwn

\* The entries of a queue whose first one has been taken.
LEMMA Taken ==
  ASSUME NEW S, NEW s \in Seq(S), s # <<>>
  PROVE  /\ Head(s) \in S /\ Head(s) = s[1]
         /\ Tail(s) \in Seq(S) /\ Len(s) \in Nat /\ Len(s) >= 1 /\ Len(Tail(s)) = Len(s) - 1
         /\ \A i \in 1..Len(Tail(s)) : i + 1 \in 1..Len(s) /\ Tail(s)[i] = s[i + 1]
BY HeadTailProperties

\* The entries of a queue that has one more.
LEMMA Added ==
  ASSUME NEW S, NEW s \in Seq(S), NEW e \in S
  PROVE  /\ Append(s, e) \in Seq(S) /\ Len(s) \in Nat /\ Len(Append(s, e)) = Len(s) + 1
         /\ \A i \in 1..Len(s) : Append(s, e)[i] = s[i]
         /\ Append(s, e)[Len(s) + 1] = e
BY AppendProperties

\* Every variable keeps its type, a future in its place is that of a call that waits, and
\* CoreBluetooth reports what is in EventTypes.
THEOREM TypeInvariant == Spec => []TypeInv
<1> USE CallsAssumption, OptionsAssumption
<1>1. Init => TypeInv
  <2> SUFFICES ASSUME Init PROVE TypeInv
    OBVIOUS
  <2>1. \A x \in Calls : SlotOf(x) \in Slots
    BY DEF Init, Kinds, Slots, SlotOf
  <2>2. \A x \in Calls : pc[x] # "wait" /\ slot[SlotOf(x)] # x
    BY <2>1 DEF Init
  <2>3. wire \in Seq(Calls) /\ events \in Seq(EventTypes)
    BY DEF Init
  <2> QED
    BY <2>2, <2>3 DEF Init, TypeInv, TypeOK, QueueTypes, SlotsOwn, Future
<1>2. TypeInv /\ [Next]_vars => TypeInv'
  <2> SUFFICES ASSUME TypeInv, [Next]_vars PROVE TypeInv'
    OBVIOUS
  <2> USE DEF TypeInv, TypeOK, QueueTypes, SlotsOwn, calls, system
  <2>s. \A x \in Calls : kind[x] \in Kinds /\ SlotOf(x) \in Slots
    BY DEF Kinds, Slots, SlotOf
  <2>e. \A x \in Calls : kind[x] # "read" => SlotOf(x) \in Slots \ {"read"}
    BY <2>s DEF Kinds, Slots, SlotOf
  <2>1. ASSUME NEW x \in Calls, May(x), Request(x), callbacks' \in BOOLEAN
        PROVE  TypeInv'
    <3>1. TypeOK'
      BY <2>1, <2>s DEF May, Request, SlotOf, Future
    <3>2. QueueTypes'
      BY <2>1, Added DEF Request
    <3>3. SlotsOwn'
      BY <2>1, <2>s DEF Request, SlotOf
    <3> QED
      BY <3>1, <3>2, <3>3
  <2>2. ASSUME NEW x \in Calls, Refuse(x), May(x) PROVE TypeInv'
    BY <2>2, <2>s DEF Refuse, SlotOf, May
  <2>3. ASSUME NEW x \in Calls, Method(x) PROVE TypeInv'
    BY <2>1, <2>2, <2>3 DEF Method, ReadOrWrite, ReadOrWriteDescriptor, ReadRSSI,
       StartNotifications, StopNotifications, AlreadyStarted, NeverStarted
  <2>4. ASSUME NEW x \in Calls, Resume(x) PROVE TypeInv'
    BY <2>4, <2>s DEF Resume, SlotOf
  <2>5. ASSUME NEW x \in Calls, GiveUp(x) PROVE TypeInv'
    BY <2>5 DEF GiveUp, SlotOf, Future
  <2>6. ASSUME NEW name, Handle(name)
        PROVE  /\ QueueTypes' /\ Head(events) \in EventTypes
               /\ UNCHANGED <<kind, pc, slot, callbacks, connected, notifying>>
    BY <2>6, Taken DEF Handle
  <2>7. ASSUME NEW s \in Slots, NEW value \in Future, Resolve(s, value)
        PROVE  future' \in [Calls -> Future]
    BY <2>7 DEF Resolve
  <2>8. CASE DidUpdateValue
    <3>1. QueueTypes' /\ Head(events) \in EventTypes /\ Head(events)[1] = "value"
      BY <2>6, <2>8 DEF DidUpdateValue, Handle
    <3>2. Head(events)[2] \in {"answer", "notification", "error"}
      BY <3>1 DEF EventTypes, Slots
    <3>3. future' \in [Calls -> Future]
      <4>1. "read" \in Slots /\ Head(events)[2] \in Future
        BY <3>2 DEF Slots, Future
      <4>2. Resolve("read", Head(events)[2]) \/ UNCHANGED future
        BY <2>8 DEF DidUpdateValue
      <4> QED
        BY <2>7, <4>1, <4>2
    <3>4. received' \subseteq {"answer", "notification"}
      <4>1. \/ received' = received
            \/ Head(events)[2] # "error" /\ received' = received \cup {Head(events)[2]}
        BY <2>8 DEF DidUpdateValue
      <4>2. received \subseteq {"answer", "notification"}
        OBVIOUS
      <4> HIDE DEF TypeInv, TypeOK, QueueTypes, SlotsOwn
      <4> QED
        BY <3>2, <4>1, <4>2
    <3> QED
      BY <2>6, <2>8, <3>1, <3>3, <3>4 DEF DidUpdateValue, SlotOf
  <2>9. ASSUME NEW s \in Slots \ {"read"}, Handle(s), Resolve(s, Head(events)[2]),
               UNCHANGED received
        PROVE  TypeInv'
    <3>1. QueueTypes' /\ Head(events) \in EventTypes /\ Head(events)[1] = s
      BY <2>6, <2>9 DEF Handle
    <3>2. Head(events)[2] \in {"ok", "error"}
      BY <3>1 DEF EventTypes, Slots
    <3>3. future' \in [Calls -> Future]
      BY <2>7, <2>9, <3>2 DEF Future
    <3> QED
      BY <2>6, <2>9, <3>1, <3>3 DEF SlotOf
  <2>10. CASE DidWriteValue \/ DidUpdateNotification \/ DidReadOrWriteDescriptor \/ DidReadRSSI
    BY <2>9, <2>10 DEF DidWriteValue, DidUpdateNotification, DidReadOrWriteDescriptor,
       DidReadRSSI, Slots
  <2>11. CASE DidDisconnect
    <3>1. QueueTypes' /\ UNCHANGED <<kind, pc, slot, callbacks, connected, notifying, received>>
      BY <2>6, <2>11 DEF DidDisconnect
    <3>2. future' \in [Calls -> Future]
      BY <2>11 DEF DidDisconnect, Future
    <3> QED
      BY <3>1, <3>2 DEF SlotOf
  <2>12. CASE Serve
    <3>1. wire # <<>> /\ Head(wire) \in Calls /\ wire' \in Seq(Calls)
      BY <2>12, Taken DEF Serve
    <3>2. PICK v \in {"answer", "ok", "error"} :
             /\ Report(Head(wire), v)
             /\ v # "error" => (v = "answer" <=> kind[Head(wire)] = "read")
      BY <2>12 DEF Serve
    <3>3. <<IF kind[Head(wire)] = "read" THEN "value" ELSE SlotOf(Head(wire)), v>> \in EventTypes
      BY <2>e, <3>1, <3>2 DEF EventTypes
    <3>4. events' \in Seq(EventTypes)
      BY <3>2, <3>3, Added DEF Report
    <3>5. notifying' \in BOOLEAN
      BY <2>12 DEF Serve
    <3> QED
      BY <2>12, <3>1, <3>4, <3>5 DEF Serve, SlotOf
  <2>13. CASE Notify
    <3>1. <<"value", "notification">> \in EventTypes
      BY DEF EventTypes
    <3> QED
      BY <2>13, <3>1, Added DEF Notify, SlotOf
  <2>14. CASE LinkLost
    <3>1. <<"disconnected">> \in EventTypes
      BY DEF EventTypes
    <3>2. events' \in Seq(EventTypes) /\ wire' \in Seq(Calls)
      BY <2>14, <3>1, Added DEF LinkLost
    <3> QED
      BY <2>14, <3>2 DEF LinkLost, SlotOf
  <2>15. CASE Reconnected
    BY <2>15 DEF Reconnected, SlotOf
  <2>16. CASE UNCHANGED vars
    BY <2>16 DEF vars, SlotOf
  <2> QED
    BY <2>3, <2>4, <2>5, <2>8, <2>10, <2>11, <2>12, <2>13, <2>14, <2>15, <2>16
       DEF Next, Callback
<1> QED
  BY <1>1, <1>2, PTL DEF Spec

-----------------------------------------------------------------------------
\* A start or a stop that CoreBluetooth has still to serve is that of the call that waits,
\* and none is reported meanwhile.
WireInv ==
    /\ ~connected => wire = <<>> /\ ~notifying
    /\ \A i \in 1..Len(wire) : SlotOf(wire[i]) = "notify" =>
          /\ pc[wire[i]] = "wait" /\ future[wire[i]] = "pending"
          /\ \A j \in 1..Len(wire) : wire[j] = wire[i] => i = j
          /\ \A j \in 1..Len(events) : events[j][1] # "notify"

\* A disconnection is the last thing reported; a notification has a callback; the report of
\* a start or a stop is the only one, and nothing is sent after that of a stop.
EventInv ==
    \A i \in 1..Len(events) :
        /\ events[i][1] = "disconnected" => i = Len(events) /\ ~connected
        /\ events[i] = Notification => callbacks
        /\ events[i][1] = "notify" =>
              /\ slot["notify"] # None /\ future[slot["notify"]] = "pending"
              /\ \A j \in 1..Len(events) : events[j][1] = "notify" => i = j
        /\ events[i] = <<"notify", "ok">> /\ kind[slot["notify"]] = "stop" =>
              ~notifying /\ \A j \in 1..Len(events) : events[j] = Notification => j < i

\* The callback is there while a start waits, and nothing that is sent is still to come
\* when a stop has been answered.
StopInv ==
    \A x \in Calls : pc[x] = "wait" =>
        /\ kind[x] = "start" => callbacks
        /\ kind[x] = "stop" /\ future[x] = "ok" =>
              ~notifying /\ \A i \in 1..Len(events) : events[i] # Notification

NotifyInv == WireInv /\ EventInv /\ StopInv /\ NotifyingHasCallback

\* A start or stop that waits is the only one.
LEMMA OneNotifyCall ==
  ASSUME TypeInv
  PROVE  /\ \A x \in Calls : kind[x] \in Kinds /\ SlotOf(x) \in Slots
         /\ \A x \in Calls : SlotOf(x) = "notify" <=> kind[x] \in {"start", "stop"}
         /\ \A x \in Calls : pc[x] = "wait" /\ SlotOf(x) = "notify" => slot["notify"] = x
         /\ slot["notify"] # None =>
              /\ slot["notify"] \in Calls /\ pc[slot["notify"]] = "wait"
              /\ SlotOf(slot["notify"]) = "notify"
<1>1. \A x \in Calls : kind[x] \in Kinds
  BY CallsAssumption DEF TypeInv, TypeOK
<1>2. \A x \in Calls : /\ SlotOf(x) = "notify" <=> kind[x] \in {"start", "stop"}
                       /\ SlotOf(x) \in Slots
  BY <1>1 DEF SlotOf, Kinds, Slots
<1>3. \A x \in Calls : pc[x] = "wait" <=> slot[SlotOf(x)] = x
  BY DEF TypeInv, TypeOK
<1>4. slot["notify"] # None => slot["notify"] \in Calls /\ SlotOf(slot["notify"]) = "notify"
  BY DEF TypeInv, TypeOK, SlotsOwn, Slots
<1> QED
  BY <1>1, <1>2, <1>3, <1>4

LEMMA NotifyStep ==
  ASSUME ~Cancellable, TypeInv, TypeInv', NotifyInv, [Next]_vars
  PROVE  NotifyInv'
<1> USE CallsAssumption, OneNotifyCall DEF calls, system
<1> DEFINE n == Len(events)
           m == Len(wire)
<1>e. /\ n \in Nat /\ m \in Nat /\ wire \in Seq(Calls) /\ events \in Seq(EventTypes)
      /\ \A i \in 1..n : events[i] \in EventTypes
      /\ \A i \in 1..m : wire[i] \in Calls
  BY DEF TypeInv, QueueTypes
<1>1. ASSUME NEW x \in Calls, May(x), Request(x),
             callbacks' = (callbacks \/ kind[x] = "start"),
             kind[x] = "start" => ~callbacks
      PROVE  NotifyInv'
  <2> USE <1>1 DEF Request, TypeInv, TypeOK
  <2>1. /\ Len(wire') = m + 1 /\ \A i \in 1..m : wire'[i] = wire[i]
        /\ wire'[m + 1] = x /\ \A i \in 1..m+1 : i \in 1..m \/ i = m + 1
    BY <1>e, Added
  <2>2. pc[x] # "wait" /\ connected /\ (SlotOf(x) = "notify" => slot["notify"] = None)
    BY DEF May
  <2>3. WireInv'
    <3>1. SlotOf(x) = "notify" => \A j \in 1..n : events[j][1] # "notify"
      BY <2>2 DEF NotifyInv, EventInv
    <3>2. SlotOf(x) = "notify" => \A i \in 1..m : SlotOf(wire[i]) # "notify"
      BY <2>2, <1>e DEF NotifyInv, WireInv
    <3>3. \A y \in Calls : SlotOf(y)' = SlotOf(y)
      BY DEF SlotOf
    <3> QED
      BY <1>e, <2>1, <2>2, <3>1, <3>2, <3>3 DEF NotifyInv, WireInv
  <2>4. EventInv'
    <3>1. slot["notify"] # None => slot'["notify"] = slot["notify"] /\ slot["notify"] # x
      BY <2>2
    <3> QED
      BY <1>e, <2>2, <3>1 DEF NotifyInv, EventInv
  <2>5. StopInv'
    <3>1. \A y \in Calls : y # x => pc'[y] = pc[y] /\ future'[y] = future[y]
      OBVIOUS
    <3>2. future'[x] = "pending" /\ (callbacks => callbacks') /\ (kind[x] = "start" => callbacks')
      OBVIOUS
    <3>3. UNCHANGED <<kind, notifying, events>>
      OBVIOUS
    <3> HIDE <1>1 DEF Request, TypeInv, TypeOK
    <3> QED
      BY <3>1, <3>2, <3>3 DEF NotifyInv, StopInv
  <2>6. NotifyingHasCallback'
    BY DEF NotifyInv, NotifyingHasCallback
  <2> QED
    BY <2>3, <2>4, <2>5, <2>6 DEF NotifyInv
<1>2. ASSUME NEW x \in Calls, Refuse(x), May(x) PROVE NotifyInv'
  <2>1. \A y \in Calls : SlotOf(y)' = SlotOf(y) /\ (pc'[y] = "wait" <=> pc[y] = "wait")
    BY <1>2 DEF Refuse, SlotOf, May, TypeInv, TypeOK
  <2> QED
    BY <1>2, <1>e, <2>1 DEF Refuse, NotifyInv, WireInv, EventInv, StopInv,
       NotifyingHasCallback
<1>3. ASSUME NEW x \in Calls, Method(x) PROVE NotifyInv'
  <2>1. CASE AlreadyStarted(x) \/ NeverStarted(x)
    BY <1>2, <2>1 DEF AlreadyStarted, NeverStarted
  <2>2. CASE StartNotifications(x)
    BY <1>1, <2>2 DEF StartNotifications, TypeInv, TypeOK
  <2>3. CASE ReadOrWrite(x) \/ ReadOrWriteDescriptor(x) \/ ReadRSSI(x) \/ StopNotifications(x)
    BY <1>1, <2>3 DEF ReadOrWrite, ReadOrWriteDescriptor, ReadRSSI, StopNotifications,
       TypeInv, TypeOK
  <2> QED
    BY <1>3, <2>1, <2>2, <2>3 DEF Method
<1>4. ASSUME NEW x \in Calls, Resume(x) PROVE NotifyInv'
  <2> USE <1>4 DEF Resume, TypeInv, TypeOK
  <2>1. \A y \in Calls : SlotOf(y)' = SlotOf(y) /\ (pc'[y] = "wait" => pc[y] = "wait" /\ y # x)
    BY DEF SlotOf
  <2>2. \A i \in 1..m : SlotOf(wire[i]) = "notify" => wire[i] # x
    BY DEF NotifyInv, WireInv
  <2>3. WireInv'
    BY <1>e, <2>1, <2>2 DEF NotifyInv, WireInv
  <2>4. callbacks' # callbacks => /\ kind[x] = "stop" /\ future[x] = "ok" /\ slot["notify"] = x
                                  /\ ~callbacks'
    OBVIOUS
  <2>5. (\E i \in 1..n : events[i][1] = "notify") =>
           x # slot["notify"] /\ slot'["notify"] = slot["notify"]
    BY DEF NotifyInv, EventInv
  <2>6. EventInv'
    <3>1. \A i \in 1..n : events[i] = Notification => callbacks'
      BY <2>4 DEF NotifyInv, EventInv, StopInv
    <3> QED
      BY <1>e, <2>5, <3>1 DEF NotifyInv, EventInv
  <2>7. StopInv'
    BY <2>1, <2>4 DEF NotifyInv, StopInv
  <2>8. NotifyingHasCallback'
    BY <2>4 DEF NotifyInv, StopInv, NotifyingHasCallback
  <2> QED
    BY <2>3, <2>6, <2>7, <2>8 DEF NotifyInv
<1>5. ASSUME NEW x \in Calls, GiveUp(x) PROVE NotifyInv'
  <2>1. kind[x] = "read" /\ UNCHANGED <<kind, pc, slot, callbacks, received, system>>
    BY <1>5 DEF GiveUp
  <2>2. \A y \in Calls : SlotOf(y)' = SlotOf(y)
    BY <2>1 DEF SlotOf
  <2>3. \A y \in Calls : SlotOf(y) = "notify" => future'[y] = future[y]
    BY <1>5, <2>1 DEF GiveUp, TypeInv, TypeOK
  <2> QED
    BY <1>e, <2>1, <2>2, <2>3 DEF NotifyInv, WireInv, EventInv, StopInv, NotifyingHasCallback
<1>h. ASSUME NEW name, Handle(name)
      PROVE  /\ Len(events') = n - 1 /\ n >= 1 /\ events[1][1] = name /\ Head(events) = events[1]
             /\ \A i \in 1..Len(events') : i + 1 \in 1..n /\ events'[i] = events[i + 1]
             /\ UNCHANGED <<kind, pc, slot, callbacks, connected, wire, notifying>>
             /\ \A y \in Calls : SlotOf(y)' = SlotOf(y)
  BY <1>e, <1>h, Taken DEF Handle, SlotOf
\* The report is not of a start or stop: their futures stay as they are.
<1>6. ASSUME NEW name, Handle(name), name # "notify",
             \A y \in Calls : SlotOf(y) = "notify" => future'[y] = future[y]
      PROVE  NotifyInv'
  <2>h. /\ Len(events') = n - 1
        /\ \A i \in 1..Len(events') : i + 1 \in 1..n /\ events'[i] = events[i + 1]
        /\ UNCHANGED <<kind, pc, slot, callbacks, connected, wire, notifying>>
        /\ \A y \in Calls : SlotOf(y)' = SlotOf(y)
    BY <1>h, <1>6
  <2>1. WireInv'
    <3>1. \A i \in 1..m : SlotOf(wire[i]) = "notify" => future'[wire[i]] = future[wire[i]]
      BY <1>e, <1>6
    <3>2. \A i \in 1..m : SlotOf(wire[i]) = "notify" =>
             \A j \in 1..Len(events') : events'[j][1] # "notify"
      BY <2>h DEF NotifyInv, WireInv
    <3>3. \A i \in 1..m : SlotOf(wire[i])' = SlotOf(wire[i])
      BY <1>e, <2>h
    <3> QED
      BY <2>h, <3>1, <3>2, <3>3 DEF NotifyInv, WireInv
  <2>2. EventInv'
    <3>1. slot["notify"] # None => future'[slot["notify"]] = future[slot["notify"]]
      BY <1>6
    <3> SUFFICES ASSUME NEW i \in 1..Len(events')
                 PROVE  /\ events'[i][1] = "disconnected" => i = Len(events') /\ ~connected
                        /\ events'[i] = Notification => callbacks
                        /\ events'[i][1] = "notify" =>
                              /\ slot["notify"] # None /\ future[slot["notify"]] = "pending"
                              /\ \A j \in 1..Len(events') : events'[j][1] = "notify" => i = j
                        /\ events'[i] = <<"notify", "ok">> /\ kind[slot["notify"]] = "stop" =>
                              /\ ~notifying
                              /\ \A j \in 1..Len(events') : events'[j] = Notification => j < i
      BY <2>h, <3>1 DEF EventInv
    <3>2. i + 1 \in 1..n /\ events'[i] = events[i + 1] /\ i \in Nat
      BY <1>e, <2>h
    <3>3. \A j \in 1..Len(events') : j + 1 \in 1..n /\ events'[j] = events[j + 1] /\ j \in Nat
      BY <1>e, <2>h
    <3>4. /\ events'[i][1] = "disconnected" => i = Len(events') /\ ~connected
          /\ events'[i] = Notification => callbacks
      BY <1>e, <2>h, <3>2 DEF NotifyInv, EventInv
    <3>5. events'[i][1] = "notify" =>
                              /\ slot["notify"] # None /\ future[slot["notify"]] = "pending"
                              /\ \A j \in 1..Len(events') : events'[j][1] = "notify" => i = j
      <4>1. events[i + 1][1] = "notify" =>
               /\ slot["notify"] # None /\ future[slot["notify"]] = "pending"
               /\ \A k \in 1..n : events[k][1] = "notify" => i + 1 = k
        BY <3>2 DEF NotifyInv, EventInv
      <4>2. ASSUME events'[i][1] = "notify", NEW j \in 1..Len(events'), events'[j][1] = "notify"
            PROVE  i = j
        <5>1. i + 1 = j + 1 /\ j \in Nat
          BY <3>2, <3>3, <4>1, <4>2
        <5> QED
          BY <3>2, <5>1
      <4> QED
        BY <3>2, <4>1, <4>2
    <3>6. events'[i] = <<"notify", "ok">> /\ kind[slot["notify"]] = "stop" =>
                              /\ ~notifying
                              /\ \A j \in 1..Len(events') : events'[j] = Notification => j < i
      BY <1>e, <3>2, <3>3 DEF NotifyInv, EventInv
    <3> QED
      BY <3>4, <3>5, <3>6
  <2>3. StopInv'
    BY <1>e, <1>h, <1>6 DEF NotifyInv, StopInv
  <2>4. NotifyingHasCallback'
    BY <1>h, <1>6 DEF NotifyInv, NotifyingHasCallback
  <2> QED
    BY <2>1, <2>2, <2>3, <2>4 DEF NotifyInv
<1>7. CASE DidUpdateValue \/ DidWriteValue \/ DidReadOrWriteDescriptor \/ DidReadRSSI
  <2>1. PICK s \in Slots \ {"notify"} : /\ \E name : Handle(name) /\ name # "notify"
                                        /\ UNCHANGED future \/ \E v : Resolve(s, v)
    BY <1>7 DEF DidUpdateValue, DidWriteValue, DidReadOrWriteDescriptor, DidReadRSSI, Slots
  <2>2. \A y \in Calls : SlotOf(y) = "notify" => future'[y] = future[y]
    BY <2>1 DEF Resolve, TypeInv, TypeOK, SlotsOwn
  <2> QED
    BY <1>6, <2>1, <2>2
<1>8. CASE DidUpdateNotification
  <2>1. Handle("notify") /\ Resolve("notify", events[1][2])
    BY <1>8, <1>h DEF DidUpdateNotification
  <2>2. 1 \in 1..n /\ events[1][1] = "notify"
    BY <1>h, <2>1, <1>e
  <2>3. \A i \in 1..Len(events') : events'[i][1] # "notify"
    BY <1>h, <2>1, <2>2, <1>e DEF NotifyInv, EventInv
  <2>4. PICK x \in Calls : x = slot["notify"] /\ pc[x] = "wait" /\ future[x] = "pending"
    BY <2>2 DEF NotifyInv, EventInv
  <2>5. future' = [future EXCEPT ![x] = events[1][2]]
    BY <2>1, <2>4 DEF Resolve
  <2>6. WireInv'
    <3>1. \A i \in 1..m : SlotOf(wire[i]) # "notify"
      BY <2>2 DEF NotifyInv, WireInv
    <3> QED
      BY <1>e, <1>h, <2>1, <3>1 DEF NotifyInv, WireInv
  <2>7. EventInv'
    BY <1>e, <1>h, <2>1, <2>3 DEF NotifyInv, EventInv
  <2>8. StopInv'
    <3>1. kind[x] = "stop" /\ events[1][2] = "ok" =>
             ~notifying /\ \A i \in 1..n : events[i] # Notification
      <4>1. events[1] \in EventTypes
        BY <1>e, <2>2
      <4>2. events[1][2] = "ok" => events[1] = <<"notify", "ok">>
        BY <2>2, <4>1 DEF EventTypes
      <4>3. events[1] # Notification
        BY <2>2 DEF Notification
      <4> QED
        BY <1>e, <2>2, <2>4, <4>2, <4>3 DEF NotifyInv, EventInv
    <3> QED
      BY <1>e, <1>h, <2>1, <2>4, <2>5, <3>1 DEF NotifyInv, StopInv, TypeInv, TypeOK
  <2>9. NotifyingHasCallback'
    BY <1>h, <2>1 DEF NotifyInv, NotifyingHasCallback
  <2> QED
    BY <2>6, <2>7, <2>8, <2>9 DEF NotifyInv
<1>9. CASE DidDisconnect
  <2>1. Handle("disconnected")
    BY <1>9 DEF DidDisconnect
  <2>5. 1 \in 1..n /\ events[1][1] = "disconnected"
    BY <1>e, <1>h, <2>1
  <2>2. n = 1 /\ ~connected
    BY <2>5 DEF NotifyInv, EventInv
  <2>3. Len(events') = 0 /\ wire' = <<>> /\ ~notifying' /\ Len(wire') = 0
    BY <1>h, <2>1, <2>2 DEF NotifyInv, WireInv
  <2>4. \A x \in Calls : pc'[x] = pc[x] /\ kind'[x] = kind[x]
    BY <1>h, <2>1
  <2> QED
    BY <1>h, <2>1, <2>3, <2>4 DEF NotifyInv, WireInv, EventInv, StopInv, NotifyingHasCallback
<1>a. ASSUME NEW e \in EventTypes, events' = Append(events, e)
      PROVE  /\ Len(events') = n + 1 /\ events'[n + 1] = e
             /\ \A i \in 1..n : events'[i] = events[i]
             /\ \A i \in 1..n+1 : i \in 1..n \/ i = n + 1
  BY <1>e, <1>a, Added
<1>10. CASE Serve
  <2>1. /\ connected /\ m >= 1 /\ Head(wire) = wire[1] /\ wire[1] \in Calls
        /\ Len(wire') = m - 1
        /\ \A i \in 1..Len(wire') : i + 1 \in 1..m /\ wire'[i] = wire[i + 1]
        /\ UNCHANGED <<calls, connected>>
    BY <1>10, <1>e, Taken DEF Serve
  <2>2. PICK x \in Calls, v \in {"answer", "ok", "error"} :
           /\ x = wire[1] /\ Report(x, v)
           /\ v = "ok" => kind[x] # "read"
           /\ v = "answer" => kind[x] = "read"
           /\ notifying' = IF v # "error" /\ SlotOf(x) = "notify"
                           THEN kind[x] = "start" ELSE notifying
    BY <1>10, <2>1 DEF Serve
  <2>3. PICK e \in EventTypes : /\ events' = Append(events, e)
                                /\ e[1] # "disconnected" /\ e # Notification
                                /\ e[1] = "notify" <=> SlotOf(x) = "notify"
                                /\ SlotOf(x) = "notify" => e = <<"notify", v>>
    <3>1. SlotOf(x) \in Slots /\ (SlotOf(x) = "read" <=> kind[x] = "read")
      BY DEF SlotOf, Kinds
    <3> DEFINE e == <<IF kind[x] = "read" THEN "value" ELSE SlotOf(x), v>>
    <3>2. events' = Append(events, e)
      BY <2>2 DEF Report
    <3>3. e \in EventTypes /\ e[1] # "disconnected" /\ e # Notification
      BY <2>2, <3>1 DEF EventTypes, Notification, Slots
    <3>4. /\ e[1] = "notify" <=> SlotOf(x) = "notify"
          /\ SlotOf(x) = "notify" => e = <<"notify", v>>
      BY <3>1
    <3> QED
      BY <3>2, <3>3, <3>4
  <2>4. \A y \in Calls : SlotOf(y)' = SlotOf(y)
    BY <2>1 DEF SlotOf
  <2>5. CASE SlotOf(x) # "notify"
    <3>1. notifying' = notifying
      BY <2>2, <2>5
    <3>5. \A j \in 1..Len(events') : events'[j][1] = "notify" =>
             \E k \in 1..n : events[k][1] = "notify"
      BY <1>e, <1>a, <2>3, <2>5
    <3>6. \A i \in 1..Len(wire') : SlotOf(wire'[i]) = "notify" =>
             /\ pc[wire'[i]] = "wait" /\ future[wire'[i]] = "pending"
             /\ \A j \in 1..Len(wire') : wire'[j] = wire'[i] => i = j
             /\ \A j \in 1..Len(events') : events'[j][1] # "notify"
      BY <1>e, <2>1, <3>5 DEF NotifyInv, WireInv
    <3>2. WireInv'
      BY <2>1, <2>4, <3>6 DEF NotifyInv, WireInv, calls, SlotOf
    <3>3. EventInv'
      <4>1. \A i \in 1..n : events[i][1] # "disconnected"
        BY <2>1 DEF NotifyInv, EventInv
      <4>2. \A i \in 1..Len(events') :
               \/ i \in 1..n /\ events'[i] = events[i]
               \/ events'[i][1] \notin {"disconnected", "notify"} /\ events'[i] # Notification
        BY <1>e, <1>a, <2>3, <2>5
      <4>3. UNCHANGED <<connected, callbacks, slot, future, kind, notifying>>
        BY <2>1, <3>1 DEF calls
      <4>4. <<"notify", "ok">>[1] = "notify"
        OBVIOUS
      <4> QED
        BY <4>1, <4>2, <4>3, <4>4 DEF NotifyInv, EventInv
    <3>4. StopInv' /\ NotifyingHasCallback'
      BY <1>e, <1>a, <2>1, <2>3, <3>1 DEF NotifyInv, StopInv, NotifyingHasCallback
    <3> QED
      BY <3>2, <3>3, <3>4 DEF NotifyInv
  <2>6. CASE SlotOf(x) = "notify"
    <3>1. /\ pc[x] = "wait" /\ future[x] = "pending" /\ slot["notify"] = x
          /\ \A j \in 1..m : wire[j] = x => j = 1
          /\ \A j \in 1..n : events[j][1] # "notify"
      BY <1>e, <2>1, <2>2, <2>6 DEF NotifyInv, WireInv
    <3>2. \A i \in 1..Len(wire') : SlotOf(wire'[i]) # "notify"
      BY <1>e, <2>1, <3>1 DEF NotifyInv, WireInv
    <3>3. WireInv'
      BY <2>1, <3>2 DEF NotifyInv, WireInv, calls, SlotOf
    <3>4. kind[x] = "stop" /\ v = "ok" => ~notifying'
      BY <2>2, <2>6
    <3>5. EventInv'
      BY <1>e, <1>a, <2>1, <2>3, <2>6, <3>1, <3>4 DEF NotifyInv, EventInv
    <3>6. StopInv' /\ NotifyingHasCallback'
      BY <1>e, <1>a, <2>1, <2>2, <2>3, <2>6, <3>1 DEF NotifyInv, StopInv, NotifyingHasCallback
    <3> QED
      BY <3>3, <3>5, <3>6 DEF NotifyInv
  <2> QED
    BY <2>5, <2>6
<1>11. CASE Notify
  <2>1. Notification \in EventTypes /\ events' = Append(events, Notification)
    BY <1>11 DEF Notify, EventTypes, Notification
  <2>2. UNCHANGED <<calls, connected, wire, notifying>> /\ notifying /\ connected /\ callbacks
    BY <1>11 DEF Notify, NotifyInv, NotifyingHasCallback
  <2>3. \A y \in Calls : SlotOf(y)' = SlotOf(y)
    BY <2>2 DEF SlotOf
  <2>4. Notification[1] = "value"
    BY DEF Notification
  <2>5. WireInv'
    BY <1>e, <1>a, <2>1, <2>2, <2>3, <2>4 DEF NotifyInv, WireInv
  <2>6. EventInv'
    BY <1>e, <1>a, <2>1, <2>2, <2>4 DEF NotifyInv, EventInv
  <2>7. StopInv' /\ NotifyingHasCallback'
    BY <1>e, <1>a, <2>1, <2>2, <2>4 DEF NotifyInv, StopInv, NotifyingHasCallback
  <2> QED
    BY <2>5, <2>6, <2>7 DEF NotifyInv
<1>12. CASE LinkLost
  <2>1. <<"disconnected">> \in EventTypes /\ events' = Append(events, <<"disconnected">>)
    BY <1>12 DEF LinkLost, EventTypes
  <2>2. UNCHANGED calls /\ connected /\ ~connected' /\ ~notifying' /\ wire' = <<>>
    BY <1>12 DEF LinkLost
  <2>3. <<"disconnected">> # Notification /\ <<"disconnected">>[1] = "disconnected"
    BY DEF Notification
  <2>4. WireInv'
    BY <2>2 DEF WireInv
  <2>5. EventInv'
    BY <1>e, <1>a, <2>1, <2>2, <2>3 DEF NotifyInv, EventInv
  <2>6. StopInv' /\ NotifyingHasCallback'
    BY <1>e, <1>a, <2>1, <2>2, <2>3 DEF NotifyInv, StopInv, NotifyingHasCallback
  <2> QED
    BY <2>4, <2>5, <2>6 DEF NotifyInv
<1>13. CASE Reconnected
  BY <1>13 DEF Reconnected, NotifyInv, WireInv, EventInv, StopInv, NotifyingHasCallback,
     SlotOf
<1>14. CASE UNCHANGED vars
  BY <1>14 DEF vars, NotifyInv, WireInv, EventInv, StopInv, NotifyingHasCallback, SlotOf
<1> QED
  BY <1>3, <1>4, <1>5, <1>7, <1>8, <1>9, <1>10, <1>11, <1>12, <1>13, <1>14 DEF Next, Callback

-----------------------------------------------------------------------------
\* What the invariant of the starts and the stops rests on, for the calls that nobody cancels.
THEOREM NotifyInvariant == ~Cancellable => (Spec => []NotifyInv)
<1> SUFFICES ASSUME ~Cancellable PROVE Spec => []NotifyInv
  OBVIOUS
<1>1. Init => NotifyInv
  BY DEF Init, NotifyInv, WireInv, EventInv, StopInv, NotifyingHasCallback
<1>2. TypeInv /\ TypeInv' /\ NotifyInv /\ [Next]_vars => NotifyInv'
  BY NotifyStep
<1> QED
  BY <1>1, <1>2, TypeInvariant, PTL DEF Spec

\* If no call is cancelled, there is a callback while the device notifies, whatever start and
\* stop calls have failed (NotifyingHasCallback).
THEOREM NotificationsHaveACallback == ~Cancellable => (Spec => []NotifyingHasCallback)
<1>1. NotifyInv => NotifyingHasCallback
  BY DEF NotifyInv
<1> QED
  BY <1>1, NotifyInvariant, PTL

\* If no call is cancelled, a read with a discriminator never returns a notification, not
\* even one that arrives while notifications are started or stopped (ReadsGetAnswers).
THEOREM ReadsAreAnswered == ~Cancellable => (Spec => []ReadsGetAnswers)
<1> SUFFICES ASSUME ~Cancellable PROVE Spec => []ReadsGetAnswers
  OBVIOUS
<1>1. Init => ReadsGetAnswers
  BY DEF Init, ReadsGetAnswers
<1>2. TypeInv /\ NotifyInv /\ ReadsGetAnswers /\ [Next]_vars => ReadsGetAnswers'
  <2> SUFFICES ASSUME TypeInv, NotifyInv, ReadsGetAnswers, [Next]_vars, Discriminator,
                      NEW x \in Calls
               PROVE  future'[x] # "notification"
    BY DEF ReadsGetAnswers
  <2>t. future[x] # "notification" /\ future \in [Calls -> Future]
    BY DEF ReadsGetAnswers, TypeInv, TypeOK
  <2>h. ASSUME NEW name, Handle(name)
        PROVE  /\ Head(events) \in EventTypes /\ Head(events)[1] = name
               /\ Head(events) = events[1] /\ 1 \in 1..Len(events)
    BY <2>h, Taken DEF Handle, TypeInv, QueueTypes
  <2>r. ASSUME NEW s, NEW value, Resolve(s, value), value # "notification"
        PROVE  future'[x] # "notification"
    BY <2>r, <2>t DEF Resolve
  <2>1. ASSUME NEW y \in Calls, Method(y) \/ Resume(y) \/ GiveUp(y)
        PROVE  future'[x] # "notification"
    BY <2>1, <2>t DEF Method, ReadOrWrite, ReadOrWriteDescriptor, ReadRSSI,
       StartNotifications,
       StopNotifications, AlreadyStarted, NeverStarted, Request, Refuse, Resume, GiveUp
  <2>2. CASE DidUpdateValue
    <3>1. Head(events)[2] = "notification" => callbacks
      <4>1. Handle("value")
        BY <2>2 DEF DidUpdateValue
      <4>2. Head(events)[2] = "notification" => Head(events) = Notification
        BY <2>h, <4>1 DEF EventTypes, Notification
      <4> QED
        BY <2>h, <4>1, <4>2 DEF NotifyInv, EventInv
    <3>2. \/ UNCHANGED future
          \/ Head(events)[2] # "notification" /\ Resolve("read", Head(events)[2])
      BY <2>2, <3>1 DEF DidUpdateValue
    <3> QED
      BY <2>r, <2>t, <3>2
  <2>3. ASSUME NEW s \in Slots \ {"read"}, Handle(s), Resolve(s, Head(events)[2])
        PROVE  future'[x] # "notification"
    <3>1. Head(events)[2] # "notification"
      BY <2>h, <2>3 DEF EventTypes, Slots
    <3> QED
      BY <2>r, <2>3, <3>1
  <2>4. CASE DidWriteValue \/ DidUpdateNotification \/ DidReadOrWriteDescriptor \/ DidReadRSSI
    BY <2>3, <2>4 DEF DidWriteValue, DidUpdateNotification, DidReadOrWriteDescriptor,
       DidReadRSSI, Slots
  <2>5. CASE DidDisconnect
    BY <2>5, <2>t DEF DidDisconnect
  <2>6. CASE Serve \/ Notify \/ LinkLost \/ Reconnected \/ UNCHANGED vars
    BY <2>6, <2>t DEF Serve, Notify, LinkLost, Reconnected, vars, calls
  <2> QED
    BY <2>1, <2>2, <2>4, <2>5, <2>6 DEF Next, Callback
<1> QED
  BY <1>1, <1>2, TypeInvariant, NotifyInvariant, PTL DEF Spec
=============================================================================
