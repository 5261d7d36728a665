--------------------------- MODULE CBCentralProofs ---------------------------
(***************************************************************************)
(* Theorems about CBCentral, for any calls of connect() and disconnect(),   *)
(* any cancellations and any number of lost links.                          *)
(***************************************************************************)
EXTENDS CBCentral, SequenceTheorems, TLAPS

\* The futures a call may be found with: what every step but a callback leaves alone.
LEMMA ResolveKeepsTypes ==
    ASSUME TypeOK, NEW s \in Calls \cup {None}, NEW v \in Future \ {"none"},
           Resolve(s, v), UNCHANGED <<pc, slots, client, state, again, request, losses>>
    PROVE  TypeOK'
<1>1. /\ future' \in [Calls -> Future]
      /\ \A x \in Calls : future'[x] # "none" <=> future[x] # "none"
  <2>1. CASE s # None /\ future[s] = "pending"
    BY <2>1 DEF Resolve, TypeOK
  <2>2. CASE ~(s # None /\ future[s] = "pending")
    BY <2>2 DEF Resolve, TypeOK
  <2> QED
    BY <2>1, <2>2
<1> QED
  BY <1>1 DEF TypeOK, Running, slots, client

\* Every variable keeps its type, and a future that is in a dictionary of the delegates is
\* that of a call which waits at the await that put it there: the `finally` of each await
\* is reached on every path.
THEOREM TypeInvariant == Spec => []TypeOK
<1> USE CallsAssumption
<1>1. Init => TypeOK
  BY DEF Init, TypeOK, Pc, Future, Running, Discovery
<1>2. TypeOK /\ [Next]_vars => TypeOK'
  <2> SUFFICES ASSUME TypeOK, [Next]_vars PROVE TypeOK'
    OBVIOUS
  <2>1. ASSUME NEW c \in Connects, StartConnect(c) PROVE TypeOK'
    BY <2>1 DEF StartConnect, ConnectPeripheral, Await, Goto, client, TypeOK, Pc, Future,
       Running, Discovery, Calls
  <2>2. ASSUME NEW c \in Connects, CachedServices(c) PROVE TypeOK'
    BY <2>2 DEF CachedServices, Leave, Goto, client, system, TypeOK, Pc, Future, Running,
       Discovery, Calls
  <2>3. ASSUME NEW c \in Connects, Connected(c) PROVE TypeOK'
    BY <2>3 DEF Connected, Discover, Await, Goto, TypeOK, Pc, Future, Running, Discovery, Calls
  <2>4. ASSUME NEW c \in Connects, ConnectRaises(c) PROVE TypeOK'
    BY <2>4 DEF ConnectRaises, Leave, Goto, client, system, TypeOK, Pc, Future, Running,
       Discovery, Calls
  <2>5. ASSUME NEW c \in Connects, TimedOut(c) PROVE TypeOK'
    BY <2>5 DEF TimedOut, CancelPeripheralConnection, Await, Goto, client, TypeOK, Pc, Future,
       Running, Discovery, Calls
  <2>6. ASSUME NEW c \in Connects, TimedOutAfterDisconnect(c) PROVE TypeOK'
    BY <2>6 DEF TimedOutAfterDisconnect, Leave, Goto, client, system, TypeOK, Pc, Future,
       Running, Discovery, Calls
  <2>7. ASSUME NEW c \in Connects, Cancelled(c) PROVE TypeOK'
    BY <2>7 DEF Cancelled, Leave, Goto, client, system, TypeOK, Pc, Future, Running, Discovery,
       Calls
  <2>8. ASSUME NEW c \in Connects, Discovered(c) PROVE TypeOK'
    <3>1. PICK l \in Discovery : Discover(c, l)
      BY <2>8 DEF Discovered
    <3> QED
      BY <2>8, <3>1 DEF Discovered, Discover, Await, Goto, slots, TypeOK, Pc, Future, Running,
         Discovery, Calls
  <2>9. ASSUME NEW c \in Connects, ConnectReturns(c) PROVE TypeOK'
    BY <2>9 DEF ConnectReturns, Leave, Goto, slots, system, TypeOK, Pc, Future, Running,
       Discovery, Calls
  <2>10. ASSUME NEW c \in Connects, DiscoveryRaises(c) PROVE TypeOK'
    BY <2>10 DEF DiscoveryRaises, Leave, Goto, slots, system, TypeOK, Pc, Future, Running,
       Discovery, Calls
  <2>11. ASSUME NEW d \in Disconnects, DisconnectNothing(d) PROVE TypeOK'
    BY <2>11 DEF DisconnectNothing, Leave, Goto, slots, client, system, TypeOK, Pc, Future,
       Running, Discovery, Calls
  <2>12. ASSUME NEW d \in Disconnects, Disconnect(d) PROVE TypeOK'
    BY <2>12 DEF Disconnect, CancelPeripheralConnection, Await, Goto, client, TypeOK, Pc,
       Future, Running, Discovery, Calls
  <2>13. ASSUME NEW d \in Disconnects, DisconnectEnds(d) PROVE TypeOK'
    BY <2>13 DEF DisconnectEnds, Leave, Goto, client, system, TypeOK, Pc, Future, Running,
       Discovery, Calls
  <2>14. ASSUME NEW x \in Calls, Cancel(x) PROVE TypeOK'
    BY <2>14 DEF Cancel, slots, client, system, TypeOK, Future, Running
  <2>15. ASSUME NEW c \in Connects, Timeout(c) PROVE TypeOK'
    BY <2>15 DEF Timeout, slots, client, system, TypeOK, Future, Running, Calls
  <2>16. CASE DidConnect
    <3>1. connectSlot \in Calls \cup {None}
      BY DEF TypeOK
    <3> QED
      BY <2>16, <3>1, ResolveKeepsTypes DEF DidConnect, Future
  <2>17. CASE DidFailToConnect
    <3> DEFINE value == IF Head(events)[2] THEN "error" ELSE "nolink"
    <3>1. value \in Future \ {"none"} /\ connectSlot \in Calls \cup {None}
      BY DEF Future, TypeOK
    <3>2. Resolve(connectSlot, value)
      BY <2>17 DEF DidFailToConnect
    <3> HIDE DEF value
    <3> QED
      BY <2>17, <3>1, <3>2, ResolveKeepsTypes DEF DidFailToConnect
  <2>18. CASE DidDiscover
    <3> DEFINE value == IF Head(events)[2] THEN "error" ELSE "ok"
               call  == IF discovery # None /\ pc[discovery] = Head(events)[3]
                        THEN discovery ELSE None
    <3>1. value \in Future \ {"none"} /\ call \in Calls \cup {None}
      BY DEF Future, TypeOK
    <3>2. Resolve(call, value)
      BY <2>18 DEF DidDiscover
    <3> HIDE DEF value, call
    <3> QED
      BY <2>18, <3>1, <3>2, ResolveKeepsTypes DEF DidDiscover
  <2>19. CASE DidDisconnectRaises
    BY <2>19 DEF DidDisconnectRaises, slots, client, TypeOK, Running
  <2>20. CASE DidDisconnect
    BY <2>20 DEF DidDisconnect, TypeOK, Future, Running
  <2>21. CASE LinkUp \/ LinkFails \/ LinkLost \/ LinkCancelled \/ Answer
    BY <2>21 DEF LinkUp, LinkFails, LinkLost, LinkCancelled, Answer, slots, client, TypeOK,
       Running
  <2>22. CASE UNCHANGED vars
    BY <2>22 DEF vars, slots, client, system, TypeOK, Running
  <2> QED
    BY <2>1, <2>2, <2>3, <2>4, <2>5, <2>6, <2>7, <2>8, <2>9, <2>10, <2>11, <2>12, <2>13,
       <2>14, <2>15, <2>16, <2>17, <2>18, <2>19, <2>20, <2>21, <2>22
       DEF Next, ConnectResumes, Callback
<1> QED
  BY <1>1, <1>2, PTL DEF Spec

-----------------------------------------------------------------------------
\* What LossReported rests on

Event ==
    {<<"connected">>} \cup ({"failed", "disconnected"} \X BOOLEAN)
    \cup ({"discovered"} \X BOOLEAN \X Discovery)

Up == state \in {"connected", "disconnecting"}

\* A disconnection is on its way to the event loop.
Coming == \E i \in DOMAIN events : events[i][1] = "disconnected"

\* A connection whose news is on its way is still there, or its end comes behind the news.
NewsInOrder ==
    \A i \in DOMAIN events : events[i][1] = "connected" =>
        Up \/ \E j \in DOMAIN events : i < j /\ events[j][1] = "disconnected"

EventsInv ==
    /\ events \in Seq(Event)
    /\ \A i \in DOMAIN events : events[i][1] = "failed" => events[i][2]
    /\ NewsInOrder

\* connect() has been told that the link is up.
Linked(c) ==
    pc[c] \in Discovery \cup {"done"} \/ (pc[c] = "connecting" /\ future[c] = "ok")

CallsInv ==
    /\ \A c \in Connects : pc[c] # "waiting" /\ future[c] # "nolink"
    /\ \A d \in Disconnects : pc[d] \in {"idle", "waiting", "done", "raised"}
    /\ \A c \in Connects, x \in Calls : Running(c) /\ Running(x) => x = c

CallbackInv ==
    /\ \A c \in Connects : pc[c] = "cancelling" => callback = None
    /\ disconnSlot # None /\ future[disconnSlot] # "pending" => callback = None
    /\ \A c \in Connects :
          pc[c] \in Discovery \cup {"connecting", "done"} => callback = c \/ c \in told
    /\ \A b, c \in Connects : pc[b] = "done" /\ pc[c] = "connecting" => b \in told
    /\ \A c \in Connects : callback = c /\ Linked(c) => Up \/ Coming

LossInv == TypeOK /\ EventsInv /\ CallsInv /\ CallbackInv

\* Handling an event keeps the order of those behind it.
LEMMA HandledInOrder ==
    ASSUME EventsInv, NEW k, Handle(k), state' = state
    PROVE  /\ EventsInv'
           /\ k # "disconnected" /\ Coming => Coming'
           /\ k = "connected" => Up \/ Coming'
<1> DEFINE n == Len(events)
<1>1. /\ events \in Seq(Event) /\ events # <<>> /\ events' = Tail(events)
      /\ events[1][1] = k
  BY DEF EventsInv, Handle
<1>2. /\ n \in Nat \ {0} /\ DOMAIN events = 1..n
      /\ events' \in Seq(Event) /\ Len(events') = n - 1 /\ DOMAIN events' = 1..(n - 1)
      /\ \A i \in 1..(n - 1) : events'[i] = events[i + 1]
  BY <1>1, HeadTailProperties, EmptySeq, LenProperties
<1>3. ASSUME NEW j \in DOMAIN events, j > 1
      PROVE  j - 1 \in DOMAIN events' /\ events'[j - 1] = events[j]
  BY <1>2, <1>3
<1>4. k # "disconnected" /\ Coming => Coming'
  <2> SUFFICES ASSUME k # "disconnected", NEW i \in DOMAIN events, events[i][1] = "disconnected"
               PROVE  Coming'
    BY DEF Coming
  <2>1. i > 1
    BY <1>1, <1>2
  <2> QED
    BY <1>3, <2>1 DEF Coming
<1>5. NewsInOrder'
  <2> SUFFICES ASSUME NEW i \in DOMAIN events', events'[i][1] = "connected", ~Up
               PROVE  \E j \in DOMAIN events' : i < j /\ events'[j][1] = "disconnected"
    BY DEF NewsInOrder, Up
  <2>1. i + 1 \in DOMAIN events /\ events[i + 1][1] = "connected" /\ i \in 1..(n - 1)
    BY <1>2
  <2>2. PICK j \in DOMAIN events : i + 1 < j /\ events[j][1] = "disconnected"
    BY <2>1 DEF EventsInv, NewsInOrder
  <2>3. j > 1 /\ i < j - 1
    BY <1>2, <2>1, <2>2
  <2> QED
    BY <1>3, <2>2, <2>3
<1>6. k = "connected" => Up \/ Coming'
  <2> SUFFICES ASSUME k = "connected", ~Up PROVE Coming'
    OBVIOUS
  <2>1. PICK j \in DOMAIN events : 1 < j /\ events[j][1] = "disconnected"
    BY <1>1, <1>2 DEF EventsInv, NewsInOrder
  <2> QED
    BY <1>2, <1>3, <2>1 DEF Coming
<1>7. \A i \in DOMAIN events' : events'[i][1] = "failed" => events'[i][2]
  BY <1>2 DEF EventsInv
<1> QED
  BY <1>2, <1>4, <1>5, <1>6, <1>7 DEF EventsInv

\* A new event keeps the order if it is true to the state of the link.
LEMMA AppendedInOrder ==
    ASSUME EventsInv, NEW e \in Event, events' = Append(events, e),
           e[1] = "connected" => Up',
           e[1] = "failed" => e[2],
           Up => Up' \/ e[1] = "disconnected"
    PROVE  EventsInv' /\ (Coming \/ e[1] = "disconnected" => Coming')
<1> DEFINE n == Len(events)
<1>1. /\ events \in Seq(Event) /\ n \in Nat /\ DOMAIN events = 1..n
      /\ events' \in Seq(Event) /\ DOMAIN events' = 1..(n + 1)
      /\ \A i \in 1..n : events'[i] = events[i]
      /\ events'[n + 1] = e
  BY AppendProperties, LenProperties DEF EventsInv
<1>2. Coming \/ e[1] = "disconnected" => Coming'
  BY <1>1 DEF Coming
<1>3. NewsInOrder'
  <2> SUFFICES ASSUME NEW i \in 1..(n + 1), events'[i][1] = "connected", ~Up'
               PROVE  \E j \in 1..(n + 1) : i < j /\ events'[j][1] = "disconnected"
    BY <1>1 DEF NewsInOrder
  <2>1. i \in 1..n /\ events[i][1] = "connected"
    BY <1>1
  <2>2. CASE Up
    BY <1>1, <2>1, <2>2
  <2>3. CASE ~Up
    BY <1>1, <2>1, <2>3 DEF EventsInv, NewsInOrder
  <2> QED
    BY <2>2, <2>3
<1>4. \A i \in DOMAIN events' : events'[i][1] = "failed" => events'[i][2]
  BY <1>1 DEF EventsInv
<1> QED
  BY <1>1, <1>2, <1>3, <1>4 DEF EventsInv

\* What a step that reports nothing keeps, if the link does not end with it.
LEMMA UnseenInOrder ==
    ASSUME EventsInv, events' = events, Up => Up' PROVE EventsInv' /\ (Coming => Coming')
BY DEF EventsInv, NewsInOrder, Up, Coming

\* The calls that are told apart by where they wait.
LEMMA Apart ==
    ASSUME TypeOK, CallsInv
    PROVE  /\ connectSlot # None => connectSlot \in Connects /\ connectSlot # disconnSlot
           /\ discovery # None => discovery \in Connects /\ discovery # disconnSlot
           /\ \A c \in Connects : disconnSlot = c => pc[c] = "cancelling"
           /\ \A d \in Disconnects : pc[d] \notin Discovery \cup {"connecting", "cancelling"}
BY CallsAssumption DEF TypeOK, CallsInv, Calls, Discovery

\* Once connect() has returned, its disconnect callback runs when the link ends: every
\* connection reported to the event loop has its end behind it in the queue, and nothing
\* but the callback itself, or the connect() that times out, takes the callback away.  The
\* program may cancel connect() anywhere, but no disconnect(), and CoreBluetooth gives an
\* error with didFailToConnect.
THEOREM LossesAreReported ==
    ASSUME Cancellable \subseteq Connects, FALSE \notin ErrorGiven
    PROVE  Spec => []LossReported
<1> DEFINE Rest == EventsInv /\ CallsInv /\ CallbackInv
<1> USE CallsAssumption
<1>1. Init => Rest
  BY EmptySeq DEF Init, EventsInv, NewsInOrder, CallsInv, CallbackInv, Calls, Discovery,
     Running, Linked
<1>2. TypeOK /\ TypeOK' /\ Rest /\ [Next]_vars => Rest'
  <2> SUFFICES ASSUME TypeOK, TypeOK', EventsInv, CallsInv, CallbackInv, [Next]_vars
               PROVE  EventsInv' /\ CallsInv' /\ CallbackInv'
    OBVIOUS
  <2>1. ASSUME NEW c \in Connects, StartConnect(c)
               PROVE  EventsInv' /\ CallsInv' /\ CallbackInv'
    <3>1. EventsInv' /\ (Up => Up') /\ (Coming => Coming')
      <4>1. CASE state = "connected"
        <5> DEFINE e == <<"connected">>
        <5>1. events' = Append(events, e) /\ e \in Event /\ Up'
          BY <2>1, <4>1 DEF StartConnect, ConnectPeripheral, Event, Up
        <5> QED
          BY <5>1, AppendedInOrder
      <4>2. CASE state # "connected"
        BY <2>1, <4>2, UnseenInOrder DEF StartConnect, ConnectPeripheral, Up
      <4> QED
        BY <4>1, <4>2
    <3>2. CallsInv'
      BY <2>1 DEF StartConnect, Await, Goto, client, CallsInv, TypeOK, Running, Calls, Discovery
    <3>3. CallbackInv'
      BY <2>1, <3>1, Apart DEF StartConnect, Await, Goto, client, CallsInv, CallbackInv, Linked,
         TypeOK, Running, Calls, Discovery
    <3> QED
      BY <3>1, <3>2, <3>3
  <2>2. ASSUME NEW c \in Connects, CachedServices(c)
               PROVE  EventsInv' /\ CallsInv' /\ CallbackInv'
    <3>1. EventsInv' /\ (Up => Up') /\ (Coming => Coming')
      BY <2>2, UnseenInOrder DEF Up, CachedServices, Leave, Goto, client, system
    <3>2. CallsInv'
      BY <2>2 DEF CachedServices, Leave, Goto, client, system, CallsInv, TypeOK, Running, Calls,
         Discovery
    <3>3. CallbackInv'
      BY <2>2, <3>1, Apart DEF CachedServices, Leave, Goto, client, system, CallsInv,
         CallbackInv, Linked, TypeOK, Running, Calls, Discovery
    <3> QED
      BY <3>1, <3>2, <3>3
  <2>3. ASSUME NEW c \in Connects, Connected(c)
               PROVE  EventsInv' /\ CallsInv' /\ CallbackInv'
    <3>1. EventsInv' /\ (Up => Up') /\ (Coming => Coming')
      BY <2>3, UnseenInOrder DEF Up, Connected, Discover, Await, Goto
    <3>2. CallsInv'
      BY <2>3 DEF Connected, Discover, Await, Goto, CallsInv, TypeOK, Running, Calls, Discovery
    <3>3. CallbackInv'
      BY <2>3, <3>1, Apart DEF Connected, Discover, Await, Goto, CallsInv, CallbackInv, Linked,
         TypeOK, Running, Calls, Discovery
    <3> QED
      BY <3>1, <3>2, <3>3
  <2>4. ASSUME NEW c \in Connects, ConnectRaises(c)
               PROVE  EventsInv' /\ CallsInv' /\ CallbackInv'
    <3>1. EventsInv' /\ (Up => Up') /\ (Coming => Coming')
      BY <2>4, UnseenInOrder DEF Up, ConnectRaises, Leave, Goto, client, system
    <3>2. CallsInv'
      BY <2>4 DEF ConnectRaises, Leave, Goto, client, system, CallsInv, TypeOK, Running, Calls,
         Discovery
    <3>3. CallbackInv'
      BY <2>4, <3>1, Apart DEF ConnectRaises, Leave, Goto, client, system, CallsInv,
         CallbackInv, Linked, TypeOK, Running, Calls, Discovery
    <3> QED
      BY <3>1, <3>2, <3>3
  <2>5. ASSUME NEW c \in Connects, TimedOut(c)
               PROVE  EventsInv' /\ CallsInv' /\ CallbackInv'
    <3>1. EventsInv' /\ (Up => Up') /\ (Coming => Coming')
      BY <2>5, UnseenInOrder DEF Up, TimedOut, CancelPeripheralConnection, Await, Goto, client
    <3>2. CallsInv'
      BY <2>5 DEF TimedOut, CancelPeripheralConnection, Await, Goto, client, CallsInv, TypeOK,
         Running, Calls, Discovery
    <3>3. CallbackInv'
      BY <2>5, <3>1, Apart DEF TimedOut, CancelPeripheralConnection, Await, Goto, client,
         CallsInv, CallbackInv, Linked, TypeOK, Running, Calls, Discovery
    <3> QED
      BY <3>1, <3>2, <3>3
  <2>6. ASSUME NEW c \in Connects, TimedOutAfterDisconnect(c)
               PROVE  EventsInv' /\ CallsInv' /\ CallbackInv'
    <3>1. EventsInv' /\ (Up => Up') /\ (Coming => Coming')
      BY <2>6, UnseenInOrder DEF Up, TimedOutAfterDisconnect, Leave, Goto, client, system
    <3>2. CallsInv'
      BY <2>6 DEF TimedOutAfterDisconnect, Leave, Goto, client, system, CallsInv, TypeOK,
         Running, Calls, Discovery
    <3>3. CallbackInv'
      BY <2>6, <3>1, Apart DEF TimedOutAfterDisconnect, Leave, Goto, client, system, CallsInv,
         CallbackInv, Linked, TypeOK, Running, Calls, Discovery
    <3> QED
      BY <3>1, <3>2, <3>3
  <2>7. ASSUME NEW c \in Connects, Cancelled(c)
               PROVE  EventsInv' /\ CallsInv' /\ CallbackInv'
    <3>1. EventsInv' /\ (Up => Up') /\ (Coming => Coming')
      BY <2>7, UnseenInOrder DEF Up, Cancelled, Leave, Goto, client, system
    <3>2. CallsInv'
      BY <2>7 DEF Cancelled, Leave, Goto, client, system, CallsInv, TypeOK, Running, Calls,
         Discovery
    <3>3. CallbackInv'
      BY <2>7, <3>1, Apart DEF Cancelled, Leave, Goto, client, system, CallsInv, CallbackInv,
         Linked, TypeOK, Running, Calls, Discovery
    <3> QED
      BY <3>1, <3>2, <3>3
  <2>8. ASSUME NEW c \in Connects, Discovered(c)
               PROVE  EventsInv' /\ CallsInv' /\ CallbackInv'
    <3>1. EventsInv' /\ (Up => Up') /\ (Coming => Coming')
      BY <2>8, UnseenInOrder DEF Up, Discovered, Discover, Await, Goto, slots
    <3>2. CallsInv'
      BY <2>8 DEF Discovered, Discover, Await, Goto, slots, CallsInv, TypeOK, Running, Calls,
         Discovery
    <3>3. CallbackInv'
      BY <2>8, <3>1, Apart DEF Discovered, Discover, Await, Goto, slots, CallsInv, CallbackInv,
         Linked, TypeOK, Running, Calls, Discovery
    <3> QED
      BY <3>1, <3>2, <3>3
  <2>9. ASSUME NEW c \in Connects, ConnectReturns(c)
               PROVE  EventsInv' /\ CallsInv' /\ CallbackInv'
    <3>1. EventsInv' /\ (Up => Up') /\ (Coming => Coming')
      BY <2>9, UnseenInOrder DEF Up, ConnectReturns, Leave, Goto, slots, system
    <3>2. CallsInv'
      BY <2>9 DEF ConnectReturns, Leave, Goto, slots, system, CallsInv, TypeOK, Running, Calls,
         Discovery
    <3>3. CallbackInv'
      BY <2>9, <3>1, Apart DEF ConnectReturns, Leave, Goto, slots, system, CallsInv,
         CallbackInv, Linked, TypeOK, Running, Calls, Discovery
    <3> QED
      BY <3>1, <3>2, <3>3
  <2>10. ASSUME NEW c \in Connects, DiscoveryRaises(c)
               PROVE  EventsInv' /\ CallsInv' /\ CallbackInv'
    <3>1. EventsInv' /\ (Up => Up') /\ (Coming => Coming')
      BY <2>10, UnseenInOrder DEF Up, DiscoveryRaises, Leave, Goto, slots, system
    <3>2. CallsInv'
      BY <2>10 DEF DiscoveryRaises, Leave, Goto, slots, system, CallsInv, TypeOK, Running,
         Calls, Discovery
    <3>3. CallbackInv'
      BY <2>10, <3>1, Apart DEF DiscoveryRaises, Leave, Goto, slots, system, CallsInv,
         CallbackInv, Linked, TypeOK, Running, Calls, Discovery
    <3> QED
      BY <3>1, <3>2, <3>3
  <2>11. ASSUME NEW c \in Connects, Timeout(c)
               PROVE  EventsInv' /\ CallsInv' /\ CallbackInv'
    <3>1. EventsInv' /\ (Up => Up') /\ (Coming => Coming')
      BY <2>11, UnseenInOrder DEF Up, Timeout, slots, client, system
    <3>2. CallsInv'
      BY <2>11 DEF Timeout, slots, client, system, CallsInv, TypeOK, Running, Calls, Discovery
    <3>3. CallbackInv'
      BY <2>11, <3>1, Apart DEF Timeout, slots, client, system, CallsInv, CallbackInv, Linked,
         TypeOK, Running, Calls, Discovery
    <3> QED
      BY <3>1, <3>2, <3>3
  <2>12. ASSUME NEW d \in Disconnects, DisconnectNothing(d)
               PROVE  EventsInv' /\ CallsInv' /\ CallbackInv'
    <3>1. EventsInv' /\ (Up => Up') /\ (Coming => Coming')
      BY <2>12, UnseenInOrder DEF Up, DisconnectNothing, Leave, Goto, slots, client, system
    <3>2. CallsInv'
      BY <2>12 DEF DisconnectNothing, Leave, Goto, slots, client, system, CallsInv, TypeOK,
         Running, Calls, Discovery
    <3>3. CallbackInv'
      BY <2>12, <3>1, Apart DEF DisconnectNothing, Leave, Goto, slots, client, system, CallsInv,
         CallbackInv, Linked, TypeOK, Running, Calls, Discovery
    <3> QED
      BY <3>1, <3>2, <3>3
  <2>13. ASSUME NEW d \in Disconnects, Disconnect(d)
               PROVE  EventsInv' /\ CallsInv' /\ CallbackInv'
    <3>1. EventsInv' /\ (Up => Up') /\ (Coming => Coming')
      BY <2>13, UnseenInOrder DEF Up, Disconnect, CancelPeripheralConnection, Await, Goto,
         client
    <3>2. CallsInv'
      BY <2>13 DEF Disconnect, CancelPeripheralConnection, Await, Goto, client, CallsInv,
         TypeOK, Running, Calls, Discovery
    <3>3. CallbackInv'
      BY <2>13, <3>1, Apart DEF Disconnect, CancelPeripheralConnection, Await, Goto, client,
         CallsInv, CallbackInv, Linked, TypeOK, Running, Calls, Discovery
    <3> QED
      BY <3>1, <3>2, <3>3
  <2>14. ASSUME NEW d \in Disconnects, DisconnectEnds(d)
               PROVE  EventsInv' /\ CallsInv' /\ CallbackInv'
    <3>1. EventsInv' /\ (Up => Up') /\ (Coming => Coming')
      BY <2>14, UnseenInOrder DEF Up, DisconnectEnds, Leave, Goto, client, system
    <3>2. CallsInv'
      BY <2>14 DEF DisconnectEnds, Leave, Goto, client, system, CallsInv, TypeOK, Running,
         Calls, Discovery
    <3>3. CallbackInv'
      BY <2>14, <3>1, Apart DEF DisconnectEnds, Leave, Goto, client, system, CallsInv,
         CallbackInv, Linked, TypeOK, Running, Calls, Discovery
    <3> QED
      BY <3>1, <3>2, <3>3
  <2>15. ASSUME NEW x \in Calls, Cancel(x)
               PROVE  EventsInv' /\ CallsInv' /\ CallbackInv'
    <3>1. EventsInv' /\ (Up => Up') /\ (Coming => Coming')
      BY <2>15, UnseenInOrder DEF Up, Cancel, slots, client, system
    <3>2. CallsInv'
      BY <2>15 DEF Cancel, slots, client, system, CallsInv, TypeOK, Running, Calls, Discovery
    <3>3. CallbackInv'
      BY <2>15, <3>1, Apart DEF Cancel, slots, client, system, CallsInv, CallbackInv, Linked,
         TypeOK, Running, Calls, Discovery
    <3> QED
      BY <3>1, <3>2, <3>3
  <2>16. CASE DidConnect
    <3>1. /\ EventsInv' /\ (Up => Up')
          /\ "connected" # "disconnected" /\ Coming => Coming'
          /\ "connected" = "connected" => Up \/ Coming'
      BY <2>16, HandledInOrder DEF DidConnect, Up
    <3>2. CallsInv'
      BY <2>16 DEF DidConnect, Resolve, slots, client, CallsInv, TypeOK, Running, Calls
    <3>3. CallbackInv'
      BY <2>16, <3>1, Apart DEF DidConnect, Resolve, slots, client, CallsInv, CallbackInv,
         Linked, TypeOK, Calls, Discovery
    <3> QED
      BY <3>1, <3>2, <3>3
  <2>17. CASE DidFailToConnect
    <3>1. /\ EventsInv' /\ (Up => Up')
          /\ "failed" # "disconnected" /\ Coming => Coming'
          /\ "failed" = "connected" => Up \/ Coming'
      BY <2>17, HandledInOrder DEF DidFailToConnect, Up
    <3>2. Resolve(connectSlot, "error")
      <4>1. events # <<>> /\ 1 \in DOMAIN events /\ events[1][1] = "failed"
        BY <2>17, EmptySeq, LenProperties DEF DidFailToConnect, Handle, EventsInv
      <4>2. events[1][2]
        BY <4>1 DEF EventsInv
      <4> QED
        BY <2>17, <4>2 DEF DidFailToConnect
    <3>3. CallsInv'
      BY <2>17, <3>2 DEF DidFailToConnect, Resolve, slots, client, CallsInv, TypeOK, Running,
         Calls
    <3>4. CallbackInv'
      BY <2>17, <3>1, <3>2, Apart DEF DidFailToConnect, Resolve, slots, client, CallsInv,
         CallbackInv, Linked, TypeOK, Calls, Discovery
    <3> QED
      BY <3>1, <3>3, <3>4
  <2>18. CASE DidDiscover
    <3>1. /\ EventsInv' /\ (Up => Up')
          /\ "discovered" # "disconnected" /\ Coming => Coming'
          /\ "discovered" = "connected" => Up \/ Coming'
      BY <2>18, HandledInOrder DEF DidDiscover, Up
    <3>2. CallsInv'
      BY <2>18 DEF DidDiscover, Resolve, slots, client, CallsInv, TypeOK, Running, Calls
    <3>3. CallbackInv'
      BY <2>18, <3>1, Apart DEF DidDiscover, Resolve, slots, client, CallsInv, CallbackInv,
         Linked, TypeOK, Calls, Discovery
    <3> QED
      BY <3>1, <3>2, <3>3
  <2>19. CASE DidDisconnectRaises
    <3>1. /\ EventsInv' /\ (Up => Up')
          /\ "disconnected" # "disconnected" /\ Coming => Coming'
          /\ "disconnected" = "connected" => Up \/ Coming'
      BY <2>19, HandledInOrder DEF DidDisconnectRaises, Up
    <3>2. CallsInv'
      BY <2>19 DEF DidDisconnectRaises, Resolve, slots, client, CallsInv, TypeOK, Running, Calls
    <3>3. CallbackInv'
      BY <2>19, <3>1, Apart DEF DidDisconnectRaises, Resolve, slots, client, CallsInv,
         CallbackInv, Linked, TypeOK, Calls, Discovery
    <3> QED
      BY <3>1, <3>2, <3>3
  <2>20. CASE DidDisconnect
    <3>1. /\ EventsInv' /\ (Up => Up')
          /\ "disconnected" # "disconnected" /\ Coming => Coming'
          /\ "disconnected" = "connected" => Up \/ Coming'
      BY <2>20, HandledInOrder DEF DidDisconnect, Up
    <3>2. CallsInv'
      BY <2>20 DEF DidDisconnect, Resolve, slots, client, CallsInv, TypeOK, Running, Calls
    <3>3. CallbackInv'
      BY <2>20, <3>1, Apart DEF DidDisconnect, Resolve, slots, client, CallsInv, CallbackInv,
         Linked, TypeOK, Calls, Discovery
    <3> QED
      BY <3>1, <3>2, <3>3
  <2>21. CASE LinkUp
    <3>1. EventsInv' /\ (Up => Up' \/ Coming') /\ (Coming => Coming')
      BY <2>21, AppendedInOrder DEF LinkUp, Event, Up
    <3>2. CallsInv'
      BY <2>21 DEF LinkUp, CallsInv, Running
    <3>3. CallbackInv'
      BY <2>21, <3>1 DEF LinkUp, slots, client, CallbackInv, Linked
    <3> QED
      BY <3>1, <3>2, <3>3
  <2>22. CASE LinkFails
    <3>1. EventsInv' /\ (Up => Up' \/ Coming') /\ (Coming => Coming')
      <4>1. PICK given \in ErrorGiven : events' = Append(events, <<"failed", given>>)
        BY <2>22 DEF LinkFails
      <4> DEFINE e == <<"failed", given>>
      <4>2. events' = Append(events, e) /\ e \in Event
        BY <4>1, ErrorsAssumption DEF Event
      <4>3. /\ e[1] = "connected" => Up'
            /\ e[1] = "failed" => e[2]
            /\ Up => Up' \/ e[1] = "disconnected"
        BY <2>22, ErrorsAssumption DEF LinkFails, Up
      <4> HIDE DEF e
      <4> QED
        BY <4>2, <4>3, AppendedInOrder
    <3>2. CallsInv'
      BY <2>22 DEF LinkFails, CallsInv, Running
    <3>3. CallbackInv'
      BY <2>22, <3>1 DEF LinkFails, slots, client, CallbackInv, Linked
    <3> QED
      BY <3>1, <3>2, <3>3
  <2>23. CASE LinkLost
    <3>1. EventsInv' /\ (Up => Up' \/ Coming') /\ (Coming => Coming')
      <4> DEFINE e == <<"disconnected", TRUE>>
      <4>1. events' = Append(events, e) /\ e \in Event
        BY <2>23 DEF LinkLost, Event, Up
      <4>2. /\ e[1] = "connected" => Up'
            /\ e[1] = "failed" => e[2]
            /\ Up => Up' \/ e[1] = "disconnected"
        BY <2>23 DEF LinkLost, Up
      <4> HIDE DEF e
      <4> QED
        BY <4>1, <4>2, AppendedInOrder
    <3>2. CallsInv'
      BY <2>23 DEF LinkLost, CallsInv, Running
    <3>3. CallbackInv'
      BY <2>23, <3>1 DEF LinkLost, slots, client, CallbackInv, Linked
    <3> QED
      BY <3>1, <3>2, <3>3
  <2>24. CASE LinkCancelled
    <3>1. EventsInv' /\ (Up => Up' \/ Coming') /\ (Coming => Coming')
      <4>1. PICK lost \in BOOLEAN : events' = Append(events, <<"disconnected", lost>>)
        BY <2>24 DEF LinkCancelled
      <4> DEFINE e == <<"disconnected", lost>>
      <4>2. events' = Append(events, e) /\ e \in Event
        BY <2>24, <4>1 DEF LinkCancelled, Event, Up
      <4>3. /\ e[1] = "connected" => Up'
            /\ e[1] = "failed" => e[2]
            /\ Up => Up' \/ e[1] = "disconnected"
        BY <2>24, <4>1 DEF LinkCancelled, Up
      <4> HIDE DEF e
      <4> QED
        BY <4>2, <4>3, AppendedInOrder
    <3>2. CallsInv'
      BY <2>24 DEF LinkCancelled, CallsInv, Running
    <3>3. CallbackInv'
      BY <2>24, <3>1 DEF LinkCancelled, slots, client, CallbackInv, Linked
    <3> QED
      BY <3>1, <3>2, <3>3
  <2>25. CASE Answer
    <3>1. EventsInv' /\ (Up => Up' \/ Coming') /\ (Coming => Coming')
      <4>1. PICK failed \in BOOLEAN : events' = Append(events, <<"discovered", failed, request>>)
        BY <2>25 DEF Answer
      <4> DEFINE e == <<"discovered", failed, request>>
      <4>2. events' = Append(events, e) /\ e \in Event
        BY <2>25, <4>1 DEF Answer, Event, TypeOK
      <4>3. e[1] # "connected" /\ e[1] # "failed" /\ (Up => Up')
        BY <2>25 DEF Answer, Up
      <4> HIDE DEF e
      <4> QED
        BY <4>2, <4>3, AppendedInOrder
    <3>2. CallsInv'
      BY <2>25 DEF Answer, CallsInv, Running
    <3>3. CallbackInv'
      BY <2>25, <3>1 DEF Answer, slots, client, CallbackInv, Linked
    <3> QED
      BY <3>1, <3>2, <3>3
  <2>26. CASE UNCHANGED vars
    BY <2>26, UnseenInOrder DEF Up, vars, slots, client, system, CallsInv, CallbackInv, Running,
       Linked
  <2> QED
    BY <2>1, <2>2, <2>3, <2>4, <2>5, <2>6, <2>7, <2>8, <2>9, <2>10, <2>11, <2>12, <2>13,
       <2>14, <2>15, <2>16, <2>17, <2>18, <2>19, <2>20, <2>21, <2>22, <2>23, <2>24, <2>25,
       <2>26 DEF Next, ConnectResumes, Callback
<1>3. TypeOK /\ Rest => LossReported
  BY DEF LossReported, CallbackInv, Linked, Up, Coming
<1> HIDE DEF Rest
<1> QED
  BY <1>1, <1>2, <1>3, TypeInvariant, PTL DEF Spec

-----------------------------------------------------------------------------
\* While connect() waits for the end of the connection that it has given up, there is no
\* callback, no link, and nobody who asked for another.
GivenUp ==
    \A c \in Connects : pc[c] = "cancelling" =>
        callback = None /\ state \in {"disconnected", "disconnecting"} /\ ~again

\* A connect() that gave up waiting has taken its callback out and cancelled the connection
\* or the attempt at one; nothing brings them back until it raises, because no other connect()
\* begins while it runs.  Whoever is cancelled, and whatever didFailToConnect comes with.
THEOREM TimeoutsRelease == Spec => TimeoutReleases
<1> USE CallsAssumption
<1>1. Init => GivenUp
  BY DEF Init, GivenUp, Calls
<1>2. TypeOK /\ GivenUp /\ [Next]_vars => GivenUp'
  <2> SUFFICES ASSUME TypeOK, GivenUp, [Next]_vars,
                      NEW b \in Connects, pc'[b] = "cancelling"
               PROVE  callback' = None /\ state' \in {"disconnected", "disconnecting"} /\ ~again'
    BY DEF GivenUp
  <2>1. ASSUME NEW c \in Connects, StartConnect(c) PROVE FALSE
    BY <2>1 DEF StartConnect, Await, Goto, Running, TypeOK, Calls
  <2>2. ASSUME NEW c \in Connects, TimedOut(c)
        PROVE  callback' = None /\ state' \in {"disconnected", "disconnecting"} /\ ~again'
    BY <2>2 DEF TimedOut, CancelPeripheralConnection, TypeOK
  <2>3. ASSUME NEW c \in Connects, ConnectResumes(c), ~TimedOut(c)
        PROVE  pc[b] = "cancelling" /\ UNCHANGED <<callback, state, again>>
    <3>1. ASSUME NEW l \in Pc \ {"cancelling"}, Goto(c, l) PROVE pc[b] = "cancelling"
      BY <3>1 DEF Goto, TypeOK, Calls
    <3> QED
      BY <2>3, <3>1 DEF ConnectResumes, CachedServices, Connected, ConnectRaises,
         TimedOutAfterDisconnect, Cancelled, Discovered, ConnectReturns, DiscoveryRaises,
         Discover, Await, Leave, slots, client, system, Pc, Discovery
  <2>4. ASSUME NEW d \in Disconnects, DisconnectNothing(d) \/ Disconnect(d) \/ DisconnectEnds(d)
        PROVE  /\ pc[b] = "cancelling"
               /\ UNCHANGED callback
               /\ again' => again
               /\ state' = state \/ (state = "connected" /\ state' = "disconnecting")
    BY <2>4 DEF DisconnectNothing, Disconnect, DisconnectEnds, CancelPeripheralConnection,
       Await, Leave, Goto, slots, client, system, TypeOK, Calls
  <2>5. CASE (\E c \in Connects : Timeout(c)) \/ (\E x \in Calls : Cancel(x)) \/ UNCHANGED vars
    BY <2>5 DEF Timeout, Cancel, vars, slots, client, system, GivenUp
  <2>6. CASE Callback
    BY <2>6 DEF Callback, DidConnect, DidFailToConnect, DidDiscover, DidDisconnectRaises,
       DidDisconnect, slots, client, GivenUp
  <2>7. CASE LinkUp \/ LinkFails \/ LinkLost \/ LinkCancelled \/ Answer
    BY <2>7 DEF LinkUp, LinkFails, LinkLost, LinkCancelled, Answer, slots, client, GivenUp
  <2> QED
    BY <2>1, <2>2, <2>3, <2>4, <2>5, <2>6, <2>7 DEF Next, GivenUp
<1>3. GivenUp => [\A c \in Connects : pc[c] = "cancelling" /\ pc'[c] = "raised" =>
                    callback = None /\ state \in {"disconnected", "disconnecting"}]_vars
  BY DEF GivenUp
<1> QED
  BY <1>1, <1>2, <1>3, TypeInvariant, PTL DEF Spec, TimeoutReleases
=============================================================================
