------------------------------ MODULE CBCentral ------------------------------
(***************************************************************************)
(* One BleakClientCoreBluetooth and the CentralManagerDelegate it connects  *)
(* through (src/bleak/backends/corebluetooth/client.py,                     *)
(* CentralManagerDelegate.py, and the discovery of services in              *)
(* PeripheralDelegate.py).                                                  *)
(*                                                                          *)
(* CoreBluetooth calls its delegates in a thread of its own; each callback  *)
(* is passed on with call_soon_threadsafe, so the event loop runs it later  *)
(* and in order.  A future that a callback sets wakes its coroutine later   *)
(* still: callbacks that were queued may run in between, and a timer or a   *)
(* cancellation may get ahead of the result.                                *)
(***************************************************************************)
EXTENDS Naturals, Sequences

CONSTANTS
    Connects,     \* the calls of connect()
    Disconnects,  \* the calls of disconnect()
    Cancellable,  \* those that the program may cancel
    ErrorGiven,   \* whether didFailToConnect comes with an error
    MaxLosses,    \* bound on the links that the device ends
    None

Calls == Connects \cup Disconnects

ASSUME CallsAssumption ==
    /\ Connects \cap Disconnects = {} /\ None \notin Calls
    /\ Cancellable \subseteq Calls
ASSUME ErrorsAssumption == ErrorGiven \subseteq BOOLEAN /\ MaxLosses \in Nat

VARIABLES
    pc,          \* where each call waits
    future,      \* what has become of the future it waits for
    \* CentralManagerDelegate, for the one peripheral
    connectSlot, \* _connect_futures: the call whose future is there
    disconnSlot, \* _disconnect_futures
    callback,    \* _disconnect_callbacks: the connect() that registered it
    \* the client and its PeripheralDelegate
    discovery,   \* the call whose discovery future is there
    services,    \* services is not None
    told,        \* the connects whose disconnect_callback has run
    \* CoreBluetooth
    state,       \* CBPeripheral.state()
    again,       \* connectPeripheral was called while it was disconnecting
    request,     \* the kind of discovery it works at
    events,      \* callbacks that the event loop has not run yet
    losses

slots   == <<connectSlot, disconnSlot, callback>>
client  == <<discovery, services, told>>
system  == <<state, again, request, events, losses>>
vars    == <<pc, future, slots, client, system>>

\* The three requests of _get_services, each with a future of its own.
Discovery == {"services", "characteristics", "descriptors"}
Pc == {"idle", "connecting", "cancelling", "waiting", "done", "raised"} \cup Discovery
Future == {"none", "pending", "ok", "nolink", "error", "timeout", "cancelled"}
Running(x) == pc[x] \notin {"idle", "done", "raised"}

Init ==
    /\ pc = [x \in Calls |-> "idle"]
    /\ future = [x \in Calls |-> "none"]
    /\ connectSlot = None /\ disconnSlot = None /\ callback = None
    /\ discovery = None /\ services = FALSE /\ told = {}
    /\ state = "disconnected" /\ again = FALSE /\ request = None
    /\ events = <<>> /\ losses = 0

Goto(x, l) == pc' = [pc EXCEPT ![x] = l]

\* The call waits for a new future at l.
Await(x, l) == Goto(x, l) /\ future' = [future EXCEPT ![x] = "pending"]

Leave(x, l) == Goto(x, l) /\ future' = [future EXCEPT ![x] = "none"]

-----------------------------------------------------------------------------
\* CoreBluetooth's methods, as src/ uses them

\* connectPeripheral: a connected peripheral is reported at once.
ConnectPeripheral ==
    /\ state' = IF state = "disconnected" THEN "connecting" ELSE state
    /\ again' = (again \/ state = "disconnecting")
    /\ events' = IF state = "connected" THEN Append(events, <<"connected">>) ELSE events

\* cancelPeripheralConnection: nothing is reported if there is nothing to cancel.
CancelPeripheralConnection ==
    /\ state' = IF state \in {"connecting", "connected"} THEN "disconnecting" ELSE state
    /\ again' = FALSE

-----------------------------------------------------------------------------
\* connect()

\* The program calls connect() when no call is at work and it has been told of the end of
\* its last connection.
StartConnect(c) ==
    /\ pc[c] = "idle"
    /\ \A x \in Calls : ~Running(x)
    /\ \A x \in Connects : pc[x] = "done" => x \in told
    /\ callback' = c /\ connectSlot' = c
    /\ ConnectPeripheral
    /\ Await(c, "connecting")
    /\ UNCHANGED <<disconnSlot, client, request, losses>>

\* The next discovery is asked for; CoreBluetooth answers it if the device is connected.
Discover(c, l) ==
    /\ discovery' = c
    /\ request' = IF state = "connected" THEN l ELSE request
    /\ Await(c, l)

\* _get_services finds the services of the last connection.
CachedServices(c) ==
    /\ pc[c] = "connecting" /\ future[c] \in {"ok", "nolink"} /\ services
    /\ connectSlot' = None
    /\ Leave(c, "done")
    /\ UNCHANGED <<disconnSlot, callback, client, system>>

\* What the future of connectPeripheral says is not looked at.
Connected(c) ==
    /\ pc[c] = "connecting" /\ future[c] \in {"ok", "nolink"} /\ ~services
    /\ connectSlot' = None
    /\ Discover(c, "services")
    /\ UNCHANGED <<disconnSlot, callback, services, told, state, again, events, losses>>

\* An error or a cancellation: the attempt and the callback stay.
ConnectRaises(c) ==
    /\ pc[c] = "connecting" /\ future[c] \in {"error", "cancelled"}
    /\ connectSlot' = None
    /\ Leave(c, "raised")
    /\ UNCHANGED <<disconnSlot, callback, client, system>>

\* Mutant: the connection is waited for but not cancelled.
TimedOutUncancelled(c) ==
    /\ pc[c] = "connecting" /\ future[c] = "timeout" /\ callback # None
    /\ connectSlot' = None /\ callback' = None
    /\ disconnSlot' = c
    /\ Await(c, "cancelling")
    /\ UNCHANGED <<client, system>>

\* `except asyncio.TimeoutError`: the callback goes and the connection is cancelled.
TimedOut(c) ==
    /\ pc[c] = "connecting" /\ future[c] = "timeout" /\ callback # None
    /\ connectSlot' = None /\ callback' = None
    /\ disconnSlot' = c
    /\ CancelPeripheralConnection
    /\ Await(c, "cancelling")
    /\ UNCHANGED <<client, request, events, losses>>

\* The callback has run already: `del` raises KeyError.
TimedOutAfterDisconnect(c) ==
    /\ pc[c] = "connecting" /\ future[c] = "timeout" /\ callback = None
    /\ connectSlot' = None
    /\ Leave(c, "raised")
    /\ UNCHANGED <<disconnSlot, callback, client, system>>

\* The connection is gone, or the waiting for it is cancelled: connect() raises.
Cancelled(c) ==
    /\ pc[c] = "cancelling" /\ future[c] \in {"ok", "error", "cancelled"}
    /\ disconnSlot' = None
    /\ Leave(c, "raised")
    /\ UNCHANGED <<connectSlot, callback, client, system>>

\* The services, then the characteristics of each and the descriptors of each of those: one
\* request after the other.
Discovered(c) ==
    /\ pc[c] \in Discovery /\ future[c] = "ok"
    /\ \E l \in Discovery \ {"services"} :
          /\ pc[c] = "services" => l = "characteristics"
          /\ Discover(c, l)
    /\ UNCHANGED <<slots, services, told, state, again, events, losses>>

\* The last answer: connect() returns.
ConnectReturns(c) ==
    /\ pc[c] \in Discovery /\ future[c] = "ok"
    /\ discovery' = None
    /\ services' = TRUE
    /\ Leave(c, "done")
    /\ UNCHANGED <<slots, told, system>>

\* connect() raises and leaves the link and the callback.
DiscoveryRaises(c) ==
    /\ pc[c] \in Discovery /\ future[c] \in {"error", "cancelled"}
    /\ discovery' = None
    /\ Leave(c, "raised")
    /\ UNCHANGED <<slots, services, told, system>>

-----------------------------------------------------------------------------
\* disconnect()

\* The program does not call disconnect() while connect() is running.
DisconnectNothing(d) ==
    /\ pc[d] = "idle" /\ \A c \in Connects : ~Running(c)
    /\ state # "connected"
    /\ Leave(d, "done")
    /\ UNCHANGED <<slots, client, system>>

\* Mutant: disconnect() does not look at the state of the peripheral.
DisconnectUnchecked(d) ==
    /\ pc[d] = "idle" /\ \A c \in Connects : ~Running(c)
    /\ disconnSlot' = d
    /\ CancelPeripheralConnection
    /\ Await(d, "waiting")
    /\ UNCHANGED <<connectSlot, callback, client, request, events, losses>>

Disconnect(d) ==
    /\ pc[d] = "idle" /\ \A c \in Connects : ~Running(c)
    /\ state = "connected"
    /\ disconnSlot' = d
    /\ CancelPeripheralConnection
    /\ Await(d, "waiting")
    /\ UNCHANGED <<connectSlot, callback, client, request, events, losses>>

DisconnectEnds(d) ==
    /\ pc[d] = "waiting" /\ future[d] \in {"ok", "error", "cancelled"}
    /\ disconnSlot' = None
    /\ Leave(d, IF future[d] = "ok" THEN "done" ELSE "raised")
    /\ UNCHANGED <<connectSlot, callback, client, system>>

-----------------------------------------------------------------------------
\* The timer of connect() and cancellations: the future is cancelled, or its result is lost.

Timeout(c) ==
    /\ pc[c] = "connecting" /\ future[c] \notin {"timeout", "cancelled"}
    /\ future' = [future EXCEPT ![c] = "timeout"]
    /\ UNCHANGED <<pc, slots, client, system>>

Cancel(x) ==
    /\ x \in Cancellable /\ Running(x) /\ future[x] # "cancelled"
    /\ future' = [future EXCEPT ![x] = "cancelled"]
    /\ UNCHANGED <<pc, slots, client, system>>

-----------------------------------------------------------------------------
\* The callbacks of CoreBluetooth, run by the event loop

Handle(kind) == events # <<>> /\ Head(events)[1] = kind /\ events' = Tail(events)

\* A future that is done is left as it is: setting it raises InvalidStateError, or it has
\* been taken out of its slot.
Resolve(slot, value) ==
    future' = IF slot # None /\ future[slot] = "pending"
              THEN [future EXCEPT ![slot] = value] ELSE future

DidConnect ==
    /\ Handle("connected")
    /\ Resolve(connectSlot, "ok")
    /\ UNCHANGED <<pc, slots, client, state, again, request, losses>>

DidFailToConnect ==
    /\ Handle("failed")
    /\ Resolve(connectSlot, IF Head(events)[2] THEN "error" ELSE "nolink")
    /\ UNCHANGED <<pc, slots, client, state, again, request, losses>>

\* An answer finds only a future of its kind: it may be that of a call that was cancelled.
DidDiscover ==
    /\ Handle("discovered")
    /\ LET kind == Head(events)[3]
       IN  Resolve(IF discovery # None /\ pc[discovery] = kind THEN discovery ELSE None,
                   IF Head(events)[2] THEN "error" ELSE "ok")
    /\ UNCHANGED <<pc, slots, client, state, again, request, losses>>

\* The future of a disconnect() is done before its coroutine has seen it: InvalidStateError
\* leaves the handler.
DidDisconnectRaises ==
    /\ Handle("disconnected")
    /\ disconnSlot # None /\ future[disconnSlot] # "pending"
    /\ UNCHANGED <<pc, future, slots, client, state, again, request, losses>>

\* Mutant: the pending futures are not failed.
DidDisconnectLeavesFutures ==
    /\ Handle("disconnected")
    /\ disconnSlot # None => future[disconnSlot] = "pending"
    /\ callback' = None
    /\ told' = IF callback = None THEN told ELSE told \cup {callback}
    /\ services' = (services /\ callback = None)
    /\ future' = [x \in Calls |->
          IF x = disconnSlot THEN IF Head(events)[2] THEN "error" ELSE "ok" ELSE future[x]]
    /\ UNCHANGED <<pc, connectSlot, disconnSlot, discovery, state, again, request, losses>>

\* Mutant: a disconnect() that waits takes the event, and the callback is not run.
DidDisconnectOrCallback ==
    /\ Handle("disconnected")
    /\ disconnSlot # None => future[disconnSlot] = "pending"
    /\ callback' = IF disconnSlot # None THEN callback ELSE None
    /\ told' = IF callback = None \/ disconnSlot # None THEN told ELSE told \cup {callback}
    /\ services' = (services /\ callback = None)
    /\ future' = [x \in Calls |->
          IF x = disconnSlot THEN IF Head(events)[2] THEN "error" ELSE "ok"
          ELSE IF x = discovery /\ callback # None /\ future[x] = "pending" THEN "error"
          ELSE future[x]]
    /\ UNCHANGED <<pc, connectSlot, disconnSlot, discovery, state, again, request, losses>>

\* did_disconnect_peripheral: the waiting disconnect(), then the callback of the client,
\* which forgets the services and fails what waits for the device.
DidDisconnect ==
    /\ Handle("disconnected")
    /\ disconnSlot # None => future[disconnSlot] = "pending"
    /\ callback' = None
    /\ told' = IF callback = None THEN told ELSE told \cup {callback}
    /\ services' = (services /\ callback = None)
    /\ future' = [x \in Calls |->
          IF x = disconnSlot THEN IF Head(events)[2] THEN "error" ELSE "ok"
          ELSE IF x = discovery /\ callback # None /\ future[x] = "pending" THEN "error"
          ELSE future[x]]
    /\ UNCHANGED <<pc, connectSlot, disconnSlot, discovery, state, again, request, losses>>

-----------------------------------------------------------------------------
\* CoreBluetooth and the device

LinkUp ==
    /\ state = "connecting"
    /\ state' = "connected"
    /\ events' = Append(events, <<"connected">>)
    /\ UNCHANGED <<pc, future, slots, client, again, request, losses>>

LinkFails ==
    /\ state = "connecting"
    /\ state' = "disconnected"
    /\ \E given \in ErrorGiven : events' = Append(events, <<"failed", given>>)
    /\ UNCHANGED <<pc, future, slots, client, again, request, losses>>

LinkLost ==
    /\ state = "connected" /\ losses < MaxLosses
    /\ state' = "disconnected" /\ request' = None
    /\ losses' = losses + 1
    /\ events' = Append(events, <<"disconnected", TRUE>>)
    /\ UNCHANGED <<pc, future, slots, client, again>>

\* A cancelled connection ends; the device may have ended it first.
LinkCancelled ==
    /\ state = "disconnecting"
    /\ state' = IF again THEN "connecting" ELSE "disconnected"
    /\ again' = FALSE /\ request' = None
    /\ \E lost \in BOOLEAN : events' = Append(events, <<"disconnected", lost>>)
    /\ UNCHANGED <<pc, future, slots, client, losses>>

Answer ==
    /\ request # None /\ state = "connected"
    /\ request' = None
    /\ \E failed \in BOOLEAN : events' = Append(events, <<"discovered", failed, request>>)
    /\ UNCHANGED <<pc, future, slots, client, state, again, losses>>

-----------------------------------------------------------------------------
ConnectResumes(c) ==
    \/ CachedServices(c) \/ Connected(c) \/ ConnectRaises(c) \/ TimedOut(c)
    \/ TimedOutAfterDisconnect(c) \/ Cancelled(c) \/ Discovered(c) \/ ConnectReturns(c)
    \/ DiscoveryRaises(c)

Callback == DidConnect \/ DidFailToConnect \/ DidDiscover \/ DidDisconnectRaises \/ DidDisconnect

Next ==
    \/ \E c \in Connects : StartConnect(c) \/ ConnectResumes(c) \/ Timeout(c)
    \/ \E d \in Disconnects : DisconnectNothing(d) \/ Disconnect(d) \/ DisconnectEnds(d)
    \/ \E x \in Calls : Cancel(x)
    \/ Callback
    \/ LinkUp \/ LinkFails \/ LinkLost \/ LinkCancelled \/ Answer

Spec == Init /\ [][Next]_vars

\* The loop resumes coroutines and runs callbacks and timers; CoreBluetooth ends what was
\* cancelled and answers a device that is connected.
Fairness ==
    /\ \A c \in Connects : WF_vars(ConnectResumes(c)) /\ WF_vars(Timeout(c))
    /\ \A d \in Disconnects : WF_vars(DisconnectEnds(d))
    /\ WF_vars(Callback) /\ WF_vars(LinkCancelled) /\ WF_vars(Answer)

FairSpec == Spec /\ Fairness

-----------------------------------------------------------------------------
\* Properties

\* Every variable holds a value the code could put there; a future in a slot belongs to a
\* call that waits at that place.
TypeOK ==
    /\ pc \in [Calls -> Pc] /\ future \in [Calls -> Future]
    /\ \A x \in Calls : Running(x) <=> future[x] # "none"
    /\ {connectSlot, disconnSlot, discovery} \subseteq Calls \cup {None}
    /\ connectSlot = None \/ pc[connectSlot] = "connecting"
    /\ disconnSlot = None \/ pc[disconnSlot] \in {"cancelling", "waiting"}
    /\ discovery = None \/ pc[discovery] \in Discovery
    /\ callback \in Connects \cup {None} /\ told \subseteq Connects
    /\ services \in BOOLEAN /\ again \in BOOLEAN
    /\ state \in {"disconnected", "connecting", "connected", "disconnecting"}
    /\ request \in Discovery \cup {None}

\* Once connect() has returned, the disconnect callback stays registered until the link is
\* gone, and then runs: there is no end of a connection that the client is not told of, if
\* no disconnect() is cancelled.
LossReported ==
    \A c \in Connects : pc[c] = "done" /\ c \notin told =>
        /\ callback = c
        /\ \/ state \in {"connected", "disconnecting"}
           \/ \E i \in DOMAIN events : events[i][1] = "disconnected"

\* A connect() that gave up waiting leaves no link, no attempt at one, and no callback,
\* whichever end of a connection it was that its waiting saw, or if that is cancelled too.
TimeoutReleases ==
    [][\A c \in Connects : pc[c] = "cancelling" /\ pc'[c] = "raised" =>
          callback = None /\ state \in {"disconnected", "disconnecting"}]_vars

\* A discovery future is resolved, by the answer or because the device disconnects, if the
\* callback is registered and the device connected while it is pending.
DiscoveryResolves ==
    \A c \in Connects :
        pc[c] \in Discovery /\ future[c] = "pending" /\ callback = c /\ state = "connected"
            ~> future[c] # "pending"

\* Every disconnect() returns or raises.
DisconnectReturns == \A d \in Disconnects : pc[d] = "waiting" ~> pc[d] \in {"done", "raised"}
=============================================================================
