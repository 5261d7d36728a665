------------------------------ MODULE BlueZClient ------------------------------
(***************************************************************************)
(* One BleakClientBlueZDBus object (src/bleak/backends/bluezdbus/client.py) *)
(* on one asyncio event loop: the connect() and disconnect() coroutines,    *)
(* the device watcher that the D-Bus manager calls, and the background      *)
(* disconnect monitor.                                                      *)
(*                                                                          *)
(* Between two awaits a coroutine runs alone, so one action is what a call  *)
(* does from one await to the next.  Property changes reach the manager on  *)
(* its own D-Bus connection, replies reach the client on another one: a     *)
(* reply and the signals sent before or after it are seen in any order.     *)
(***************************************************************************)
EXTENDS Naturals, Sequences

CONSTANTS
    Connects,     \* the connect() calls made on the client, each made once
    Disconnects,  \* the disconnect() calls made on the client
    MaxTries,     \* bound on the iterations of the `while True` loop of a connect()
    MaxFaults,    \* bound on link losses and device removals
    MayOverlap,   \* pairs <<k1, k2>>: a call of kind k1 may start during one of kind k2
    UseCache,     \* the connect() calls made with dangerous_use_bleak_cache
    None          \* Python's None

ASSUME CallsAssumption ==
    /\ Connects \cap Disconnects = {}
    /\ UseCache \subseteq Connects
    /\ None \notin Disconnects
    /\ None \notin Connects \X (1..MaxTries)
    /\ <<"connect", "connect">> \notin MayOverlap
ASSUME BoundsAssumption == MaxTries \in Nat \ {0} /\ MaxFaults \in Nat

Calls == Connects \cup Disconnects
Kind(x) == IF x \in Connects THEN "connect" ELSE "disconnect"

\* One iteration of the connect loop.  It owns one MessageBus, one watcher and
\* one disconnect monitor event, all named by the attempt.
Attempts == Connects \X (1..MaxTries)
Ref == Attempts \cup {None}

VARIABLES
    pc,           \* where each call waits (see ConnectPC, DisconnectPC)
    try,          \* the iteration of the loop of each connect()
    leaving,      \* why a connect() leaves its exit stack: "retry" or "raise"
    reply,        \* the D-Bus reply that has arrived for the awaited method call
    awaited,      \* the disconnecting event a disconnect() waits for
    \* fields of the client
    bus,          \* _bus
    isConn,       \* _is_connected
    services,     \* services: the attempt they were read in
    removeWatcher,\* _remove_device_watcher: the watcher it removes
    monitor,      \* _disconnect_monitor_event
    discEvent,    \* _disconnecting_event: the disconnect() that created it
    \* objects the fields refer to
    open,         \* buses created and not disconnected
    monSet,       \* disconnect monitor events that are set
    monTasks,     \* disconnect monitor tasks that have not ended
    discSet,      \* disconnecting events that are set
    \* the D-Bus manager's view of the device
    watchers,     \* device watchers registered for this client
    known,        \* the Connected property in the manager's cache
    present,      \* the device is in the manager's cache
    cached,       \* _services_cache holds services of the device
    \* BlueZ
    link,         \* the device is connected
    exists,       \* the device object exists
    requests,     \* method calls BlueZ has still to serve: <<call, member, bus>>
    signals,      \* signals on their way to the manager
    faults,       \* faults so far, for the bound MaxFaults
    \* history
    fired         \* attempts whose watcher has called the disconnected callback

fields   == <<bus, isConn, services, removeWatcher, monitor, discEvent>>
objects  == <<open, monSet, monTasks, discSet>>
manager  == <<watchers, known, present, cached>>
bluez    == <<link, exists, requests, signals, faults>>
vars     == <<pc, try, leaving, reply, awaited, fields, objects, manager, bluez, fired>>

\* what a step that only moves on leaves alone
allButPc == <<try, leaving, reply, awaited, fields, objects, manager, bluez, fired>>

ConnectPC == {"idle", "prepare", "bus", "call", "retry", "manager", "discover",
              "resolved", "lost", "undo", "ok", "raised"}
DisconnectPC == {"idle", "call", "event", "close", "join", "ok", "raised", "assertion"}
Replies == {"ok", "abort", "unknown", "error"}
Members == {"Connect", "Disconnect"}
SignalKinds == {"up", "down", "removed", "added"}

Finished(x) == pc[x] \in {"ok", "raised", "assertion"}
Running(x)  == pc[x] # "idle" /\ ~Finished(x)

\* is_connected
IsConnected == bus # None /\ isConn

Att(c) == <<c, try[c]>>

\* No call may start while one it must not overlap with is running.
MayStart(x) == \A y \in Calls \ {x} : Running(y) => <<Kind(x), Kind(y)>> \in MayOverlap

Init ==
    /\ pc = [x \in Calls |-> "idle"]
    /\ try = [c \in Connects |-> 1]
    /\ leaving = [c \in Connects |-> "raise"]
    /\ reply = [x \in Calls |-> None]
    /\ awaited = [d \in Disconnects |-> None]
    /\ bus = None /\ isConn = FALSE /\ services = None
    /\ removeWatcher = None /\ monitor = None /\ discEvent = None
    /\ open = {} /\ monSet = {} /\ monTasks = {} /\ discSet = {}
    /\ watchers = {} /\ known = FALSE /\ present = TRUE /\ cached = FALSE
    /\ link = FALSE /\ exists = TRUE /\ requests = {} /\ signals = <<>> /\ faults = 0
    /\ fired = {}

Goto(x, l) == pc' = [pc EXCEPT ![x] = l]

\* A method call is sent on _bus; its reply will arrive in reply[x].
Send(x, member) ==
    /\ requests' = requests \cup {<<x, member, bus>>}
    /\ reply' = [reply EXCEPT ![x] = None]

-----------------------------------------------------------------------------
\* connect()

\* Mutant: _remove_device_watcher is not reset.
CleanupKeepsField ==
    /\ watchers' = watchers \ {removeWatcher}
    /\ services' = IF bus = None THEN services ELSE None
    /\ UNCHANGED removeWatcher

\* _cleanup_all: remove the watcher; drop the services unless there is no bus.
CleanupAll ==
    /\ watchers' = watchers \ {removeWatcher}
    /\ removeWatcher' = None
    /\ services' = IF bus = None THEN services ELSE None

\* connect() refuses a connected client, then finds the device and the manager.
StartConnect(c) ==
    /\ pc[c] = "idle" /\ MayStart(c)
    /\ Goto(c, IF IsConnected THEN "raised" ELSE "prepare")
    /\ UNCHANGED allButPc

\* The BlueZ version is too old, the scan does not find the device, or the call is
\* cancelled.
PrepareFails(c) ==
    /\ pc[c] = "prepare"
    /\ Goto(c, "raised")
    /\ UNCHANGED allButPc

\* The first iteration of the loop: a new bus, whose connect() is awaited.
NewBus(c) ==
    /\ pc[c] = "prepare"
    /\ bus' = Att(c)
    /\ open' = open \cup {Att(c)}
    /\ Goto(c, "bus")
    /\ UNCHANGED <<try, leaving, reply, awaited, isConn, services, removeWatcher,
                   monitor, discEvent, monSet, monTasks, discSet, manager, bluez, fired>>

\* Mutant: the bus is not disconnected when its connect() fails.
BusFailsOpen(c) == pc[c] = "bus" /\ Goto(c, "raised") /\ UNCHANGED allButPc

\* The bus does not connect, or the call is cancelled or times out: only the bus is
\* on the exit stack.
BusFails(c) ==
    /\ pc[c] = "bus"
    /\ open' = open \ {Att(c)}
    /\ Goto(c, "raised")
    /\ UNCHANGED <<try, leaving, reply, awaited, fields, monSet, monTasks, discSet,
                   manager, bluez, fired>>

\* add_device_watcher raises when the device is gone: _cleanup_all and the bus are on
\* the exit stack.
WatcherFails(c) ==
    /\ pc[c] = "bus" /\ ~present
    /\ CleanupAll
    /\ open' = open \ {Att(c)}
    /\ Goto(c, "raised")
    /\ UNCHANGED <<try, leaving, reply, awaited, bus, isConn, monitor, discEvent,
                   monSet, monTasks, discSet, known, present, cached, bluez, fired>>

\* The watcher and the monitor event of an attempt whose bus has connected.
Watch(c) ==
    /\ pc[c] = "bus" /\ present /\ Att(c) \in open
    /\ watchers' = watchers \cup {Att(c)}
    /\ removeWatcher' = Att(c)
    /\ monitor' = Att(c)

\* The device is not connected: Connect (or Pair) is sent on _bus.
SendConnect(c) ==
    /\ Watch(c)
    /\ ~known /\ bus # None
    /\ Send(c, "Connect")
    /\ Goto(c, "call")
    /\ UNCHANGED <<try, leaving, awaited, bus, isConn, services, discEvent, objects,
                   known, present, cached, link, exists, signals, faults, fired>>

\* The AsyncExitStack after disconnect_device: the monitor event is set, _cleanup_all
\* runs and the bus is disconnected.  A retry goes round the loop with a new bus.
FinishUnwind(c, why) ==
    /\ monSet' = monSet \cup {Att(c)}
    /\ CleanupAll
    /\ \/ /\ why = "retry" /\ try[c] < MaxTries
          /\ try' = [try EXCEPT ![c] = @ + 1]
          /\ bus' = <<c, try[c] + 1>>
          /\ open' = (open \ {Att(c)}) \cup {<<c, try[c] + 1>>}
          /\ Goto(c, "bus")
       \/ /\ why = "raise"
          /\ open' = open \ {Att(c)}
          /\ Goto(c, "raised")
          /\ UNCHANGED <<try, bus>>

\* The `async with AsyncExitStack()` is left: disconnect_device sends Disconnect if
\* there is a bus (on a closed one the call fails, which is only logged).
Unwind(c, why) ==
    /\ leaving' = [leaving EXCEPT ![c] = why]
    /\ IF bus # None /\ bus \in open
       THEN /\ Send(c, "Disconnect")
            /\ Goto(c, "undo")
            /\ UNCHANGED <<try, bus, services, removeWatcher, open, monSet, watchers>>
       ELSE /\ FinishUnwind(c, why)
            /\ UNCHANGED <<requests, reply>>

\* disconnect() of another call cleared _bus while the new one connected: the first
\* use of self._bus raises, after the watcher was added and perhaps _is_connected set.
BusCleared(c) ==
    /\ pc[c] = "bus" /\ present /\ Att(c) \in open /\ bus = None
    /\ isConn' = (known \/ isConn)
    /\ monitor' = Att(c)
    /\ removeWatcher' = None
    /\ monSet' = monSet \cup {Att(c)}
    /\ monTasks' = IF known THEN monTasks \cup {Att(c)} ELSE monTasks
    /\ open' = open \ {Att(c)}
    /\ Goto(c, "raised")
    /\ UNCHANGED <<try, leaving, reply, awaited, bus, services, discEvent, discSet,
                   manager, bluez, fired>>

\* manager.get_services: the services in the manager's cache, or a wait for ServicesResolved.
MayUseCache(c) == cached /\ c \in UseCache
AskServices(c) ==
    \/ /\ present /\ MayUseCache(c)
       /\ services' = Att(c)
       /\ Goto(c, "ok")
    \/ /\ present /\ known /\ ~MayUseCache(c)
       /\ Goto(c, "discover")
       /\ UNCHANGED services

\* _get_services of a connected client: the services it has, or those of the manager, whose
\* _bus_lock (get_global_bluez_manager takes it) a scanner may hold.
GetServices(c) ==
    \/ /\ services # None
       /\ Goto(c, "ok")
       /\ UNCHANGED services
    \/ services = None /\ AskServices(c)
    \/ /\ services = None
       /\ Goto(c, "manager")
       /\ UNCHANGED services

\* _is_connected is set and the monitor task is created.
BecomeConnected(c) ==
    /\ isConn' = TRUE
    /\ monTasks' = monTasks \cup {Att(c)}

\* The manager says that the device is connected: Connect is not called.
SkipConnect(c) ==
    /\ Watch(c)
    /\ known /\ bus # None
    /\ BecomeConnected(c)
    /\ GetServices(c)
    /\ UNCHANGED <<try, leaving, reply, awaited, bus, discEvent, open, monSet, discSet,
                   known, present, cached, bluez, fired>>

ConnectOk(c) ==
    /\ pc[c] = "call" /\ reply[c] = "ok" /\ bus # None
    /\ BecomeConnected(c)
    /\ GetServices(c)
    /\ UNCHANGED <<try, leaving, reply, awaited, bus, removeWatcher, monitor, discEvent,
                   open, monSet, discSet, manager, bluez, fired>>

\* The reply is good but the manager has seen the device go, or has not seen it
\* connected yet, or another call has cleared _bus: _get_services raises.
ConnectOkTooLate(c) ==
    /\ pc[c] = "call" /\ reply[c] = "ok"
    /\ \/ bus = None
       \/ services = None /\ ~(present /\ (known \/ MayUseCache(c)))
    /\ BecomeConnected(c)
    /\ Unwind(c, "raise")
    /\ UNCHANGED <<awaited, monitor, discEvent, discSet, known, present, cached, link,
                   exists, signals, faults, fired>>

\* le-connection-abort-by-local: wait for the disconnect that must follow, then retry.
ConnectAborts(c) ==
    /\ pc[c] = "call" /\ reply[c] = "abort" /\ Att(c) \notin monSet
    /\ Goto(c, "retry")
    /\ UNCHANGED allButPc

Retry(c) ==
    /\ pc[c] = "retry" \/ (pc[c] = "call" /\ reply[c] = "abort")
    /\ Att(c) \in monSet
    /\ Unwind(c, "retry")
    /\ UNCHANGED <<awaited, isConn, monitor, discEvent, monTasks, discSet, known, present,
                   cached, link, exists, signals, faults, fired>>

\* The exit stack is entered by an exception: an error reply, a bus closed under the
\* call, the timeout of connect() or a cancellation, or the end of the discovery wait.
ConnectRaises(c) ==
    /\ pc[c] \in {"call", "retry", "manager", "discover", "resolved", "lost"}
    /\ Unwind(c, "raise")
    /\ UNCHANGED <<awaited, isConn, monitor, discEvent, monTasks, discSet, known, present,
                   cached, link, exists, signals, faults, fired>>

\* The reply to the Disconnect of disconnect_device, or its failure.
Undone(c) ==
    /\ pc[c] = "undo" /\ (reply[c] # None \/ bus \notin open)
    /\ FinishUnwind(c, leaving[c])
    /\ UNCHANGED <<leaving, reply, awaited, isConn, monitor, discEvent, monTasks, discSet,
                   known, present, cached, bluez, fired>>

\* disconnect_device is cancelled or times out; its Disconnect is already sent.
UndoInterrupted(c) ==
    /\ pc[c] = "undo"
    /\ FinishUnwind(c, "raise")
    /\ UNCHANGED <<leaving, reply, awaited, isConn, monitor, discEvent, monTasks, discSet,
                   known, present, cached, bluez, fired>>

\* The lock is free again.
AskManager(c) ==
    /\ pc[c] = "manager"
    /\ AskServices(c)
    /\ UNCHANGED <<try, leaving, reply, awaited, bus, isConn, removeWatcher, monitor,
                   discEvent, objects, manager, bluez, fired>>

\* The manager sees ServicesResolved; the waiting call wakes some iterations later.
Resolve(c) ==
    /\ pc[c] = "discover" /\ present /\ known
    /\ Goto(c, "resolved")
    /\ UNCHANGED allButPc

\* The services are built, stored in the manager's cache and in the client.
TakeServices(c) ==
    /\ pc[c] = "resolved"
    /\ services' = Att(c)
    /\ cached' = TRUE
    /\ Goto(c, "ok")
    /\ UNCHANGED <<try, leaving, reply, awaited, bus, isConn, removeWatcher, monitor,
                   discEvent, objects, watchers, known, present, bluez, fired>>

-----------------------------------------------------------------------------
\* disconnect()

\* `assert self.services is None`, the last statement of disconnect().
Sanity == IF services = None THEN "ok" ELSE "assertion"

\* There is no bus: already disconnected.
DisconnectNoBus(d) ==
    /\ pc[d] = "idle" /\ MayStart(d) /\ bus = None
    /\ Goto(d, "ok")
    /\ UNCHANGED allButPc

\* Another disconnect() is in progress: wait for its event.
DisconnectJoin(d) ==
    /\ pc[d] = "idle" /\ MayStart(d) /\ bus # None /\ discEvent # None
    /\ awaited' = [awaited EXCEPT ![d] = discEvent]
    /\ Goto(d, "join")
    /\ UNCHANGED <<try, leaving, reply, fields, objects, manager, bluez, fired>>

\* Mutant: _is_connected is cleared when Disconnect is sent.
DisconnectSendEager(d) ==
    /\ pc[d] = "idle" /\ MayStart(d) /\ bus # None /\ discEvent = None /\ isConn
    /\ bus \in open
    /\ isConn' = FALSE
    /\ discEvent' = d
    /\ Send(d, "Disconnect")
    /\ Goto(d, "call")
    /\ UNCHANGED <<try, leaving, awaited, bus, services, removeWatcher, monitor,
                   objects, manager, link, exists, signals, faults, fired>>

\* The first disconnect() of a connected client sends Disconnect.
DisconnectSend(d) ==
    /\ pc[d] = "idle" /\ MayStart(d) /\ bus # None /\ discEvent = None /\ isConn
    /\ bus \in open
    /\ discEvent' = d
    /\ Send(d, "Disconnect")
    /\ Goto(d, "call")
    /\ UNCHANGED <<try, leaving, awaited, bus, isConn, services, removeWatcher, monitor,
                   objects, manager, link, exists, signals, faults, fired>>

\* is_connected is true on a bus that is closed: the call raises at once.
DisconnectOnClosedBus(d) ==
    /\ pc[d] = "idle" /\ MayStart(d) /\ bus # None /\ discEvent = None /\ isConn
    /\ bus \notin open
    /\ Goto(d, "raised")
    /\ UNCHANGED allButPc

\* The bus is disconnected and wait_for_disconnect() is awaited.
CloseBus(d) ==
    /\ discEvent' = None
    /\ open' = open \ {bus}
    /\ Goto(d, IF bus = None THEN "raised" ELSE "close")

\* Not connected: only the bus is closed.
DisconnectIdle(d) ==
    /\ pc[d] = "idle" /\ MayStart(d) /\ bus # None /\ discEvent = None /\ ~isConn
    /\ CloseBus(d)
    /\ UNCHANGED <<try, leaving, reply, awaited, bus, isConn, services, removeWatcher,
                   monitor, monSet, monTasks, discSet, manager, bluez, fired>>

\* Disconnect succeeded: wait for the watcher to see it.
DisconnectOk(d) ==
    /\ pc[d] = "call" /\ reply[d] = "ok" /\ d \notin discSet
    /\ Goto(d, "event")
    /\ UNCHANGED allButPc

\* Mutant: the event is not waited for.
DisconnectUnseen(d) ==
    /\ pc[d] = "call" /\ reply[d] = "ok"
    /\ CloseBus(d)
    /\ UNCHANGED <<try, leaving, reply, awaited, bus, isConn, services, removeWatcher,
                   monitor, monSet, monTasks, discSet, manager, bluez, fired>>

\* The watcher has seen the disconnection, before or after the reply.
DisconnectSeen(d) ==
    /\ pc[d] = "event" \/ (pc[d] = "call" /\ reply[d] = "ok")
    /\ d \in discSet
    /\ CloseBus(d)
    /\ UNCHANGED <<try, leaving, reply, awaited, bus, isConn, services, removeWatcher,
                   monitor, monSet, monTasks, discSet, manager, bluez, fired>>

\* The `finally` of an exception; the bus stays open.
DisconnectLeaves(d) ==
    /\ discEvent' = None
    /\ Goto(d, "raised")
    /\ UNCHANGED <<try, leaving, reply, awaited, bus, isConn, services, removeWatcher,
                   monitor, objects, manager, bluez, fired>>

\* An error reply, or a bus closed under the call.
DisconnectFails(d) ==
    /\ pc[d] = "call" /\ (reply[d] \in {"unknown", "error"} \/ bus \notin open)
    /\ DisconnectLeaves(d)

\* The 10 s timeout, or a cancellation.
DisconnectTimeout(d) == pc[d] = "event" /\ DisconnectLeaves(d)
DisconnectCancelled(d) == pc[d] = "call" /\ DisconnectLeaves(d)

\* wait_for_disconnect() returns.
DisconnectClosed(d) ==
    /\ pc[d] = "close"
    /\ bus' = None
    /\ Goto(d, Sanity)
    /\ UNCHANGED <<try, leaving, reply, awaited, isConn, services, removeWatcher, monitor,
                   discEvent, objects, manager, bluez, fired>>

\* The disconnect() waited for has seen the device disconnect.
JoinSeen(d) ==
    /\ pc[d] = "join" /\ awaited[d] \in discSet
    /\ Goto(d, Sanity)
    /\ UNCHANGED allButPc

\* Mutant: no timeout on the wait for another disconnect().
JoinForever(d) == pc[d] = "join" /\ FALSE /\ Goto(d, "raised") /\ UNCHANGED allButPc

JoinTimeout(d) == pc[d] = "join" /\ Goto(d, "raised") /\ UNCHANGED allButPc
CloseCancelled(d) == pc[d] = "close" /\ Goto(d, "raised") /\ UNCHANGED allButPc

-----------------------------------------------------------------------------
\* The disconnect monitor task and the D-Bus manager

\* _disconnect_monitor returns when its event is set.
MonitorEnds(a) ==
    /\ a \in monTasks /\ a \in monSet
    /\ monTasks' = monTasks \ {a}
    /\ UNCHANGED <<pc, try, leaving, reply, awaited, fields, open,
                   monSet, discSet, manager, bluez, fired>>

\* A waiting discovery is told that the device has gone.  One that has already been
\* woken by ServicesResolved may or may not see it.
WakeDiscovery ==
    \E seen \in BOOLEAN :
        pc' = [x \in Calls |->
                 IF pc[x] = "discover" \/ (pc[x] = "resolved" /\ seen) THEN "lost" ELSE pc[x]]

\* Mutant: no _cleanup_all.
DisconnectedNoCleanup ==
    /\ isConn' = FALSE
    /\ monSet' = IF monitor = None THEN monSet ELSE monSet \cup {monitor}
    /\ monitor' = None
    /\ fired' = fired \cup watchers
    /\ discSet' = IF discEvent = None THEN discSet ELSE discSet \cup {discEvent}
    /\ UNCHANGED <<watchers, removeWatcher, services>>

\* on_connected_changed(False) of every watcher of the device.
OnDisconnected ==
    /\ isConn' = FALSE
    /\ monSet' = IF monitor = None THEN monSet ELSE monSet \cup {monitor}
    /\ monitor' = None
    /\ CleanupAll
    /\ fired' = fired \cup watchers
    /\ discSet' = IF discEvent = None THEN discSet ELSE discSet \cup {discEvent}

\* _parse_msg handles the next signal.
NextSignal(s) == signals # <<>> /\ Head(signals) = s /\ signals' = Tail(signals)

\* Connected becomes false: the cache first, then the waiting discoveries, then the
\* watchers of the device.  A change of a device the manager does not have is dropped.
SeeDown ==
    /\ NextSignal("down")
    /\ \/ /\ ~present
          /\ UNCHANGED <<pc, known, isConn, monSet, monitor, watchers, removeWatcher,
                         services, fired, discSet>>
       \/ /\ present
          /\ known' = FALSE
          /\ WakeDiscovery
          /\ \/ watchers # {} /\ OnDisconnected
             \/ /\ watchers = {}
                /\ UNCHANGED <<isConn, monSet, monitor, watchers, removeWatcher, services,
                               fired, discSet>>
    /\ UNCHANGED <<try, leaving, reply, awaited, bus, discEvent, open, monTasks, present,
                   cached, link, exists, requests, faults>>

\* InterfacesRemoved: the device and its services are forgotten.  The watchers are not told.
SeeRemoved ==
    /\ NextSignal("removed")
    /\ known' = FALSE /\ present' = FALSE /\ cached' = FALSE
    /\ WakeDiscovery
    /\ UNCHANGED <<try, leaving, reply, awaited, fields, objects, watchers, link, exists,
                   requests, faults, fired>>

\* Connected becomes true (the watchers ignore it), or the device is added.
SeeUp ==
    /\ NextSignal("up")
    /\ known' = (known \/ present)
    /\ UNCHANGED <<pc, try, leaving, reply, awaited, fields, objects, watchers, present,
                   cached, link, exists, requests, faults, fired>>

SeeAdded ==
    /\ NextSignal("added")
    /\ present' = TRUE
    /\ UNCHANGED <<pc, try, leaving, reply, awaited, fields, objects, watchers, known,
                   cached, link, exists, requests, faults, fired>>

HandleSignal == SeeDown \/ SeeRemoved \/ SeeUp \/ SeeAdded

-----------------------------------------------------------------------------
\* BlueZ and the device, as src/ uses them

\* A reply is dropped when the bus it would arrive on is closed, or when the call that
\* waited for it has been interrupted.
Waits(x, member) ==
    \/ member = "Connect" /\ pc[x] = "call"
    \/ member = "Disconnect" /\ pc[x] \in (IF x \in Connects THEN {"undo"} ELSE {"call"})
Answer(q, r) == IF Waits(q[1], q[2]) /\ q[3] \in open
                THEN [reply EXCEPT ![q[1]] = r] ELSE reply

\* Connect is served: the link comes up, or comes up and is aborted, or an error.
ServeConnect(q) ==
    /\ q[2] = "Connect"
    /\ requests' = requests \ {q}
    /\ \/ /\ exists /\ link' = TRUE
          /\ signals' = IF link THEN signals ELSE Append(signals, "up")
          /\ reply' = Answer(q, "ok")
       \/ /\ exists /\ ~link /\ q[3][2] < MaxTries
          /\ signals' = signals \o <<"up", "down">>
          /\ reply' = Answer(q, "abort")
          /\ UNCHANGED link
       \/ /\ reply' = Answer(q, IF exists THEN "error" ELSE "unknown")
          /\ UNCHANGED <<link, signals>>
    /\ UNCHANGED <<pc, try, leaving, awaited, fields, objects, manager, exists, faults, fired>>

\* Disconnect is served: it takes the link down, or it is an error when there is none.
\* A Connect of the same call that is pending is over first: BlueZ cancels it.
ServeDisconnect(q) ==
    /\ q[2] = "Disconnect"
    /\ \A p \in requests : p[2] = "Connect" => p[1] # q[1]
    /\ requests' = requests \ {q}
    /\ link' = FALSE
    /\ signals' = IF link THEN Append(signals, "down") ELSE signals
    /\ \/ exists /\ reply' = Answer(q, "ok")
       \/ exists /\ ~link /\ reply' = Answer(q, "error")
       \/ ~exists /\ reply' = Answer(q, "unknown")
    /\ UNCHANGED <<pc, try, leaving, awaited, fields, objects, manager, exists, faults, fired>>

\* The device goes out of range or disconnects by itself.
LinkLost ==
    /\ link /\ faults < MaxFaults
    /\ link' = FALSE
    /\ signals' = Append(signals, "down")
    /\ faults' = faults + 1
    /\ UNCHANGED <<pc, try, leaving, reply, awaited, fields, objects, manager, exists,
                   requests, fired>>

\* BlueZ removes the device object, sometimes without a change of Connected.
DeviceRemoved ==
    /\ exists /\ faults < MaxFaults
    /\ exists' = FALSE /\ link' = FALSE
    /\ faults' = faults + 1
    /\ \/ signals' = Append(signals, "removed")
       \/ link /\ signals' = signals \o <<"down", "removed">>
    /\ UNCHANGED <<pc, try, leaving, reply, awaited, fields, objects, manager, requests, fired>>

\* A later scan finds the device again.
DeviceAdded ==
    /\ ~exists
    /\ exists' = TRUE
    /\ signals' = Append(signals, "added")
    /\ UNCHANGED <<pc, try, leaving, reply, awaited, fields, objects, manager, link,
                   requests, faults, fired>>

-----------------------------------------------------------------------------
\* The steps of a running connect(): the loop takes them, or the timeout does.
ConnectRuns(c) ==
    \/ PrepareFails(c) \/ NewBus(c) \/ BusFails(c) \/ WatcherFails(c)
    \/ BusCleared(c) \/ SendConnect(c) \/ SkipConnect(c)
    \/ ConnectOk(c) \/ ConnectOkTooLate(c) \/ ConnectAborts(c) \/ Retry(c) \/ ConnectRaises(c)
    \/ Undone(c) \/ AskManager(c) \/ Resolve(c) \/ TakeServices(c)

ConnectStep(c) == StartConnect(c) \/ UndoInterrupted(c) \/ ConnectRuns(c)

DisconnectStep(d) ==
    \/ DisconnectNoBus(d) \/ DisconnectJoin(d) \/ DisconnectSend(d)
    \/ DisconnectOnClosedBus(d) \/ DisconnectIdle(d)
    \/ DisconnectOk(d) \/ DisconnectSeen(d) \/ DisconnectFails(d)
    \/ DisconnectTimeout(d) \/ DisconnectCancelled(d) \/ DisconnectClosed(d)
    \/ CloseCancelled(d) \/ JoinSeen(d) \/ JoinTimeout(d)

BlueZStep ==
    \/ \E q \in requests : ServeConnect(q) \/ ServeDisconnect(q)
    \/ LinkLost \/ DeviceRemoved \/ DeviceAdded

Next ==
    \/ \E c \in Connects : ConnectStep(c)
    \/ \E d \in Disconnects : DisconnectStep(d)
    \/ \E a \in Attempts : MonitorEnds(a)
    \/ HandleSignal
    \/ BlueZStep

Spec == Init /\ [][Next]_vars

\* What the event loop, BlueZ and the timeouts of the code guarantee.  async_timeout()
\* bounds a connect() but not the Disconnect it sends while unwinding, which is why
\* BlueZ must serve every request; nobody has to make or to cancel a call.
Fairness ==
    /\ \A c \in Connects : WF_vars(ConnectRuns(c))
    /\ \A d \in Disconnects :
          /\ WF_vars(DisconnectSeen(d) \/ DisconnectTimeout(d))
          /\ WF_vars(DisconnectOk(d)) /\ WF_vars(DisconnectFails(d))
          /\ WF_vars(DisconnectClosed(d))
          /\ WF_vars(JoinSeen(d) \/ JoinTimeout(d))
    /\ WF_vars(HandleSignal)
    /\ WF_vars(\E q \in requests : ServeConnect(q) \/ ServeDisconnect(q))

FairSpec == Spec /\ Fairness

-----------------------------------------------------------------------------
\* Properties

\* Every variable holds a value the code could put there.
CallTypeOK ==
    /\ pc \in [Calls -> ConnectPC \cup DisconnectPC]
    /\ \A c \in Connects : pc[c] \in ConnectPC
    /\ \A d \in Disconnects : pc[d] \in DisconnectPC
    /\ try \in [Connects -> 1..MaxTries]
    /\ leaving \in [Connects -> {"retry", "raise"}]
    /\ reply \in [Calls -> Replies \cup {None}]
    /\ awaited \in [Disconnects -> Disconnects \cup {None}]

ClientTypeOK ==
    /\ bus \in Ref /\ services \in Ref /\ removeWatcher \in Ref /\ monitor \in Ref
    /\ isConn \in BOOLEAN
    /\ discEvent \in Disconnects \cup {None}
    /\ open \subseteq Attempts /\ monSet \subseteq Attempts /\ monTasks \subseteq Attempts
    /\ discSet \subseteq Disconnects
    /\ watchers \subseteq Attempts /\ fired \subseteq Attempts

BlueZTypeOK ==
    /\ known \in BOOLEAN /\ present \in BOOLEAN /\ cached \in BOOLEAN
    /\ link \in BOOLEAN /\ exists \in BOOLEAN
    /\ requests \subseteq Calls \X Members \X Attempts
    /\ signals \in Seq(SignalKinds)
    /\ faults \in 0..MaxFaults

TypeOK == CallTypeOK /\ ClientTypeOK /\ BlueZTypeOK

\* The manager never holds a watcher the client has lost track of, so no dead session is
\* told of a disconnection: holds while no disconnect() overlaps a connect().
WatcherTracked == watchers = {removeWatcher} \ {None}

\* _cleanup_all always finds the watcher it removes (remove_device_watcher would raise
\* KeyError out of the signal handler otherwise), however the calls overlap.
RemoveFindsWatcher == removeWatcher # None => removeWatcher \in watchers

\* A connect() that raises leaves no bus open, nor does an iteration it has retried,
\* wherever it was interrupted and whoever closed the bus meanwhile.
RaisedClosesBus ==
    \A a \in open : a = Att(a[1]) /\ pc[a[1]] \notin {"idle", "prepare", "raised"}

\* A monitor task outlives its watcher only with its event set: no task is left waiting
\* for ever, "asyncio complains if a loop with running tasks is stopped" (client.py:340).
MonitorReleased == \A a \in monTasks : a \in watchers \/ a \in monSet

\* At most one disconnect() talks to BlueZ, and _disconnecting_event is its own: the
\* others that come meanwhile join it.
OneDisconnecting ==
    \A d \in Disconnects : pc[d] \in {"call", "event"} <=> discEvent = d

\* The calls of the client do not overlap, but for a disconnect() joining another.
NoOverlap == MayOverlap \subseteq {<<"disconnect", "disconnect">>}

\* The session the client tracks is the one the running connect() made, or else the one
\* that is connected; a disconnect() that has seen its signal has no session left.  The
\* inductive form of WatcherTracked and MonitorReleased.
HoldsWatcher(c) ==
    pc[c] \in {"call", "retry", "manager", "discover", "resolved", "lost", "undo"}

SessionInv ==
    /\ WatcherTracked
    /\ MonitorReleased
    /\ OneDisconnecting
    /\ \A c \in Connects, x \in Calls : c # x /\ Running(c) => ~Running(x)
    /\ \A c \in Connects :
          /\ pc[c] \in {"prepare", "bus"} => removeWatcher = None
          /\ HoldsWatcher(c) => /\ removeWatcher \in {None, Att(c)}
                                /\ Att(c) \in watchers \cup monSet
    /\ removeWatcher # None => /\ monitor = removeWatcher /\ bus # None
                               /\ \/ isConn
                                  \/ \E c \in Connects : pc[c] \in {"call", "retry", "undo"}
    /\ \A d \in Disconnects :
          /\ pc[d] = "close" => removeWatcher = None
          /\ d \in discSet => pc[d] # "idle"
          /\ d \in discSet /\ pc[d] \in {"call", "event"} => removeWatcher = None

\* is_connected goes from true to false only in the step that also calls the
\* disconnected callback of the session.
LossReported == [][IsConnected /\ ~IsConnected' => fired' # fired]_vars

\* What Session says of a connect(): its session is that of its last attempt.
Phase(c) ==
    CASE pc[c] = "idle" -> "idle"
      [] pc[c] = "raised" -> "failed"
      [] pc[c] = "ok" -> IF Att(c) \in fired THEN "reported" ELSE "open"
      [] OTHER -> "trying"

Sessions == INSTANCE Session WITH phase <- [c \in Connects |-> Phase(c)]

\* The sessions of the client follow one another as Session promises, if its calls do not
\* overlap: none begins before the end of the last one has been reported.
SessionsInTurn == Sessions!Spec

\* A disconnect() that waited for the signal finds the session torn down, whichever of
\* the reply and the signal came first.
DisconnectSettled ==
    [][\A d \in Disconnects : pc[d] \in {"call", "event"} /\ pc'[d] = "close" =>
          ~isConn /\ watchers = {} /\ services = None /\ monitor = None]_vars

\* Every connect() and disconnect() that starts returns or raises.
CallsReturn == \A x \in Calls : Running(x) ~> Finished(x)

-----------------------------------------------------------------------------
\* What comments and docstrings of the code say, and the code does not do

\* client.py:428, "sanity check to make sure _cleanup_all() was triggered [...] and that
\* it completed successfully": the assertion never fails.
DisconnectSanity == \A d \in Disconnects : pc[d] # "assertion"

\* client.py:544, is_connected is the "connection status between this client and the
\* server": it does not stay true when there is no connection.
IsConnectedRecovers == (IsConnected /\ ~link) ~> (~IsConnected \/ link)
=============================================================================
