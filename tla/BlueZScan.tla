------------------------------- MODULE BlueZScan -------------------------------
(***************************************************************************)
(* The scanners of one event loop: BleakScannerBlueZDBus.start() and stop() *)
(* (src/bleak/backends/bluezdbus/scanner.py) over active_scan() and         *)
(* passive_scan() of the manager they share (manager.py).  The manager has  *)
(* one D-Bus connection, so BlueZ sees the scanners as one client: it keeps *)
(* one discovery and one filter for all of them, and a monitor for each     *)
(* passive scan.  _bus_lock orders their method calls.  The manager tells   *)
(* the scanners of the devices that advertise and of those BlueZ forgets.   *)
(***************************************************************************)
EXTENDS Naturals, Sequences, SequencesExt

CONSTANTS
    Scanners,     \* the scanners
    Passive,      \* those in passive mode
    Stoppers,     \* each scanner has one stop() call for each of these
    MaxStarts,    \* bound on the start() calls of each scanner
    MaxPower,     \* bound on the times the adapter loses power
    MaxCancels,   \* bound on the calls that are cancelled
    Devices,      \* the devices around
    Accepted,     \* pairs of a scanner and a device its UUID filter lets through
    MaxForgotten, \* bound on the devices BlueZ forgets
    None

ASSUME ScannersAssumption ==
    /\ Passive \subseteq Scanners
    /\ Scanners \cap (Scanners \X Stoppers) = {}
    /\ None \notin Scanners \cup (Scanners \X Stoppers) \cup {"ok", "notready", "error"}
ASSUME DevicesAssumption == Accepted \subseteq Scanners \X Devices
ASSUME LimitsAssumption ==
    MaxStarts \in [Scanners -> Nat] /\ MaxPower \in Nat /\ MaxCancels \in Nat
    /\ MaxForgotten \in Nat

\* A task is the start() of a scanner or one of its stop() calls.
StopCalls == Scanners \X Stoppers
Tasks == Scanners \cup StopCalls

VARIABLES
    pc,          \* where each task waits; "idle" when its call has returned or raised
    starts,      \* start() calls made, for the bound MaxStarts
    hasStop,     \* the scanners whose _stop is not None
    lock,        \* the task that holds _bus_lock
    queue,       \* the tasks that wait for it: asyncio.Lock is fair
    registered,  \* scanners with entries in _advertisement_callbacks and _device_removed_callbacks
    exported,    \* scanners whose AdvertisementMonitor is exported on the bus
    seen,        \* seen_devices of each scanner
    known,       \* the devices in the manager's _properties
    reply,       \* the D-Bus reply that has arrived for each task
    wire,        \* method calls on their way to BlueZ, in order: <<task, member>>
    discovering, \* BlueZ: discovery is on for this client
    monitors,    \* BlueZ: scanners with a registered monitor
    powered,     \* BlueZ: the adapter is powered
    power,       \* power losses so far, for the bound MaxPower
    cancels,     \* calls cancelled so far, for the bound MaxCancels
    forgotten    \* devices forgotten so far, for the bound MaxForgotten

local   == <<starts, hasStop, registered, exported, seen>>
devices == <<known, forgotten>>
bluez   == <<discovering, monitors, powered, power, devices>>
vars    == <<pc, lock, queue, reply, wire, local, bluez, cancels>>

Members == {"SetFilter", "StartDiscovery", "StopDiscovery", "ClearFilter",
            "RegisterMonitor", "UnregisterMonitor"}
Replies == {"ok", "notready", "error"}
StartPC == {"idle", "lock", "filter", "discover", "register"}
StopPC  == {"idle", "lock", "stop", "clear", "unregister"}

\* The awaits inside `async with self._bus_lock`.
Critical == {"filter", "discover", "register", "stop", "clear", "unregister"}

Init ==
    /\ pc = [t \in Tasks |-> "idle"]
    /\ starts = [s \in Scanners |-> 0]
    /\ hasStop = {} /\ lock = None /\ queue = <<>> /\ registered = {} /\ exported = {}
    /\ reply = [t \in Tasks |-> None]
    /\ wire = <<>>
    /\ seen = [s \in Scanners |-> {}] /\ known = {} /\ forgotten = 0
    /\ discovering = FALSE /\ monitors = {} /\ powered = TRUE /\ power = 0 /\ cancels = 0

Goto(t, l) == pc' = [pc EXCEPT ![t] = l]

\* `reply = await self._bus.call(...)`, the task then waits at l.
Call(t, member, l) ==
    /\ wire' = Append(wire, <<t, member>>)
    /\ reply' = [reply EXCEPT ![t] = None]
    /\ Goto(t, l)

\* CancelledError comes out of the await.
Cancelled == cancels < MaxCancels /\ cancels' = cancels + 1

\* `async with self._bus_lock`: the first waiter gets a free lock.
Acquire(t) ==
    /\ pc[t] = "lock" /\ lock = None
    /\ queue # <<>> /\ Head(queue) = t
    /\ queue' = Tail(queue)

-----------------------------------------------------------------------------
\* start()

\* Mutant: the devices of the last scan are kept.
StartRemembering(s) ==
    /\ pc[s] = "idle" /\ s \notin hasStop /\ starts[s] < MaxStarts[s]
    /\ starts' = [starts EXCEPT ![s] = @ + 1]
    /\ \/ Goto(s, "lock") /\ queue' = Append(queue, s)
       \/ UNCHANGED <<pc, queue>>
    /\ UNCHANGED <<lock, reply, wire, hasStop, registered, exported, seen, bluez, cancels>>

\* A scanner that is not started is started.  It may fail at once: no manager, no
\* powered adapter.
Start(s) ==
    /\ pc[s] = "idle" /\ s \notin hasStop /\ starts[s] < MaxStarts[s]
    /\ starts' = [starts EXCEPT ![s] = @ + 1]
    /\ \/ /\ seen' = [seen EXCEPT ![s] = {}]
          /\ Goto(s, "lock")
          /\ queue' = Append(queue, s)
       \/ UNCHANGED <<pc, queue, seen>>
    /\ UNCHANGED <<lock, reply, wire, hasStop, registered, exported, bluez, cancels>>

\* The lock is taken, the callbacks are registered and the first call is made.
Enter(s, member, l) ==
    /\ Acquire(s)
    /\ lock' = s
    /\ registered' = registered \cup {s}
    /\ Call(s, member, l)
    /\ UNCHANGED <<starts, hasStop, exported, seen, bluez, cancels>>

EnterActive(s)  == s \notin Passive /\ Enter(s, "SetFilter", "filter")
EnterPassive(s) == s \in Passive /\ Enter(s, "RegisterMonitor", "register")

\* _check_adapter raises under the lock, before anything is registered.
NoAdapter(s) ==
    /\ Acquire(s)
    /\ Goto(s, "idle")
    /\ UNCHANGED <<lock, reply, wire, local, bluez, cancels>>

FilterSet(s) ==
    /\ pc[s] = "filter" /\ reply[s] = "ok"
    /\ Call(s, "StartDiscovery", "discover")
    /\ UNCHANGED <<lock, queue, local, bluez, cancels>>

\* start() keeps the stop() that was returned.
Keep(s) ==
    /\ hasStop' = hasStop \cup {s}
    /\ lock' = None
    /\ Goto(s, "idle")
    /\ UNCHANGED <<queue, reply, wire, starts, registered, seen, bluez, cancels>>

DiscoveryStarted(s) ==
    /\ pc[s] = "discover" /\ reply[s] = "ok"
    /\ Keep(s) /\ UNCHANGED exported

\* The monitor is exported when BlueZ has it.
MonitorRegistered(s) ==
    /\ pc[s] = "register" /\ reply[s] = "ok"
    /\ exported' = exported \cup {s}
    /\ Keep(s)

\* Mutant: the callbacks are not removed when starting fails.
StartRaisesLeaks(s) ==
    /\ pc[s] \in {"filter", "discover", "register"}
    /\ \/ reply[s] \in {"notready", "error"} /\ UNCHANGED cancels
       \/ Cancelled
    /\ lock' = None
    /\ Goto(s, "idle")
    /\ UNCHANGED <<queue, reply, wire, local, bluez>>

\* `except BaseException`: an error reply or a cancellation removes the callbacks.
StartRaises(s) ==
    /\ pc[s] \in {"filter", "discover", "register"}
    /\ \/ reply[s] \in {"notready", "error"} /\ UNCHANGED cancels
       \/ Cancelled
    /\ registered' = registered \ {s}
    /\ lock' = None
    /\ Goto(s, "idle")
    /\ UNCHANGED <<queue, reply, wire, starts, hasStop, exported, seen, bluez>>

-----------------------------------------------------------------------------
\* stop()

\* _stop is taken, so that no other stop() uses it, and the callbacks are removed before
\* the lock is awaited.  stop() does nothing when the scanner is not started.
Stop(k) ==
    /\ pc[k] = "idle" /\ k[1] \in hasStop
    /\ hasStop' = hasStop \ {k[1]}
    /\ registered' = registered \ {k[1]}
    /\ Goto(k, "lock")
    /\ queue' = Append(queue, k)
    /\ UNCHANGED <<lock, reply, wire, starts, exported, seen, bluez, cancels>>

\* Mutant: the filters are removed but discovery is not stopped.
StopFilterOnly(k) ==
    /\ k[1] \notin Passive /\ Acquire(k)
    /\ lock' = k
    /\ Call(k, "ClearFilter", "clear")
    /\ UNCHANGED <<local, bluez, cancels>>

StopDiscovery(k) ==
    /\ k[1] \notin Passive /\ Acquire(k)
    /\ lock' = k
    /\ Call(k, "StopDiscovery", "stop")
    /\ UNCHANGED <<local, bluez, cancels>>

\* A passive scan is unexported before its monitor is unregistered.
UnregisterMonitor(k) ==
    /\ k[1] \in Passive /\ Acquire(k)
    /\ lock' = k
    /\ exported' = exported \ {k[1]}
    /\ Call(k, "UnregisterMonitor", "unregister")
    /\ UNCHANGED <<starts, hasStop, registered, seen, bluez, cancels>>

\* Discovery is off: the filters are removed.
ClearFilter(k) ==
    /\ pc[k] = "stop" /\ reply[k] = "ok"
    /\ Call(k, "ClearFilter", "clear")
    /\ UNCHANGED <<lock, queue, local, bluez, cancels>>

\* The last reply is good, or the adapter is off anyway.
Stopped(k) ==
    /\ \/ pc[k] \in {"clear", "unregister"} /\ reply[k] = "ok"
       \/ pc[k] = "stop" /\ reply[k] = "notready"
    /\ lock' = None
    /\ Goto(k, "idle")
    /\ UNCHANGED <<queue, reply, wire, local, bluez, cancels>>

\* Mutant: _bus_lock is only released when stop() returns.
StopRaisesLocked(k) ==
    /\ pc[k] \in {"stop", "clear", "unregister"}
    /\ \/ reply[k] = "error" /\ UNCHANGED cancels
       \/ reply[k] = "notready" /\ pc[k] # "stop" /\ UNCHANGED cancels
       \/ Cancelled
    /\ Goto(k, "idle")
    /\ UNCHANGED <<lock, queue, reply, wire, local, bluez>>

\* An error reply or a cancellation ends stop().
StopRaises(k) ==
    /\ pc[k] \in {"stop", "clear", "unregister"}
    /\ \/ reply[k] = "error" /\ UNCHANGED cancels
       \/ reply[k] = "notready" /\ pc[k] # "stop" /\ UNCHANGED cancels
       \/ Cancelled
    /\ lock' = None
    /\ Goto(k, "idle")
    /\ UNCHANGED <<queue, reply, wire, local, bluez>>

\* A task that waits for the lock is cancelled.
CancelWaiting(t) ==
    /\ Cancelled /\ pc[t] = "lock"
    /\ \E i \in DOMAIN queue : queue[i] = t /\ queue' = RemoveAt(queue, i)
    /\ Goto(t, "idle")
    /\ UNCHANGED <<lock, reply, wire, local, bluez>>

-----------------------------------------------------------------------------
\* The devices

\* InterfacesAdded or PropertiesChanged for a device: every registered scanner is told,
\* and adds it to seen_devices unless the UUID filter refuses it.
Advertised(d) ==
    /\ known' = known \cup {d}
    /\ seen' = [s \in Scanners |->
                  IF s \in registered /\ <<s, d>> \in Accepted THEN seen[s] \cup {d} ELSE seen[s]]
    /\ UNCHANGED <<pc, lock, queue, reply, wire, starts, hasStop, registered, exported,
                   discovering, monitors, powered, power, cancels, forgotten>>

\* InterfacesRemoved: _handle_device_removed() of the registered scanners.
Forgotten(d) ==
    /\ d \in known /\ forgotten < MaxForgotten
    /\ forgotten' = forgotten + 1
    /\ known' = known \ {d}
    /\ seen' = [s \in Scanners |-> IF s \in registered THEN seen[s] \ {d} ELSE seen[s]]
    /\ UNCHANGED <<pc, lock, queue, reply, wire, starts, hasStop, registered, exported,
                   discovering, monitors, powered, power, cancels>>

-----------------------------------------------------------------------------
\* BlueZ, as src/ uses it: it serves the calls of the connection in order.

\* The reply to a call that was cancelled is dropped: its task has left, or has made
\* another call since.
Answer(t, r) ==
    reply' = IF pc[t] \in Critical /\ \A i \in 2..Len(wire) : wire[i][1] # t
             THEN [reply EXCEPT ![t] = r] ELSE reply

NextCall(member) == wire # <<>> /\ Head(wire)[2] = member /\ wire' = Tail(wire)

ServeFilter ==
    /\ NextCall("SetFilter") \/ NextCall("ClearFilter")
    /\ Answer(Head(wire)[1], "ok") \/ Answer(Head(wire)[1], "error")
    /\ UNCHANGED <<pc, lock, queue, local, bluez, cancels>>

\* A client that is discovering gets InProgress.
ServeStartDiscovery ==
    /\ NextCall("StartDiscovery")
    /\ \/ /\ powered /\ ~discovering
          /\ discovering' = TRUE
          /\ Answer(Head(wire)[1], "ok")
       \/ /\ Answer(Head(wire)[1], IF powered THEN "error" ELSE "notready")
          /\ UNCHANGED discovering
    /\ UNCHANGED <<pc, lock, queue, local, monitors, powered, power, devices, cancels>>

ServeStopDiscovery ==
    /\ NextCall("StopDiscovery")
    /\ discovering' = FALSE
    /\ Answer(Head(wire)[1], IF ~powered THEN "notready"
                             ELSE IF discovering THEN "ok" ELSE "error")
    /\ UNCHANGED <<pc, lock, queue, local, monitors, powered, power, devices, cancels>>

ServeRegister ==
    /\ NextCall("RegisterMonitor")
    /\ LET t == Head(wire)[1] IN
       \/ monitors' = monitors \cup {t} /\ Answer(t, "ok")
       \/ UNCHANGED monitors /\ Answer(t, "error")
    /\ UNCHANGED <<pc, lock, queue, local, discovering, powered, power, devices, cancels>>

ServeUnregister ==
    /\ NextCall("UnregisterMonitor")
    /\ LET t == Head(wire)[1] IN
       /\ monitors' = monitors \ {t[1]}
       /\ Answer(t, IF t[1] \in monitors THEN "ok" ELSE "error")
    /\ UNCHANGED <<pc, lock, queue, local, discovering, powered, power, devices, cancels>>

\* Without power discovery is off, and stays off when the power is back.
PowerOff ==
    /\ powered /\ power < MaxPower
    /\ powered' = FALSE /\ discovering' = FALSE /\ power' = power + 1
    /\ UNCHANGED <<pc, lock, queue, reply, wire, local, monitors, devices, cancels>>

PowerOn ==
    /\ ~powered
    /\ powered' = TRUE
    /\ UNCHANGED <<pc, lock, queue, reply, wire, local, discovering, monitors, power, devices, cancels>>

Serve == ServeFilter \/ ServeStartDiscovery \/ ServeStopDiscovery \/ ServeRegister
         \/ ServeUnregister

-----------------------------------------------------------------------------
EnterScan(s)    == EnterActive(s) \/ EnterPassive(s) \/ NoAdapter(s)
EnterStop(k)    == StopDiscovery(k) \/ UnregisterMonitor(k)
StartReplied(s) == FilterSet(s) \/ DiscoveryStarted(s) \/ MonitorRegistered(s) \/ StartRaises(s)
StopReplied(k)  == ClearFilter(k) \/ Stopped(k) \/ StopRaises(k)

Next ==
    \/ \E s \in Scanners : Start(s) \/ EnterScan(s) \/ StartReplied(s)
    \/ \E k \in StopCalls : Stop(k) \/ EnterStop(k) \/ StopReplied(k)
    \/ \E t \in Tasks : CancelWaiting(t)
    \/ \E d \in Devices : Advertised(d) \/ Forgotten(d)
    \/ Serve \/ PowerOff \/ PowerOn

Spec == Init /\ [][Next]_vars

\* BlueZ answers, and the loop resumes the tasks that have an answer or the lock.
Fairness ==
    /\ WF_vars(Serve)
    /\ \A s \in Scanners : WF_vars(StartReplied(s)) /\ WF_vars(EnterScan(s))
    /\ \A k \in StopCalls : WF_vars(StopReplied(k)) /\ WF_vars(EnterStop(k))

FairSpec == Spec /\ Fairness

-----------------------------------------------------------------------------
\* Properties

\* Every variable holds a value the code could put there.
TypeOK ==
    /\ pc \in [Tasks -> StartPC \cup StopPC]
    /\ \A s \in Scanners : pc[s] \in StartPC
    /\ \A k \in StopCalls : pc[k] \in StopPC
    /\ starts \in [Scanners -> Nat] /\ \A s \in Scanners : starts[s] <= MaxStarts[s]
    /\ hasStop \subseteq Scanners /\ registered \subseteq Scanners
    /\ exported \subseteq Passive /\ monitors \subseteq Passive
    /\ lock \in Tasks \cup {None} /\ queue \in Seq(Tasks)
    /\ reply \in [Tasks -> Replies \cup {None}]
    /\ wire \in Seq(Tasks \X Members)
    /\ discovering \in BOOLEAN /\ powered \in BOOLEAN
    /\ power \in 0..MaxPower /\ cancels \in 0..MaxCancels /\ forgotten \in 0..MaxForgotten
    /\ seen \in [Scanners -> SUBSET Devices] /\ known \subseteq Devices

\* One task at a time talks to BlueZ for the scanners, and the lock is never left behind
\* by one that failed or was cancelled.
LockExclusive == \A t \in Tasks : pc[t] \in Critical <=> lock = t

\* The callbacks of a scanner are registered exactly while it is starting or started: a
\* start() that fails, is cancelled or is stopped concurrently leaves none behind.
CallbacksOwned ==
    registered = hasStop \cup {s \in Scanners : pc[s] \in {"filter", "discover", "register"}}

\* The scanners whose discovery or monitor has still to be ended.
Open == hasStop \cup {k[1] : k \in {x \in StopCalls : pc[x] = "lock"}}

\* A monitor is only exported while BlueZ has it.  As long as no call is cancelled and the
\* adapter keeps its power, two active scanners are never started at once, for BlueZ has one
\* discovery for both; and when no call to BlueZ is in progress, discovery is on exactly if
\* one active scanner is started, and the monitors are those of the started passive scanners.
ScansOwned ==
    /\ exported \subseteq monitors
    /\ power = 0 /\ cancels = 0 =>
          /\ \A s, t \in hasStop \ Passive : s = t
          /\ lock = None => /\ discovering <=> \E s \in Scanners \ Passive : s \in Open
                            /\ monitors = Passive \cap Open

\* What a scanner that scans has seen is still in BlueZ: seen_devices is emptied before
\* the callbacks are registered, and the removals in between are no loss.
SeenIsKnown == \A s \in registered : seen[s] \subseteq known

\* Every start() and stop() returns or raises: as their number is bounded, the time comes
\* when none of them waits for the lock or for BlueZ.
ScanCallsReturn ==
    (\E t \in Tasks : pc[t] # "idle") ~> (\A t \in Tasks : pc[t] = "idle")
=============================================================================
