----------------------------- MODULE BlueZManager -----------------------------
(***************************************************************************)
(* The BlueZManager of one event loop                                       *)
(* (src/bleak/backends/bluezdbus/manager.py) as a copy of BlueZ's object    *)
(* tree: async_init(), which any client or scanner may call at any time,    *)
(* and _parse_msg(), which applies the signals.  A client asks for the      *)
(* version of BlueZ first (version.py), once for all clients.               *)
(*                                                                          *)
(* The messages of the manager's D-Bus connection arrive in order.  Signals *)
(* are handled when they are read; the coroutine that awaits a reply runs   *)
(* some time after the reply is read, and the signals behind it may have    *)
(* been handled by then.                                                    *)
(***************************************************************************)
EXTENDS Naturals, Sequences, FiniteSets, SequencesExt

CONSTANTS
    Objects,    \* the D-Bus objects BlueZ may have
    KindOf,     \* their kinds: the one interface of each that matters here
    Parent,     \* the object each belongs to, None for an adapter
    Central,    \* the adapters with the role "central"
    Callers,    \* the calls of get_global_bluez_manager(), by clients and scanners
    MaxChanges, \* bound on the changes of BlueZ's tree
    MaxResets,  \* bound on the losses of the D-Bus connection
    None

Kinds == {"adapter", "device", "service", "char", "desc"}

\* What an object that is not an adapter belongs to.
ParentKind == [device |-> "adapter", service |-> "device", char |-> "service", desc |-> "char"]

ASSUME TreeAssumption ==
    /\ IsFiniteSet(Objects) /\ None \notin Objects \cup Callers
    /\ KindOf \in [Objects -> Kinds] /\ Parent \in [Objects -> Objects \cup {None}]
    /\ \A o \in Objects : IF Parent[o] = None THEN KindOf[o] = "adapter"
                          ELSE KindOf[o] # "adapter" /\ KindOf[Parent[o]] = ParentKind[KindOf[o]]
ASSUME CentralAssumption == Central \subseteq {o \in Objects : KindOf[o] = "adapter"}
ASSUME LimitsAssumption == MaxChanges \in Nat /\ MaxResets \in Nat

VARIABLES
    pc,        \* where each call waits
    version,   \* BlueZFeatures: what is known of the version
    lock,      \* the call that holds _bus_lock
    queue,     \* the calls that wait for it
    \* fields of the manager
    bus,       \* _bus: the call that made it
    adapters,  \* _adapters
    known,     \* the objects in _properties
    seen,      \* those among them whose Connected or Powered is true
    children,  \* _service_map, _characteristic_map and _descriptor_map
    \* D-Bus
    open,      \* buses made and not disconnected
    alive,     \* the bus that is connected, or None
    rules,     \* the match rules it has
    inbox,     \* messages on their way to it
    snapshot,  \* the reply to GetManagedObjects that has been read
    \* BlueZ
    exists,    \* its objects
    now,       \* those whose Connected or Powered is true
    changes, resets,
    \* history
    raced      \* a signal was handled between the reading of the reply and its use

fields == <<bus, adapters, known, seen, children>>
dbus   == <<open, alive, rules, inbox, snapshot>>
bluez  == <<exists, now, changes, resets>>
vars   == <<pc, version, lock, queue, fields, dbus, bluez, raced>>

Pc == {"idle", "asking", "waiting", "lock", "connect", "added", "removed", "changed",
       "objects", "reply", "done", "raised"}

\* The awaits inside `async with self._bus_lock`.
Busy == {"connect", "added", "removed", "changed", "objects", "reply"}

\* The objects the child maps know: those of GATT.
Mapped == {o \in Objects : KindOf[o] \in {"service", "char", "desc"}}

\* The properties a change of which is modelled belong to adapters and devices.
Stateful == {o \in Objects : KindOf[o] \in {"adapter", "device"}}

\* BlueZ may have any objects when the program starts.
Init ==
    /\ pc = [t \in Callers |-> "idle"] /\ version = "unknown"
    /\ lock = None /\ queue = <<>>
    /\ bus = None /\ adapters = {} /\ known = {} /\ seen = {}
    /\ children = [o \in Objects |-> {}]
    /\ open = {} /\ alive = None /\ rules = {} /\ inbox = <<>> /\ snapshot = None
    /\ exists \in {S \in SUBSET Objects : \A o \in S : Parent[o] \in S \cup {None}}
    /\ now \in SUBSET (exists \cap Stateful)
    /\ changes = 0 /\ resets = 0
    /\ raced = FALSE

Goto(t, l) == pc' = [pc EXCEPT ![t] = l]

-----------------------------------------------------------------------------
\* check_bluez_version()

\* connect() goes on to the manager, or raises for an old BlueZ.
Proceed(t) ==
    /\ IF version' = "supported" THEN Goto(t, "lock") /\ queue' = Append(queue, t)
                                 ELSE Goto(t, "raised") /\ UNCHANGED queue
    /\ UNCHANGED <<lock, fields, dbus, bluez, raced>>

\* The first connect() asks bluetoothctl, those that come meanwhile wait for its event.
CheckVersion(t) ==
    /\ pc[t] = "idle"
    /\ CASE version = "unknown"  -> /\ version' = "checking" /\ Goto(t, "asking")
                                    /\ UNCHANGED <<lock, queue, fields, dbus, bluez, raced>>
         [] version = "checking" -> /\ UNCHANGED version /\ Goto(t, "waiting")
                                    /\ UNCHANGED <<lock, queue, fields, dbus, bluez, raced>>
         [] OTHER                -> UNCHANGED version /\ Proceed(t)

\* Without an answer of bluetoothctl the version is taken for a good one.
VersionFound(t) ==
    /\ pc[t] = "asking"
    /\ version' \in {"supported", "unsupported"}
    /\ Proceed(t)

VersionSeen(t) ==
    /\ pc[t] = "waiting"
    /\ version \in {"supported", "unsupported"} /\ UNCHANGED version
    /\ Proceed(t)

\* A connect() is cancelled.  If it is the one that asks, the event is never set.
CheckCancelled(t) ==
    /\ pc[t] \in {"asking", "waiting"}
    /\ Goto(t, "raised")
    /\ UNCHANGED <<version, lock, queue, fields, dbus, bluez, raced>>

-----------------------------------------------------------------------------
\* async_init()

\* A scanner asks for the manager of the loop.
StartInit(t) ==
    /\ pc[t] = "idle"
    /\ queue' = Append(queue, t)
    /\ Goto(t, "lock")
    /\ UNCHANGED <<version, lock, fields, dbus, bluez, raced>>

Acquire(t) ==
    /\ pc[t] = "lock" /\ lock = None
    /\ Head(queue) = t
    /\ queue' = Tail(queue) /\ UNCHANGED version

\* The bus is connected: nothing to do.
AlreadyUp(t) ==
    /\ Acquire(t)
    /\ bus # None /\ bus = alive
    /\ Goto(t, "done")
    /\ UNCHANGED <<lock, fields, dbus, bluez, raced>>

\* A new bus; its connect() is awaited.
NewBus(t) ==
    /\ Acquire(t)
    /\ bus = None \/ bus # alive
    /\ lock' = t
    /\ open' = open \cup {t}
    /\ Goto(t, "connect")
    /\ UNCHANGED <<fields, alive, rules, inbox, snapshot, bluez, raced>>

Connected(t) ==
    /\ pc[t] = "connect"
    /\ alive' = t /\ rules' = {} /\ inbox' = <<>>
    /\ Goto(t, "added")
    /\ UNCHANGED <<version, lock, queue, fields, open, snapshot, bluez, raced>>

After == [added |-> "removed", removed |-> "changed", changed |-> "objects"]

\* The three match rules, one after the other, then GetManagedObjects, to which BlueZ
\* answers with the tree it has then.
AddMatch(t) ==
    /\ pc[t] \in {"added", "removed", "changed"} /\ alive = t
    /\ rules' = rules \cup {pc[t]}
    /\ Goto(t, After[pc[t]])
    /\ UNCHANGED <<version, lock, queue, fields, open, alive, inbox, snapshot, bluez, raced>>

\* Mutant: the child maps are not cleared.
LoadObjectsOverMaps(t) ==
    /\ pc[t] = "reply" /\ alive = t
    /\ known' = snapshot[2]
    /\ seen' = snapshot[3]
    /\ adapters' = adapters \cup {o \in snapshot[2] : KindOf[o] = "adapter"}
    /\ children' = [o \in Objects |->
                      children[o] \cup {c \in snapshot[2] \cap Mapped : Parent[c] = o}]
    /\ open' = open \ {bus}
    /\ bus' = t
    /\ snapshot' = None
    /\ lock' = None
    /\ Goto(t, "done")
    /\ UNCHANGED <<version, queue, alive, rules, inbox, bluez, raced>>

\* Mutant: the old bus is not released.
LoadObjectsLeaks(t) ==
    /\ pc[t] = "reply" /\ alive = t
    /\ known' = snapshot[2]
    /\ seen' = snapshot[3]
    /\ adapters' = adapters \cup {o \in snapshot[2] : KindOf[o] = "adapter"}
    /\ children' = [o \in Objects |-> {c \in snapshot[2] \cap Mapped : Parent[c] = o}]
    /\ bus' = t
    /\ snapshot' = None
    /\ lock' = None
    /\ Goto(t, "done")
    /\ UNCHANGED <<version, queue, open, alive, rules, inbox, bluez, raced>>

\* The maps are cleared and filled from the reply, but _adapters is only added to; the old
\* bus is released and the new one kept.
LoadObjects(t) ==
    /\ pc[t] = "reply" /\ alive = t
    /\ known' = snapshot[2]
    /\ seen' = snapshot[3]
    /\ adapters' = adapters \cup {o \in snapshot[2] : KindOf[o] = "adapter"}
    /\ children' = [o \in Objects |-> {c \in snapshot[2] \cap Mapped : Parent[c] = o}]
    /\ open' = open \ {bus}
    /\ bus' = t
    /\ snapshot' = None
    /\ lock' = None
    /\ Goto(t, "done")
    /\ UNCHANGED <<version, queue, alive, rules, inbox, bluez, raced>>

\* Mutant: the lock is not released.
InitFailsLocked(t) ==
    /\ pc[t] \in Busy
    /\ open' = open \ {t}
    /\ alive' = None /\ rules' = {} /\ inbox' = <<>> /\ snapshot' = None
    /\ Goto(t, "raised")
    /\ UNCHANGED <<version, lock, queue, fields, bluez, raced>>

\* An error reply, a lost connection or a cancellation: the new bus is disconnected.
InitFails(t) ==
    /\ pc[t] \in Busy
    /\ open' = open \ {t}
    /\ alive' = None /\ rules' = {} /\ inbox' = <<>> /\ snapshot' = None
    /\ lock' = None
    /\ Goto(t, "raised")
    /\ UNCHANGED <<version, queue, fields, bluez, raced>>

\* A call that waits for the lock is cancelled.
CancelWaiting(t) ==
    /\ pc[t] = "lock"
    /\ \E i \in DOMAIN queue : queue[i] = t /\ queue' = RemoveAt(queue, i)
    /\ Goto(t, "raised")
    /\ UNCHANGED <<version, lock, fields, dbus, bluez, raced>>

-----------------------------------------------------------------------------
\* get_default_adapter()

\* The powered adapters with the role "central", any of which it may return, or what it
\* raises: there is no adapter, the properties of one are not there, none has the role, or
\* none of those has power.
DefaultAdapter ==
    IF adapters = {} THEN {"NoBluetooth"}
    ELSE IF ~(adapters \subseteq known) THEN {"KeyError"}
    ELSE IF adapters \cap Central = {} THEN {"NoCentralRole"}
    ELSE IF adapters \cap Central \cap seen = {} THEN {"PoweredOff"}
    ELSE adapters \cap Central \cap seen

-----------------------------------------------------------------------------
\* _parse_msg()

\* The next message is a signal; it is handled.
Handle(kind) ==
    /\ inbox # <<>> /\ Head(inbox)[1] = kind
    /\ inbox' = Tail(inbox)
    /\ raced' = (raced \/ \E t \in Callers : pc[t] = "reply")
    /\ UNCHANGED <<pc, version, lock, queue, bus, open, alive, rules, snapshot, bluez>>

Object == Head(inbox)[2]
Value  == Head(inbox)[3]

SetValue == seen' = IF Value THEN seen \cup {Object} ELSE seen \ {Object}

InterfacesAdded ==
    /\ Handle("added")
    /\ known' = known \cup {Object}
    /\ SetValue
    /\ adapters' = IF KindOf[Object] = "adapter" THEN adapters \cup {Object} ELSE adapters
    /\ children' = IF Object \in Mapped
                   THEN [children EXCEPT ![Parent[Object]] = @ \cup {Object}]
                   ELSE children

\* Mutant: the characteristics of a removed service are kept.
InterfacesRemovedKeepsMap ==
    /\ Handle("removed")
    /\ known' = known \ {Object} /\ seen' = seen \ {Object}
    /\ adapters' = adapters \ {Object}
    /\ children' = [o \in Objects |->
          IF o = Object /\ KindOf[o] \in {"device", "char"} THEN {}
          ELSE IF KindOf[Object] = "service" THEN children[o] \ {Object}
          ELSE children[o]]

\* A device takes its services along and a service leaves its device; a characteristic
\* stays in the map of its service, which is expected to go as well.
InterfacesRemoved ==
    /\ Handle("removed")
    /\ known' = known \ {Object} /\ seen' = seen \ {Object}
    /\ adapters' = adapters \ {Object}
    /\ children' = [o \in Objects |->
          IF o = Object THEN {}
          ELSE IF KindOf[Object] = "service" THEN children[o] \ {Object}
          ELSE children[o]]

\* A change of an object that is not known is discarded.
PropertiesChanged ==
    /\ Handle("changed")
    /\ IF Object \in known THEN SetValue ELSE UNCHANGED seen
    /\ UNCHANGED <<adapters, known, children>>

\* The reply to GetManagedObjects is read; the call will run later.
ReadReply(t) ==
    /\ pc[t] = "objects"
    /\ inbox # <<>> /\ Head(inbox)[1] = "reply"
    /\ snapshot' = Head(inbox)
    /\ inbox' = Tail(inbox)
    /\ raced' = FALSE
    /\ Goto(t, "reply")
    /\ UNCHANGED <<version, lock, queue, fields, open, alive, rules, bluez>>

-----------------------------------------------------------------------------
\* BlueZ and the message bus, as src/ uses them

\* Signals of a kind that the connection has a rule for are sent to it.
Send(kind, messages) ==
    inbox' = IF alive # None /\ kind \in rules THEN inbox \o messages ELSE inbox

Change ==
    /\ changes < MaxChanges
    /\ changes' = changes + 1
    /\ UNCHANGED <<pc, version, lock, queue, fields, open, alive, rules, snapshot, resets, raced>>

\* The descendants of each object, itself included: the tree has five levels.
WithChildren(S) == S \cup {x \in Objects : Parent[x] \in S}
Descendants ==
    [o \in Objects |-> WithChildren(WithChildren(WithChildren(WithChildren({o}))))]

Below(o) == Descendants[o]

ObjectAdded(o) ==
    /\ o \notin exists /\ Parent[o] \in exists \cup {None}
    /\ exists' = exists \cup {o}
    /\ now' = now
    /\ Send("added", << <<"added", o, FALSE>> >>)
    /\ Change

\* An object goes with all that is below it, and the order of their signals is not known.
\* BlueZ does not remove a characteristic without its service.
ObjectRemoved(o) ==
    /\ o \in exists /\ KindOf[o] \in {"adapter", "device", "service"}
    /\ LET gone == Below(o) \cap exists
       IN  /\ exists' = exists \ gone
           /\ now' = now \ gone
           /\ \E order \in [1..Cardinality(gone) -> gone] :
                 /\ \A x \in gone : \E i \in DOMAIN order : order[i] = x
                 /\ Send("removed", [i \in DOMAIN order |-> <<"removed", order[i], FALSE>>])
    /\ Change

ValueChanged(o) ==
    /\ o \in exists \cap Stateful
    /\ now' = IF o \in now THEN now \ {o} ELSE now \cup {o}
    /\ Send("changed", << <<"changed", o, o \notin now>> >>)
    /\ Change
    /\ UNCHANGED exists

\* GetManagedObjects is served, once.
ServeObjects(t) ==
    /\ pc[t] = "objects" /\ alive = t
    /\ \A i \in DOMAIN inbox : inbox[i][1] # "reply"
    /\ inbox' = Append(inbox, <<"reply", exists, now>>)
    /\ UNCHANGED <<pc, version, lock, queue, fields, open, alive, rules, snapshot, bluez, raced>>

\* The D-Bus connection breaks; what was on its way is lost.
BusLost ==
    /\ alive # None /\ resets < MaxResets
    /\ alive' = None /\ rules' = {} /\ inbox' = <<>>
    /\ resets' = resets + 1
    /\ UNCHANGED <<pc, version, lock, queue, fields, open, snapshot, exists, now, changes, raced>>

-----------------------------------------------------------------------------
InitRuns(t) ==
    VersionFound(t) \/ VersionSeen(t)
    \/ AlreadyUp(t) \/ NewBus(t) \/ Connected(t) \/ AddMatch(t) \/ LoadObjects(t)
    \/ (alive # t /\ pc[t] # "connect" /\ InitFails(t))

ParseMsg == InterfacesAdded \/ InterfacesRemoved \/ PropertiesChanged
            \/ \E t \in Callers : ReadReply(t)

Next ==
    \/ \E t \in Callers : \/ CheckVersion(t) \/ CheckCancelled(t)
                          \/ StartInit(t) \/ InitRuns(t) \/ InitFails(t)
                          \/ CancelWaiting(t) \/ ServeObjects(t)
    \/ ParseMsg
    \/ \E o \in Objects : ObjectAdded(o) \/ ObjectRemoved(o) \/ ValueChanged(o)
    \/ BusLost

Spec == Init /\ [][Next]_vars

\* The loop resumes the calls and reads the messages, BlueZ answers; nothing else has to
\* happen.  A call whose bus has died gets an error.
Fairness ==
    /\ WF_vars(ParseMsg)
    /\ \A t \in Callers : WF_vars(InitRuns(t)) /\ WF_vars(ServeObjects(t))

FairSpec == Spec /\ Fairness

-----------------------------------------------------------------------------
\* Properties

\* Every variable holds a value the code could put there.
TypeOK ==
    /\ pc \in [Callers -> Pc]
    /\ version \in {"unknown", "checking", "supported", "unsupported"}
    /\ lock \in Callers \cup {None} /\ queue \in Seq(Callers)
    /\ bus \in Callers \cup {None} /\ alive \in Callers \cup {None} /\ open \subseteq Callers
    /\ adapters \subseteq {o \in Objects : KindOf[o] = "adapter"}
    /\ known \subseteq Objects /\ seen \subseteq known
    /\ children \in [Objects -> SUBSET Mapped]
    /\ rules \subseteq {"added", "removed", "changed"}
    /\ raced \in BOOLEAN

\* One async_init() at a time makes a bus, and a failed one does not keep the lock.
LockExclusive == \A t \in Callers : pc[t] \in Busy <=> lock = t

\* A bus that is neither the manager's nor that of the call at work is disconnected, so its
\* file handles are released, whichever await failed.
NoBusLeaked == open \subseteq {bus, lock}

Ready == bus # None /\ bus = alive

\* Once all messages are handled the manager has BlueZ's objects, their state and the maps
\* from each to its children, and no map of an object that is gone: unless a signal was
\* handled between the reply to GetManagedObjects and its use.
Agrees ==
    /\ known = exists /\ seen = now
    /\ \A o \in Objects : children[o] = {c \in exists \cap Mapped : Parent[c] = o}
    /\ {o \in exists : KindOf[o] = "adapter"} \subseteq adapters
ViewAgrees == Ready /\ inbox = <<>> /\ ~raced => Agrees

\* A path in a child map that _properties does not have any more, on which get_services
\* raises KeyError, is one whose service is about to be removed: the signal is on its way.  As
\* above, unless a signal was handled before the reply was used.
DanglingIsTransient ==
    Ready /\ ~raced =>
        \A o \in known : \A c \in children[o] \ known :
            \E i \in DOMAIN inbox : inbox[i][1] = "removed" /\ o \in Below(inbox[i][2])

\* The connect() that asked for the version was cancelled: those that wait for its answer,
\* now or later, wait for ever.
Abandoned == version = "checking" /\ \A t \in Callers : pc[t] # "asking"

\* Every call for the manager returns or raises, but for an abandoned version check.
InitReturns ==
    \A t \in Callers :
        pc[t] \notin {"idle", "done", "raised"}
          ~> pc[t] \in {"done", "raised"} \/ (pc[t] = "waiting" /\ Abandoned)

-----------------------------------------------------------------------------
\* What comments of the code say, and the code does not do

\* manager.py:299, "get existing objects after adding signal handlers to avoid race
\* condition": the copy is right once all messages are handled.
NoInitRace == Ready /\ inbox = <<>> => Agrees

\* manager.py:181, "set of available adapters for quick lookup": get_default_adapter finds
\* the properties of each adapter it looks at.
AdaptersAvailable == Ready /\ ~raced => DefaultAdapter # {"KeyError"}

\* version.py:42, "If there is already a check in progress it wins, wait for it instead":
\* a check that others wait for is in progress.
CheckInProgress == \A t \in Callers : pc[t] = "waiting" => ~Abandoned
=============================================================================
