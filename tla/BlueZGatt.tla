------------------------------ MODULE BlueZGatt ------------------------------
(***************************************************************************)
(* The GATT calls of one BleakClientBlueZDBus                                *)
(* (src/bleak/backends/bluezdbus/client.py): reads and writes, which are     *)
(* retried while BlueZ answers InProgress; notifications by StartNotify,     *)
(* whose values come through the device watcher, or by AcquireNotify, whose  *)
(* values come through a file descriptor; unpair(), which forgets the        *)
(* session without ending it.  connect() and disconnect() are one step here  *)
(* and BlueZClient in full; sessions come and go while the calls wait.       *)
(***************************************************************************)
EXTENDS Naturals, FiniteSets

CONSTANTS
    Chars,        \* the characteristics
    Acquirable,   \* those BlueZ gives a NotifyAcquired property
    Calls,        \* the calls of the program
    Kind,         \* "start", "stop" or "io", for each call
    On,           \* the characteristic of each call
    Forced,       \* start_notify() calls with use_start_notify
    Cancellable,  \* the calls that may be cancelled
    Fds,          \* file descriptor numbers of the process
    MaxSessions,  \* bound on the connections
    MaxBusy,      \* bound on the InProgress replies
    None

ASSUME CallsAssumption ==
    /\ Acquirable \subseteq Chars
    /\ Kind \in [Calls -> {"start", "stop", "io"}] /\ On \in [Calls -> Chars]
    /\ Forced \subseteq Calls /\ Cancellable \subseteq Calls
    /\ None \notin Chars \cup Fds
    /\ {"ok", "error", "busy"} \cap (Fds \cup {None}) = {}
ASSUME NumbersAssumption == MaxSessions \in Nat /\ MaxBusy \in Nat /\ IsFiniteSet(Fds)

VARIABLES
    pc,         \* where each call waits
    reply,      \* the reply that has come for it
    bus,        \* _bus, as the number of the connection; 0 for None
    isConn,     \* _is_connected
    services,   \* whether services is not None
    callbacks,  \* the characteristics in _notification_callbacks
    fds,        \* _notification_fds
    readers,    \* the event loop: whose notifications on_data reads from a number
    sent,       \* BlueZ: the calls whose message is still to be served
    removing,   \* BlueZ: so is a RemoveDevice of unpair()
    link,       \* BlueZ: the device is connected
    down,       \* BlueZ: its disconnection is signalled and not handled yet
    notifying,  \* BlueZ: the characteristics with a StartNotify of this client
    pipes,      \* the kernel: the characteristic behind an open descriptor
    ended,      \* the kernel: the open descriptors BlueZ has closed on its side
    sessions,   \* connections made, for the bound MaxSessions
    busy        \* InProgress replies given, for the bound MaxBusy

client == <<bus, isConn, services>>
notify == <<callbacks, fds, readers>>
bluez  == <<removing, link, down, notifying, pipes, ended>>
vars   == <<pc, reply, sent, sessions, busy, client, notify, bluez>>

\* No bus, not connected: nothing has been asked for.
Init ==
    /\ pc = [k \in Calls |-> "idle"] /\ reply = [k \in Calls |-> None]
    /\ bus = 0 /\ isConn = FALSE /\ services = FALSE
    /\ callbacks = {} /\ fds = [c \in Chars |-> None] /\ readers = [f \in Fds |-> None]
    /\ sent = {} /\ removing = FALSE /\ link = FALSE /\ down = FALSE /\ notifying = {}
    /\ pipes = [f \in Fds |-> None] /\ ended = {} /\ sessions = 0 /\ busy = 0

\* The call waits at l, or has returned or raised.
Goto(k, l) == pc' = [pc EXCEPT ![k] = l] /\ UNCHANGED reply
Over(k)    == pc' = [pc EXCEPT ![k] = "over"] /\ reply' = [reply EXCEPT ![k] = None]

\* `reply = await self._bus.call(...)`
Send(k) ==
    /\ pc' = [pc EXCEPT ![k] = "wait"] /\ reply' = [reply EXCEPT ![k] = None]
    /\ sent' = sent \cup {k}

\* start_notify() uses AcquireNotify.
Acquires(k) == On[k] \in Acquirable /\ k \notin Forced

\* BleakClient looks the characteristic up in the services, and the program does not
\* start and stop the notifications of one characteristic at the same time.
May(k) ==
    /\ pc[k] = "idle" /\ services
    /\ Kind[k] \in {"start", "stop"} =>
         \A x \in Calls : On[x] = On[k] /\ Kind[x] \in {"start", "stop"} => pc[x] # "wait"

-----------------------------------------------------------------------------
\* The calls

\* start_notify() has the callback ready before BlueZ is asked, unless it gets a
\* descriptor.  It is BleakClient that looks at is_connected.
StartNotify(k) ==
    /\ Kind[k] = "start" /\ May(k) /\ isConn
    /\ Send(k)
    /\ callbacks' = IF Acquires(k) THEN callbacks ELSE callbacks \cup {On[k]}
    /\ UNCHANGED <<client, fds, readers, bluez, sessions, busy>>

\* The descriptor arrives: it is kept, and its reader added.
Acquired(k) ==
    /\ Kind[k] = "start" /\ pc[k] = "wait" /\ reply[k] \in Fds
    /\ fds' = [fds EXCEPT ![On[k]] = reply[k]]
    /\ readers' = [readers EXCEPT ![reply[k]] = On[k]]
    /\ Over(k)
    /\ UNCHANGED <<sent, client, callbacks, bluez, sessions, busy>>

\* remove_reader() and os.close(), of whatever has the number now.
CloseFd(f) ==
    /\ readers' = [readers EXCEPT ![f] = None]
    /\ pipes' = [pipes EXCEPT ![f] = None] /\ ended' = ended \ {f}

\* Mutant: the reader is removed and the descriptor left open.
StopAcquiredLeavesOpen(k) ==
    /\ Kind[k] = "stop" /\ May(k) /\ isConn /\ On[k] \in Acquirable
    /\ LET f == fds[On[k]] IN
       IF f = None THEN UNCHANGED <<fds, readers>>
       ELSE /\ fds' = [fds EXCEPT ![On[k]] = None]
            /\ readers' = [readers EXCEPT ![f] = None]
    /\ Over(k)
    /\ UNCHANGED <<sent, client, callbacks, bluez, sessions, busy>>

\* Mutant: the descriptor is closed under its reader.
StopAcquiredKeepsReader(k) ==
    /\ Kind[k] = "stop" /\ May(k) /\ isConn /\ On[k] \in Acquirable
    /\ LET f == fds[On[k]] IN
       IF f = None THEN UNCHANGED <<fds, readers, pipes, ended>>
       ELSE /\ fds' = [fds EXCEPT ![On[k]] = None]
            /\ pipes' = [pipes EXCEPT ![f] = None] /\ ended' = ended \ {f}
            /\ UNCHANGED readers
    /\ Over(k)
    /\ UNCHANGED <<sent, client, callbacks, removing, link, down, notifying, sessions, busy>>

\* stop_notify() of a characteristic with NotifyAcquired closes its descriptor, if there
\* is one, and asks BlueZ for nothing.
StopAcquired(k) ==
    /\ Kind[k] = "stop" /\ May(k) /\ isConn /\ On[k] \in Acquirable
    /\ LET f == fds[On[k]] IN
       IF f = None THEN UNCHANGED <<fds, readers, pipes, ended>>
       ELSE fds' = [fds EXCEPT ![On[k]] = None] /\ CloseFd(f)
    /\ Over(k)
    /\ UNCHANGED <<sent, client, callbacks, removing, link, down, notifying, sessions, busy>>

\* Mutant: the callback is removed before BlueZ has stopped.
AskBlueZForgets(k) ==
    /\ May(k) /\ isConn
    /\ Kind[k] = "io" \/ (Kind[k] = "stop" /\ On[k] \notin Acquirable)
    /\ Send(k)
    /\ callbacks' = IF Kind[k] = "stop" THEN callbacks \ {On[k]} ELSE callbacks
    /\ UNCHANGED <<client, fds, readers, bluez, sessions, busy>>

\* StopNotify, ReadValue and WriteValue.
AskBlueZ(k) ==
    /\ May(k) /\ isConn
    /\ Kind[k] = "io" \/ (Kind[k] = "stop" /\ On[k] \notin Acquirable)
    /\ Send(k)
    /\ UNCHANGED <<client, notify, bluez, sessions, busy>>

\* `raise BleakError("Not connected")`
NotConnected(k) ==
    /\ May(k) /\ ~isConn
    /\ Over(k)
    /\ UNCHANGED <<sent, client, notify, bluez, sessions, busy>>

\* unpair() forgets the connection, if there is one, then asks for RemoveDevice on the
\* manager's bus.
Unpair ==
    /\ ~removing
    /\ isConn' = FALSE /\ removing' = TRUE
    /\ UNCHANGED <<pc, reply, sent, bus, services, notify, link, down, notifying, pipes,
                   ended, sessions, busy>>

\* A good reply; that to StopNotify removes the callback.
Succeeds(k) ==
    /\ pc[k] = "wait" /\ reply[k] = "ok"
    /\ callbacks' = IF Kind[k] = "stop" THEN callbacks \ {On[k]} ELSE callbacks
    /\ Over(k)
    /\ UNCHANGED <<sent, client, fds, readers, bluez, sessions, busy>>

\* An error reply, or a bus that was closed.  The callback of a start_notify() stays.
Fails(k) ==
    /\ pc[k] = "wait" /\ reply[k] = "error"
    /\ Over(k)
    /\ UNCHANGED <<sent, client, notify, bluez, sessions, busy>>

\* Mutant: every error is taken for InProgress.
InProgressAlways(k) ==
    /\ pc[k] = "wait" /\ reply[k] \in {"busy", "error"} /\ Kind[k] = "io"
    /\ Goto(k, "sleep")
    /\ UNCHANGED <<sent, client, notify, bluez, sessions, busy>>

\* A read or a write sleeps before it is tried again.
InProgress(k) ==
    /\ pc[k] = "wait" /\ reply[k] = "busy"
    /\ Goto(k, "sleep")
    /\ UNCHANGED <<sent, client, notify, bluez, sessions, busy>>

\* The retry uses whatever _bus is now, the next session's perhaps; `assert self._bus`.
Wake(k) ==
    /\ pc[k] = "sleep"
    /\ IF bus # 0 THEN Send(k) ELSE Over(k) /\ UNCHANGED sent
    /\ UNCHANGED <<client, notify, bluez, sessions, busy>>

\* The message of a cancelled call stays with BlueZ.
Cancel(k) ==
    /\ k \in Cancellable /\ pc[k] \in {"wait", "sleep"}
    /\ pc' = [pc EXCEPT ![k] = "cancelled"] /\ reply' = [reply EXCEPT ![k] = None]
    /\ UNCHANGED <<sent, client, notify, bluez, sessions, busy>>

\* on_data() reads an end of file: the reader, the number and the entry go.
OnEof(f) ==
    /\ readers[f] # None /\ f \in ended
    /\ fds' = [fds EXCEPT ![readers[f]] = None]
    /\ CloseFd(f)
    /\ UNCHANGED <<pc, reply, sent, client, callbacks, removing, link, down, notifying, sessions, busy>>

-----------------------------------------------------------------------------
\* The session

\* The calls that wait get the error; the reply to a cancelled call is dropped.
AnswerAll(r, S) == reply' = [k \in Calls |-> IF k \in S /\ pc[k] = "wait" THEN r ELSE reply[k]]

\* connect(), from a client that is not connected.  By the time it returns the loop has
\* seen the ends of file of the last session.
Connect ==
    /\ ~isConn /\ ~down /\ sessions < MaxSessions
    /\ ended \cap {f \in Fds : readers[f] # None} = {}
    /\ sessions' = sessions + 1 /\ bus' = sessions + 1
    /\ isConn' = TRUE /\ services' = TRUE /\ link' = TRUE
    /\ UNCHANGED <<pc, reply, sent, notify, removing, down, notifying, pipes, ended, busy>>

\* The link is gone: BlueZ ends every subscription, closes its side of the pipes, gives
\* up the calls to the device and signals it.
LinkDown ==
    /\ link' = FALSE /\ down' = TRUE /\ notifying' = {}
    /\ ended' = {f \in Fds : pipes[f] # None}
    /\ sent' = {}
    /\ AnswerAll("error", sent)

\* The device leaves, or disconnect() has it disconnected.
LinkLost ==
    /\ link /\ LinkDown
    /\ UNCHANGED <<pc, client, notify, removing, pipes, sessions, busy>>

\* on_connected_changed() and _cleanup_all().  What belongs to notifications is kept.
OnDisconnected ==
    /\ down /\ down' = FALSE
    /\ isConn' = FALSE
    /\ services' = IF bus = 0 THEN services ELSE FALSE
    /\ UNCHANGED <<pc, reply, sent, bus, notify, removing, link, notifying, pipes, ended, sessions,
                   busy>>

\* The end of disconnect(): the bus is closed, and with it BlueZ's subscriptions.
Disconnect ==
    /\ ~isConn /\ bus # 0
    /\ bus' = 0
    /\ sent' = {} /\ AnswerAll("error", sent)
    /\ notifying' = {}
    /\ UNCHANGED <<pc, isConn, services, notify, removing, link, down, pipes, ended, sessions, busy>>

-----------------------------------------------------------------------------
\* BlueZ serves a call, as src/ uses it.

Answer(k, r) == sent' = sent \ {k} /\ AnswerAll(r, {k})

ServeError(k) ==
    /\ k \in sent
    /\ Answer(k, "error")
    /\ UNCHANGED <<pc, client, notify, bluez, sessions, busy>>

\* D-Bus keeps the order of messages: what cancelled calls have asked about the notifications
\* of a characteristic is served before the message of the call that waits.
InTurn(k) ==
    pc[k] = "wait" => \A x \in sent \ {k} : On[x] = On[k] => Kind[x] = "io"

\* One pipe for each characteristic; the number is any that is free.  The loop has seen the
\* end of file of an older one before the answer comes.
ServeAcquire(k) ==
    /\ k \in sent /\ link /\ Kind[k] = "start" /\ Acquires(k) /\ InTurn(k)
    /\ \A f \in Fds : pipes[f] = On[k] => f \in ended /\ readers[f] = None
    /\ \E f \in Fds :
          /\ pipes[f] = None
          /\ pipes' = [pipes EXCEPT ![f] = On[k]]
          /\ Answer(k, f)
    /\ UNCHANGED <<pc, client, notify, removing, link, down, notifying, ended, sessions, busy>>

ServeStart(k) ==
    /\ k \in sent /\ link /\ Kind[k] = "start" /\ ~Acquires(k) /\ InTurn(k)
    /\ notifying' = notifying \cup {On[k]}
    /\ Answer(k, "ok")
    /\ UNCHANGED <<pc, client, notify, removing, link, down, pipes, ended, sessions, busy>>

ServeStop(k) ==
    /\ k \in sent /\ link /\ Kind[k] = "stop" /\ On[k] \in notifying /\ InTurn(k)
    /\ notifying' = notifying \ {On[k]}
    /\ Answer(k, "ok")
    /\ UNCHANGED <<pc, client, notify, removing, link, down, pipes, ended, sessions, busy>>

ServeIo(k) ==
    /\ k \in sent /\ link /\ Kind[k] = "io"
    /\ \/ Answer(k, "ok") /\ UNCHANGED busy
       \/ busy < MaxBusy /\ busy' = busy + 1 /\ Answer(k, "busy")
    /\ UNCHANGED <<pc, client, notify, bluez, sessions>>

\* RemoveDevice disconnects the device first, or fails.
ServeUnpair ==
    /\ removing /\ removing' = FALSE
    /\ \/ link /\ LinkDown
       \/ UNCHANGED <<reply, sent, link, down, notifying, ended>>
    /\ UNCHANGED <<pc, client, notify, pipes, sessions, busy>>

Serve(k) ==
    \/ ServeError(k) \/ ServeAcquire(k) \/ ServeStart(k) \/ ServeStop(k) \/ ServeIo(k)

Begin(k) ==
    \/ StartNotify(k) \/ StopAcquired(k) \/ AskBlueZ(k) \/ NotConnected(k)

Resume(k) == Acquired(k) \/ Succeeds(k) \/ Fails(k) \/ InProgress(k) \/ Wake(k)

Next ==
    \/ \E k \in Calls : Begin(k) \/ Resume(k) \/ Cancel(k) \/ Serve(k)
    \/ \E f \in Fds : OnEof(f)
    \/ Unpair \/ ServeUnpair \/ Connect \/ LinkLost \/ OnDisconnected \/ Disconnect

Spec == Init /\ [][Next]_vars

\* The loop resumes a call that has its reply or its time, and BlueZ answers the others.
Fairness == \A k \in Calls : WF_vars(Resume(k) \/ Serve(k))

FairSpec == Spec /\ Fairness

-----------------------------------------------------------------------------
\* Properties

\* Every variable holds a value the code could put there.
TypeOK ==
    /\ pc \in [Calls -> {"idle", "wait", "sleep", "over", "cancelled"}]
    /\ reply \in [Calls -> {"ok", "error", "busy", None} \cup Fds]
    /\ bus \in 0..MaxSessions /\ isConn \in BOOLEAN /\ services \in BOOLEAN
    /\ callbacks \subseteq Chars
    /\ fds \in [Chars -> Fds \cup {None}] /\ readers \in [Fds -> Chars \cup {None}]
    /\ sent \subseteq Calls /\ removing \in BOOLEAN /\ link \in BOOLEAN /\ down \in BOOLEAN
    /\ notifying \subseteq Chars
    /\ pipes \in [Fds -> Chars \cup {None}] /\ ended \subseteq Fds
    /\ sessions \in 0..MaxSessions /\ busy \in 0..MaxBusy

\* A reader, its entry in _notification_fds and the open descriptor come and go together,
\* although stop_notify(), on_data() and the kernel's numbering meet in any order: no
\* number is read or closed that has become another file's.
ReadersOwned ==
    \A f \in Fds, c \in Chars :
        readers[f] = c <=> fds[c] = f /\ pipes[f] = c

\* As long as BlueZ notifies there is a callback for the values: start_notify() has it
\* first and stop_notify() removes it last, whichever of them fails or is cancelled.
NotifyingHasCallback == notifying \subseteq callbacks

\* The descriptor f of c came for a start_notify() that had been cancelled: nobody has it.
Abandoned(f, c) ==
    /\ readers[f] = None /\ fds[c] # f
    /\ \E s \in Calls : On[s] = c /\ Kind[s] = "start" /\ Acquires(s) /\ pc[s] = "cancelled"

\* A StartNotify of c comes from a start_notify() with use_start_notify, although c has
\* NotifyAcquired.
ForcedOn(c) ==
    c \in Acquirable /\ \E s \in Forced : On[s] = c /\ Kind[s] = "start" /\ pc[s] # "idle"

\* "Deactivate notification/indication on a specified characteristic" (client.py:983): when
\* stop_notify() returns the characteristic is silent.  Two exceptions, both of a
\* characteristic with NotifyAcquired: what a start_notify() with use_start_notify has asked
\* for, as StopNotify is not called (ForcedOn), and a descriptor that came for a
\* start_notify() that had been cancelled (Abandoned).
StopSilences ==
    [][\A k \in Calls : Kind[k] = "stop" /\ (StopAcquired(k) \/ Succeeds(k)) =>
          /\ On[k] \in notifying' => ForcedOn(On[k])
          /\ \A f \in Fds : pipes'[f] = On[k] => f \in ended' \/ Abandoned(f, On[k])']_vars

\* Every call returns or raises, whatever becomes of its session while it waits or sleeps;
\* as a call is made once, that is: in the end none waits.
CallsReturn == <>[](\A k \in Calls : pc[k] \in {"idle", "over", "cancelled"})
=============================================================================
