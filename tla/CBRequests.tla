------------------------------ MODULE CBRequests ------------------------------
(***************************************************************************)
(* The requests of one PeripheralDelegate                                   *)
(* (src/bleak/backends/corebluetooth/PeripheralDelegate.py) about one       *)
(* characteristic and one descriptor: reads, writes with response, the      *)
(* starting and stopping of notifications, and the RSSI.                    *)
(*                                                                          *)
(* Each kind of request has a dictionary of futures with one place for each *)
(* attribute, and what CoreBluetooth reports names the attribute and not    *)
(* the request.  A value that arrives is the answer to a read or a          *)
(* notification, and CoreBluetooth does not say which.                      *)
(***************************************************************************)
EXTENDS Naturals, Sequences

CONSTANTS
    Calls,          \* the calls of the program
    Programs,       \* what each may be: functions from Calls to Kinds
    Discriminator,  \* start_notify is given a notification_discriminator
    Cancellable,    \* calls may be cancelled
    MaxSent,        \* bound on the notifications
    MaxLosses,      \* bound on the disconnections
    None

Kinds == {"read", "write", "readDescriptor", "writeDescriptor", "start", "stop", "rssi"}

ASSUME CallsAssumption ==
    /\ Programs \subseteq [Calls -> Kinds]
    /\ None \notin Calls
ASSUME OptionsAssumption ==
    /\ Discriminator \in BOOLEAN /\ Cancellable \in BOOLEAN
    /\ MaxSent \in Nat /\ MaxLosses \in Nat

Slots == {"read", "write", "readDescriptor", "writeDescriptor", "notify", "rssi"}

VARIABLES
    kind,      \* what each call is, of the kinds in Kinds
    pc,        \* "idle", "wait", "done", "raised"; "refused" by a ValueError
    future,    \* what has become of the future a call waits for
    slot,      \* the dictionaries of futures: the call whose future is there
    callbacks, \* the characteristic is in _characteristic_notify_callbacks
    received,  \* what the notification callback has been given
    \* CoreBluetooth
    connected,
    wire,      \* requests it works at, in order
    notifying,
    events,    \* callbacks that the event loop has not run yet
    sent, losses

calls  == <<kind, pc, future, slot, callbacks>>
system == <<connected, wire, notifying, events, sent, losses>>
vars   == <<calls, received, system>>

\* start_notifications and stop_notifications share their futures.
SlotOf(x) == IF kind[x] \in {"start", "stop"} THEN "notify" ELSE kind[x]

\* "answer" is a value that was read, "notification" one that was sent unasked.
Future == {"none", "pending", "answer", "notification", "ok", "error", "timeout"}

Init ==
    /\ kind \in Programs
    /\ pc = [x \in Calls |-> "idle"]
    /\ future = [x \in Calls |-> "none"]
    /\ slot = [s \in Slots |-> None]
    /\ callbacks = FALSE /\ received = {}
    /\ connected = TRUE /\ wire = <<>> /\ notifying = FALSE /\ events = <<>>
    /\ sent = 0 /\ losses = 0

-----------------------------------------------------------------------------
\* The methods

\* The program uses a connected client and makes one call of a kind at a time.
May(x) ==
    /\ pc[x] = "idle" /\ connected
    /\ \A y \in Calls : pc[y] = "wait" => SlotOf(y) # SlotOf(x)

\* The future is put into its place and the request is passed to CoreBluetooth.
Request(x) ==
    /\ slot' = [slot EXCEPT ![SlotOf(x)] = x]
    /\ future' = [future EXCEPT ![x] = "pending"]
    /\ pc' = [pc EXCEPT ![x] = "wait"]
    /\ wire' = Append(wire, x)
    /\ UNCHANGED <<kind, received, connected, notifying, events, sent, losses>>

\* ValueError.
Refuse(x) ==
    /\ pc' = [pc EXCEPT ![x] = "refused"]
    /\ UNCHANGED <<kind, future, slot, callbacks, received, system>>

\* read_characteristic and write_characteristic.
ReadOrWrite(x) ==
    /\ May(x) /\ kind[x] \in {"read", "write"}
    /\ Request(x)
    /\ UNCHANGED callbacks

\* read_descriptor and write_descriptor.
ReadOrWriteDescriptor(x) ==
    /\ May(x) /\ kind[x] \in {"readDescriptor", "writeDescriptor"}
    /\ Request(x)
    /\ UNCHANGED callbacks

ReadRSSI(x) ==
    /\ May(x) /\ kind[x] = "rssi"
    /\ Request(x)
    /\ UNCHANGED callbacks

\* The callback is registered before it is known that notifications are on.
StartNotifications(x) ==
    /\ May(x) /\ kind[x] = "start" /\ ~callbacks
    /\ callbacks' = TRUE
    /\ Request(x)

\* Mutant: the callback goes at once.
StopNotificationsEager(x) ==
    /\ May(x) /\ kind[x] = "stop" /\ callbacks
    /\ callbacks' = FALSE
    /\ Request(x)

StopNotifications(x) ==
    /\ May(x) /\ kind[x] = "stop" /\ callbacks
    /\ Request(x)
    /\ UNCHANGED callbacks

AlreadyStarted(x) == May(x) /\ kind[x] = "start" /\ callbacks /\ Refuse(x)
NeverStarted(x)   == May(x) /\ kind[x] = "stop" /\ ~callbacks /\ Refuse(x)

\* The future is done: it leaves its place.  Only a stop_notifications that was answered well
\* removes the callback.
Resume(x) ==
    /\ pc[x] = "wait" /\ future[x] # "pending"
    /\ slot' = [slot EXCEPT ![SlotOf(x)] = None]
    /\ pc' = [pc EXCEPT ![x] = IF future[x] \in {"error", "timeout"} THEN "raised" ELSE "done"]
    /\ callbacks' = (callbacks /\ ~(kind[x] = "stop" /\ future[x] = "ok"))
    /\ UNCHANGED <<kind, future, received, system>>

\* The timeout of the read of a characteristic, the only request that has one, or a
\* cancellation: the result is lost if there is one.
GiveUp(x) ==
    /\ pc[x] = "wait" /\ future[x] # "timeout"
    /\ kind[x] = "read" \/ Cancellable
    /\ future' = [future EXCEPT ![x] = "timeout"]
    /\ UNCHANGED <<kind, pc, slot, callbacks, received, system>>

-----------------------------------------------------------------------------
\* The callbacks of CoreBluetooth, run by the event loop

Handle(name) ==
    /\ events # <<>> /\ Head(events)[1] = name
    /\ events' = Tail(events)
    /\ UNCHANGED <<kind, pc, slot, callbacks, connected, wire, notifying, sent, losses>>

\* A future that is done stays as it is: setting it raises InvalidStateError.
Resolve(s, value) ==
    future' = IF slot[s] # None /\ future[slot[s]] = "pending"
              THEN [future EXCEPT ![slot[s]] = value] ELSE future

\* Mutant: the discriminator is not asked.
DidUpdateValueUnasked ==
    /\ Handle("value")
    /\ LET value == Head(events)[2]
       IN  IF value # "error" /\ slot["read"] = None /\ callbacks
           THEN received' = received \cup {value} /\ UNCHANGED future
           ELSE Resolve("read", value) /\ UNCHANGED received

\* did_update_value_for_characteristic: without a read that waits, or if the discriminator
\* says so, a value is a notification if there is a callback; otherwise it is the answer.
DidUpdateValue ==
    /\ Handle("value")
    /\ LET value == Head(events)[2]
       IN  IF /\ value # "error" /\ callbacks
              /\ slot["read"] = None \/ (Discriminator /\ value = "notification")
           THEN received' = received \cup {value} /\ UNCHANGED future
           ELSE Resolve("read", value) /\ UNCHANGED received

\* did_write_value_for_characteristic, did_update_notification_for_characteristic: an event
\* that no future waits for is ignored.
DidWriteValue == Handle("write") /\ Resolve("write", Head(events)[2]) /\ UNCHANGED received
DidUpdateNotification ==
    Handle("notify") /\ Resolve("notify", Head(events)[2]) /\ UNCHANGED received

\* did_update_value_for_descriptor, did_write_value_for_descriptor.
DidReadOrWriteDescriptor == \E s \in {"readDescriptor", "writeDescriptor"} :
    Handle(s) /\ Resolve(s, Head(events)[2]) /\ UNCHANGED received

DidReadRSSI == Handle("rssi") /\ Resolve("rssi", Head(events)[2]) /\ UNCHANGED received

\* Mutant: the futures of notify changes are forgotten.
DidDisconnectSome ==
    /\ Handle("disconnected")
    /\ future' = [x \in Calls |->
          IF slot[SlotOf(x)] = x /\ SlotOf(x) # "notify" /\ future[x] = "pending"
          THEN "error" ELSE future[x]]
    /\ UNCHANGED received

\* The client's disconnect_callback fails the futures that are in a place.
DidDisconnect ==
    /\ Handle("disconnected")
    /\ future' = [x \in Calls |->
          IF slot[SlotOf(x)] = x /\ future[x] = "pending" THEN "error" ELSE future[x]]
    /\ UNCHANGED received

-----------------------------------------------------------------------------
\* CoreBluetooth and the device

\* A characteristic that was read is reported as one that notifies is.
Report(x, value) ==
    events' = Append(events, <<IF kind[x] = "read" THEN "value" ELSE SlotOf(x), value>>)

Serve ==
    /\ connected /\ wire # <<>>
    /\ LET x == Head(wire)
       IN  \/ /\ Report(x, IF kind[x] = "read" THEN "answer" ELSE "ok")
              /\ notifying' = IF SlotOf(x) = "notify" THEN kind[x] = "start" ELSE notifying
           \/ Report(x, "error") /\ UNCHANGED notifying
    /\ wire' = Tail(wire)
    /\ UNCHANGED <<calls, received, connected, sent, losses>>

Notify ==
    /\ connected /\ notifying /\ sent < MaxSent
    /\ sent' = sent + 1
    /\ events' = Append(events, <<"value", "notification">>)
    /\ UNCHANGED <<calls, received, connected, wire, notifying, losses>>

LinkLost ==
    /\ connected /\ losses < MaxLosses
    /\ connected' = FALSE /\ notifying' = FALSE /\ wire' = <<>>
    /\ losses' = losses + 1
    /\ events' = Append(events, <<"disconnected">>)
    /\ UNCHANGED <<calls, received, sent>>

\* The client connects again, with the same PeripheralDelegate, when the disconnection has
\* been handled and no call is left.
Reconnected ==
    /\ ~connected /\ events = <<>> /\ \A x \in Calls : pc[x] # "wait"
    /\ connected' = TRUE
    /\ UNCHANGED <<calls, received, wire, notifying, events, sent, losses>>

-----------------------------------------------------------------------------
Method(x) ==
    ReadOrWrite(x) \/ ReadOrWriteDescriptor(x) \/ ReadRSSI(x) \/ StartNotifications(x)
    \/ StopNotifications(x) \/ AlreadyStarted(x) \/ NeverStarted(x)

Callback ==
    DidUpdateValue \/ DidWriteValue \/ DidUpdateNotification \/ DidReadOrWriteDescriptor
    \/ DidReadRSSI \/ DidDisconnect

Next ==
    \/ \E x \in Calls : Method(x) \/ Resume(x) \/ GiveUp(x)
    \/ Callback \/ Serve \/ Notify \/ LinkLost \/ Reconnected

Spec == Init /\ [][Next]_vars

\* The loop resumes coroutines and runs callbacks, a connected device answers.
Fairness ==
    /\ \A x \in Calls : WF_vars(Resume(x))
    /\ WF_vars(Callback) /\ WF_vars(Serve)

FairSpec == Spec /\ Fairness

-----------------------------------------------------------------------------
\* Properties

\* Every variable holds a value the code could put there, and a future in its place is that
\* of a call that waits.
TypeOK ==
    /\ kind \in Programs
    /\ pc \in [Calls -> {"idle", "wait", "done", "raised", "refused"}]
    /\ future \in [Calls -> Future]
    /\ slot \in [Slots -> Calls \cup {None}]
    /\ \A x \in Calls : pc[x] = "wait" <=> slot[SlotOf(x)] = x
    /\ received \subseteq {"answer", "notification"}
    /\ callbacks \in BOOLEAN /\ connected \in BOOLEAN /\ notifying \in BOOLEAN

\* With a discriminator a read never returns a notification, not even one that arrives
\* while notifications are being started or stopped: if no start or stop is cancelled.
ReadsGetAnswers == Discriminator => \A x \in Calls : future[x] # "notification"

\* While the device notifies there is a callback for what it sends, whatever start and stop
\* calls have failed, if none is cancelled.
NotifyingHasCallback == notifying => callbacks

\* Every request returns or raises: it is answered, or failed when the device disconnects.
RequestsReturn == (\E x \in Calls : pc[x] = "wait") ~> (\A x \in Calls : pc[x] # "wait")

-----------------------------------------------------------------------------
\* What the documentation says, and the code does not do

\* bleak/__init__.py:925, "Notifications are stopped automatically on disconnect": if no
\* start_notify has failed, one is refused only while notifications are on.
NotifyRestarts ==
    [][\A x \in Calls : pc[x] = "idle" /\ pc'[x] = "refused" /\ kind[x] = "start" =>
          notifying \/ \E y \in Calls : kind[y] = "start" /\ pc[y] \in {"wait", "raised"}]_vars
=============================================================================
