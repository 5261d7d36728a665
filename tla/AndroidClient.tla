---------------------------- MODULE AndroidClient ----------------------------
(***************************************************************************)
(* One BleakClientP4Android (src/bleak/backends/p4android/client.py) and     *)
(* the AsyncJavaCallbacks object of each of its connections (utils.py).      *)
(* A call puts its future into futures under the name of the callback that   *)
(* will answer it; the callback runs in a thread of Java, posts its result   *)
(* to the event loop, and there the future that has the name by then is      *)
(* resolved.  A connection, its BluetoothGatt and its callbacks object are   *)
(* all named by the connect() that made them.                                *)
(*                                                                          *)
(* A disconnect() may be called at any moment: during connect(), which goes  *)
(* on with the fields it finds, or during another one, whose future's name   *)
(* it takes, so that the other is never resumed.                             *)
(***************************************************************************)
EXTENDS Naturals, Sequences, PyNone

CONSTANTS
    Connects,     \* connect() calls
    Disconnects,  \* disconnect() calls
    Requests,     \* reads, writes, start_notify() and stop_notify() calls
    ApiOf,        \* the name of the callback that answers a request
    Cancellable,  \* the calls that may be cancelled
    MaxLosses     \* bound on the links lost

Calls == Connects \cup Disconnects \cup Requests

\* The callbacks that answer connect() and disconnect(), and all.
ConnectApis == {"onConnectionStateChange", "onMtuChanged", "onServicesDiscovered"}
Apis == ConnectApis \cup {ApiOf[x] : x \in Requests}

\* The states of a connection, and what a future is resolved with.
States  == {"up", "down"}
Results == States \cup {"ok", "error"}

ASSUME CallsAssumption ==
    /\ Connects \cap Disconnects = {} /\ Connects \cap Requests = {}
    /\ Disconnects \cap Requests = {} /\ None \notin Calls \cup Apis \cup Results
    /\ \A x \in Requests : ApiOf[x] \notin ConnectApis
    /\ Cancellable \subseteq Calls /\ MaxLosses \in Nat

VARIABLES
    pc,         \* where each call waits
    outcome,    \* what its future was resolved with
    gatt,       \* __gatt
    callbacks,  \* __callbacks
    services,   \* services, by the connection whose objects they are
    states,     \* states["onConnectionStateChange"] of each callbacks object
    futures,    \* the futures of each callbacks object that are not done
    posted,     \* callbacks the event loop has not run yet
    link,       \* Android: the state of each connection
    busy,       \* Android: the callback each BluetoothGatt owes
    closed,     \* Android: the BluetoothGatt objects that were closed
    told,       \* connections whose end the disconnected callback has seen
    losses      \* links lost, for the bound MaxLosses

client  == <<gatt, callbacks, services>>
java    == <<states, futures, posted>>
android == <<link, busy, closed, told, losses>>
vars    == <<pc, outcome, client, java, android>>

Init ==
    /\ pc = [x \in Calls |-> "idle"] /\ outcome = [x \in Calls |-> None]
    /\ gatt = None /\ callbacks = None /\ services = None
    /\ states = [c \in Connects |-> None]
    /\ futures = [c \in Connects |-> [a \in Apis |-> None]]
    /\ posted = <<>>
    /\ link = [c \in Connects |-> "none"] /\ busy = [c \in Connects |-> None]
    /\ closed = {} /\ told = {} /\ losses = 0

Goto(x, l) == pc' = [pc EXCEPT ![x] = l]

Over(x) == pc[x] \in {"idle", "done", "raised", "givenup"}

\* The futures but that of call x: when an await is cancelled, its future is.
Without(x) == [c \in Connects |-> [a \in Apis |-> IF futures[c][a] = x THEN None ELSE futures[c][a]]]

\* perform_and_wait(): the future takes the name, whoever had it, before the API is
\* called.
Await(x, c, api, l) ==
    /\ futures' = [Without(x) EXCEPT ![c][api] = x]
    /\ outcome' = [outcome EXCEPT ![x] = None]
    /\ Goto(x, l)

\* The dispatch is refused while the BluetoothGatt is busy: the name is deleted.
Refused(x, c, api) ==
    /\ busy[c] # None
    /\ futures' = [futures EXCEPT ![c][api] = None]

\* A callback posts its result to the event loop.
Post(c, api, status, value) ==
    posted' = Append(posted, [cb |-> c, api |-> api, ok |-> status = "success", value |-> value])

-----------------------------------------------------------------------------
\* connect()

\* The program connects when nothing is running and the last connection is not there.
StartConnect(c) ==
    /\ pc[c] = "idle" /\ \A x \in Calls : Over(x)
    /\ callbacks # None => states[callbacks] = "down"
    /\ callbacks' = c
    /\ link' = [link EXCEPT ![c] = "pending"]
    /\ Await(c, c, "onConnectionStateChange", "connecting")
    /\ UNCHANGED <<gatt, services, states, posted, busy, closed, told, losses>>

\* No adapter, or Bluetooth is off.
NoAdapter(c) ==
    /\ pc[c] = "idle" /\ \A x \in Calls : Over(x)
    /\ Goto(c, "raised")
    /\ UNCHANGED <<outcome, client, java, android>>

\* The next call of connect(); a refusal is an error like any other.
Ask(c, api, l) ==
    \/ /\ Await(c, c, api, l)
       /\ busy' = [busy EXCEPT ![c] = api]
    \/ /\ Refused(c, c, api)
       /\ outcome' = [outcome EXCEPT ![c] = "error"]
       /\ Goto(c, l) /\ UNCHANGED busy

Connected(c) ==
    /\ pc[c] = "connecting" /\ outcome[c] = "up" /\ callbacks # None
    /\ gatt' = c
    /\ Ask(c, "onMtuChanged", "mtu")
    /\ UNCHANGED <<callbacks, services, states, posted, link, closed, told, losses>>

\* An error, or a state that is not CONNECTED: `raise`, outside the `try`.
NotConnected(c) ==
    /\ pc[c] = "connecting" /\ outcome[c] \in {"down", "error"}
    /\ Goto(c, "raised")
    /\ UNCHANGED <<outcome, client, java, android>>

\* So is a cancellation in the first await.
GiveUp(c) ==
    /\ pc[c] = "connecting" /\ c \in Cancellable
    /\ futures' = Without(c)
    /\ Goto(c, "givenup")
    /\ UNCHANGED <<outcome, client, states, posted, android>>

MtuChanged(c) ==
    /\ pc[c] = "mtu" /\ outcome[c] = "ok" /\ callbacks # None
    /\ Ask(c, "onServicesDiscovered", "discover")
    /\ UNCHANGED <<client, states, posted, link, closed, told, losses>>

\* _get_services() keeps the services there are.
ServicesDiscovered(c) ==
    /\ pc[c] = "discover" /\ outcome[c] = "ok" /\ callbacks # None
    /\ services' = IF services = None THEN c ELSE services
    /\ Goto(c, "done")
    /\ UNCHANGED <<outcome, gatt, callbacks, java, android>>

\* The fields disconnect() resets.
Forget == gatt' = None /\ callbacks' = None /\ services' = None

\* A disconnect() has reset the fields while connect() waited: an AttributeError in the `try`,
\* and the disconnect() of its `except` finds no BluetoothGatt, or none to do with callbacks.
FieldsGone(c) ==
    /\ outcome[c] = IF pc[c] = "connecting" THEN "up" ELSE "ok"
    /\ pc[c] \in {"connecting", "mtu", "discover"} /\ callbacks = None
    /\ Forget /\ Goto(c, "raised")
    /\ UNCHANGED <<outcome, java, android>>

\* disconnect() from its first line to its await, or to its end if there is none: the
\* link is known to be down already.
Hangup(x, there, end) ==
    IF gatt = None
    THEN /\ futures' = Without(x)
         /\ Goto(x, end) /\ UNCHANGED <<outcome, client, link, closed>>
    ELSE IF states[callbacks] = "down"
    THEN /\ futures' = Without(x) /\ closed' = closed \cup {gatt}
         /\ Forget /\ Goto(x, end) /\ UNCHANGED <<outcome, link>>
    ELSE /\ Await(x, callbacks, "onConnectionStateChange", there)
         /\ link' = [link EXCEPT ![gatt] = IF @ = "up" THEN "closing" ELSE @]
         /\ UNCHANGED <<client, closed>>

\* Mutant: a failing connect() resets the fields instead of disconnecting.
ConnectFailsForgets(c) ==
    /\ pc[c] \in {"mtu", "discover"}
    /\ outcome[c] = "error" \/ c \in Cancellable
    /\ Forget /\ Goto(c, "raised")
    /\ UNCHANGED <<outcome, java, android>>

\* `except BaseException`: disconnect(), whose exceptions are swallowed.
ConnectFails(c) ==
    /\ pc[c] \in {"mtu", "discover"}
    /\ outcome[c] = "error" \/ c \in Cancellable
    /\ Hangup(c, "cleanup", "raised")
    /\ UNCHANGED <<states, posted, busy, told, losses>>

-----------------------------------------------------------------------------
\* disconnect() and the requests

Disconnect(d) ==
    /\ pc[d] = "idle"
    /\ Hangup(d, "waiting", "done")
    /\ UNCHANGED <<states, posted, busy, told, losses>>

\* The state has come: the BluetoothGatt there is now is closed; an error is only logged.
HungUp(x) ==
    /\ pc[x] \in {"waiting", "cleanup"} /\ outcome[x] # None
    /\ closed' = IF outcome[x] = "down" THEN closed \cup ({gatt} \ {None}) ELSE closed
    /\ Forget
    /\ Goto(x, IF pc[x] = "cleanup" THEN "raised" ELSE "done")
    /\ UNCHANGED <<outcome, java, link, busy, told, losses>>

\* A CancelledError is not an Exception: nothing is reset.
HangupCancelled(x) ==
    /\ pc[x] \in {"waiting", "cleanup"} /\ x \in Cancellable
    /\ futures' = Without(x)
    /\ Goto(x, "raised")
    /\ UNCHANGED <<outcome, client, states, posted, android>>

\* A request of a client with services.  The program does not make two at a time that
\* have the same callback: the second would take the name from the first, which nothing
\* resolves any more.
Request(x) ==
    /\ pc[x] = "idle" /\ gatt # None /\ services # None
    /\ \A y \in Connects : Over(y)
    /\ \A y \in Requests : pc[y] = "wait" => ApiOf[y] # ApiOf[x]
    /\ \/ /\ busy[gatt] = None
          /\ Await(x, callbacks, ApiOf[x], "wait")
          /\ busy' = [busy EXCEPT ![gatt] = ApiOf[x]]
       \/ /\ Refused(x, callbacks, ApiOf[x])
          /\ Goto(x, "raised") /\ UNCHANGED <<outcome, busy>>
    /\ UNCHANGED <<client, states, posted, link, closed, told, losses>>

RequestEnds(x) ==
    /\ pc[x] = "wait" /\ outcome[x] # None
    /\ Goto(x, IF outcome[x] = "ok" THEN "done" ELSE "raised")
    /\ UNCHANGED <<outcome, client, java, android>>

-----------------------------------------------------------------------------
\* _result_state_unthreadsafe(), in the event loop

\* The state is kept whatever the status.
KeepState(e) ==
    states' = IF e.api = "onConnectionStateChange"
              THEN [states EXCEPT ![e.cb] = e.value] ELSE states

\* Mutant: an error with nothing waiting for it is dropped.
ResolvesOnly(e) == {e.api} \cap {a \in Apis : futures[e.cb][a] # None}

\* The futures an event resolves: the one with its name, or all of them when an error
\* has no home.
Resolves(e) ==
    IF futures[e.cb][e.api] # None THEN {e.api}
    ELSE IF e.ok THEN {} ELSE {a \in Apis : futures[e.cb][a] # None}

Handle ==
    /\ posted # <<>> /\ posted' = Tail(posted)
    /\ LET e == Head(posted)
           resolved == {futures[e.cb][a] : a \in Resolves(e)}
       IN /\ KeepState(e)
          /\ outcome' = [x \in Calls |->
                 IF x \in resolved THEN IF e.ok THEN e.value ELSE "error" ELSE outcome[x]]
          /\ futures' = [futures EXCEPT ![e.cb] =
                 [a \in Apis |-> IF a \in Resolves(e) THEN None ELSE @[a]]]
    /\ UNCHANGED <<pc, client, android>>

-----------------------------------------------------------------------------
\* Android, as src/ uses it

LinkUp(c) ==
    /\ link[c] = "pending"
    /\ link' = [link EXCEPT ![c] = "up"]
    /\ Post(c, "onConnectionStateChange", "success", "up")
    /\ UNCHANGED <<pc, outcome, client, states, futures, busy, closed, told, losses>>

\* Mutant: the disconnected callback is not called.
DownUnreported(c, status) ==
    /\ link' = [link EXCEPT ![c] = "down"]
    /\ Post(c, "onConnectionStateChange", status, "down")
    /\ UNCHANGED told

\* onConnectionStateChange(DISCONNECTED) calls the disconnected callback itself, also for
\* a connection that failed or that connect() gave up.
Down(c, status) ==
    /\ link' = [link EXCEPT ![c] = "down"]
    /\ Post(c, "onConnectionStateChange", status, "down")
    /\ told' = told \cup {c}

AttemptFails(c) ==
    /\ link[c] = "pending"
    /\ Down(c, "error")
    /\ UNCHANGED <<pc, outcome, client, states, futures, busy, closed, losses>>

\* The status of a link that was lost is an error.
LinkLost(c) ==
    /\ link[c] = "up" /\ losses < MaxLosses
    /\ Down(c, "error")
    /\ losses' = losses + 1
    /\ UNCHANGED <<pc, outcome, client, states, futures, busy, closed>>

\* That of a link that was closed may be one.
LinkClosed(c) ==
    /\ link[c] = "closing"
    /\ Down(c, "success") \/ Down(c, "error")
    /\ UNCHANGED <<pc, outcome, client, states, futures, busy, closed, losses>>

\* A connected device answers.
Answer(c) ==
    /\ link[c] = "up" /\ busy[c] # None
    /\ Post(c, busy[c], "success", "ok") \/ Post(c, busy[c], "error", "ok")
    /\ busy' = [busy EXCEPT ![c] = None]
    /\ UNCHANGED <<pc, outcome, client, states, futures, link, closed, told, losses>>

Resume(x) ==
    \/ x \in Connects /\ (Connected(x) \/ MtuChanged(x) \/ ServicesDiscovered(x))
    \/ x \in Connects /\ (NotConnected(x) \/ GiveUp(x) \/ FieldsGone(x) \/ ConnectFails(x))
    \/ HungUp(x)
    \/ x \in Requests /\ RequestEnds(x)

Next ==
    \/ \E c \in Connects : StartConnect(c) \/ NoAdapter(c)
    \/ \E d \in Disconnects : Disconnect(d)
    \/ \E x \in Requests : Request(x)
    \/ \E x \in Calls : Resume(x) \/ HangupCancelled(x)
    \/ Handle
    \/ \E c \in Connects :
          LinkUp(c) \/ AttemptFails(c) \/ LinkLost(c) \/ LinkClosed(c) \/ Answer(c)

Spec == Init /\ [][Next]_vars

\* The loop runs what is ready; a connected device answers, a disconnected one reports.
Fairness ==
    /\ WF_vars(Handle)
    /\ \A x \in Calls : WF_vars(Resume(x))
    /\ \A c \in Connects : WF_vars(Answer(c)) /\ WF_vars(LinkClosed(c))

FairSpec == Spec /\ Fairness

-----------------------------------------------------------------------------
\* Properties

\* Every variable holds a value the code could put there.
TypeOK ==
    /\ pc \in [Calls -> {"idle", "connecting", "mtu", "discover", "cleanup", "waiting",
                         "wait", "done", "raised", "givenup"}]
    /\ outcome \in [Calls -> Results \cup {None}]
    /\ gatt \in Connects \cup {None} /\ callbacks \in Connects \cup {None}
    /\ services \in Connects \cup {None}
    /\ states \in [Connects -> States \cup {None}]
    /\ futures \in [Connects -> [Apis -> Calls \cup {None}]]
    /\ link \in [Connects -> {"none", "pending", "up", "closing", "down"}]
    /\ busy \in [Connects -> Apis \cup {None}]
    /\ closed \subseteq Connects /\ told \subseteq Connects /\ losses \in 0..MaxLosses

\* "if connecting is canceled or one of the above fails, we need to disconnect"
\* (client.py:118): a connection that is there, or may still come, is that of a connect()
\* in its first await or the one disconnect() would end, whatever disconnect() is called
\* meanwhile.  The exception: the first await of connect() is outside that `try`, so a
\* connect() cancelled there ("givenup") leaves its connection behind.
NoLinkForgotten ==
    \A c \in Connects : link[c] \in {"pending", "up"} =>
        \/ gatt = c /\ callbacks = c
        \/ pc[c] \in {"connecting", "givenup"}

\* A disconnect() waits for the end of a connection; the client has one at a time.
EndAwaited == \E c \in Connects : futures[c]["onConnectionStateChange"] # None

\* A call that waits for a connected device goes on: the device answers it, or the error
\* of the lost link is redirected to it.  Not so if a disconnect() waits for the end of
\* the same connection meanwhile: the end of the link has a home then, and the call keeps
\* waiting.
CallsGoOn ==
    /\ \A x \in Requests :
          pc[x] = "wait" /\ gatt # None /\ gatt = callbacks /\ link[gatt] = "up"
             ~> pc[x] # "wait" \/ EndAwaited
    /\ \A l \in {"mtu", "discover"} :
          (\E c \in Connects : pc[c] = l /\ link[c] = "up")
             ~> (\A c \in Connects : pc[c] # l) \/ EndAwaited

\* What Session says of connection c.
Phase(c) ==
    CASE pc[c] = "idle" -> "idle"
      [] pc[c] \in {"raised", "givenup"} -> "failed"
      [] pc[c] = "done" -> IF c \in told THEN "reported" ELSE "open"
      [] OTHER -> "trying"

Sessions == INSTANCE Session WITH phase <- [c \in Connects |-> Phase(c)]

\* The sessions of the client follow one another as Session promises: no end of a
\* connection goes unreported.
SessionsInTurn == Sessions!Spec
=============================================================================
