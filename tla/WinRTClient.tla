----------------------------- MODULE WinRTClient -----------------------------
(***************************************************************************)
(* One BleakClientWinRT (src/bleak/backends/winrt/client.py): connect() with *)
(* pairing and the enumeration of services, disconnect(), notifications,     *)
(* and the session events.                                                   *)
(*                                                                          *)
(* Every await of a WinRT operation can end in three ways: the operation     *)
(* succeeds, fails, or the task is cancelled, which waits for the operation  *)
(* all the same and throws away what it brings (FutureLike).  The session    *)
(* status handlers run in a thread of WinRT and pass each event on with      *)
(* call_soon_threadsafe: an event may be queued before the handler is        *)
(* removed and handled after.                                                *)
(***************************************************************************)
EXTENDS Naturals, Sequences, FiniteSets, PyNone

CONSTANTS
    Connects, Disconnects,
    Starts,          \* calls of start_notify(), for one characteristic
    Requests,        \* a read, a write or a stop_notify() each
    Cancellable,     \* the calls that the program may cancel
    Pairing,         \* the connects with pair=True
    Services,        \* the GATT services of the device
    MaxRetries,      \* of an unreachable device: 10 in the code
    MaxDrops         \* bound on the links that are lost

Calls == Connects \cup Disconnects \cup Starts \cup Requests

ASSUME CallsAssumption ==
    /\ IsFiniteSet(Calls) /\ IsFiniteSet(Services) /\ Services # {}
    /\ None \notin Calls /\ Pairing \subseteq Connects /\ Cancellable \subseteq Calls
    /\ Connects \cap (Disconnects \cup Starts \cup Requests) = {}
    /\ Disconnects \cap (Starts \cup Requests) = {} /\ Starts \cap Requests = {}
    /\ MaxRetries \in Nat /\ MaxDrops \in Nat

VARIABLES
    pc,            \* where each call waits
    op,            \* what has become of the WinRT operation it waits for
    asked,         \* the calls that are to be cancelled when their operation ends
    \* the client; sessions and service collections are named by their connect()
    requested,     \* the client was made with a set of service UUIDs
    requester, session, statusToken, services,
    token,         \* _notification_callbacks[handle]: the start_notify that set it
    \* the connects
    activated,     \* those whose event has been set
    complete,      \* is_connect_complete
    todo,          \* services still to be asked for, or to be gone through
    kept,          \* services in the collection
    retries,
    \* WinRT
    openRequesters, openSessions,
    open,          \* service objects of each connect() that have not been closed
    link,          \* the status of each session
    handlers,      \* the value-changed handlers that are registered
    madeIn,        \* the session each start_notify belongs to
    queue,         \* session events that the loop has not run yet
    drops,
    \* history
    told,          \* the sessions that disconnected_callback has been called for
    ignored        \* those whose end was handled before connect() had returned

client  == <<requested, requester, session, statusToken, services, token>>
connects == <<activated, complete, todo, kept, retries>>
winrt   == <<openRequesters, openSessions, open, link, handlers, madeIn, queue, drops>>
history == <<told, ignored>>
vars    == <<pc, op, asked, client, connects, winrt, history>>

\* The levels of protection that pair() tries, one after the other.
Levels == {"level1", "level2", "any"}
Pair == {"info"} \cup Levels
Pc == Pair \cup {"idle", "requester", "session", "services", "sleep", "tree", "dispose",
                 "event", "settle", "starting", "stopping", "request", "done", "raised",
                 "unpaired",   \* connect() raised in pair()
                 "lostRequester", "lostSession",   \* connect() raised and lost what it was brought
                 "spilled",    \* connect() raised and lost service objects
                 "crashed"}    \* an exception that the code does not mean to raise
Running(x) ==
    pc[x] \notin {"idle", "done", "raised", "unpaired", "lostRequester", "lostSession", "spilled",
                  "crashed"}

Init ==
    /\ pc = [x \in Calls |-> "idle"] /\ op = [x \in Calls |-> "none"] /\ asked = {}
    /\ requested \in BOOLEAN
    /\ requester = None /\ session = None /\ statusToken = None /\ services = None
    /\ token = None
    /\ activated = {} /\ complete = {}
    /\ todo = [c \in Connects |-> {}] /\ kept = [c \in Connects |-> {}]
    /\ retries = [c \in Connects |-> MaxRetries]
    /\ openRequesters = {} /\ openSessions = {} /\ open = [c \in Connects |-> {}]
    /\ link = [c \in Connects |-> "down"]
    /\ handlers = {} /\ madeIn = [s \in Starts |-> None] /\ queue = <<>> /\ drops = 0
    /\ told = {} /\ ignored = {}

IsConnected == session # None /\ link[session] = "active"

-----------------------------------------------------------------------------
\* WinRT operations

\* The call starts an operation and waits for it at l.
Begin(x, l) ==
    /\ pc' = [pc EXCEPT ![x] = l] /\ op' = [op EXCEPT ![x] = "running"]
    /\ asked' = asked \ {x}

\* The call goes on to l without an operation: a sleep, an event, or the end.
Leave(x, l) ==
    /\ pc' = [pc EXCEPT ![x] = l] /\ op' = [op EXCEPT ![x] = "none"]
    /\ asked' = asked \ {x}

Ended(x, l, r) == pc[x] = l /\ op[x] = r
Succeeds(x, l) == Ended(x, l, "ok")
Fails(x, l) == Ended(x, l, "error")

\* The service objects that an enumeration asks for: all at once, or one requested service
\* after the other.
Asked(c) == IF requested THEN {CHOOSE s \in todo[c] : TRUE} ELSE Services

\* What an operation brings is open from now on, whether or not its call will take it.
Bring(x) ==
    /\ openRequesters' = IF pc[x] = "requester" THEN openRequesters \cup {x} ELSE openRequesters
    /\ openSessions' = IF pc[x] = "session" THEN openSessions \cup {x} ELSE openSessions
    /\ open' = IF pc[x] = "services" THEN [open EXCEPT ![x] = @ \cup Asked(x)] ELSE open

\* In WinRT's thread.  An operation that has been asked to cancel may have been too fast:
\* result() raises CancelledError all the same, and what it brings is lost.  So it is by the
\* assertion in result(), which fails when the operation was complete before it was awaited
\* and its handler has not run.
OperationEnds(x) ==
    /\ op[x] = "running"
    /\ \/ /\ \E r \in {"error"} \cup (IF x \in asked THEN {} ELSE
              CASE pc[x] = "services" -> {"unreachable"} [] pc[x] = "tree" -> {"denied"}
                [] pc[x] = "info" -> {"paired"} [] pc[x] \in Levels -> {"unmet"}
                [] OTHER -> {}) :
                op' = [op EXCEPT ![x] = r]
          /\ UNCHANGED <<openRequesters, openSessions, open>>
       \/ /\ \/ x \notin asked /\ op' = [op EXCEPT ![x] = "ok"]
             \/ (x \in asked \/ pc[x] = "services") /\ op' = [op EXCEPT ![x] = "error"]
          /\ Bring(x)
    /\ asked' = asked \ {x}
    /\ UNCHANGED <<pc, client, connects, link, handlers, madeIn, queue, drops, history>>

\* A cancellation, or the timeout of connect(), which covers the enumeration.  An operation
\* that runs is asked to cancel; the result of one that has ended is lost.
Interrupt(x) ==
    /\ op[x] \notin {"none", "error"} /\ x \notin asked
    /\ x \in Cancellable \/ pc[x] \in {"services", "tree"}
    /\ IF op[x] = "running" THEN asked' = asked \cup {x} /\ UNCHANGED op
                            ELSE op' = [op EXCEPT ![x] = "error"] /\ UNCHANGED asked
    /\ UNCHANGED <<pc, client, connects, winrt, history>>

-----------------------------------------------------------------------------
\* connect()

\* Mutant: the session is forgotten and not closed.
HandleDisconnectKeepsSession ==
    /\ requester' = None /\ openRequesters' = openRequesters \ {requester}
    /\ session' = None /\ UNCHANGED <<openSessions, link>>
    /\ statusToken' = IF session = None THEN statusToken ELSE None

\* Mutant: the requester is forgotten and not closed.
HandleDisconnectKeepsRequester ==
    /\ requester' = None /\ UNCHANGED openRequesters
    /\ session' = None /\ openSessions' = openSessions \ {session}
    /\ statusToken' = IF session = None THEN statusToken ELSE None
    /\ link' = [c \in Connects |-> IF c = session THEN "down" ELSE link[c]]

\* handle_disconnect(): it closes whatever session and requester the client has now.
HandleDisconnect ==
    /\ requester' = None /\ openRequesters' = openRequesters \ {requester}
    /\ session' = None /\ openSessions' = openSessions \ {session}
    /\ statusToken' = IF session = None THEN statusToken ELSE None
    /\ link' = [c \in Connects |-> IF c = session THEN "down" ELSE link[c]]

\* What connect() knew is gone with it; what it found is not.
Forget(c) ==
    /\ activated' = activated \ {c}
    /\ todo' = [todo EXCEPT ![c] = {}] /\ retries' = [retries EXCEPT ![c] = MaxRetries]
    /\ UNCHANGED kept

\* `except BaseException`
Raise(c, l) ==
    /\ Leave(c, l) /\ Forget(c)
    /\ HandleDisconnect
    /\ UNCHANGED <<requested, services, token, complete, open, handlers, madeIn, queue, drops,
                   history>>

\* The program connects when nothing is going on and it has no session.
StartConnect(c) ==
    /\ pc[c] = "idle" /\ session = None
    /\ \A x \in Calls : ~Running(x)
    /\ Begin(c, "requester")
    /\ UNCHANGED <<client, connects, winrt, history>>

\* No device, or the requester is lost: what it was brought is in nobody's hands.
DeviceNotFound(c) ==
    /\ Fails(c, "requester")
    /\ Leave(c, IF c \in openRequesters THEN "lostRequester" ELSE "raised")
    /\ UNCHANGED <<client, connects, winrt, history>>

\* The loop is fair: what an old session left in the queue has run before.
GotRequester(c) ==
    /\ Succeeds(c, "requester") /\ queue = <<>>
    /\ requester' = c
    /\ Begin(c, IF c \in Pairing THEN "info" ELSE "session")
    /\ UNCHANGED <<requested, session, statusToken, services, token, connects, winrt, history>>

\* pair(): the next level is tried if the last one could not be met.
PairNext(c) ==
    /\ \/ Succeeds(c, "info") /\ Begin(c, "level1")
       \/ Ended(c, "level1", "unmet") /\ Begin(c, "level2")
       \/ Ended(c, "level2", "unmet") /\ Begin(c, "any")
    /\ UNCHANGED <<client, connects, winrt, history>>

Paired(c) ==
    /\ \/ \E l \in Levels : Succeeds(c, l)
       \/ Ended(c, "info", "paired")
    /\ Begin(c, "session")
    /\ UNCHANGED <<client, connects, winrt, history>>

\* The exception leaves connect() before its try: the requester stays open.
PairFails(c) ==
    /\ \/ \E l \in Pair : Fails(c, l)
       \/ Ended(c, "any", "unmet")
    /\ Leave(c, "unpaired")
    /\ UNCHANGED <<client, connects, winrt, history>>

\* No session, or it is lost.
NoSession(c) ==
    /\ Fails(c, "session")
    /\ Raise(c, IF c \in openSessions THEN "lostSession" ELSE "raised")

\* A session that cannot be maintained: handle_disconnect() finds it in the client.
NotMaintained(c) ==
    /\ Succeeds(c, "session")
    /\ Leave(c, "raised") /\ Forget(c)
    /\ requester' = None /\ openRequesters' = openRequesters \ {requester}
    /\ openSessions' = openSessions \ {c} /\ link' = [link EXCEPT ![c] = "down"]
    /\ UNCHANGED <<requested, session, statusToken, services, token, complete, open, handlers,
                   madeIn, queue, drops, history>>

\* The session may be active already.  Services that the client still has are used again.
GotSession(c) ==
    /\ Succeeds(c, "session")
    /\ session' = c /\ statusToken' = c
    /\ activated' = IF link[c] = "active" THEN activated \cup {c} ELSE activated
    /\ todo' = [todo EXCEPT ![c] = IF requested THEN Services ELSE {}]
    /\ IF services = None THEN Begin(c, "services") ELSE Leave(c, "event")
    /\ UNCHANGED <<requested, requester, services, token, complete, kept, retries, winrt,
                   history>>

\* _get_services(): when the services are there their tree is asked for.
GotServices(c) ==
    /\ Succeeds(c, "services")
    /\ IF todo[c] \subseteq Asked(c)
       THEN Begin(c, "tree") /\ todo' = [todo EXCEPT ![c] = open[c]]
       ELSE Begin(c, "services") /\ todo' = [todo EXCEPT ![c] = @ \ Asked(c)]
    /\ UNCHANGED <<client, activated, complete, kept, retries, winrt, history>>

Unreachable(c) ==
    /\ Ended(c, "services", "unreachable") /\ retries[c] > 0
    /\ retries' = [retries EXCEPT ![c] = @ - 1]
    /\ Leave(c, "sleep")
    /\ UNCHANGED <<client, activated, complete, todo, kept, winrt, history>>

RetryServices(c) ==
    /\ pc[c] = "sleep"
    /\ Begin(c, "services")
    /\ UNCHANGED <<client, connects, winrt, history>>

\* The services that were found before are not closed (client.py:722).
ServicesFail(c) ==
    /\ \/ Fails(c, "services")
       \/ Ended(c, "services", "unreachable") /\ retries[c] = 0
       \/ pc[c] = "sleep"
    /\ Raise(c, IF open[c] = {} THEN "raised" ELSE "spilled")

\* The characteristics and descriptors of a service; Windows owns some services.
Enumerated(c) ==
    /\ \E r \in {"ok", "denied"} : Ended(c, "tree", r)
    /\ LET s == CHOOSE s \in todo[c] : TRUE IN
          /\ todo' = [todo EXCEPT ![c] = @ \ {s}]
          /\ kept' = [kept EXCEPT ![c] = IF op[c] = "ok" THEN @ \cup {s} ELSE @]
    /\ IF todo'[c] = {} THEN Leave(c, "event") /\ services' = c
                        ELSE Begin(c, "tree") /\ UNCHANGED services
    /\ UNCHANGED <<requested, requester, session, statusToken, token, activated, complete,
                   retries, winrt, history>>

\* `except BaseException` of _get_services(): it sleeps before it closes the services.
EnumerationFails(c) ==
    /\ Fails(c, "tree")
    /\ Leave(c, "dispose")
    /\ UNCHANGED <<client, connects, winrt, history>>

Disposed(c) ==
    /\ pc[c] = "dispose"
    /\ Leave(c, "raised") /\ Forget(c)
    /\ open' = [open EXCEPT ![c] = {}]
    /\ HandleDisconnect
    /\ UNCHANGED <<requested, services, token, complete, handlers, madeIn, queue, drops, history>>

DisposeCancelled(c) ==
    /\ pc[c] = "dispose" /\ c \in Cancellable
    /\ Raise(c, "spilled")

\* connect() returns: the event was set before it was waited for, or is now.
ConnectReturns(c) ==
    /\ pc[c] = "event" /\ c \in activated
    /\ complete' = complete \cup {c}
    /\ Leave(c, "done") /\ Forget(c)
    /\ UNCHANGED <<client, winrt, history>>

\* The timeout or a cancellation: the services stay.
NeverActive(c) ==
    /\ pc[c] = "event"
    /\ Raise(c, "raised")

-----------------------------------------------------------------------------
\* disconnect()

\* The program does not call disconnect() while connect() is running.
DisconnectNothing(d) ==
    /\ pc[d] = "idle" /\ services = None /\ \A c \in Connects : ~Running(c)
    /\ Leave(d, "done")
    /\ UNCHANGED <<client, connects, winrt, history>>

\* Mutant: the session event is left to call the callback, and its handler is removed.
StartDisconnectSilently(d) ==
    /\ pc[d] = "idle" /\ services # None /\ \A c \in Connects : ~Running(c)
    /\ handlers' = handlers \ {token} /\ token' = None
    /\ statusToken' = IF session # None THEN None ELSE statusToken
    /\ Leave(d, "settle")
    /\ UNCHANGED <<requested, requester, session, services, connects, openRequesters,
                   openSessions, open, link, madeIn, queue, drops, history>>

\* The handlers are removed and the callback is called before the sleep.
StartDisconnect(d) ==
    /\ pc[d] = "idle" /\ services # None /\ \A c \in Connects : ~Running(c)
    /\ handlers' = handlers \ {token} /\ token' = None
    /\ IF session # None /\ statusToken # None
       THEN statusToken' = None /\ told' = told \cup {session}
       ELSE UNCHANGED <<statusToken, told>>
    /\ Leave(d, "settle")
    /\ UNCHANGED <<requested, requester, session, services, connects, openRequesters,
                   openSessions, open, link, madeIn, queue, drops, ignored>>

\* The loop has run what was queued when the sleep began.
Settled(d) ==
    /\ pc[d] = "settle" /\ queue = <<>> /\ services # None
    /\ open' = [open EXCEPT ![services] = @ \ kept[services]]
    /\ services' = None
    /\ session' = None /\ openSessions' = openSessions \ {session}
    /\ link' = [c \in Connects |-> IF c = session THEN "down" ELSE link[c]]
    /\ requester' = None /\ openRequesters' = openRequesters \ {requester}
    /\ Leave(d, "done")
    /\ UNCHANGED <<requested, statusToken, token, connects, handlers, madeIn, queue, drops,
                   history>>

\* Another disconnect() has been faster: `for service in None`.
SettledTwice(d) ==
    /\ pc[d] = "settle" /\ services = None
    /\ Leave(d, "crashed")
    /\ UNCHANGED <<client, connects, winrt, history>>

DisconnectCancelled(d) ==
    /\ pc[d] = "settle" /\ d \in Cancellable
    /\ Leave(d, "raised")
    /\ UNCHANGED <<client, connects, winrt, history>>

-----------------------------------------------------------------------------
\* Reads, writes and notifications.  The program makes one of these calls at a time.

OneAtATime == \A x \in Starts \cup Requests : ~Running(x)

Request(r) ==
    /\ pc[r] = "idle" /\ IsConnected /\ services # None /\ OneAtATime
    /\ \E l \in {"request", "stopping"} : Begin(r, l)
    /\ UNCHANGED <<client, connects, winrt, history>>

RequestEnds(r) ==
    /\ \/ Succeeds(r, "request")
       \/ \E l \in {"request", "stopping"} : Fails(r, l)
    /\ Leave(r, IF op[r] = "ok" THEN "done" ELSE "raised")
    /\ UNCHANGED <<client, connects, winrt, history>>

\* stop_notify(): pop() raises KeyError if nothing was started or disconnect() was faster.
Stopped(r) ==
    /\ Succeeds(r, "stopping")
    /\ handlers' = handlers \ {token} /\ token' = None
    /\ Leave(r, IF token = None THEN "raised" ELSE "done")
    /\ UNCHANGED <<requested, requester, session, statusToken, services, connects,
                   openRequesters, openSessions, open, link, madeIn, queue, drops, history>>

\* The handler is registered before the descriptor is written.
StartNotify(s) ==
    /\ pc[s] = "idle" /\ IsConnected /\ services # None /\ OneAtATime
    /\ handlers' = handlers \cup {s} /\ token' = s
    /\ madeIn' = [madeIn EXCEPT ![s] = session]
    /\ Begin(s, "starting")
    /\ UNCHANGED <<requested, requester, session, statusToken, services, connects,
                   openRequesters, openSessions, open, link, queue, drops, history>>

Notifying(s) ==
    /\ Succeeds(s, "starting")
    /\ Leave(s, "done")
    /\ UNCHANGED <<client, connects, winrt, history>>

\* Mutant: the handler stays registered when start_notify() raises.
NotNotifyingKeepsHandler(s) ==
    /\ Fails(s, "starting")
    /\ token' = None
    /\ Leave(s, "raised")
    /\ UNCHANGED <<requested, requester, session, statusToken, services, connects, winrt,
                   history>>

NotNotifying(s) ==
    /\ Fails(s, "starting")
    /\ handlers' = handlers \ {token} /\ token' = None
    /\ Leave(s, "raised")
    /\ UNCHANGED <<requested, requester, session, statusToken, services, connects,
                   openRequesters, openSessions, open, link, madeIn, queue, drops, history>>

-----------------------------------------------------------------------------
\* The session

Post(kind, c) == queue' = IF statusToken = c THEN Append(queue, <<kind, c>>) ELSE queue

\* Windows connects, and connects again, while the session maintains the connection.
Activate(c) ==
    /\ c \in openSessions /\ link[c] # "active"
    /\ link' = [link EXCEPT ![c] = "active"]
    /\ Post("active", c)
    /\ UNCHANGED <<pc, op, asked, client, connects, openRequesters, openSessions, open,
                   handlers, madeIn, drops, history>>

Drop(c) ==
    /\ c \in openSessions /\ link[c] = "active" /\ drops < MaxDrops
    /\ link' = [link EXCEPT ![c] = "down"]
    /\ drops' = drops + 1
    /\ Post("closed", c)
    /\ UNCHANGED <<pc, op, asked, client, connects, openRequesters, openSessions, open,
                   handlers, madeIn, history>>

\* handle_session_status_changed(): every event in _session_active_events is set.
SessionActive ==
    /\ queue # <<>> /\ Head(queue)[1] = "active" /\ queue' = Tail(queue)
    /\ activated' = activated \cup
          {c \in Connects : Running(c) /\ pc[c] \notin Pair \cup {"requester"}}
    /\ UNCHANGED <<pc, op, asked, client, complete, todo, kept, retries, openRequesters,
                   openSessions, open, link, handlers, madeIn, drops, history>>

\* Mutant: the end of a session is cleaned up and not reported.
SessionClosedSilently ==
    /\ queue # <<>> /\ Head(queue)[1] = "closed" /\ queue' = Tail(queue)
    /\ Head(queue)[2] \in complete
    /\ HandleDisconnect
    /\ UNCHANGED <<pc, op, asked, requested, services, token, connects, open, handlers, madeIn,
                   drops, history>>

SessionClosed ==
    /\ queue # <<>> /\ Head(queue)[1] = "closed" /\ queue' = Tail(queue)
    /\ Head(queue)[2] \in complete
    /\ told' = told \cup {Head(queue)[2]}
    /\ HandleDisconnect
    /\ UNCHANGED <<pc, op, asked, requested, services, token, connects, open, handlers, madeIn,
                   drops, ignored>>

SessionClosedEarly ==
    /\ queue # <<>> /\ Head(queue)[1] = "closed" /\ queue' = Tail(queue)
    /\ Head(queue)[2] \notin complete
    /\ ignored' = ignored \cup {Head(queue)[2]}
    /\ UNCHANGED <<pc, op, asked, client, connects, openRequesters, openSessions, open, link,
                   handlers, madeIn, drops, told>>

-----------------------------------------------------------------------------
ConnectStep(c) ==
    \/ DeviceNotFound(c) \/ GotRequester(c) \/ PairNext(c) \/ Paired(c) \/ PairFails(c)
    \/ NoSession(c) \/ NotMaintained(c) \/ GotSession(c) \/ GotServices(c) \/ Unreachable(c)
    \/ RetryServices(c) \/ ServicesFail(c) \/ Enumerated(c) \/ EnumerationFails(c)
    \/ Disposed(c) \/ DisposeCancelled(c) \/ ConnectReturns(c) \/ NeverActive(c)

DisconnectStep(d) == Settled(d) \/ SettledTwice(d) \/ DisconnectCancelled(d)

RequestStep(x) == RequestEnds(x) \/ Stopped(x) \/ Notifying(x) \/ NotNotifying(x)

Event == SessionActive \/ SessionClosed \/ SessionClosedEarly

Next ==
    \/ \E c \in Connects : StartConnect(c) \/ ConnectStep(c) \/ Activate(c) \/ Drop(c)
    \/ \E d \in Disconnects : DisconnectNothing(d) \/ StartDisconnect(d) \/ DisconnectStep(d)
    \/ \E r \in Requests : Request(r)
    \/ \E s \in Starts : StartNotify(s)
    \/ \E x \in Starts \cup Requests : RequestStep(x)
    \/ \E x \in Calls : OperationEnds(x) \/ Interrupt(x)
    \/ Event

Spec == Init /\ [][Next]_vars

-----------------------------------------------------------------------------
\* Properties

\* Types; and an operation is awaited only where the code awaits one.
TypeOK ==
    /\ pc \in [Calls -> Pc]
    /\ \A x \in Calls : Running(x) /\ op[x] = "none" =>
          pc[x] \in {"sleep", "dispose", "event", "settle"}
    /\ asked \subseteq {x \in Calls : op[x] # "none"}
    /\ {requester, session, statusToken, services} \subseteq Connects \cup {None}
    /\ token \in Starts \cup {None} /\ handlers \subseteq Starts
    /\ openSessions \subseteq Connects /\ openRequesters \subseteq Connects
    /\ \A c \in Connects : open[c] \subseteq Services /\ kept[c] \subseteq Services

\* When no connect() or disconnect() is running, whatever is open at WinRT can be reached:
\* the session and the requester are those of the client, which has services as well, so that
\* disconnect() does not return at once; and the services of a collection that the client
\* does not have are closed.  The requester is lost if pairing fails; a requester or a session is
\* lost if connect() is cancelled when WinRT has made it and connect() has not taken it
\* (client.py:238, 335); service objects are lost if the enumeration fails half-way, is
\* cancelled when some have been brought, or if they are denied.
NothingStranded ==
    (\A x \in Connects \cup Disconnects : ~Running(x)) =>
        /\ openSessions \subseteq {session} \cup {c \in Connects : pc[c] = "lostSession"}
        /\ session # None => services # None
        /\ openRequesters \subseteq
              {requester} \cup {c \in Connects : pc[c] \in {"unpaired", "lostRequester"}}
        /\ \A c \in Connects : services # c /\ pc[c] # "spilled" => open[c] \cap kept[c] = {}

\* The end of a session that connect() has returned reaches the disconnected callback: the
\* handler stays registered while the link is up, and when it is not, the event is queued.
\* Not so if the event was handled before connect() had resumed.
LossReported ==
    \A c \in complete \ (told \cup ignored) :
        /\ session = c /\ statusToken = c
        /\ \/ link[c] = "active"
           \/ \E i \in DOMAIN queue : queue[i] = <<"closed", c>>

\* A handler that is registered in the client's session can be removed by stop_notify() and
\* disconnect(), unless another start_notify() in that session took its place: the code
\* overwrites the token.  It is there when start_notify() has returned and nobody stopped it.
NotifyTracked ==
    \A s \in Starts : session # None /\ madeIn[s] = session =>
        /\ s \in handlers => token = s \/ \E t \in Starts \ {s} : madeIn[t] = session
        /\ pc[s] = "done" /\ s \notin handlers =>
              \E x \in Requests \cup Disconnects : pc[x] # "idle"

\* How far a connect() and its session are.
Phase(c) ==
    IF pc[c] = "idle" THEN "idle"
    ELSE IF Running(c) THEN "trying"
    ELSE IF pc[c] # "done" THEN "failed"
    ELSE IF c \in told THEN "reported" ELSE "open"

\* The sessions of the client do not overlap, and end by being reported.
Promise == INSTANCE Session WITH phase <- [c \in Connects |-> Phase(c)]
SessionsInTurn == Promise!Spec

\* The services of a connected client belong to its session, and are not those that an earlier
\* connect() left (CHANGELOG.rst:404).
FreshServices == IsConnected /\ pc[session] = "done" => services = session
=============================================================================
