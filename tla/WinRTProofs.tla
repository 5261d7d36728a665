------------------------------ MODULE WinRTProofs ------------------------------
(***************************************************************************)
(* Theorems about WinRTClient, for any calls, any of them cancelled, any    *)
(* connects that pair, any services and any number of retries and drops;    *)
(* and about WinRTScanner, for any users, devices and bounds.               *)
(***************************************************************************)
EXTENDS WinRTClient, WinRTScanner, FiniteSetTheorems, TLAPS

-----------------------------------------------------------------------------
\* THE CLIENT

\* What can become of an operation of WinRT.
Outcomes == {"none", "running", "ok", "error", "unreachable", "denied", "paired", "unmet"}

\* TypeOK, and the types that it leaves out because no property needs them.
TypeInv ==
    /\ TypeOK
    /\ op \in [Calls -> Outcomes]
    /\ requested \in BOOLEAN
    /\ activated \subseteq Connects /\ complete \subseteq Connects
    /\ todo \in [Connects -> SUBSET Services] /\ kept \in [Connects -> SUBSET Services]
    /\ open \in [Connects -> SUBSET Services]
    /\ retries \in [Connects -> Nat]
    /\ link \in [Connects -> {"active", "down"}]
    /\ madeIn \in [Starts -> Connects \cup {None}]
    /\ queue \in Seq({"active", "closed"} \X Connects)
    /\ told \subseteq Connects /\ ignored \subseteq Connects

\* Where a connect() waits before it has a session, and where it does when it has one.
Early == Pair \cup {"session"}
Late == {"services", "sleep", "tree", "dispose", "event"}

\* The program's discipline: one connect() at a time and no disconnect() beside it, one read,
\* write or notification at a time; and each call waits where its kind can.
TurnInv ==
    /\ \A c, e \in Connects : Running(c) /\ Running(e) => c = e
    /\ \A c \in Connects, d \in Disconnects : ~(Running(c) /\ Running(d))
    /\ \A x, y \in Starts \cup Requests : Running(x) /\ Running(y) => x = y
    /\ \A c \in Connects : Running(c) => pc[c] \in {"requester"} \cup Early \cup Late
    /\ \A r \in Requests : Running(r) => pc[r] \in {"request", "stopping"}
    /\ \A s \in Starts : Running(s) => pc[s] = "starting"

\* A disconnect() waits for the session to settle.
SettleInv == \A d \in Disconnects : Running(d) => pc[d] = "settle"

\* A session that is open at WinRT is the client's, or one that its connect() has still to take
\* or has lost; a connect() has it from the moment it takes it, and keeps it, its handler
\* registered, until its end has been reported.
SessionInv ==
    /\ openSessions \subseteq {session} \cup {c \in Connects : pc[c] \in {"session", "lostSession"}}
    /\ statusToken \in {None, session}
    /\ session # None => pc[session] \in Late \cup {"done"}
    /\ \A c \in Connects :
          /\ pc[c] \in Late => session = c /\ statusToken = c
          /\ pc[c] \in Early \cup {"requester"} => session = None
          /\ pc[c] = "done" <=> c \in complete
          /\ c \in complete \ told => session = c /\ statusToken = c
    /\ \A d \in Disconnects : pc[d] = "settle" => statusToken = None
    /\ told \subseteq complete
    /\ activated \subseteq {c \in Connects : pc[c] \in Late}

\* What is open at WinRT is held by the client, by a connect() that runs, or lost in a way that
\* NothingStranded names; services are taken up when the enumeration is over.
ReachInv ==
    /\ openRequesters \subseteq
          {requester} \cup {c \in Connects : pc[c] \in {"requester", "unpaired", "lostRequester"}}
    /\ requester # None => pc[requester] \in Early \cup {"unpaired"} \/ session = requester
    /\ session # None => (services = None <=> pc[session] \in Late \ {"event"})
    /\ \A c \in Connects :
          /\ pc[c] \in Early \cup {"idle", "requester", "services", "sleep"} => kept[c] = {}
          /\ services = c \/ pc[c] \in {"tree", "dispose", "spilled"} \/ open[c] \cap kept[c] = {}
          /\ pc[c] = "tree" \/ (pc[c] \in {"services", "sleep"} /\ requested) => todo[c] # {}

\* The services that an enumeration has been brought are open.
AskInv == \A c \in Connects : Succeeds(c, "services") => Asked(c) \subseteq open[c]

\* The queue holds events of the client's session and of no other; and an event that was set,
\* or a connect() that has returned, stands for a link that is up or whose end is in the queue.
QueueInv ==
    /\ session # None => \A i \in 1..Len(queue) : queue[i][2] = session
    /\ \A c \in Connects : pc[c] \in Early => queue = <<>>
    /\ statusToken # None => \A i \in 1..Len(queue) : queue[i][1] = "active" =>
          \/ link[statusToken] = "active"
          \/ \E j \in 1..Len(queue) : j > i /\ queue[j][1] = "closed"
    /\ \A c \in activated \cup (complete \ told) :
          \/ link[c] = "active" \/ c \in ignored
          \/ \E i \in 1..Len(queue) : queue[i] = <<"closed", c>>

\* Nobody has called disconnect(), stop_notify() or another request.
Untouched == \A x \in Requests \cup Disconnects : pc[x] = "idle"

\* The token is that of the start_notify() which is running, if any; and no handler belongs to a
\* session that is still to come.
NotifyInv ==
    /\ NotifyTracked
    /\ \A s \in Starts :
          /\ madeIn[s] # None => pc[madeIn[s]] \notin Early \cup {"idle", "requester"}
          /\ pc[s] = "starting" => token \in {s, None}
          /\ pc[s] = "starting" /\ session # None /\ madeIn[s] = session /\ s \notin handlers
                => ~Untouched

\* The inductive invariant.
IInv == TypeInv /\ TurnInv /\ SettleInv /\ SessionInv /\ ReachInv /\ AskInv /\ QueueInv /\ NotifyInv

-----------------------------------------------------------------------------
\* The members of a sequence without its first.
LEMMA Taken ==
  ASSUME NEW S, NEW s \in Seq(S), s # <<>>
  PROVE  /\ Tail(s) \in Seq(S) /\ Len(Tail(s)) = Len(s) - 1 /\ Len(s) \in Nat \ {0}
         /\ Head(s) = s[1] /\ \A i \in 1..(Len(s) - 1) : Tail(s)[i] = s[i + 1]
  OBVIOUS

\* The members of a sequence with one more.
LEMMA Added ==
  ASSUME NEW S, NEW s \in Seq(S), NEW e \in S
  PROVE  /\ Append(s, e) \in Seq(S) /\ Len(Append(s, e)) = Len(s) + 1 /\ Len(s) \in Nat
         /\ Append(s, e)[Len(s) + 1] = e /\ \A i \in 1..Len(s) : Append(s, e)[i] = s[i]
  OBVIOUS

\* What an await that ends, or a call that begins, does to its own entries.
LEMMA CallTypes ==
  ASSUME TypeInv, NEW x \in Calls, NEW l \in Pc,
         Begin(x, l) \/ (Leave(x, l) /\ l \in {"idle", "sleep", "dispose", "event", "settle",
            "done", "raised", "unpaired", "lostRequester", "lostSession", "spilled", "crashed"})
  PROVE  /\ pc' \in [Calls -> Pc] /\ op' \in [Calls -> Outcomes]
         /\ pc'[x] = l /\ \A y \in Calls \ {x} : pc'[y] = pc[y]
         /\ \A y \in Calls : Running(y)' /\ op'[y] = "none" =>
               pc'[y] \in {"sleep", "dispose", "event", "settle"}
         /\ asked' \subseteq {y \in Calls : op'[y] # "none"}
  BY DEF TypeInv, TypeOK, Begin, Leave, Outcomes, Running

\* Where a connect() can go on to wait, or how it ends.
ConnectPc == Pair \cup {"session", "services", "sleep", "tree", "dispose", "event", "done",
                        "raised", "unpaired", "lostRequester", "lostSession", "spilled"}

\* What a connect() that is running can do: it goes on or ends, at an await of its own.
LEMMA ConnectGoesOn ==
  ASSUME NEW c \in Connects, ConnectStep(c)
  PROVE  /\ Running(c)
         /\ \E l \in ConnectPc : Begin(c, l) \/ (Leave(c, l) /\ l \in
               {"sleep", "dispose", "event", "done", "raised", "unpaired", "lostRequester",
                "lostSession", "spilled"})
         /\ UNCHANGED <<requested, token, handlers, madeIn, queue, drops, history>>
<1> USE DEF Running, Pair, Levels, ConnectPc, client, connects, winrt, history
<1>1. CASE DeviceNotFound(c) \/ PairFails(c) \/ GotRequester(c) \/ Paired(c)
  BY <1>1 DEF DeviceNotFound, PairFails, GotRequester, Paired, Fails, Succeeds, Ended
<1>2. CASE PairNext(c)
  BY <1>2 DEF PairNext, Succeeds, Ended
<1>3. CASE NoSession(c) \/ NotMaintained(c) \/ ServicesFail(c)
  BY <1>3 DEF NoSession, NotMaintained, ServicesFail, Fails, Succeeds, Ended, Raise
<1>4. CASE GotSession(c) \/ GotServices(c)
  BY <1>4 DEF GotSession, GotServices, Succeeds, Ended
<1>5. CASE Unreachable(c) \/ RetryServices(c) \/ Enumerated(c) \/ EnumerationFails(c)
  BY <1>5 DEF Unreachable, RetryServices, Enumerated, EnumerationFails, Fails, Ended
<1>6. CASE Disposed(c) \/ DisposeCancelled(c) \/ ConnectReturns(c) \/ NeverActive(c)
  BY <1>6 DEF Disposed, DisposeCancelled, ConnectReturns, NeverActive, Raise
<1> QED
  BY <1>1, <1>2, <1>3, <1>4, <1>5, <1>6 DEF ConnectStep

\* So can a disconnect() or a request that is running.
LEMMA OtherGoesOn ==
  ASSUME NEW x \in Calls,
         \/ x \in Disconnects /\ DisconnectStep(x)
         \/ x \in Starts \cup Requests /\ RequestStep(x)
  PROVE  Running(x) /\ \E l \in {"done", "raised", "crashed"} : Leave(x, l)
<1> USE DEF Running
<1>1. CASE DisconnectStep(x)
  BY <1>1 DEF DisconnectStep, Settled, SettledTwice, DisconnectCancelled
<1>2. CASE RequestStep(x)
  BY <1>2 DEF RequestStep, RequestEnds, Stopped, Notifying, NotNotifying, Succeeds, Fails, Ended
<1> QED
  BY <1>1, <1>2

\* The session of a connect() begins when it has been made, after which it is late.
LEMMA ConnectSession ==
  ASSUME TypeInv, NEW c \in Connects, ConnectStep(c)
  PROVE  /\ session' \in {session, None} \/ (pc[c] = "session" /\ session' = c)
         /\ pc[c] \in Late => pc'[c] \notin Early \cup {"idle", "requester"}
<1> USE DEF Running, Pair, Levels, client, connects, winrt, history, Early, Late,
   TypeInv, TypeOK,
       Calls
<1>1. CASE DeviceNotFound(c) \/ PairFails(c) \/ GotRequester(c) \/ Paired(c) \/ PairNext(c)
  BY <1>1 DEF DeviceNotFound, PairFails, GotRequester, Paired, PairNext, Fails, Succeeds, Ended
<1>2. CASE NoSession(c) \/ NotMaintained(c) \/ ServicesFail(c)
  BY <1>2 DEF NoSession, NotMaintained, ServicesFail, Fails, Succeeds, Ended, Raise, Leave,
     HandleDisconnect
<1>3. CASE GotSession(c) \/ GotServices(c)
  BY <1>3 DEF GotSession, GotServices, Succeeds, Ended, Begin
<1>4. CASE Unreachable(c) \/ RetryServices(c) \/ Enumerated(c) \/ EnumerationFails(c)
  BY <1>4 DEF Unreachable, RetryServices, Enumerated, EnumerationFails, Fails, Ended,
     Begin, Leave
<1>5. CASE Disposed(c) \/ DisposeCancelled(c) \/ ConnectReturns(c) \/ NeverActive(c)
  BY <1>5 DEF Disposed, DisposeCancelled, ConnectReturns, NeverActive, Raise, Leave,
     HandleDisconnect
<1> QED
  BY <1>1, <1>2, <1>3, <1>4, <1>5 DEF ConnectStep

\* While a connect() runs, no other is on its way.
LEMMA Alone ==
  ASSUME TurnInv, NEW c \in Connects, Running(c)
  PROVE  \A e \in Connects \ {c} : pc[e] \notin Early \cup Late \cup {"requester"}
  BY DEF TurnInv, Running, Early, Late, Pair, Levels

\* While none runs, none is on its way.
LEMMA Nobody ==
  ASSUME \A e \in Connects : ~Running(e)
  PROVE  \A e \in Connects : pc[e] \notin Early \cup Late \cup {"requester"}
  BY DEF Running, Early, Late, Pair, Levels

\* Only a connect() waits for a requester or a session.
LEMMA OnlyConnects ==
  ASSUME TurnInv, SettleInv, NEW x \in Calls, pc[x] \in {"requester", "session"}
  PROVE  x \in Connects
  BY DEF TurnInv, SettleInv, Running, Calls

\* An enumeration asks for services of the device, and for at least one.
LEMMA Asking ==
  ASSUME TypeInv, NEW c \in Connects, requested => todo[c] # {}
  PROVE  Asked(c) \in SUBSET Services /\ Asked(c) # {}
  BY CallsAssumption DEF Asked, TypeInv

-----------------------------------------------------------------------------
\* Every step keeps the types.
LEMMA TypeStep ==
  ASSUME TypeInv, TurnInv, SettleInv, ReachInv, [Next]_vars
  PROVE  TypeInv'
<1> USE CallsAssumption DEF Calls, client, connects, winrt, history
<1> DEFINE CallsOK == /\ pc' \in [Calls -> Pc] /\ op' \in [Calls -> Outcomes]
                      /\ \A y \in Calls : Running(y)' /\ op'[y] = "none" =>
                            pc'[y] \in {"sleep", "dispose", "event", "settle"}
                      /\ asked' \subseteq {y \in Calls : op'[y] # "none"}
           RestOK == /\ {requester, session, statusToken, services}'
                           \subseteq Connects \cup {None}
                     /\ token' \in Starts \cup {None} /\ handlers' \subseteq Starts
                     /\ openSessions' \subseteq Connects /\ openRequesters' \subseteq Connects
                     /\ requested' \in BOOLEAN
                     /\ activated' \subseteq Connects /\ complete' \subseteq Connects
                     /\ todo' \in [Connects -> SUBSET Services]
                     /\ kept' \in [Connects -> SUBSET Services]
                     /\ open' \in [Connects -> SUBSET Services]
                     /\ retries' \in [Connects -> Nat]
                     /\ link' \in [Connects -> {"active", "down"}]
                     /\ madeIn' \in [Starts -> Connects \cup {None}]
                     /\ queue' \in Seq({"active", "closed"} \X Connects)
                     /\ told' \subseteq Connects /\ ignored' \subseteq Connects
<1>1. CallsOK /\ RestOK => TypeInv'
  BY DEF TypeInv, TypeOK
<1>2. UNCHANGED <<client, connects, winrt, history>> => RestOK
  BY DEF TypeInv, TypeOK
<1>3. UNCHANGED <<pc, op, asked>> => CallsOK
  BY DEF TypeInv, TypeOK, Running
<1>4. ASSUME NEW c \in Connects, StartConnect(c) PROVE TypeInv'
  <2>1. "requester" \in Pc
    BY DEF Pc
  <2> QED
    BY <1>1, <1>2, <1>4, <2>1, CallTypes DEF StartConnect
<1>5. ASSUME NEW c \in Connects, ConnectStep(c) PROVE TypeInv'
  <2>1. ConnectPc \subseteq Pc
    BY DEF ConnectPc, Pc
  <2>2. CallsOK
    <3>1. PICK l \in ConnectPc : Begin(c, l) \/ (Leave(c, l) /\ l \in
               {"sleep", "dispose", "event", "done", "raised", "unpaired", "lostRequester",
                "lostSession", "spilled"})
      BY <1>5, ConnectGoesOn
    <3> QED
      BY <2>1, <3>1, CallTypes
  <2> HIDE DEF CallsOK
  <2> USE DEF TypeInv, TypeOK
  <2>3. ASSUME DeviceNotFound(c) \/ GotRequester(c) \/ PairNext(c) \/ Paired(c) \/ PairFails(c)
        PROVE  RestOK
    BY <1>2, <2>3 DEF DeviceNotFound, GotRequester, PairNext, Paired, PairFails
  <2>4. ASSUME NoSession(c) \/ ServicesFail(c) \/ DisposeCancelled(c) \/ NeverActive(c)
        PROVE  RestOK
    <3>1. PICK l \in Pc : Raise(c, l)
      BY <2>4 DEF NoSession, ServicesFail, DisposeCancelled, NeverActive, Pc
    <3> QED
      BY <3>1 DEF Raise, Forget, HandleDisconnect
  <2>5. ASSUME GotSession(c) PROVE RestOK
    <3>1. activated' \subseteq Connects /\ todo' \in [Connects -> SUBSET Services]
      BY <2>5 DEF GotSession
    <3>2. session' = c /\ statusToken' = c
      BY <2>5 DEF GotSession
    <3>3. UNCHANGED <<requested, requester, services, token, complete, kept, retries, winrt,
                   history>>
      BY <2>5 DEF GotSession
    <3> QED
      BY <3>1, <3>2, <3>3
  <2>6. ASSUME GotServices(c) PROVE RestOK
    <3>1. todo' \in [Connects -> SUBSET Services]
      <4>1. PICK t \in SUBSET Services : todo' = [todo EXCEPT ![c] = t]
        <5>1. todo[c] \ Asked(c) \in SUBSET Services /\ open[c] \in SUBSET Services
          OBVIOUS
        <5> QED
          BY <2>6, <5>1 DEF GotServices
      <4> QED
        BY <4>1
    <3>2. UNCHANGED <<client, activated, complete, kept, retries, winrt, history>>
      BY <2>6 DEF GotServices
    <3> QED
      BY <3>1, <3>2
  <2>7. ASSUME Unreachable(c) \/ RetryServices(c) \/ EnumerationFails(c) PROVE RestOK
    <3>1. retries' \in [Connects -> Nat]
      <4>1. retries' = retries \/ (retries[c] > 0 /\ retries' = [retries EXCEPT ![c] = @ - 1])
        BY <2>7 DEF Unreachable, RetryServices, EnumerationFails
      <4>2. retries[c] \in Nat
        OBVIOUS
      <4>3. retries[c] > 0 => retries[c] - 1 \in Nat
        BY <4>2
      <4> QED
        BY <4>1, <4>3
    <3> QED
      BY <2>7, <3>1 DEF Unreachable, RetryServices, EnumerationFails
  <2>8. ASSUME Enumerated(c) PROVE RestOK
    <3>1. todo[c] # {}
      BY <2>8 DEF Enumerated, Ended, ReachInv
    <3>2. (CHOOSE s \in todo[c] : TRUE) \in Services
      BY <3>1
    <3>3. /\ todo' \in [Connects -> SUBSET Services] /\ kept' \in [Connects -> SUBSET Services]
          /\ services' \in {services, c}
      BY <2>8, <3>2 DEF Enumerated
    <3>4. UNCHANGED <<requested, requester, session, statusToken, token, activated, complete,
                   retries, winrt, history>>
      BY <2>8 DEF Enumerated
    <3> QED
      BY <3>3, <3>4
  <2>9. ASSUME Disposed(c) PROVE RestOK
    BY <2>9 DEF Disposed, Forget, HandleDisconnect
  <2>10. ASSUME ConnectReturns(c) PROVE RestOK
    BY <2>10 DEF ConnectReturns, Forget
  <2>11. ASSUME NotMaintained(c) PROVE RestOK
    BY <2>11 DEF NotMaintained, Forget
  <2>12. RestOK
    BY <1>5, <2>3, <2>4, <2>5, <2>6, <2>7, <2>8, <2>9, <2>10, <2>11 DEF ConnectStep
  <2> QED
    BY <1>1, <2>2, <2>12
<1>6. ASSUME NEW d \in Disconnects, DisconnectNothing(d) \/ StartDisconnect(d) PROVE TypeInv'
  <2>1. CallsOK
    BY <1>6, CallTypes DEF DisconnectNothing, StartDisconnect, Pc
  <2>2. RestOK
    BY <1>6 DEF DisconnectNothing, StartDisconnect, TypeInv, TypeOK
  <2> QED
    BY <1>1, <2>1, <2>2
<1>7. ASSUME NEW x \in Calls,
             \/ x \in Disconnects /\ DisconnectStep(x)
             \/ x \in Starts \cup Requests /\ RequestStep(x)
      PROVE  TypeInv'
  <2>1. CallsOK
    <3>1. PICK l \in {"done", "raised", "crashed"} : Leave(x, l)
      BY <1>7, OtherGoesOn
    <3> QED
      BY <3>1, CallTypes DEF Pc
  <2> HIDE DEF CallsOK
  <2> USE DEF TypeInv, TypeOK
  <2>2. ASSUME Settled(x) PROVE RestOK
    BY <2>2 DEF Settled
  <2>3. ASSUME SettledTwice(x) \/ DisconnectCancelled(x) \/ RequestEnds(x) \/ Notifying(x)
        PROVE  RestOK
    BY <1>2, <2>3 DEF SettledTwice, DisconnectCancelled, RequestEnds, Notifying
  <2>4. ASSUME Stopped(x) \/ NotNotifying(x) PROVE RestOK
    BY <2>4 DEF Stopped, NotNotifying
  <2>5. RestOK
    BY <1>7, <2>2, <2>3, <2>4 DEF DisconnectStep, RequestStep
  <2> QED
    BY <1>1, <2>1, <2>5
<1>8. ASSUME NEW r \in Requests, Request(r) PROVE TypeInv'
  <2>1. PICK l \in {"request", "stopping"} : Begin(r, l)
    BY <1>8 DEF Request
  <2> QED
    BY <1>1, <1>2, <1>8, <2>1, CallTypes DEF Request, Pc
<1>9. ASSUME NEW s \in Starts, StartNotify(s) PROVE TypeInv'
  <2>1. CallsOK
    BY <1>9, CallTypes DEF StartNotify, Pc
  <2>2. RestOK
    BY <1>9 DEF StartNotify, TypeInv, TypeOK
  <2> QED
    BY <1>1, <2>1, <2>2
<1>10. ASSUME NEW x \in Calls, OperationEnds(x) \/ Interrupt(x) PROVE TypeInv'
  <2>1. pc' = pc /\ UNCHANGED <<client, connects, link, handlers, madeIn, queue, drops, history>>
    BY <1>10 DEF OperationEnds, Interrupt
  <2>2. CASE OperationEnds(x)
    <3>1. PICK r \in Outcomes \ {"none"} : op' = [op EXCEPT ![x] = r] /\ asked' = asked \ {x}
      BY <2>2 DEF OperationEnds, Outcomes
    <3>2. CallsOK
      BY <2>1, <3>1 DEF TypeInv, TypeOK, Running
    <3>3. UNCHANGED <<openRequesters, openSessions, open>> \/ Bring(x)
      BY <2>2 DEF OperationEnds
    <3>4. pc[x] \in {"requester", "session", "services"} => x \in Connects
      BY DEF TurnInv, SettleInv, Running
    <3>5. pc[x] = "services" => Asked(x) \subseteq Services
      BY <3>4, Asking DEF ReachInv
    <3>6. openSessions' \subseteq Connects /\ openRequesters' \subseteq Connects
      BY <3>3, <3>4 DEF Bring, TypeInv, TypeOK
    <3>8. open' \in [Connects -> SUBSET Services]
      <4>1. CASE open' = open
        BY <4>1 DEF TypeInv
      <4>2. CASE pc[x] = "services" /\ open' = [open EXCEPT ![x] = @ \cup Asked(x)]
        <5>1. open[x] \cup Asked(x) \in SUBSET Services
          BY <3>4, <3>5, <4>2 DEF TypeInv
        <5> QED
          BY <4>2, <5>1 DEF TypeInv
      <4> QED
        BY <3>3, <4>1, <4>2 DEF Bring
    <3>7. RestOK
      BY <2>1, <3>6, <3>8 DEF TypeInv, TypeOK
    <3> QED
      BY <1>1, <3>2, <3>7
  <2>3. CASE Interrupt(x)
    <3>1. /\ op' = op \/ op' = [op EXCEPT ![x] = "error"]
          /\ op[x] # "none" /\ asked' \subseteq asked \cup {x}
      BY <2>3 DEF Interrupt
    <3>2. op' \in [Calls -> Outcomes] /\ \A y \in Calls : op'[y] = "none" <=> op[y] = "none"
      BY <3>1, <2>3 DEF TypeInv, Outcomes
    <3>3. CallsOK
      BY <2>1, <3>1, <3>2 DEF TypeInv, TypeOK, Running
    <3>4. UNCHANGED winrt
      BY <2>3 DEF Interrupt
    <3> QED
      BY <1>1, <1>2, <2>1, <3>3, <3>4
  <2> QED
    BY <1>10, <2>2, <2>3
<1>11. ASSUME NEW c \in Connects, Activate(c) \/ Drop(c) PROVE TypeInv'
  <2>1. \E kind \in {"active", "closed"} : Post(kind, c)
    BY <1>11 DEF Activate, Drop
  <2>2. queue' \in Seq({"active", "closed"} \X Connects)
    BY <2>1, Added DEF Post, TypeInv
  <2>3. UNCHANGED <<pc, op, asked>> /\ link' \in [Connects -> {"active", "down"}]
    BY <1>11 DEF Activate, Drop, TypeInv
  <2>4. RestOK
    BY <1>11, <2>2, <2>3 DEF Activate, Drop, TypeInv, TypeOK
  <2> QED
    BY <1>1, <1>3, <2>3, <2>4
<1>12. CASE Event
  <2>1. queue # <<>> /\ queue' = Tail(queue) /\ UNCHANGED <<pc, op, asked>>
    BY <1>12 DEF Event, SessionActive, SessionClosed, SessionClosedEarly
  <2>2. /\ queue' \in Seq({"active", "closed"} \X Connects)
        /\ Head(queue) \in {"active", "closed"} \X Connects
    BY <2>1, Taken DEF TypeInv
  <2>3. Head(queue)[2] \in Connects
    BY <2>2
  <2>4. RestOK
    BY <1>12, <2>2, <2>3 DEF Event, SessionActive, SessionClosed, SessionClosedEarly,
       HandleDisconnect, TypeInv, TypeOK
  <2> QED
    BY <1>1, <1>3, <2>1, <2>4
<1>13. CASE UNCHANGED vars
  BY <1>1, <1>2, <1>3, <1>13 DEF vars
<1> QED
  BY <1>4, <1>5, <1>6, <1>7, <1>8, <1>9, <1>10, <1>11, <1>12, <1>13 DEF Next

\* Where a call waits, by its kind.
Waits(x) == IF x \in Connects THEN {"requester"} \cup ConnectPc
            ELSE IF x \in Disconnects THEN {"settle"}
            ELSE IF x \in Starts THEN {"starting"} ELSE {"request", "stopping"}

\* A step moves one call at most: one that is running, or one that may begin.
LEMMA CallMoves ==
  ASSUME [Next]_vars
  PROVE  \/ pc' = pc
         \/ \E x \in Calls, l \in Pc :
               /\ pc' = [pc EXCEPT ![x] = l]
               /\ l \in {"done", "raised", "crashed"} \cup Waits(x)
               /\ \/ Running(x)
                  \/ l = "done"
                  \/ x \in Connects /\ \A y \in Calls : ~Running(y)
                  \/ x \in Disconnects /\ \A c \in Connects : ~Running(c)
                  \/ x \in Starts \cup Requests /\ OneAtATime
<1> USE CallsAssumption DEF Calls, Begin, Leave
<1>1. ASSUME NEW c \in Connects, ConnectStep(c)
      PROVE  Running(c) /\ \E l \in ConnectPc : pc' = [pc EXCEPT ![c] = l]
  BY <1>1, ConnectGoesOn
<1>2. ASSUME NEW x \in Disconnects \cup Starts \cup Requests,
             \/ x \in Disconnects /\ DisconnectStep(x)
             \/ x \in Starts \cup Requests /\ RequestStep(x)
      PROVE  Running(x) /\ \E l \in {"done", "raised", "crashed"} : pc' = [pc EXCEPT ![x] = l]
  BY <1>2, OtherGoesOn
<1>3. /\ ConnectPc \subseteq Pc
      /\ {"requester", "done", "raised", "crashed", "settle", "starting", "stopping", "request"}
            \subseteq Pc
  BY DEF ConnectPc, Pc
<1>4. ASSUME NEW c \in Connects, StartConnect(c)
      PROVE  pc' = [pc EXCEPT ![c] = "requester"] /\ \A y \in Calls : ~Running(y)
  BY <1>4 DEF StartConnect
<1>5. ASSUME NEW d \in Disconnects, DisconnectNothing(d) \/ StartDisconnect(d)
      PROVE  /\ \A c \in Connects : ~Running(c)
             /\ \E l \in {"done", "settle"} : pc' = [pc EXCEPT ![d] = l]
  BY <1>5 DEF DisconnectNothing, StartDisconnect
<1>6. ASSUME NEW x \in Starts \cup Requests,
             (x \in Requests /\ Request(x)) \/ (x \in Starts /\ StartNotify(x))
      PROVE  OneAtATime /\ \E l \in Waits(x) : pc' = [pc EXCEPT ![x] = l]
  BY <1>6 DEF Request, StartNotify, Waits
<1>7. ASSUME NEW x \in Calls, OperationEnds(x) \/ Interrupt(x) PROVE pc' = pc
  BY <1>7 DEF OperationEnds, Interrupt
<1>8. ASSUME NEW c \in Connects, Activate(c) \/ Drop(c) PROVE pc' = pc
  BY <1>8 DEF Activate, Drop
<1>9. CASE Event
  BY <1>9 DEF Event, SessionActive, SessionClosed, SessionClosedEarly
<1>10. CASE UNCHANGED vars
  BY <1>10 DEF vars
<1> HIDE DEF Begin, Leave
<1> QED
  BY <1>1, <1>2, <1>3, <1>4, <1>5, <1>6, <1>7, <1>8, <1>9, <1>10 DEF Next, Waits

\* Every step keeps the discipline.
LEMMA TurnStep ==
  ASSUME TypeInv, TurnInv, SettleInv, [Next]_vars
  PROVE  TurnInv' /\ SettleInv'
<1> USE CallsAssumption DEF TurnInv, SettleInv, Running, Calls
<1>1. CASE pc' = pc
  BY <1>1
<1>2. ASSUME NEW x \in Calls, NEW l \in Pc, pc' = [pc EXCEPT ![x] = l],
             l \in {"done", "raised", "crashed"} \cup Waits(x),
             \/ Running(x)
             \/ l = "done"
             \/ x \in Connects /\ \A y \in Calls : ~Running(y)
             \/ x \in Disconnects /\ \A c \in Connects : ~Running(c)
             \/ x \in Starts \cup Requests /\ OneAtATime
      PROVE  TurnInv' /\ SettleInv'
  <2>1. pc \in [Calls -> Pc] /\ pc'[x] = l /\ \A y \in Calls \ {x} : pc'[y] = pc[y]
    BY <1>2 DEF TypeInv, TypeOK
  <2>2. \A y \in Calls \ {x} : Running(y)' <=> Running(y)
    BY <2>1
  <2>3. Running(x)' => l # "done"
    BY <2>1
  <2>4. \A c, e \in Connects : Running(c)' /\ Running(e)' => c = e
    BY <1>2, <2>2, <2>3 DEF OneAtATime
  <2>5. \A c \in Connects, d \in Disconnects : ~(Running(c)' /\ Running(d)')
    BY <1>2, <2>2, <2>3 DEF OneAtATime
  <2>6. \A y, z \in Starts \cup Requests : Running(y)' /\ Running(z)' => y = z
    BY <1>2, <2>2, <2>3 DEF OneAtATime
  <2>7. \A c \in Connects : Running(c)' => pc'[c] \in {"requester"} \cup Early \cup Late
    BY <1>2, <2>1, <2>2 DEF ConnectPc, Early, Late, Pair, Waits
  <2>8. \A r \in Requests : Running(r)' => pc'[r] \in {"request", "stopping"}
    BY <1>2, <2>1, <2>2 DEF Waits
  <2>9. \A s \in Starts : Running(s)' => pc'[s] = "starting"
    BY <1>2, <2>1, <2>2 DEF Waits
  <2>10. \A d \in Disconnects : Running(d)' => pc'[d] = "settle"
    BY <1>2, <2>1, <2>2 DEF Waits
  <2> QED
    BY <2>4, <2>5, <2>6, <2>7, <2>8, <2>9, <2>10 DEF TurnInv, SettleInv
<1> QED
  BY <1>1, <1>2, CallMoves

-----------------------------------------------------------------------------
\* Every step keeps SessionInv.
LEMMA SessionStep ==
  ASSUME TypeInv, TurnInv, SettleInv, SessionInv, QueueInv, [Next]_vars
  PROVE  SessionInv'
<1> USE CallsAssumption DEF Calls, client, connects, winrt, history, TypeInv, TypeOK, Pc,
   Levels, Pair, Running, Early, Late, TurnInv, SessionInv, QueueInv
<1>1. ASSUME NEW c \in Connects, StartConnect(c) PROVE SessionInv'
  BY <1>1 DEF StartConnect, Begin, Running
<1>2. ASSUME NEW c \in Connects, DeviceNotFound(c) PROVE SessionInv'
  BY <1>2 DEF DeviceNotFound, Fails, Ended, Leave
<1>3. ASSUME NEW c \in Connects, GotRequester(c) PROVE SessionInv'
  BY <1>3 DEF GotRequester, Succeeds, Ended, Begin
<1>4. ASSUME NEW c \in Connects, PairNext(c) PROVE SessionInv'
  <2>1. pc[c] \in Pair /\ UNCHANGED <<client, connects, winrt, history>>
    BY <1>4 DEF PairNext, Succeeds, Ended
  <2>2. pc'[c] \in Pair /\ \A y \in Calls \ {c} : pc'[y] = pc[y]
    BY <1>4 DEF PairNext, Begin
  <2>3. /\ \A e \in Connects : pc'[e] \in Late \cup {"done", "session", "lostSession"}
                                  => pc'[e] = pc[e]
        /\ \A e \in Connects : pc[e] \in Late \cup {"done", "session", "lostSession"}
                                  => pc'[e] = pc[e]
        /\ \A e \in Connects : pc'[e] \in Early \cup {"requester"}
                                  => pc[e] \in Early \cup {"requester"}
        /\ \A d \in Disconnects : pc'[d] = pc[d]
    <3> HIDE DEF TypeInv, TypeOK, QueueInv, TurnInv, SessionInv
    <3> QED
      BY <2>1, <2>2
  <2> HIDE DEF TypeInv, TypeOK, QueueInv, TurnInv, Early, Late, Pair
  <2>4. session # None => session \in Connects
    BY DEF TypeInv, TypeOK
  <2> QED
    BY <2>1, <2>3, <2>4
<1>5. ASSUME NEW c \in Connects, Paired(c) PROVE SessionInv'
  BY <1>5 DEF Paired, Succeeds, Ended, Begin
<1>6. ASSUME NEW c \in Connects, PairFails(c) PROVE SessionInv'
  BY <1>6 DEF PairFails, Fails, Ended, Leave
<1>7. ASSUME NEW c \in Connects, NoSession(c) PROVE SessionInv'
  BY <1>7 DEF NoSession, Fails, Ended, Raise, Leave, Forget, HandleDisconnect
<1>8. ASSUME NEW c \in Connects, GotSession(c) PROVE SessionInv'
  <2>1. /\ pc[c] = "session" /\ session = None /\ session' = c
        /\ statusToken' = c /\ openSessions' = openSessions
        /\ activated' \subseteq activated \cup {c} /\ UNCHANGED <<complete, told>>
    BY <1>8 DEF GotSession, Succeeds, Ended
  <2>2. pc'[c] \in Late /\ \A y \in Calls \ {c} : pc'[y] = pc[y]
    BY <1>8 DEF GotSession, Begin, Leave
  <2>3. \A e \in Connects \ {c} : ~Running(e)
    BY <2>1
  <2>4. complete \subseteq told
    BY <2>1
  <2>5. \A d \in Disconnects : ~Running(d)
    BY <2>1
  <2>6. /\ openSessions' \subseteq
              {session'} \cup {e \in Connects : pc'[e] \in {"session", "lostSession"}}
        /\ statusToken' \in {None, session'}
        /\ session' # None => pc'[session'] \in Late \cup {"done"}
    BY <2>1, <2>2
  <2>7. \A e \in Connects \ {c} :
           /\ pc'[e] = pc[e] /\ pc[e] \notin Early \cup Late \cup {"requester"}
           /\ pc[e] = "done" <=> e \in complete
    <3>1. \A e \in Connects \ {c} : pc'[e] = pc[e]
      BY <2>2
    <3>2. \A e \in Connects \ {c} : pc[e] \notin Early \cup Late \cup {"requester"}
      <4> HIDE DEF TypeInv, TypeOK, SessionInv, QueueInv, TurnInv, Early, Late, Pair
      <4> QED
        BY <2>1, Alone
    <3>3. \A e \in Connects : pc[e] = "done" <=> e \in complete
      OBVIOUS
    <3> QED
      BY <3>1, <3>2, <3>3
  <2>8. \A d \in Disconnects : pc'[d] # "settle"
    BY <2>2, <2>5
  <2>9. c \notin complete
    BY <2>1
  <2>10. activated' \subseteq {e \in Connects : pc'[e] \in Late}
    BY <2>1, <2>2, <2>7
  <2>11. \A e \in Connects :
           /\ pc'[e] \in Late => session' = e /\ statusToken' = e
           /\ pc'[e] \notin Early \cup {"requester"}
           /\ pc'[e] = "done" <=> e \in complete
           /\ e \notin complete \ told
    BY <2>1, <2>2, <2>4, <2>7, <2>9
  <2> HIDE DEF TypeInv, TypeOK, QueueInv, TurnInv
  <2> QED
    BY <2>1, <2>4, <2>6, <2>8, <2>10, <2>11
<1>9. ASSUME NEW c \in Connects, GotServices(c) PROVE SessionInv'
  BY <1>9 DEF GotServices, Succeeds, Ended, Begin
<1>10. ASSUME NEW c \in Connects, Unreachable(c) PROVE SessionInv'
  BY <1>10 DEF Unreachable, Ended, Leave
<1>11. ASSUME NEW c \in Connects, RetryServices(c) PROVE SessionInv'
  BY <1>11 DEF RetryServices, Begin
<1>12. ASSUME NEW c \in Connects, ServicesFail(c) PROVE SessionInv'
  BY <1>12 DEF ServicesFail, Fails, Ended, Raise, Leave, Forget, HandleDisconnect
<1>13. ASSUME NEW c \in Connects, Enumerated(c) PROVE SessionInv'
  BY <1>13 DEF Enumerated, Ended, Begin, Leave
<1>14. ASSUME NEW c \in Connects, EnumerationFails(c) PROVE SessionInv'
  BY <1>14 DEF EnumerationFails, Fails, Ended, Leave
<1>15. ASSUME NEW c \in Connects, Disposed(c) PROVE SessionInv'
  BY <1>15 DEF Disposed, Leave, Forget, HandleDisconnect
<1>16. ASSUME NEW c \in Connects, DisposeCancelled(c) PROVE SessionInv'
  BY <1>16 DEF DisposeCancelled, Raise, Leave, Forget, HandleDisconnect
<1>17. ASSUME NEW c \in Connects, ConnectReturns(c) PROVE SessionInv'
  BY <1>17 DEF ConnectReturns, Leave, Forget
<1>18. ASSUME NEW c \in Connects, NeverActive(c) PROVE SessionInv'
  BY <1>18 DEF NeverActive, Raise, Leave, Forget, HandleDisconnect
<1>19. ASSUME NEW c \in Connects, Activate(c) PROVE SessionInv'
  BY <1>19 DEF Activate, Post
<1>20. ASSUME NEW c \in Connects, Drop(c) PROVE SessionInv'
  BY <1>20 DEF Drop, Post
<1>21. ASSUME NEW d \in Disconnects, DisconnectNothing(d) PROVE SessionInv'
  BY <1>21 DEF DisconnectNothing, Leave
<1>22. ASSUME NEW d \in Disconnects, StartDisconnect(d) PROVE SessionInv'
  <2>1. /\ pc'[d] = "settle" /\ \A y \in Calls \ {d} : pc'[y] = pc[y]
        /\ \A e \in Connects : ~Running(e)
        /\ UNCHANGED <<session, openSessions, activated, complete>>
    BY <1>22 DEF StartDisconnect, Leave
  <2>2. \A e \in Connects : e # d
    OBVIOUS
  <2>3. \A e \in Connects : pc'[e] = pc[e]
    BY <2>1, <2>2
  <2>4. \A e \in Connects : pc[e] \notin Early \cup Late \cup {"requester"}
    <3> HIDE DEF TypeInv, TypeOK, SessionInv, QueueInv, TurnInv, Early, Late, Pair
    <3> QED
      BY <2>1, Nobody
  <2>5. \A e \in Connects : pc'[e] = pc[e] /\ pc[e] \notin Early \cup Late \cup {"requester"}
    BY <2>3, <2>4
  <2> HIDE DEF TypeInv, TypeOK, QueueInv, TurnInv
  <2>6. \A e \in Connects : \A l \in Early \cup Late \cup {"requester"} : pc'[e] # l
    BY <2>5
  <2>7. session # None => session \in Connects
    BY DEF TypeInv, TypeOK
  <2>8. CASE session # None /\ statusToken # None
    <3>1. statusToken' = None /\ told' = told \cup {session}
      BY <1>22, <2>8 DEF StartDisconnect
    <3>2. session \in complete
      BY <2>1, <2>8, <2>5, <2>7
    <3>3. statusToken = session
      BY <2>8
    <3>4. \A e \in Connects :
           /\ pc'[e] \notin Early \cup Late \cup {"requester"}
           /\ pc'[e] = "done" <=> e \in complete
           /\ e \notin complete \ told'
      BY <2>5, <3>1
    <3>5. \A e \in Disconnects : pc'[e] = "settle" => statusToken' = None
      BY <3>1
    <3>6. session # None => pc'[session] \in Late \cup {"done"}
      BY <2>5, <2>7
    <3>7. told' \subseteq complete /\ activated \subseteq {c \in Connects : pc'[c] \in Late}
      BY <3>1, <3>2, <2>5
    <3> QED
      BY <2>1, <3>1, <3>4, <3>5, <3>6, <3>7
  <2>9. CASE ~(session # None /\ statusToken # None)
    <3>1. UNCHANGED <<statusToken, told>>
      BY <1>22, <2>9 DEF StartDisconnect
    <3>2. statusToken = None
      BY <2>9
    <3>4. \A e \in Connects :
           /\ pc'[e] \notin Early \cup Late \cup {"requester"}
           /\ pc'[e] = "done" <=> e \in complete
           /\ e \notin complete \ told'
      BY <2>5, <2>7, <3>1, <3>2
    <3>6. session # None => pc'[session] \in Late \cup {"done"}
      BY <2>5, <2>7
    <3>7. told' \subseteq complete /\ activated \subseteq {c \in Connects : pc'[c] \in Late}
      BY <3>1, <2>5
    <3> QED
      BY <2>1, <3>1, <3>2, <3>4, <3>6, <3>7
  <2> QED
    BY <2>8, <2>9
<1>23. ASSUME NEW d \in Disconnects, Settled(d) PROVE SessionInv'
  BY <1>23 DEF Settled, Leave
<1>24. ASSUME NEW d \in Disconnects, SettledTwice(d) \/ DisconnectCancelled(d) PROVE SessionInv'
  BY <1>24 DEF SettledTwice, DisconnectCancelled, Leave
<1>25. ASSUME NEW r \in Requests, Request(r) PROVE SessionInv'
  BY <1>25 DEF Request, Begin, OneAtATime, IsConnected
<1>26. ASSUME NEW s \in Starts, StartNotify(s) PROVE SessionInv'
  BY <1>26 DEF StartNotify, Begin, OneAtATime, IsConnected
<1>27. ASSUME NEW x \in Starts \cup Requests, RequestEnds(x) PROVE SessionInv'
  BY <1>27 DEF RequestEnds, Succeeds, Fails, Ended, Leave
<1>28. ASSUME NEW x \in Starts \cup Requests, Stopped(x) PROVE SessionInv'
  BY <1>28 DEF Stopped, Succeeds, Ended, Leave
<1>29. ASSUME NEW x \in Starts \cup Requests, Notifying(x) PROVE SessionInv'
  BY <1>29 DEF Notifying, Succeeds, Ended, Leave
<1>30. ASSUME NEW x \in Starts \cup Requests, NotNotifying(x) PROVE SessionInv'
  BY <1>30 DEF NotNotifying, Fails, Ended, Leave
<1>31. ASSUME NEW x \in Calls, OperationEnds(x) PROVE SessionInv'
  <2>1. UNCHANGED <<pc, client, connects, history>>
    BY <1>31 DEF OperationEnds
  <2>2. openSessions' = openSessions \/ (pc[x] = "session" /\ openSessions' = openSessions \cup {x})
    BY <1>31 DEF OperationEnds, Bring
  <2>3. pc[x] = "session" => x \in Connects
    BY OnlyConnects
  <2> QED
    BY <2>1, <2>2, <2>3
<1>32. ASSUME NEW x \in Calls, Interrupt(x) PROVE SessionInv'
  BY <1>32 DEF Interrupt
<1>33. CASE SessionActive
  <2>1. queue # <<>>
    BY <1>33 DEF SessionActive
  <2>2. \A c \in Connects : Running(c) /\ pc[c] \notin Pair \cup {"requester"} => pc[c] \in Late
    BY <2>1
  <2> QED
    BY <1>33, <2>2 DEF SessionActive
<1>34. CASE SessionClosed
  BY <1>34 DEF SessionClosed, HandleDisconnect
<1>35. CASE SessionClosedEarly
  BY <1>35 DEF SessionClosedEarly
<1>36. CASE UNCHANGED vars
  BY <1>36 DEF vars
<1>37. ASSUME NEW c \in Connects, NotMaintained(c) PROVE SessionInv'
  BY <1>37 DEF NotMaintained, Succeeds, Ended, Leave, Forget
<1> QED
  BY <1>1, <1>2, <1>3, <1>4, <1>5, <1>6, <1>7, <1>8, <1>9, <1>10, <1>11, <1>12, <1>13,
     <1>14, <1>15, <1>16, <1>17, <1>18, <1>19, <1>20, <1>21, <1>22, <1>23, <1>24, <1>25,
     <1>26, <1>27, <1>28, <1>29, <1>30, <1>31, <1>32, <1>33, <1>34, <1>35, <1>36, <1>37 DEF
     Next,
     ConnectStep, DisconnectStep, RequestStep, Event

-----------------------------------------------------------------------------
\* Every step keeps AskInv.
LEMMA AskStep ==
  ASSUME TypeInv, TurnInv, SettleInv, AskInv, [Next]_vars
  PROVE  AskInv'
<1> SUFFICES ASSUME NEW c \in Connects, Succeeds(c, "services")'
             PROVE  Asked(c)' \subseteq open'[c]
  BY DEF AskInv
<1> USE CallsAssumption DEF Calls, client, connects, winrt, history
<1>1. pc'[c] = "services" /\ op'[c] = "ok"
  BY DEF Succeeds, Ended
<1>2. ASSUME pc'[c] = pc[c] PROVE Running(c)
  BY <1>1, <1>2 DEF Running
<1>3. ASSUME pc'[c] = pc[c], op'[c] = op[c], todo' = todo, requested' = requested, open' = open
      PROVE  Asked(c)' \subseteq open'[c]
  BY <1>1, <1>3 DEF AskInv, Succeeds, Ended, Asked
<1>4. ASSUME NEW x \in Calls \ {c}, NEW l, Begin(x, l) \/ Leave(x, l)
      PROVE  pc'[c] = pc[c] /\ op'[c] = op[c]
  BY <1>4 DEF Begin, Leave, TypeInv, TypeOK
<1>5. ASSUME NEW l, Begin(c, l) \/ Leave(c, l) PROVE FALSE
  BY <1>1, <1>5 DEF Begin, Leave, TypeInv, TypeOK
<1>6. ASSUME NEW e \in Connects, ConnectStep(e) \/ StartConnect(e) PROVE FALSE
  <2>1. \E l \in ConnectPc \cup {"requester"} : Begin(e, l) \/ Leave(e, l)
    BY <1>6, ConnectGoesOn DEF StartConnect
  <2>2. e # c /\ Running(c)
    BY <1>2, <1>4, <1>5, <2>1
  <2>3. Running(e) \/ \A x \in Calls : ~Running(x)
    BY <1>6, ConnectGoesOn DEF StartConnect
  <2> QED
    BY <2>2, <2>3 DEF TurnInv, SettleInv
<1>7. ASSUME NEW d \in Disconnects,
             DisconnectNothing(d) \/ StartDisconnect(d) \/ DisconnectStep(d)
      PROVE  FALSE
  <2>1. \E l : Leave(d, l)
    BY <1>7, OtherGoesOn DEF DisconnectNothing, StartDisconnect
  <2>2. Running(c) /\ d # c
    BY <1>2, <1>4, <2>1
  <2>3. Running(d) \/ \A e \in Connects : ~Running(e)
    BY <1>7, OtherGoesOn DEF DisconnectNothing, StartDisconnect
  <2> QED
    BY <2>2, <2>3 DEF TurnInv, SettleInv
<1>8. ASSUME NEW x \in Starts \cup Requests,
             \/ RequestStep(x)
             \/ x \in Requests /\ Request(x)
             \/ x \in Starts /\ StartNotify(x)
      PROVE  Asked(c)' \subseteq open'[c]
  <2>1. \E l : Begin(x, l) \/ Leave(x, l)
    BY <1>8, OtherGoesOn DEF Request, StartNotify
  <2>2. UNCHANGED <<todo, requested, open>>
    BY <1>8 DEF RequestStep, RequestEnds, Stopped, Notifying, NotNotifying, Request, StartNotify
  <2> QED
    BY <1>3, <1>4, <2>1, <2>2
<1>9. ASSUME NEW x \in Calls, OperationEnds(x) PROVE Asked(c)' \subseteq open'[c]
  <2>1. pc' = pc /\ UNCHANGED <<todo, requested>>
    BY <1>9 DEF OperationEnds
  <2>2. Asked(c)' = Asked(c)
    BY <2>1 DEF Asked
  <2>3. CASE x = c
    <3>1. Bring(c)
      BY <1>1, <1>9, <2>3 DEF OperationEnds, TypeInv
    <3> QED
      BY <1>1, <2>1, <2>2, <3>1 DEF Bring, TypeInv
  <2>4. CASE x # c
    <3>1. op'[c] = op[c] /\ open'[c] = open[c]
      BY <1>9, <2>4 DEF OperationEnds, Bring, TypeInv
    <3> QED
      BY <1>1, <2>1, <2>2, <3>1 DEF AskInv, Succeeds, Ended
  <2> QED
    BY <2>3, <2>4
<1>10. ASSUME NEW x \in Calls, Interrupt(x) PROVE Asked(c)' \subseteq open'[c]
  BY <1>1, <1>3, <1>10 DEF Interrupt, TypeInv
<1>11. ASSUME NEW e \in Connects, Activate(e) \/ Drop(e) PROVE Asked(c)' \subseteq open'[c]
  BY <1>3, <1>11 DEF Activate, Drop
<1>12. CASE Event
  BY <1>3, <1>12 DEF Event, SessionActive, SessionClosed, SessionClosedEarly, HandleDisconnect
<1>13. CASE UNCHANGED vars
  BY <1>3, <1>13 DEF vars
<1> QED
  BY <1>6, <1>7, <1>8, <1>9, <1>10, <1>11, <1>12, <1>13 DEF Next

-----------------------------------------------------------------------------
\* Every step keeps ReachInv.
LEMMA ReachStep ==
  ASSUME TypeInv, TurnInv, SettleInv, SessionInv, ReachInv, AskInv, [Next]_vars
  PROVE  ReachInv'
<1> USE CallsAssumption DEF Calls, client, connects, winrt, history, TypeInv, TypeOK, Pc,
   Levels, Pair, Running, Early, Late, TurnInv, SessionInv, ReachInv
<1>1. ASSUME NEW c \in Connects, StartConnect(c) PROVE ReachInv'
  BY <1>1 DEF StartConnect, Begin, Running
<1>2. ASSUME NEW c \in Connects, DeviceNotFound(c) PROVE ReachInv'
  BY <1>2 DEF DeviceNotFound, Fails, Ended, Leave
<1>3. ASSUME NEW c \in Connects, GotRequester(c) PROVE ReachInv'
  <2>1. /\ pc[c] = "requester" /\ session = None
        /\ requester' = c /\ openRequesters' = openRequesters
        /\ UNCHANGED <<requested, session, services, todo, kept, open>>
    BY <1>3 DEF GotRequester, Succeeds, Ended
  <2>2. pc'[c] \in {"info", "session"} /\ \A e \in Connects \ {c} : pc'[e] = pc[e]
    BY <1>3 DEF GotRequester, Begin
  <2>3. \A e \in Connects \ {c} : pc[e] \notin Early \cup Late
    BY <2>1
  <2>4. openRequesters' \subseteq
           {c} \cup {e \in Connects : pc'[e] \in {"requester", "unpaired", "lostRequester"}}
    <3>1. requester # None => requester # c /\ pc[requester] = "unpaired"
      BY <2>1, <2>3
    <3> QED
      BY <2>1, <2>2, <3>1
  <2>5. \A e \in Connects :
           /\ pc'[e] \in Early \cup {"idle", "requester", "services", "sleep"} => kept[e] = {}
           /\ services = e \/ pc'[e] \in {"tree", "dispose", "spilled"}
                \/ open[e] \cap kept[e] = {}
           /\ pc'[e] = "tree" \/ (pc'[e] \in {"services", "sleep"} /\ requested) => todo[e] # {}
    BY <2>1, <2>2, <2>3
  <2> HIDE DEF TypeInv, TypeOK, QueueInv, TurnInv, SessionInv
  <2> QED
    BY <2>1, <2>2, <2>4, <2>5
<1>4. ASSUME NEW c \in Connects, PairNext(c) PROVE ReachInv'
  <2>1. /\ pc[c] \in Pair /\ session = None
        /\ UNCHANGED <<requested, requester, openRequesters, session, services, todo, kept, open>>
    BY <1>4 DEF PairNext, Succeeds, Ended
  <2>2. pc'[c] \in Pair /\ \A e \in Connects \ {c} : pc'[e] = pc[e]
    BY <1>4 DEF PairNext, Begin
  <2>5. \A e \in Connects :
           /\ pc'[e] \in Early \cup {"idle", "requester", "services", "sleep"} => kept[e] = {}
           /\ services = e \/ pc'[e] \in {"tree", "dispose", "spilled"}
                \/ open[e] \cap kept[e] = {}
           /\ pc'[e] = "tree" \/ (pc'[e] \in {"services", "sleep"} /\ requested) => todo[e] # {}
    BY <2>1, <2>2
  <2>3. \A e \in Connects : pc[e] = "unpaired" <=> pc'[e] = "unpaired"
    BY <2>1, <2>2
  <2>4. requester # None => pc'[requester] \in Early \cup {"unpaired"} \/ session = requester
    BY <2>1, <2>2
  <2> HIDE DEF TypeInv, TypeOK, QueueInv, TurnInv, SessionInv
  <2> QED
    BY <2>1, <2>2, <2>3, <2>4, <2>5
<1>5. ASSUME NEW c \in Connects, Paired(c) PROVE ReachInv'
  BY <1>5 DEF Paired, Succeeds, Ended, Begin
<1>6. ASSUME NEW c \in Connects, PairFails(c) PROVE ReachInv'
  BY <1>6 DEF PairFails, Fails, Ended, Leave
<1>7. ASSUME NEW c \in Connects, NoSession(c) PROVE ReachInv'
  BY <1>7 DEF NoSession, Fails, Succeeds, Ended, Raise, Leave, Forget, HandleDisconnect
<1>8. ASSUME NEW c \in Connects, GotSession(c) PROVE ReachInv'
  <2>1. /\ pc[c] = "session" /\ session = None /\ session' = c
        /\ todo' = [todo EXCEPT ![c] = IF requested THEN Services ELSE {}]
        /\ UNCHANGED <<requested, requester, openRequesters, services, kept, open>>
    BY <1>8 DEF GotSession, Succeeds, Ended
  <2>2. /\ \A e \in Connects \ {c} : pc'[e] = pc[e]
        /\ IF services = None THEN pc'[c] = "services" ELSE pc'[c] = "event"
    BY <1>8 DEF GotSession, Begin, Leave
  <2>3. \A e \in Connects \ {c} : pc[e] \notin Early \cup Late
    <3> HIDE DEF TypeInv, TypeOK, SessionInv, ReachInv, TurnInv, Early, Late, Pair
    <3> QED
      BY <2>1, Alone
  <2>4. kept[c] = {} /\ todo'[c] = IF requested THEN Services ELSE {}
    BY <2>1
  <2>5. \A e \in Connects \ {c} : todo'[e] = todo[e]
    BY <2>1
  <2>6. requester # None => requester = c \/ pc[requester] = "unpaired"
    BY <2>1, <2>3
  <2> HIDE DEF TypeInv, TypeOK, TurnInv, SessionInv
  <2>7. openRequesters' \subseteq {requester'}
           \cup {e \in Connects : pc'[e] \in {"requester", "unpaired", "lostRequester"}}
    BY <2>1, <2>2
  <2>8. requester' # None => pc'[requester'] \in Early \cup {"unpaired"} \/ session' = requester'
    BY <2>1, <2>2, <2>6 DEF TypeInv, TypeOK
  <2>9. services' = None <=> pc'[session'] \in Late \ {"event"}
    BY <2>1, <2>2
  <2>10. ASSUME NEW e \in Connects
         PROVE
           /\ pc'[e] \in Early \cup {"idle", "requester", "services", "sleep"} => kept'[e] = {}
           /\ services' = e \/ pc'[e] \in {"tree", "dispose", "spilled"}
                \/ open'[e] \cap kept'[e] = {}
           /\ pc'[e] = "tree" \/ (pc'[e] \in {"services", "sleep"} /\ requested') => todo'[e] # {}
    BY <2>1, <2>2, <2>4, <2>5
  <2> QED
    BY <2>7, <2>8, <2>9, <2>10
<1>9. ASSUME NEW c \in Connects, GotServices(c) PROVE ReachInv'
  <2>1. /\ pc[c] = "services" /\ session = c
        /\ UNCHANGED <<requested, requester, openRequesters, session, services, kept, open>>
    BY <1>9 DEF GotServices, Succeeds, Ended
  <2>2. /\ \A e \in Connects \ {c} : pc'[e] = pc[e] /\ todo'[e] = todo[e]
        /\ \/ todo[c] \subseteq Asked(c) /\ pc'[c] = "tree" /\ todo'[c] = open[c]
           \/ ~(todo[c] \subseteq Asked(c)) /\ pc'[c] = "services" /\ todo'[c] = todo[c] \ Asked(c)
    BY <1>9 DEF GotServices, Begin
  <2>3. open[c] # {}
    BY <1>9, <2>1, Asking DEF GotServices, AskInv
  <2> HIDE DEF TypeInv, TypeOK, TurnInv, SessionInv
  <2>4. openRequesters' \subseteq {requester'}
           \cup {e \in Connects : pc'[e] \in {"requester", "unpaired", "lostRequester"}}
    BY <2>1, <2>2
  <2>5. requester' # None => pc'[requester'] \in Early \cup {"unpaired"} \/ session' = requester'
    BY <2>1, <2>2 DEF TypeInv, TypeOK
  <2>6. services' = None <=> pc'[session'] \in Late \ {"event"}
    BY <2>1, <2>2, CallsAssumption
  <2>7. ASSUME NEW e \in Connects
        PROVE
           /\ pc'[e] \in Early \cup {"idle", "requester", "services", "sleep"} => kept'[e] = {}
           /\ services' = e \/ pc'[e] \in {"tree", "dispose", "spilled"}
                \/ open'[e] \cap kept'[e] = {}
           /\ pc'[e] = "tree" \/ (pc'[e] \in {"services", "sleep"} /\ requested') => todo'[e] # {}
    BY <2>1, <2>2, <2>3
  <2> QED
    BY <2>4, <2>5, <2>6, <2>7
<1>10. ASSUME NEW c \in Connects, Unreachable(c) PROVE ReachInv'
  BY <1>10 DEF Unreachable, Ended, Leave
<1>11. ASSUME NEW c \in Connects, RetryServices(c) PROVE ReachInv'
  BY <1>11 DEF RetryServices, Begin
<1>12. ASSUME NEW c \in Connects, ServicesFail(c) PROVE ReachInv'
  BY <1>12 DEF ServicesFail, Fails, Ended, Raise, Leave, Forget, HandleDisconnect
<1>13. ASSUME NEW c \in Connects, Enumerated(c) PROVE ReachInv'
  <2> DEFINE s == CHOOSE s \in todo[c] : TRUE
  <2>1. /\ pc[c] = "tree" /\ session = c
        /\ todo' = [todo EXCEPT ![c] = @ \ {s}]
        /\ \A e \in Connects \ {c} : kept'[e] = kept[e]
        /\ UNCHANGED <<requested, requester, openRequesters, session, open>>
    BY <1>13 DEF Enumerated, Ended
  <2>2. /\ \A e \in Connects \ {c} : pc'[e] = pc[e] /\ pc[e] \notin Early \cup Late
        /\ \/ todo'[c] = {} /\ pc'[c] = "event" /\ services' = c
           \/ todo'[c] # {} /\ pc'[c] = "tree" /\ services' = services
    <3>1. \A e \in Connects \ {c} : pc[e] \notin Early \cup Late
      BY <2>1
    <3> QED
      BY <1>13, <3>1 DEF Enumerated, Begin, Leave
  <2>3. services = None
    BY <2>1
  <2>4. ASSUME NEW e \in Connects
        PROVE
           /\ pc'[e] \in Early \cup {"idle", "requester", "services", "sleep"} => kept'[e] = {}
           /\ services' = e \/ pc'[e] \in {"tree", "dispose", "spilled"}
                \/ open[e] \cap kept'[e] = {}
           /\ pc'[e] = "tree" \/ (pc'[e] \in {"services", "sleep"} /\ requested) => todo'[e] # {}
    <3>1. CASE e = c
      BY <2>2, <3>1
    <3>2. CASE e # c
      <4>1. pc'[e] = pc[e] /\ pc[e] \notin Early \cup Late /\ kept'[e] = kept[e] /\ services # e
        BY <2>1, <2>2, <2>3, <3>2
      <4> HIDE DEF TypeInv, TypeOK, TurnInv, SessionInv
      <4> QED
        BY <4>1
    <3> QED
      BY <3>1, <3>2
  <2>5. \A e \in Connects : \A l \in {"requester", "unpaired", "lostRequester"} :
           pc[e] = l <=> pc'[e] = l
    BY <2>1, <2>2
  <2>6. requester # None => pc'[requester] \in Early \cup {"unpaired"} \/ session = requester
    BY <2>1, <2>2
  <2>7. services' = None <=> pc'[session] \in Late \ {"event"}
    BY <2>1, <2>2, <2>3
  <2> HIDE DEF TypeInv, TypeOK, QueueInv, TurnInv, SessionInv
  <2> QED
    BY <2>1, <2>4, <2>5, <2>6, <2>7
<1>14. ASSUME NEW c \in Connects, EnumerationFails(c) PROVE ReachInv'
  BY <1>14 DEF EnumerationFails, Fails, Ended, Leave
<1>15. ASSUME NEW c \in Connects, Disposed(c) PROVE ReachInv'
  BY <1>15 DEF Disposed, Leave, Forget, HandleDisconnect
<1>16. ASSUME NEW c \in Connects, DisposeCancelled(c) PROVE ReachInv'
  BY <1>16 DEF DisposeCancelled, Raise, Leave, Forget, HandleDisconnect
<1>17. ASSUME NEW c \in Connects, ConnectReturns(c) PROVE ReachInv'
  BY <1>17 DEF ConnectReturns, Leave, Forget
<1>18. ASSUME NEW c \in Connects, NeverActive(c) PROVE ReachInv'
  BY <1>18 DEF NeverActive, Raise, Leave, Forget, HandleDisconnect
<1>19. ASSUME NEW c \in Connects, Activate(c) PROVE ReachInv'
  BY <1>19 DEF Activate, Post
<1>20. ASSUME NEW c \in Connects, Drop(c) PROVE ReachInv'
  BY <1>20 DEF Drop, Post
<1>21. ASSUME NEW d \in Disconnects, DisconnectNothing(d) PROVE ReachInv'
  BY <1>21 DEF DisconnectNothing, Leave
<1>22. ASSUME NEW d \in Disconnects, StartDisconnect(d) PROVE ReachInv'
  BY <1>22 DEF StartDisconnect, Leave
<1>23. ASSUME NEW d \in Disconnects, Settled(d) PROVE ReachInv'
  BY <1>23 DEF Settled, Leave
<1>24. ASSUME NEW d \in Disconnects, SettledTwice(d) \/ DisconnectCancelled(d) PROVE ReachInv'
  <2>1. /\ \A e \in Connects : pc'[e] = pc[e]
        /\ UNCHANGED <<requested, requester, openRequesters, session, services, todo, kept, open>>
    BY <1>24 DEF SettledTwice, DisconnectCancelled, Leave
  <2>2. session # None => session \in Connects
    OBVIOUS
  <2>3. requester # None => requester \in Connects
    OBVIOUS
  <2> HIDE DEF TypeInv, TypeOK, QueueInv, TurnInv, SessionInv
  <2> QED
    BY <2>1, <2>2, <2>3
<1>25. ASSUME NEW r \in Requests, Request(r) PROVE ReachInv'
  BY <1>25 DEF Request, Begin, OneAtATime, IsConnected
<1>26. ASSUME NEW s \in Starts, StartNotify(s) PROVE ReachInv'
  BY <1>26 DEF StartNotify, Begin, OneAtATime, IsConnected
<1>27. ASSUME NEW x \in Starts \cup Requests, RequestEnds(x) PROVE ReachInv'
  BY <1>27 DEF RequestEnds, Succeeds, Fails, Ended, Leave
<1>28. ASSUME NEW x \in Starts \cup Requests, Stopped(x) PROVE ReachInv'
  BY <1>28 DEF Stopped, Succeeds, Ended, Leave
<1>29. ASSUME NEW x \in Starts \cup Requests, Notifying(x) PROVE ReachInv'
  BY <1>29 DEF Notifying, Succeeds, Ended, Leave
<1>30. ASSUME NEW x \in Starts \cup Requests, NotNotifying(x) PROVE ReachInv'
  BY <1>30 DEF NotNotifying, Fails, Ended, Leave
<1>31. ASSUME NEW x \in Calls, OperationEnds(x) PROVE ReachInv'
  <2>1. UNCHANGED <<pc, client, connects>>
    BY <1>31 DEF OperationEnds
  <2>2. /\ \/ openRequesters' = openRequesters
           \/ pc[x] = "requester" /\ openRequesters' = openRequesters \cup {x}
        /\ \A e \in Connects : open'[e] = open[e] \/ pc[e] = "services"
    BY <1>31 DEF OperationEnds, Bring
  <2>3. pc[x] = "requester" => x \in Connects
    BY OnlyConnects
  <2> HIDE DEF TypeInv, TypeOK, TurnInv, SessionInv
  <2>4. openRequesters' \subseteq {requester}
           \cup {e \in Connects : pc[e] \in {"requester", "unpaired", "lostRequester"}}
    BY <2>2, <2>3
  <2>5. \A e \in Connects : \/ services = e \/ pc[e] \in {"tree", "dispose", "spilled"}
                            \/ open'[e] \cap kept[e] = {}
    BY <2>2
  <2> QED
    BY <2>1, <2>4, <2>5
<1>32. ASSUME NEW x \in Calls, Interrupt(x) PROVE ReachInv'
  BY <1>32 DEF Interrupt
<1>33. CASE SessionActive
  BY <1>33 DEF SessionActive
<1>34. CASE SessionClosed
  BY <1>34 DEF SessionClosed, HandleDisconnect
<1>35. CASE SessionClosedEarly
  BY <1>35 DEF SessionClosedEarly
<1>36. CASE UNCHANGED vars
  BY <1>36 DEF vars
<1>37. ASSUME NEW c \in Connects, NotMaintained(c) PROVE ReachInv'
  BY <1>37 DEF NotMaintained, Succeeds, Ended, Leave, Forget
<1> QED
  BY <1>1, <1>2, <1>3, <1>4, <1>5, <1>6, <1>7, <1>8, <1>9, <1>10, <1>11, <1>12, <1>13,
     <1>14, <1>15, <1>16, <1>17, <1>18, <1>19, <1>20, <1>21, <1>22, <1>23, <1>24, <1>25,
     <1>26, <1>27, <1>28, <1>29, <1>30, <1>31, <1>32, <1>33, <1>34, <1>35, <1>36, <1>37 DEF
     Next,
     ConnectStep, DisconnectStep, RequestStep, Event

-----------------------------------------------------------------------------
\* Every step keeps NotifyInv.
LEMMA NotifyStep ==
  ASSUME TypeInv, TurnInv, SessionInv, NotifyInv, [Next]_vars
  PROVE  NotifyInv'
<1> USE CallsAssumption DEF Calls, client, connects, winrt, history, TypeInv, TypeOK, Pc,
   Levels, Pair, Running, Early, Late, TurnInv, SessionInv, NotifyInv, NotifyTracked,
   Untouched
<1>1. ASSUME NEW c \in Connects, StartConnect(c) PROVE NotifyInv'
  BY <1>1 DEF StartConnect, Begin, Running
<1>2. ASSUME NEW c \in Connects, ConnectStep(c) PROVE NotifyInv'
  <2>1. /\ UNCHANGED <<token, handlers, madeIn>>
        /\ \A y \in Calls \ {c} : pc'[y] = pc[y]
    BY <1>2, ConnectGoesOn DEF Begin, Leave
  <2>2. /\ session' \in {session, None} \/ (pc[c] = "session" /\ session' = c)
        /\ pc[c] \in Late => pc'[c] \notin Early \cup {"idle", "requester"}
    BY <1>2, ConnectSession
  <2>3. pc[c] \in {"requester"} \cup Early \cup Late
    BY <1>2, ConnectGoesOn
  <2>4. \A s \in Starts :
           madeIn[s] # None => pc'[madeIn[s]] \notin Early \cup {"idle", "requester"}
    BY <2>1, <2>2, <2>3
  <2>5. \A s \in Starts : session' # None /\ madeIn[s] = session' => session' = session
    BY <2>2
  <2>6. \A y \in Starts \cup Requests \cup Disconnects : pc'[y] = pc[y]
    BY <2>1
  <2> HIDE DEF TypeInv, TypeOK, TurnInv, SessionInv
  <2> QED
    BY <2>1, <2>4, <2>5, <2>6
<1>3. ASSUME NEW c \in Connects, Activate(c) PROVE NotifyInv'
  BY <1>3 DEF Activate, Post
<1>4. ASSUME NEW c \in Connects, Drop(c) PROVE NotifyInv'
  BY <1>4 DEF Drop, Post
<1>5. ASSUME NEW d \in Disconnects, DisconnectNothing(d) PROVE NotifyInv'
  BY <1>5 DEF DisconnectNothing, Leave
<1>6. ASSUME NEW d \in Disconnects, StartDisconnect(d) PROVE NotifyInv'
  BY <1>6 DEF StartDisconnect, Leave
<1>7. ASSUME NEW d \in Disconnects, Settled(d) PROVE NotifyInv'
  BY <1>7 DEF Settled, Leave
<1>8. ASSUME NEW d \in Disconnects, SettledTwice(d) \/ DisconnectCancelled(d) PROVE NotifyInv'
  <2>1. /\ pc'[d] # "idle" /\ \A y \in Calls \ {d} : pc'[y] = pc[y]
        /\ UNCHANGED <<session, token, handlers, madeIn>>
    BY <1>8 DEF SettledTwice, DisconnectCancelled, Leave
  <2> HIDE DEF TypeInv, TypeOK, TurnInv, SessionInv
  <2>2. \A s \in Starts : pc'[s] = pc[s]
    BY <2>1
  <2>3. \A c \in Connects : pc'[c] = pc[c]
    BY <2>1
  <2>4. \A s \in Starts : madeIn[s] # None => pc'[madeIn[s]] = pc[madeIn[s]]
    BY <2>3 DEF TypeInv
  <2> QED
    BY <2>1, <2>2, <2>4
<1>9. ASSUME NEW r \in Requests, Request(r) PROVE NotifyInv'
  BY <1>9 DEF Request, Begin, OneAtATime, IsConnected
<1>10. ASSUME NEW s \in Starts, StartNotify(s) PROVE NotifyInv'
  <2>1. /\ session # None /\ token' = s /\ handlers' = handlers \cup {s}
        /\ madeIn' = [madeIn EXCEPT ![s] = session] /\ session' = session
    BY <1>10 DEF StartNotify, IsConnected
  <2>2. pc'[s] = "starting" /\ \A y \in Calls \ {s} : pc'[y] = pc[y]
    BY <1>10 DEF StartNotify, Begin
  <2>3. \A t \in Starts : pc[t] # "starting"
    BY <1>10 DEF StartNotify, OneAtATime
  <2>4. madeIn'[s] = session /\ \A t \in Starts \ {s} : madeIn'[t] = madeIn[t]
    BY <2>1
  <2>5. \A t \in Starts :
           madeIn'[t] # None => pc'[madeIn'[t]] \notin Early \cup {"idle", "requester"}
    <3>1. session # s /\ pc[session] \in Late \cup {"done"}
      BY <2>1
    <3>2. \A t \in Starts : madeIn[t] # s
      OBVIOUS
    <3> QED
      BY <2>1, <2>2, <2>4, <3>1, <3>2
  <2>6. \A x \in Requests \cup Disconnects : pc'[x] = pc[x]
    BY <2>2
  <2> HIDE DEF TypeInv, TypeOK, TurnInv, SessionInv
  <2> QED
    BY <2>1, <2>2, <2>3, <2>4, <2>5, <2>6 DEF Calls
<1>11. ASSUME NEW x \in Starts \cup Requests, RequestEnds(x) PROVE NotifyInv'
  <2>1. x \in Requests
    BY <1>11 DEF RequestEnds, Succeeds, Fails, Ended
  <2>2. /\ pc'[x] # "idle" /\ \A y \in Calls \ {x} : pc'[y] = pc[y]
        /\ UNCHANGED <<session, token, handlers, madeIn>>
    BY <1>11 DEF RequestEnds, Leave
  <2>3. \A s \in Starts : pc'[s] = pc[s] /\ (madeIn[s] # None => pc'[madeIn[s]] = pc[madeIn[s]])
    <3>1. \A y \in Starts \cup Connects : y # x
      BY <2>1
    <3> HIDE DEF TurnInv, SessionInv, NotifyInv
    <3> QED
      BY <2>2, <3>1
  <2> HIDE DEF TypeInv, TypeOK, TurnInv, SessionInv
  <2> QED
    BY <2>1, <2>2, <2>3 DEF Calls
<1>12. ASSUME NEW x \in Starts \cup Requests, Stopped(x) PROVE NotifyInv'
  <2>1. x \in Requests /\ \A s \in Starts : pc[s] # "starting"
    BY <1>12 DEF Stopped, Succeeds, Ended
  <2>2. /\ pc'[x] # "idle" /\ \A y \in Calls \ {x} : pc'[y] = pc[y]
        /\ handlers' = handlers \ {token} /\ token' = None /\ UNCHANGED <<session, madeIn>>
    BY <1>12 DEF Stopped, Leave
  <2>3. \A s \in Starts : pc'[s] = pc[s] /\ (madeIn[s] # None => pc'[madeIn[s]] = pc[madeIn[s]])
    <3>1. \A y \in Starts \cup Connects : y # x
      BY <2>1
    <3> HIDE DEF TurnInv, SessionInv, NotifyInv
    <3> QED
      BY <2>2, <3>1
  <2> HIDE DEF TypeInv, TypeOK, TurnInv, SessionInv
  <2> QED
    BY <2>1, <2>2, <2>3 DEF Calls
<1>13. ASSUME NEW x \in Starts \cup Requests, Notifying(x) PROVE NotifyInv'
  <2>1. x \in Starts /\ pc[x] = "starting"
    BY <1>13 DEF Notifying, Succeeds, Ended
  <2>2. /\ pc'[x] = "done" /\ \A y \in Calls \ {x} : pc'[y] = pc[y]
        /\ UNCHANGED <<session, token, handlers, madeIn>>
    BY <1>13 DEF Notifying, Leave
  <2> HIDE DEF TurnInv, SessionInv
  <2>3. \A s \in Starts : madeIn[s] # None => pc'[madeIn[s]] = pc[madeIn[s]]
    BY <2>1, <2>2
  <2>4. \A y \in Requests \cup Disconnects : pc'[y] = pc[y]
    BY <2>1, <2>2
  <2> HIDE DEF TypeInv, TypeOK
  <2> QED
    BY <2>1, <2>2, <2>3, <2>4
<1>14. ASSUME NEW x \in Starts \cup Requests, NotNotifying(x) PROVE NotifyInv'
  <2>1. x \in Starts /\ pc[x] = "starting" /\ token \in {x, None}
    BY <1>14 DEF NotNotifying, Fails, Ended
  <2>2. /\ pc'[x] = "raised" /\ \A y \in Calls \ {x} : pc'[y] = pc[y]
        /\ handlers' = handlers \ {token} /\ token' = None /\ UNCHANGED <<session, madeIn>>
    BY <1>14 DEF NotNotifying, Leave
  <2>3. \A s \in Starts : madeIn[s] # None => pc'[madeIn[s]] = pc[madeIn[s]]
    BY <2>1, <2>2
  <2>4. \A s \in Starts \ {x} : pc'[s] = pc[s] /\ (s \in handlers' <=> s \in handlers)
    BY <2>1, <2>2
  <2>5. \A y \in Requests \cup Disconnects : pc'[y] = pc[y]
    BY <2>1, <2>2
  <2>6. \A s \in Starts \ {x} : pc[s] # "starting" /\ token # s
    <3>1. \A s \in Starts : pc[s] = "starting" => s = x
      BY <2>1
    <3> QED
      BY <2>1, <3>1
  <2>7. x \in handlers' => token # x
    BY <2>2
  <2> HIDE DEF TypeInv, TypeOK, TurnInv, SessionInv
  <2> QED
    BY <2>1, <2>2, <2>3, <2>4, <2>5, <2>6, <2>7 DEF Calls
<1>15. ASSUME NEW x \in Calls, OperationEnds(x) PROVE NotifyInv'
  BY <1>15 DEF OperationEnds
<1>16. ASSUME NEW x \in Calls, Interrupt(x) PROVE NotifyInv'
  BY <1>16 DEF Interrupt
<1>17. CASE SessionActive
  BY <1>17 DEF SessionActive
<1>18. CASE SessionClosed
  BY <1>18 DEF SessionClosed, HandleDisconnect
<1>19. CASE SessionClosedEarly
  BY <1>19 DEF SessionClosedEarly
<1>20. CASE UNCHANGED vars
  BY <1>20 DEF vars
<1> QED
  BY <1>1, <1>2, <1>3, <1>4, <1>5, <1>6, <1>7, <1>8, <1>9, <1>10, <1>11, <1>12, <1>13,
     <1>14, <1>15, <1>16, <1>17, <1>18, <1>19, <1>20 DEF Next, DisconnectStep, RequestStep,
     Event

-----------------------------------------------------------------------------
\* The sessions whose activity the client relies on: an event is set, or connect() has
\* returned and the end is not reported.
Relied == activated \cup (complete \ told)

\* A step that leaves the events, the links and the session alone keeps QueueInv.
LEMMA QuietStep ==
  ASSUME TypeInv, QueueInv, UNCHANGED <<queue, link, session, ignored>>,
         statusToken' \in {None, statusToken}, Relied' \subseteq Relied,
         \A c \in Connects : pc'[c] \in Early => pc[c] \in Early \/ queue = <<>>
  PROVE  QueueInv'
  BY DEF QueueInv, Relied

\* Every step keeps QueueInv.
LEMMA QueueStep ==
  ASSUME TypeInv, TurnInv, SessionInv, QueueInv, [Next]_vars
  PROVE  QueueInv'
<1> USE CallsAssumption DEF Calls, client, connects, winrt, history
<1>1. ASSUME NEW c \in Connects, StartConnect(c) PROVE QueueInv'
  <2>1. UNCHANGED <<queue, link, session, ignored, statusToken, Relied>>
    BY <1>1 DEF StartConnect, Relied
  <2>2. \A e \in Connects : pc'[e] \in Early => pc[e] \in Early
    BY <1>1 DEF StartConnect, Begin, Early, Pair, Levels, TypeInv, TypeOK
  <2> QED
    BY <2>1, <2>2, QuietStep
<1>2. ASSUME NEW c \in Connects, ConnectStep(c) PROVE QueueInv'
  <2>1. /\ UNCHANGED <<queue, ignored, told>> /\ Running(c)
        /\ \E l \in ConnectPc : pc' = [pc EXCEPT ![c] = l]
    BY <1>2, ConnectGoesOn DEF Begin, Leave
  <2>2. UNCHANGED <<queue, ignored, told>> /\ \A y \in Connects \ {c} : pc'[y] = pc[y]
    BY <2>1 DEF TypeInv, TypeOK
  <2>3. pc[c] \in {"requester"} \cup Early \cup Late
    BY <2>1 DEF TurnInv
  <2>4. pc[c] \in Late => pc'[c] \notin Early
    BY <1>2, ConnectSession
  <2>5. pc[c] \in Early => queue = <<>>
    BY DEF QueueInv
  <2>6. \A e \in Connects \ {c} : pc[e] \notin Early \cup Late /\ pc'[e] \notin Early
    BY <2>1, <2>2 DEF TurnInv, Running, Early, Late, Pair, Levels
  <2>7. activated \subseteq {c} /\ (c \in activated => pc[c] \in Late)
    BY <2>6 DEF SessionInv
  <2>8. complete \subseteq told
    <3>1. \A e \in complete \ told : session = e /\ pc[e] = "done"
      BY DEF SessionInv, TypeInv
    <3>2. pc[c] \in Late => session = c
      BY DEF SessionInv
    <3>3. pc[c] \notin Late => session = None
      BY <2>3 DEF SessionInv
    <3> QED
      BY <3>1, <3>2, <3>3 DEF Late, TypeInv
  <2>9. CASE GotRequester(c)
    <3>1. queue = <<>> /\ UNCHANGED <<link, session, statusToken, activated, complete>>
      BY <2>9 DEF GotRequester
    <3> QED
      BY <2>2, <3>1, QuietStep DEF Relied
  <2>10. CASE DeviceNotFound(c) \/ PairNext(c) \/ Paired(c) \/ PairFails(c) \/ GotServices(c)
             \/ Unreachable(c) \/ RetryServices(c) \/ Enumerated(c) \/ EnumerationFails(c)
    <3>1. UNCHANGED <<link, session, statusToken, activated, complete>>
      BY <2>10 DEF DeviceNotFound, PairNext, Paired, PairFails, GotServices, Unreachable,
         RetryServices, Enumerated, EnumerationFails
    <3>2. pc[c] = "requester" => pc'[c] \notin Early
      BY <2>10 DEF DeviceNotFound, PairNext, Paired, PairFails, GotServices, Unreachable,
         RetryServices, Enumerated, EnumerationFails, Fails, Succeeds, Ended, Pair, Levels,
         Early, Leave, Begin, TypeInv, TypeOK
    <3>3. \A e \in Connects : pc'[e] \in Early => pc[e] \in Early
      BY <2>3, <2>4, <2>6, <3>2
    <3>4. Relied' = Relied
      BY <2>2, <3>1 DEF Relied
    <3> QED
      BY <2>2, <3>1, <3>3, <3>4, QuietStep
  <2>11. CASE GotSession(c)
    <3>1. /\ pc[c] = "session" /\ UNCHANGED complete
          /\ \/ link'[c] = "active" /\ activated' = activated \cup {c}
             \/ activated' = activated
      BY <2>11 DEF GotSession, Succeeds, Ended, TypeInv
    <3>2. queue = <<>> /\ activated = {}
      BY <2>5, <2>7, <3>1 DEF Early, Late, Pair, Levels
    <3> QED
      BY <2>2, <2>8, <3>1, <3>2 DEF QueueInv
  <2>12. CASE NoSession(c) \/ NotMaintained(c) \/ ServicesFail(c) \/ Disposed(c) \/ DisposeCancelled(c)
              \/ NeverActive(c)
    <3>1. /\ session' = None /\ statusToken' = IF session = None THEN statusToken ELSE None
          /\ activated' = activated \ {c} /\ UNCHANGED complete
      <4>1. CASE NotMaintained(c)
        <5>1. session = None
          BY <4>1 DEF NotMaintained, Succeeds, Ended, SessionInv, Early
        <5> QED
          BY <4>1, <5>1 DEF NotMaintained, Forget
      <4>2. CASE ~NotMaintained(c)
        BY <2>12, <4>2 DEF NoSession, ServicesFail, Disposed, DisposeCancelled, NeverActive,
           Raise, Forget, HandleDisconnect
      <4> QED
        BY <4>1, <4>2
    <3>2. statusToken' = None
      BY <3>1 DEF SessionInv
    <3>3. pc'[c] \notin Early
      BY <2>12 DEF NoSession, NotMaintained, ServicesFail, Disposed, DisposeCancelled,
         NeverActive, Raise, Leave, Early, Pair, Levels, TypeInv, TypeOK
    <3> QED
      BY <2>2, <2>6, <2>7, <2>8, <3>1, <3>2, <3>3 DEF QueueInv
  <2>13. CASE ConnectReturns(c)
    <3>1. UNCHANGED <<link, session, statusToken>> /\ c \in activated
      BY <2>13 DEF ConnectReturns
    <3>2. activated' \subseteq activated /\ complete' = complete \cup {c}
      BY <2>13 DEF ConnectReturns, Forget
    <3> QED
      BY <2>2, <2>4, <2>6, <2>7, <3>1, <3>2, QuietStep DEF Relied
  <2> QED
    BY <1>2, <2>9, <2>10, <2>11, <2>12, <2>13 DEF ConnectStep
<1>3. ASSUME NEW d \in Disconnects, DisconnectNothing(d) \/ StartDisconnect(d) PROVE QueueInv'
  <2>1. /\ UNCHANGED <<queue, link, session, ignored, activated, complete>>
        /\ statusToken' \in {None, statusToken} /\ told \subseteq told'
    BY <1>3 DEF DisconnectNothing, StartDisconnect
  <2>2. \A c \in Connects : pc'[c] = pc[c]
    BY <1>3 DEF DisconnectNothing, StartDisconnect, Leave, TypeInv, TypeOK
  <2> QED
    BY <2>1, <2>2, QuietStep DEF Relied
<1>4. ASSUME NEW d \in Disconnects, Settled(d) PROVE QueueInv'
  <2>1. /\ pc[d] = "settle" /\ queue = <<>>
        /\ UNCHANGED <<queue, statusToken, activated, complete, told>>
    BY <1>4 DEF Settled
  <2>2. statusToken = None
    BY <2>1 DEF SessionInv
  <2>3. Relied = {}
    <3>1. \A c \in Connects : pc[c] \notin Late
      BY <2>1 DEF TurnInv, Running, Late
    <3> QED
      BY <2>2, <3>1 DEF Relied, SessionInv, TypeInv
  <2> QED
    BY <2>1, <2>2, <2>3 DEF QueueInv, Relied
<1>5. ASSUME NEW d \in Disconnects, SettledTwice(d) \/ DisconnectCancelled(d) PROVE QueueInv'
  <2>1. UNCHANGED <<queue, link, session, ignored, statusToken, Relied>>
    BY <1>5 DEF SettledTwice, DisconnectCancelled, Relied
  <2>2. \A c \in Connects : pc'[c] = pc[c]
    BY <1>5 DEF SettledTwice, DisconnectCancelled, Leave, TypeInv, TypeOK
  <2> QED
    BY <2>1, <2>2, QuietStep
<1>6. ASSUME NEW x \in Starts \cup Requests,
             \/ RequestStep(x)
             \/ x \in Requests /\ Request(x)
             \/ x \in Starts /\ StartNotify(x)
      PROVE  QueueInv'
  <2>1. UNCHANGED <<queue, link, session, ignored, statusToken, Relied>>
    BY <1>6 DEF RequestStep, RequestEnds, Stopped, Notifying, NotNotifying, Request,
       StartNotify,
       Relied
  <2>2. \A c \in Connects : pc'[c] = pc[c]
    <3>1. \A c \in Connects : c # x
      OBVIOUS
    <3>2. \E l \in Pc : pc' = [pc EXCEPT ![x] = l]
      BY <1>6 DEF RequestStep, RequestEnds, Stopped, Notifying, NotNotifying, Request,
         StartNotify, Leave, Begin, Pc
    <3> QED
      BY <3>1, <3>2 DEF TypeInv, TypeOK
  <2> QED
    BY <2>1, <2>2, QuietStep
<1>7. ASSUME NEW x \in Calls, OperationEnds(x) \/ Interrupt(x) PROVE QueueInv'
  <2>1. UNCHANGED <<queue, link, session, ignored, statusToken, Relied, pc>>
    BY <1>7 DEF OperationEnds, Interrupt, Relied
  <2> QED
    BY <2>1, QuietStep
<1>8. ASSUME NEW c \in Connects, Activate(c) PROVE QueueInv'
  <2>1. /\ link' = [link EXCEPT ![c] = "active"] /\ Post("active", c)
        /\ UNCHANGED <<pc, session, statusToken, activated, complete, told, ignored>>
    BY <1>8 DEF Activate
  <2>2. link'[c] = "active" /\ \A e \in Connects \ {c} : link'[e] = link[e]
    BY <2>1 DEF TypeInv
  <2>3. \A e \in Connects \cup {None} : e # None /\ link[e] = "active" => link'[e] = "active"
    BY <2>2
  <2>4. CASE statusToken # c
    <3>1. queue' = queue
      BY <2>1, <2>4 DEF Post
    <3>2. statusToken \in Connects \cup {None} /\ Relied \subseteq Connects
      BY DEF Relied, TypeInv, TypeOK
    <3> QED
      BY <2>1, <2>3, <3>1, <3>2 DEF QueueInv, Relied
  <2>5. CASE statusToken = c
    <3>1. session = c
      BY <2>5 DEF SessionInv
    <3>2. \A e \in Connects : pc[e] \notin Early
      BY <3>1 DEF SessionInv
    <3>3. <<"active", c>> \in {"active", "closed"} \X Connects
      OBVIOUS
    <3>4. /\ \A i \in 1..Len(queue) : i \in 1..Len(queue') /\ queue'[i] = queue[i]
          /\ \A i \in 1..Len(queue') : i \in 1..Len(queue) \/ queue'[i][2] = c
      BY <2>1, <3>3, Added DEF Post, TypeInv
    <3>5. \A i \in 1..Len(queue') : queue'[i][2] = session
      BY <3>1, <3>4 DEF QueueInv
    <3>6. \A e \in Relied :
             \/ link'[e] = "active" \/ e \in ignored
             \/ \E i \in 1..Len(queue') : queue'[i] = <<"closed", e>>
      BY <2>2, <3>4 DEF QueueInv, Relied, TypeInv
    <3>7. link'[statusToken] = "active"
      BY <2>2, <2>5
    <3> QED
      BY <2>1, <3>2, <3>5, <3>6, <3>7 DEF QueueInv, Relied
  <2> QED
    BY <2>4, <2>5
<1>9. ASSUME NEW c \in Connects, Drop(c) PROVE QueueInv'
  <2>1. /\ link' = [link EXCEPT ![c] = "down"] /\ Post("closed", c)
        /\ UNCHANGED <<pc, session, statusToken, activated, complete, told, ignored>>
    BY <1>9 DEF Drop
  <2>4. \A e \in Connects \ {c} : link'[e] = link[e]
    BY <2>1 DEF TypeInv
  <2>5. CASE statusToken = c
    <3>8. session = c
      BY <2>5 DEF SessionInv
    <3>9. \A e \in Connects : pc[e] \notin Early
      BY <3>8 DEF SessionInv
    <3>1. /\ queue' = Append(queue, <<"closed", c>>)
          /\ <<"closed", c>> \in {"active", "closed"} \X Connects
      BY <2>1, <2>5 DEF Post
    <3> DEFINE n == Len(queue) + 1
    <3>2. /\ Len(queue) \in Nat /\ Len(queue') = n /\ queue'[n] = <<"closed", c>>
          /\ \A i \in 1..Len(queue) : queue'[i] = queue[i]
      BY <3>1, Added DEF TypeInv
    <3>3. /\ \A i \in 1..Len(queue) : i \in 1..Len(queue') /\ i < n
          /\ n \in 1..Len(queue')
          /\ \A i \in 1..Len(queue') : i \in 1..Len(queue) \/ i = n
      BY <3>2
    <3>4. queue'[n][1] = "closed" /\ queue'[n][2] = c
      BY <3>2
    <3>5. \A i \in 1..Len(queue') : queue'[i][2] = session
      BY <3>2, <3>3, <3>4, <3>8 DEF QueueInv
    <3>6. \A i \in 1..Len(queue') : queue'[i][1] = "active" => n > i
      BY <3>2, <3>3, <3>4
    <3>7. \A e \in Relied :
           \/ link'[e] = "active" \/ e \in ignored
           \/ \E i \in 1..Len(queue') : queue'[i] = <<"closed", e>>
      BY <2>4, <3>2, <3>3 DEF QueueInv, Relied, TypeInv
    <3> HIDE DEF n
    <3> QED
      BY <2>1, <3>3, <3>4, <3>5, <3>6, <3>7, <3>9 DEF QueueInv, Relied
  <2>6. CASE statusToken # c
    <3>1. queue' = queue
      BY <2>1, <2>6 DEF Post
    <3>2. \A e \in Relied : e # c /\ e \in Connects
      BY <2>6 DEF Relied, SessionInv, TypeInv
    <3>3. statusToken \in Connects \cup {None}
      BY DEF TypeInv, TypeOK
    <3> QED
      BY <2>1, <2>4, <2>6, <3>1, <3>2, <3>3 DEF QueueInv, Relied
  <2> QED
    BY <2>5, <2>6
<1>10. CASE Event
  <2>1. queue # <<>> /\ queue' = Tail(queue) /\ UNCHANGED <<pc, complete>>
    BY <1>10 DEF Event, SessionActive, SessionClosed, SessionClosedEarly
  <2>2. /\ Head(queue) = queue[1] /\ queue[1] = <<queue[1][1], queue[1][2]>>
        /\ Len(queue) \in Nat \ {0} /\ Len(queue') = Len(queue) - 1
        /\ \A i \in 1..Len(queue') : queue'[i] = queue[i + 1]
    BY <2>1, Taken DEF TypeInv
  <2>3. /\ \A i \in 1..Len(queue') : i + 1 \in 1..Len(queue)
        /\ 1 \in 1..Len(queue)
        /\ \A j \in 1..Len(queue) : j > 1 => j - 1 \in 1..Len(queue') /\ queue'[j - 1] = queue[j]
    BY <2>2
  <2>4. \A c \in Connects : pc[c] \notin Early
    BY <2>1 DEF QueueInv
  <2>5. session # None =>
           queue[1][2] = session /\ \A i \in 1..Len(queue') : queue'[i][2] = session
    BY <2>2, <2>3 DEF QueueInv
  <2>6. ASSUME UNCHANGED <<statusToken, link>>, statusToken # None,
               NEW i \in 1..Len(queue'), queue'[i][1] = "active"
        PROVE  \/ link'[statusToken] = "active"
               \/ \E j \in 1..Len(queue') : j > i /\ queue'[j][1] = "closed"
    <3>1. i + 1 \in 1..Len(queue) /\ queue[i + 1][1] = "active"
      BY <2>2, <2>3, <2>6
    <3>2. CASE link[statusToken] = "active"
      BY <2>6, <3>2
    <3>3. CASE \E j \in 1..Len(queue) : j > i + 1 /\ queue[j][1] = "closed"
      <4>1. PICK j \in 1..Len(queue) : j > i + 1 /\ queue[j][1] = "closed"
        BY <3>3
      <4>2. j - 1 \in 1..Len(queue') /\ queue'[j - 1] = queue[j] /\ j - 1 > i
        BY <2>2, <2>3, <4>1
      <4> QED
        BY <4>1, <4>2
    <3> QED
      BY <2>6, <3>1, <3>2, <3>3 DEF QueueInv
  <2>7. \A e : (\E i \in 1..Len(queue) : queue[i] = <<"closed", e>>) =>
           \/ queue[1] = <<"closed", e>>
           \/ \E i \in 1..Len(queue') : queue'[i] = <<"closed", e>>
    <3>1. ASSUME NEW e, NEW i \in 1..Len(queue), queue[i] = <<"closed", e>>, i # 1
          PROVE  \E j \in 1..Len(queue') : queue'[j] = <<"closed", e>>
      <4>1. i > 1
        BY <2>2, <3>1
      <4> QED
        BY <2>3, <3>1, <4>1
    <3> QED
      BY <3>1
  <2>8. CASE SessionActive
    <3>1. /\ queue[1][1] = "active" /\ UNCHANGED <<session, statusToken, link, told, ignored>>
          /\ activated' = activated
                \cup {c \in Connects : Running(c) /\ pc[c] \notin Pair \cup {"requester"}}
      BY <2>2, <2>8 DEF SessionActive
    <3>2. \A c \in activated' \ activated : c \in Connects /\ pc[c] \in Late
      BY <2>4, <3>1 DEF TurnInv
    <3>3. \A c \in activated' \ activated : session = c /\ statusToken = c /\ c # None
      BY <3>2 DEF SessionInv
    <3>4. \A c \in activated' \ activated :
             link[c] = "active" \/ \E j \in 1..Len(queue) : j > 1 /\ queue[j][1] = "closed"
      BY <2>3, <3>1, <3>3 DEF QueueInv
    <3>5. ASSUME NEW c \in activated' \ activated,
                 NEW j \in 1..Len(queue), j > 1, queue[j][1] = "closed"
          PROVE  \E i \in 1..Len(queue') : queue'[i] = <<"closed", c>>
      <4>1. queue[j][2] = c /\ queue[j] = <<queue[j][1], queue[j][2]>>
        <5>1. queue[j] \in {"active", "closed"} \X Connects
          BY DEF TypeInv
        <5> QED
          BY <3>3, <5>1 DEF QueueInv
      <4> QED
        BY <2>3, <3>5, <4>1
    <3>6. \A c \in activated' \ activated :
             link[c] = "active" \/ \E i \in 1..Len(queue') : queue'[i] = <<"closed", c>>
      BY <3>4, <3>5
    <3>7. \A c : queue[1] # <<"closed", c>>
      BY <3>1
    <3>8. \A c \in Relied :
             \/ link[c] = "active" \/ c \in ignored
             \/ \E i \in 1..Len(queue') : queue'[i] = <<"closed", c>>
      BY <2>7, <3>7 DEF QueueInv, Relied
    <3> QED
      BY <2>1, <2>4, <2>5, <2>6, <3>1, <3>6, <3>8 DEF QueueInv, Relied
  <2>9. CASE SessionClosed
    <3>1. /\ queue[1][2] \in complete /\ told' = told \cup {queue[1][2]}
          /\ session' = None /\ statusToken' = IF session = None THEN statusToken ELSE None
          /\ UNCHANGED activated
      BY <2>2, <2>9 DEF SessionClosed, HandleDisconnect
    <3>2. statusToken' = None
      BY <3>1 DEF SessionInv
    <3>3. complete \subseteq told'
      BY <2>5, <3>1 DEF SessionInv, TypeInv
    <3>4. activated = {}
      <4>1. \A c \in activated : session = c /\ pc[c] # "done" /\ c # None
        BY DEF SessionInv, Late, TypeInv
      <4>2. \A c \in activated : c \in complete /\ c \in Connects
        BY <2>5, <3>1, <4>1 DEF TypeInv
      <4> QED
        BY <4>1, <4>2 DEF SessionInv
    <3> QED
      BY <2>1, <2>4, <3>1, <3>2, <3>3, <3>4 DEF QueueInv
  <2>10. CASE SessionClosedEarly
    <3>1. /\ ignored' = ignored \cup {queue[1][2]}
          /\ UNCHANGED <<session, statusToken, link, told, activated>>
      BY <2>2, <2>10 DEF SessionClosedEarly
    <3>2. \A c : queue[1] = <<"closed", c>> => c \in ignored'
      BY <3>1
    <3>3. \A c \in Relied :
             \/ link[c] = "active" \/ c \in ignored'
             \/ \E i \in 1..Len(queue') : queue'[i] = <<"closed", c>>
      BY <2>7, <3>1, <3>2 DEF QueueInv, Relied
    <3> QED
      BY <2>1, <2>4, <2>5, <2>6, <3>1, <3>3 DEF QueueInv, Relied
  <2> QED
    BY <1>10, <2>8, <2>9, <2>10 DEF Event
<1>11. CASE UNCHANGED vars
  BY <1>11, QuietStep DEF vars, Relied
<1> QED
  BY <1>1, <1>2, <1>3, <1>4, <1>5, <1>6, <1>7, <1>8, <1>9, <1>10, <1>11 DEF Next, DisconnectStep

-----------------------------------------------------------------------------
\* The inductive invariant holds: what the theorems below rest on.
THEOREM Invariant == Spec => []IInv
<1>1. Init => IInv
  <2> USE CallsAssumption DEF Init, Running, Calls
  <2>1. Init => TypeInv
    BY DEF TypeInv, TypeOK, Pc, Outcomes
  <2>2. Init => TurnInv /\ SettleInv
    BY DEF TurnInv, SettleInv
  <2>3. Init => SessionInv
    BY DEF SessionInv, Early, Late, Pair, Levels
  <2>4. Init => ReachInv
    BY DEF ReachInv, Early, Late, Pair, Levels
  <2>5. Init => QueueInv
    BY DEF QueueInv, Early, Pair, Levels
  <2>6. Init => NotifyInv
    BY DEF NotifyInv, NotifyTracked
  <2>7. Init => AskInv
    BY DEF AskInv, Succeeds, Ended
  <2> QED
    BY <2>1, <2>2, <2>3, <2>4, <2>5, <2>6, <2>7 DEF IInv
<1>2. IInv /\ [Next]_vars => IInv'
  BY TypeStep, TurnStep, SessionStep, ReachStep, AskStep, QueueStep, NotifyStep DEF IInv
<1> QED
  BY <1>1, <1>2, PTL DEF Spec

\* Every variable keeps its type, and an operation is awaited only where the code awaits one.
THEOREM TypeInvariant == Spec => []TypeOK
<1>1. IInv => TypeOK
  BY DEF IInv, TypeInv
<1> QED
  BY <1>1, Invariant, PTL

\* Whatever is open at WinRT when no connect() or disconnect() runs can be reached
\* (NothingStranded): every open session is the client's, but for that of a connect() that was
\* cancelled before it had taken it; so is every requester, but for one lost in the same way or
\* by a pairing that failed; and of the service objects of other collections none is kept open
\* but by an enumeration that failed half-way.
THEOREM NothingIsStranded == Spec => []NothingStranded
<1>1. IInv => NothingStranded
  <2> SUFFICES ASSUME IInv, \A x \in Connects \cup Disconnects : ~Running(x)
               PROVE  /\ openSessions \subseteq
                            {session} \cup {c \in Connects : pc[c] = "lostSession"}
                      /\ session # None => services # None
                      /\ openRequesters \subseteq {requester}
                            \cup {c \in Connects : pc[c] \in {"unpaired", "lostRequester"}}
                      /\ \A c \in Connects :
                            services # c /\ pc[c] # "spilled" => open[c] \cap kept[c] = {}
    BY DEF NothingStranded
  <2>1. \A c \in Connects : pc[c] \notin Late \cup {"requester", "session"}
    BY DEF Running, Late
  <2>2. session # None => session \in Connects
    BY DEF IInv, TypeInv, TypeOK
  <2>3. openSessions \subseteq {session} \cup {c \in Connects : pc[c] = "lostSession"}
    BY <2>1 DEF IInv, SessionInv
  <2>4. session # None => services # None
    BY <2>1, <2>2 DEF IInv, SessionInv, ReachInv
  <2>5. openRequesters \subseteq
           {requester} \cup {c \in Connects : pc[c] \in {"unpaired", "lostRequester"}}
    BY <2>1 DEF IInv, ReachInv
  <2>6. \A c \in Connects : services # c /\ pc[c] # "spilled" => open[c] \cap kept[c] = {}
    BY <2>1 DEF IInv, ReachInv, Late
  <2> QED
    BY <2>3, <2>4, <2>5, <2>6
<1> QED
  BY <1>1, Invariant, PTL

\* The end of a session that connect() has returned reaches the disconnected callback
\* (LossReported): its handler is registered while the link is up, and then the event is queued.
THEOREM LossIsReported == Spec => []LossReported
<1>1. IInv => LossReported
  BY DEF IInv, TypeInv, SessionInv, QueueInv, LossReported
<1> QED
  BY <1>1, Invariant, PTL

\* A handler that is registered in the client's session is the one that stop_notify() and
\* disconnect() remove, unless another start_notify() has taken its place (NotifyTracked).
THEOREM NotificationsAreTracked == Spec => []NotifyTracked
<1>1. IInv => NotifyTracked
  BY DEF IInv, NotifyInv
<1> QED
  BY <1>1, Invariant, PTL

\* The refinement mapping of SessionsInTurn.
PhaseBar == [c \in Connects |-> Phase(c)]

\* The end of a session that connect() has returned is reported.
LEMMA ToldStep ==
  ASSUME IInv, NEW c \in complete, told' = told \cup {c}, \A x \in Connects : pc'[x] = pc[x]
  PROVE  [Promise!Next]_PhaseBar
<1>1. c \in Connects /\ pc[c] = "done"
  BY DEF IInv, TypeInv, SessionInv
<1>2. \A x \in Connects \ {c} : Phase(x)' = Phase(x)
  BY DEF Phase, Running
<1>3. PhaseBar' = [PhaseBar EXCEPT ![c] = "reported"] /\ Phase(c) \in {"open", "reported"}
  BY <1>1, <1>2 DEF Phase, PhaseBar, Running
<1>4. CASE Phase(c) = "open"
  <2>1. Promise!Report(c)
    BY <1>1, <1>3, <1>4 DEF PhaseBar, Promise!Report, Promise!Become, Promise!Alive
  <2> QED
    BY <1>1, <2>1 DEF Promise!Next
<1>5. CASE Phase(c) = "reported"
  BY <1>1, <1>3, <1>5 DEF PhaseBar
<1> QED
  BY <1>3, <1>4, <1>5

\* Every step of the client is a step of Session or leaves its phases alone.
LEMMA PhaseStep ==
  ASSUME IInv, [Next]_vars
  PROVE  [Promise!Next]_PhaseBar
<1> USE CallsAssumption DEF Calls, client, connects, winrt, history
<1>1. ASSUME NEW c \in Connects, StartConnect(c) PROVE [Promise!Next]_PhaseBar
  <2>1. pc[c] = "idle" /\ session = None /\ told' = told /\ \A x \in Connects : ~Running(x)
    BY <1>1 DEF StartConnect
  <2>2. pc'[c] = "requester" /\ \A x \in Connects \ {c} : pc'[x] = pc[x]
    BY <1>1 DEF StartConnect, Begin, IInv, TypeInv, TypeOK
  <2>3. \A x \in Connects : pc[x] = "done" => x \in told
    BY <2>1 DEF IInv, SessionInv
  <2>4. \A x \in Connects : Phase(x) \notin {"trying", "open"}
    BY <2>1, <2>3 DEF Phase
  <2>5. PhaseBar' = [PhaseBar EXCEPT ![c] = "trying"] /\ Phase(c) = "idle"
    BY <2>1, <2>2 DEF PhaseBar, Phase, Running
  <2>6. Promise!Try(c)
    BY <2>4, <2>5 DEF PhaseBar, Promise!Try, Promise!Become, Promise!Alive
  <2> QED
    BY <2>6 DEF Promise!Next
<1>2. ASSUME NEW c \in Connects, ConnectStep(c) PROVE [Promise!Next]_PhaseBar
  <2>1. told' = told /\ Running(c) /\ \E l \in ConnectPc : pc' = [pc EXCEPT ![c] = l]
    BY <1>2, ConnectGoesOn DEF Begin, Leave
  <2>2. pc'[c] # "idle" /\ \A x \in Connects \ {c} : pc'[x] = pc[x]
    BY <2>1 DEF ConnectPc, Pair, Levels, IInv, TypeInv, TypeOK
  <2>3. \A x \in Connects \ {c} : Phase(x)' = Phase(x)
    BY <2>1, <2>2 DEF Phase, Running
  <2>4. Phase(c) = "trying" /\ Phase(c)' \in {"trying", "failed", "open", "reported"}
    BY <2>1, <2>2 DEF Phase, Running
  <2>5. PhaseBar' = [PhaseBar EXCEPT ![c] = Phase(c)']
    BY <2>3 DEF PhaseBar
  <2>6. CASE Phase(c)' = "trying"
    BY <2>4, <2>5, <2>6 DEF PhaseBar
  <2>7. CASE Phase(c)' # "trying"
    <3>1. Promise!Fail(c) \/ Promise!Open(c) \/ Promise!Report(c)
      BY <2>4, <2>5, <2>7 DEF PhaseBar, Promise!Fail, Promise!Open, Promise!Report,
         Promise!Become, Promise!Alive
    <3> QED
      BY <3>1 DEF Promise!Next
  <2> QED
    BY <2>6, <2>7
<1>3. ASSUME told' = told, \A x \in Connects : pc'[x] = pc[x]
      PROVE  PhaseBar' = PhaseBar
  BY <1>3 DEF PhaseBar, Phase, Running
<1>4. ASSUME NEW x \in Calls \ Connects, NEW l, Leave(x, l) \/ Begin(x, l)
      PROVE  \A c \in Connects : pc'[c] = pc[c]
  BY <1>4 DEF Leave, Begin, IInv, TypeInv, TypeOK
<1>5. ASSUME NEW d \in Disconnects, StartDisconnect(d) PROVE [Promise!Next]_PhaseBar
  <2>1. \A c \in Connects : pc'[c] = pc[c]
    BY <1>4, <1>5 DEF StartDisconnect
  <2>2. CASE told' = told
    BY <1>3, <2>1, <2>2
  <2>3. CASE session # None /\ told' = told \cup {session}
    <3>1. session \in Connects /\ pc[session] \notin Late
      BY <1>5, <2>3 DEF StartDisconnect, Running, Late, IInv, TypeInv, TypeOK
    <3>2. session \in complete
      BY <2>3, <3>1 DEF IInv, SessionInv
    <3> QED
      BY <2>1, <2>3, <3>2, ToldStep
  <2> QED
    BY <1>5, <2>2, <2>3 DEF StartDisconnect
<1>6. ASSUME NEW d \in Disconnects, DisconnectNothing(d) \/ DisconnectStep(d)
      PROVE  PhaseBar' = PhaseBar
  <2>1. d \in Calls \ Connects
    OBVIOUS
  <2>2. told' = told /\ \E l \in Pc : Leave(d, l)
    BY <1>6 DEF DisconnectNothing, DisconnectStep, Settled, SettledTwice,
       DisconnectCancelled, Pc
  <2> QED
    BY <1>3, <1>4, <2>1, <2>2
<1>7. ASSUME NEW x \in Starts \cup Requests,
             \/ RequestStep(x)
             \/ x \in Requests /\ Request(x)
             \/ x \in Starts /\ StartNotify(x)
      PROVE  PhaseBar' = PhaseBar
  <2>1. x \in Calls \ Connects
    OBVIOUS
  <2>2. told' = told /\ \E l \in Pc : Leave(x, l) \/ Begin(x, l)
    BY <1>7 DEF RequestStep, RequestEnds, Stopped, Notifying, NotNotifying, Request,
       StartNotify, Pc
  <2> QED
    BY <1>3, <1>4, <2>1, <2>2
<1>8. CASE SessionClosed
  <2>1. Head(queue)[2] \in complete /\ told' = told \cup {Head(queue)[2]} /\ pc' = pc
    BY <1>8 DEF SessionClosed
  <2> QED
    BY <2>1, ToldStep
<1>9. CASE SessionActive \/ SessionClosedEarly
  BY <1>3, <1>9 DEF SessionActive, SessionClosedEarly
<1>10. ASSUME NEW x \in Calls, OperationEnds(x) \/ Interrupt(x) PROVE PhaseBar' = PhaseBar
  BY <1>3, <1>10 DEF OperationEnds, Interrupt
<1>11. ASSUME NEW c \in Connects, Activate(c) \/ Drop(c) PROVE PhaseBar' = PhaseBar
  BY <1>3, <1>11 DEF Activate, Drop
<1>12. CASE UNCHANGED vars
  BY <1>3, <1>12 DEF vars
<1> QED
  BY <1>1, <1>2, <1>5, <1>6, <1>7, <1>8, <1>9, <1>10, <1>11, <1>12 DEF Next, Event

\* The client implements Session (SessionsInTurn): no session begins before the last one has
\* failed or been reported.
THEOREM SessionsRefine == Spec => SessionsInTurn
<1>1. Init => Promise!Init
  BY DEF Init, Promise!Init, Phase, Calls
<1>2. IInv /\ [Next]_vars => [Promise!Next]_PhaseBar
  BY PhaseStep
<1> QED
  BY <1>1, <1>2, Invariant, PTL DEF Spec, SessionsInTurn, Promise!Spec, PhaseBar

-----------------------------------------------------------------------------
(***************************************************************************)
(* THE SCANNER.  As long as no start() meets another and no stop() another, *)
(* one watcher at most runs and it is self.watcher; what is still queued    *)
(* when stop() returns is from the watcher whose start() ran last, and the  *)
(* answers start() awaits are queued behind it.                             *)
(***************************************************************************)

\* What Windows raises, and the status of a watcher that is not over and of one that is.
Events  == {"received", "stopped"}
StillRuns == {"created", "started", "stopping"}
IsOver   == {"stopped", "aborted"}

Entries ==
    [kind : {"received"}, who : Watchers, device : Devices, part : Parts]
    \cup [kind : {"stopped"}, who : Watchers, device : {None}, part : {None}]
    \cup [kind : {"answer", "wake", "close"}, who : Users, device : {None}, part : {None}]

\* The callbacks of a queue.
Within(q) == {q[i] : i \in 1..Len(q)}

\* What Windows raised is ahead of the answer that user x awaits.
Ahead(x, q) ==
    \A i, j \in 1..Len(q) :
        q[i].kind = "answer" /\ q[i].who = x /\ q[j].kind \in Events => j < i

ScanTypeInv ==
    /\ ScanTypeOK
    /\ watcher # None => event # None
    /\ \A u \in Users : at[u] \in StartPC => u \in Watchers
    /\ loop \in Seq(Entries)
    /\ pairs \in [Devices -> [Parts -> Watchers \cup {None}]]
    /\ DOMAIN seen = Devices
    /\ listeners \subseteq Finders /\ overlap \in BOOLEAN

\* A watcher is there when its start() has passed both awaits, and what is queued is from a
\* user who is far enough.
LoopInv ==
    /\ \A w \in Watchers : at[w] \in {"idle", "adapter", "radio"} => status[w] = "none"
    /\ \A e \in Within(loop) :
          /\ e.kind = "stopped" => status[e.who] \in IsOver
          /\ e.kind = "answer" => at[e.who] # "idle"
          /\ e.kind = "wake" => at[e.who] \in {"stopping", "done", "cancelled"}
    /\ event = None => hooked = {} /\ \A e \in Within(loop) : e.kind # "stopped"

\* ListenersInUse, over the callbacks that are queued.
Closing(u) == \E e \in Within(loop) : e.kind = "close" /\ e.who = u
ListenInv  == \A u \in listeners : at[u] = "body" \/ Closing(u)

\* One start() and one stop() at a time, and what they hold.
OneInv ==
    /\ \A x, y \in Users : at[x] \in StartPC /\ at[y] \in StartPC => x = y
    /\ \A x, y \in Users : at[x] = "stopping" /\ at[y] = "stopping" => x = y
    /\ \A x \in Users : at[x] \in {"adapter", "radio"} => watcher = None
    /\ \A x \in Users : at[x] = "stopping" => watcher # None /\ waits[x] = watcher
    /\ watcher \in {None, event} /\ hooked \subseteq {watcher}

\* What is queued is from the last watcher, and none of it is left when start() clears its data.
OrderInv ==
    /\ \A e \in Within(loop) : e.kind \in Events => e.who = event
    /\ \A x \in Users : at[x] = "adapter" => Ahead(x, loop)
    /\ \A x \in Users : at[x] = "radio" => \A e \in Within(loop) : e.kind \notin Events

\* Only self.watcher runs; a stop() that is woken finds it over.
EndInv ==
    /\ \A w \in Watchers : status[w] \in StillRuns => w = watcher
    /\ \A w \in isSet : status[w] \in IsOver
    /\ \A e \in Within(loop) :
          e.kind = "wake" /\ at[e.who] = "stopping" => status[watcher] \in IsOver

FreshInv ==
    \A d \in Devices, p \in Parts :
        /\ pairs[d][p] \in {None, event}
        /\ seen[d] # None => seen[d][p] \in {None, event}

CalmInv == OneInv /\ OrderInv /\ EndInv /\ FreshInv

ScanIInv == ScanTypeInv /\ LoopInv /\ ListenInv /\ (~overlap => CalmInv)

-----------------------------------------------------------------------------
\* The event loop's queue: a callback taken, a callback added, and tasks woken.
LEMMA ScanTaken ==
  ASSUME NEW S, NEW q \in Seq(S), q # <<>>
  PROVE  /\ Tail(q) \in Seq(S) /\ Head(q) \in Within(q)
         /\ Within(Tail(q)) \subseteq Within(q)
         /\ Within(q) \subseteq Within(Tail(q)) \cup {Head(q)}
         /\ \A x : Ahead(x, q) => Ahead(x, Tail(q))
<1> DEFINE t == Tail(q)
<1>1. /\ t \in Seq(S) /\ Len(t) = Len(q) - 1 /\ Len(q) \in Nat \ {0}
      /\ Head(q) = q[1] /\ \A i \in 1..(Len(q) - 1) : t[i] = q[i + 1]
  OBVIOUS
<1> HIDE DEF t
<1>2. \A i \in 1..Len(t) : i + 1 \in 1..Len(q) /\ t[i] = q[i + 1]
  BY <1>1
<1>3. Head(q) \in Within(q) /\ Within(t) \subseteq Within(q)
  BY <1>1, <1>2 DEF Within
<1>4. ASSUME NEW i \in 1..Len(q) PROVE q[i] \in Within(t) \cup {Head(q)}
  <2>1. CASE i = 1
    BY <1>1, <2>1
  <2>2. CASE i # 1
    <3>1. i - 1 \in 1..Len(t) /\ t[i - 1] = q[i]
      BY <1>1, <2>2
    <3> QED
      BY <3>1 DEF Within
  <2> QED
    BY <2>1, <2>2
<1>5. ASSUME NEW x, Ahead(x, q) PROVE Ahead(x, t)
  <2> SUFFICES ASSUME NEW i \in 1..Len(t), NEW j \in 1..Len(t),
                      t[i].kind = "answer", t[i].who = x, t[j].kind \in Events
               PROVE  j < i
    BY DEF Ahead
  <2>1. j + 1 < i + 1
    BY <1>2, <1>5 DEF Ahead
  <2> QED
    BY <1>1, <2>1
<1> QED
  BY <1>1, <1>3, <1>4, <1>5 DEF t, Within

\* Two queues one after the other: no order is disturbed if nothing of Windows' is in the second.
LEMMA Joined ==
  ASSUME NEW S, NEW q \in Seq(S), NEW r \in Seq(S), \A e \in Within(r) : e.kind \notin Events
  PROVE  /\ q \o r \in Seq(S)
         /\ Within(q \o r) = Within(q) \cup Within(r)
         /\ \A x : Ahead(x, q) => Ahead(x, q \o r)
<1> DEFINE t == q \o r
<1>1. /\ t \in Seq(S) /\ Len(t) = Len(q) + Len(r) /\ Len(q) \in Nat /\ Len(r) \in Nat
      /\ \A i \in 1..Len(q) : t[i] = q[i]
      /\ \A i \in (Len(q) + 1)..Len(t) : t[i] = r[i - Len(q)]
  OBVIOUS
<1> HIDE DEF t
<1>2. \A i \in 1..Len(r) : Len(q) + i \in 1..Len(t) /\ t[Len(q) + i] = r[i]
  BY <1>1
<1>3. \A i \in 1..Len(t) : (i \in 1..Len(q) /\ t[i] = q[i])
                           \/ (i > Len(q) /\ i - Len(q) \in 1..Len(r) /\ t[i] = r[i - Len(q)])
  BY <1>1
<1>4. Within(t) \subseteq Within(q) \cup Within(r)
  BY <1>3 DEF Within
<1>5. Within(q) \subseteq Within(t) /\ Within(r) \subseteq Within(t)
  BY <1>1, <1>2 DEF Within
<1>6. ASSUME NEW x, Ahead(x, q) PROVE Ahead(x, t)
  <2> SUFFICES ASSUME NEW i \in 1..Len(t), NEW j \in 1..Len(t),
                      t[i].kind = "answer", t[i].who = x, t[j].kind \in Events
               PROVE  j < i
    BY DEF Ahead
  <2>1. j \in 1..Len(q) /\ t[j] = q[j]
    BY <1>3 DEF Within
  <2>2. CASE i \in 1..Len(q) /\ t[i] = q[i]
    BY <1>6, <2>1, <2>2 DEF Ahead
  <2>3. CASE i > Len(q)
    BY <1>1, <2>1, <2>3
  <2> QED
    BY <1>3, <2>2, <2>3
<1> QED
  BY <1>1, <1>4, <1>5, <1>6 DEF t

\* Of the end of the queue, only an event disturbs the order.
LEMMA Appended ==
  ASSUME NEW S, NEW q \in Seq(S), NEW e \in S
  PROVE  /\ Append(q, e) \in Seq(S)
         /\ Within(Append(q, e)) = Within(q) \cup {e}
         /\ e.kind \notin Events => \A x : Ahead(x, q) => Ahead(x, Append(q, e))
<1> DEFINE t == Append(q, e)
<1>1. /\ t \in Seq(S) /\ Len(t) = Len(q) + 1 /\ Len(q) \in Nat
      /\ t[Len(q) + 1] = e /\ \A i \in 1..Len(q) : t[i] = q[i]
  OBVIOUS
<1> HIDE DEF t
<1>2. \A i \in 1..Len(t) : (i \in 1..Len(q) /\ t[i] = q[i]) \/ (i = Len(q) + 1 /\ t[i] = e)
  BY <1>1
<1>3. Within(t) \subseteq Within(q) \cup {e}
  BY <1>2 DEF Within
<1>4. Within(q) \subseteq Within(t) /\ e \in Within(t)
  <2>1. Len(q) + 1 \in 1..Len(t) /\ \A i \in 1..Len(q) : i \in 1..Len(t)
    BY <1>1
  <2> QED
    BY <1>1, <2>1 DEF Within
<1>5. ASSUME e.kind \notin Events, NEW x, Ahead(x, q) PROVE Ahead(x, t)
  <2> SUFFICES ASSUME NEW i \in 1..Len(t), NEW j \in 1..Len(t),
                      t[i].kind = "answer", t[i].who = x, t[j].kind \in Events
               PROVE  j < i
    BY DEF Ahead
  <2>1. j \in 1..Len(q) /\ t[j] = q[j]
    BY <1>2, <1>5
  <2>2. CASE i \in 1..Len(q) /\ t[i] = q[i]
    BY <1>5, <2>1, <2>2 DEF Ahead
  <2>3. CASE i = Len(q) + 1
    BY <1>1, <2>1, <2>3
  <2> QED
    BY <1>2, <2>2, <2>3
<1> QED
  BY <1>1, <1>3, <1>4, <1>5 DEF t

\* The answer at the head of the queue has nothing of Windows' behind it.
LEMMA NothingLeft ==
  ASSUME NEW S, NEW q \in Seq(S), q # <<>>, NEW x, Ahead(x, q),
         Head(q).kind = "answer", Head(q).who = x
  PROVE  \A e \in Within(q) : e.kind \notin Events
<1>1. Len(q) \in Nat \ {0} /\ Head(q) = q[1]
  OBVIOUS
<1>2. \A j \in 1..Len(q) : q[j].kind \in Events => j < 1
  BY <1>1 DEF Ahead
<1> QED
  BY <1>1, <1>2 DEF Within

\* A callback is taken from the loop by Ready().
LEMMA Popped ==
  ASSUME ScanTypeInv, loop # <<>>, loop' = Tail(loop)
  PROVE  /\ loop' \in Seq(Entries) /\ Head(loop) \in Entries /\ Head(loop) \in Within(loop)
         /\ Within(loop') \subseteq Within(loop)
         /\ Within(loop) \subseteq Within(loop') \cup {Head(loop)}
         /\ \A x : Ahead(x, loop) => Ahead(x, loop')
<1>1. loop \in Seq(Entries)
  BY DEF ScanTypeInv
<1>2. Head(loop) \in Entries
  BY <1>1
<1> QED
  BY <1>1, <1>2, ScanTaken

\* A callback is added to it.
LEMMA Pushed ==
  ASSUME ScanTypeInv, NEW e \in Entries, loop' = Append(loop, e)
  PROVE  /\ loop' \in Seq(Entries) /\ Within(loop') = Within(loop) \cup {e}
         /\ e.kind \notin Events => \A x : Ahead(x, loop) => Ahead(x, loop')
  BY Appended DEF ScanTypeInv

\* A callback with no data: an answer or a close.
LEMMA PushedSoon ==
  ASSUME ScanTypeInv, NEW kind \in {"answer", "close"}, NEW u \in Users, loop' = Soon(kind, u)
  PROVE  \E e \in Entries :
            /\ e.kind = kind /\ e.who = u
            /\ loop' \in Seq(Entries) /\ Within(loop') = Within(loop) \cup {e}
            /\ \A x : Ahead(x, loop) => Ahead(x, loop')
<1> DEFINE e == Callback(kind, u, None, None)
<1>1. e \in Entries /\ e.kind = kind /\ e.who = u /\ kind \notin Events
  BY DEF Callback, Entries, Events
<1>2. loop' = Append(loop, e)
  BY DEF Soon
<1> HIDE DEF e
<1> QED
  BY <1>1, <1>2, Pushed

\* The tasks that the handler of Stopped wakes.
LEMMA Woken ==
  ASSUME ScanTypeInv, HandleStopped
  PROVE  /\ loop' \in Seq(Entries) /\ Head(loop) \in Within(loop)
         /\ Head(loop).kind = "stopped"
         /\ \A e \in Within(loop') : \/ e \in Within(loop)
                                     \/ /\ e.kind = "wake" /\ e.who \in Users
                                        /\ at[e.who] = "stopping" /\ waits[e.who] = event
         /\ Within(loop) \subseteq Within(loop') \cup {Head(loop)}
         /\ \A x : Ahead(x, loop) => Ahead(x, loop')
<1> DEFINE woken == {u \in Users : at[u] = "stopping" /\ waits[u] = event}
<1>1. PICK order \in [1..Cardinality(woken) -> woken] :
         loop' = Tail(loop) \o [i \in DOMAIN order |-> Callback("wake", order[i], None, None)]
  BY DEF HandleStopped
<1>2. Cardinality(woken) \in Nat
  <2>1. IsFiniteSet(Users) /\ woken \subseteq Users
    BY WinRTScannerAssumption
  <2> HIDE DEF woken
  <2> QED
    BY <2>1, FS_Subset, FS_CardinalityType
<1> DEFINE r == [i \in DOMAIN order |-> Callback("wake", order[i], None, None)]
<1>3. \A i \in DOMAIN order : order[i] \in woken
  OBVIOUS
<1>4. \A u \in woken : Callback("wake", u, None, None) \in Entries
  BY DEF Callback, Entries
<1>5. r \in Seq(Entries) /\ Len(r) = Cardinality(woken) /\ DOMAIN order = 1..Len(r)
  <2> HIDE DEF woken, Entries, Callback
  <2>1. DOMAIN order = 1..Cardinality(woken) /\ \A i \in DOMAIN order : r[i] \in Entries
    BY <1>3, <1>4
  <2>2. r \in [1..Cardinality(woken) -> Entries]
    BY <2>1
  <2>3. DOMAIN r = 1..Cardinality(woken)
    BY <2>1
  <2> HIDE DEF r
  <2> QED
    BY <1>2, <2>1, <2>2, <2>3
<1>6. \A e \in Within(r) : /\ e.kind = "wake" /\ e.who \in Users
                           /\ at[e.who] = "stopping" /\ waits[e.who] = event
  <2>1. \A i \in 1..Len(r) : r[i] = Callback("wake", order[i], None, None) /\ order[i] \in woken
    BY <1>3, <1>5
  <2>2. \A u \in woken : u \in Users /\ at[u] = "stopping" /\ waits[u] = event
    OBVIOUS
  <2>3. \A u : LET e == Callback("wake", u, None, None) IN e.kind = "wake" /\ e.who = u
    BY DEF Callback
  <2>4. \A i \in 1..Len(r) : r[i].kind = "wake" /\ r[i].who \in woken
    <3> HIDE DEF r, woken, Callback
    <3> QED
      BY <2>1, <2>3
  <2> HIDE DEF r, woken
  <2> QED
    BY <2>2, <2>4 DEF Within
<1>7. loop \in Seq(Entries) /\ loop # <<>> /\ Head(loop).kind = "stopped"
  BY DEF ScanTypeInv, HandleStopped
<1>8. loop' = Tail(loop) \o r
  BY <1>1
<1> HIDE DEF r, woken
<1>9. \A e \in Within(r) : e.kind \notin Events
  BY <1>6 DEF Events
<1>10. Tail(loop) \in Seq(Entries)
  BY <1>7, ScanTaken
<1>11. /\ loop' \in Seq(Entries) /\ Within(loop') = Within(Tail(loop)) \cup Within(r)
       /\ \A x : Ahead(x, Tail(loop)) => Ahead(x, loop')
  BY <1>5, <1>8, <1>9, <1>10, Joined
<1>12. /\ Head(loop) \in Within(loop) /\ Within(Tail(loop)) \subseteq Within(loop)
       /\ Within(loop) \subseteq Within(Tail(loop)) \cup {Head(loop)}
       /\ \A x : Ahead(x, loop) => Ahead(x, Tail(loop))
  BY <1>7, ScanTaken
<1> QED
  BY <1>6, <1>7, <1>11, <1>12

-----------------------------------------------------------------------------
\* What stop() changes of the types, in whichever call it is.
LEMMA StopTypes ==
  ASSUME ScanTypeInv, NEW u \in Users, BeginStop(u), event' = event, isSet' = isSet
  PROVE  /\ ScanTypeOK' /\ (watcher' # None => event' # None) /\ overlap' \in BOOLEAN
         /\ \A x \in Users : at'[x] \in StartPC => x \in Watchers
<1>1. CASE watcher = None
  BY <1>1 DEF ScanTypeInv, BeginStop, Goto, EndPC, StartPC, ScanTypeOK
<1>2. CASE watcher # None
  <2>1. StopWatcher(u) /\ watcher \in Watchers /\ event \in Watchers /\ event # None
    BY <1>2, WinRTScannerAssumption, BleakScannerAssumption
    DEF BeginStop, ScanTypeInv, ScanTypeOK, Watchers, WithScanner
  <2>2. /\ status' \in [Watchers -> {"none", "created", "started", "stopping", "stopped", "aborted"}]
        /\ owed' \subseteq Watchers /\ overlap' \in BOOLEAN
    BY <2>1 DEF StopWatcher, ScanTypeInv, ScanTypeOK
  <2>3. /\ \/ Goto(u, "stopping") /\ waits' = [waits EXCEPT ![u] = event]
           \/ Goto(u, "done") /\ waits' = waits
        /\ watcher' \in {watcher, None} /\ hooked' \subseteq hooked
    BY <2>1 DEF StopWatcher, Finish
  <2>4. /\ waits' \in [Users -> Watchers \cup {None}] /\ hooked' \subseteq Watchers
        /\ at' \in [Users -> StartPC \cup EndPC \cup {"idle", "body", "stopping"}]
        /\ \A x \in Users : at'[x] = "stopping" => waits'[x] # None
        /\ \A x \in Users : at'[x] \in StartPC => x \in Watchers
    BY <2>1, <2>3 DEF Goto, ScanTypeInv, ScanTypeOK, StartPC, EndPC
  <2>5. ScanTypeOK'
    BY <2>1, <2>2, <2>3, <2>4 DEF ScanTypeInv, ScanTypeOK
  <2>6. watcher' # None => event' # None
    BY <2>1
  <2> QED
    BY <2>2, <2>4, <2>5, <2>6
<1> QED
  BY <1>1, <1>2

\* Every step keeps the types.
LEMMA ScanTypeStep ==
  ASSUME ScanTypeInv, LoopInv, [ScanNext]_scanVars
  PROVE  ScanTypeInv'
<1> USE WinRTScannerAssumption, BleakScannerAssumption
<1>0. None \notin Users /\ None \notin Devices /\ Watchers \subseteq Users /\ Finders \subseteq Users
  BY DEF Watchers, WithScanner
<1>1. ASSUME NEW u \in Users, BeginStop(u), event' = event, isSet' = isSet, pairs' = pairs,
             DOMAIN seen' = DOMAIN seen, listeners' \subseteq listeners, loop' \in Seq(Entries)
      PROVE  ScanTypeInv'
  <2>1. /\ ScanTypeOK' /\ (watcher' # None => event' # None) /\ overlap' \in BOOLEAN
        /\ \A x \in Users : at'[x] \in StartPC => x \in Watchers
    BY <1>1, StopTypes
  <2> QED
    BY <1>1, <2>1 DEF ScanTypeInv
<1>2. ASSUME NEW u \in Users, Stop(u) \/ LeaveBody(u) PROVE ScanTypeInv'
  BY <1>1, <1>2 DEF Stop, LeaveBody, Unregister, scanner, ScanTypeInv
<1>3. ASSUME NEW u \in Users, TakeNext(u) PROVE ScanTypeInv'
  <2>1. CASE Head(packets[u]) \in Wanted
    <3>1. loop' = Soon("close", u)
      BY <1>3, <2>1 DEF TakeNext
    <3>2. loop' \in Seq(Entries)
      BY <3>1, PushedSoon
    <3> QED
      BY <1>1, <1>3, <2>1, <3>2 DEF TakeNext
  <2>2. CASE Head(packets[u]) \notin Wanted
    BY <1>3, <2>2 DEF TakeNext, ScanTypeInv, ScanTypeOK
  <2> QED
    BY <2>1, <2>2
<1>4. ASSUME NEW u \in Users, Start(u) \/ Cancel(u) PROVE ScanTypeInv'
  <2>1. /\ at' \in [Users -> StartPC \cup EndPC \cup {"idle", "body", "stopping"}]
        /\ \A x \in Users : at'[x] = "stopping" => waits[x] # None
        /\ \A x \in Users : at'[x] \in StartPC => x \in Watchers
    BY <1>4 DEF Start, Cancel, Goto, StartPC, EndPC, ScanTypeInv, ScanTypeOK
  <2>2. overlap' \in BOOLEAN
    BY <1>4 DEF Start, Cancel, ScanTypeInv
  <2>3. UNCHANGED <<scanner, watcher, event, isSet, waits, pairs, loop, windows>>
    BY <1>4 DEF Start, Cancel
  <2>4. ScanTypeOK'
    BY <2>1, <2>3 DEF ScanTypeInv, ScanTypeOK, windows
  <2> QED
    BY <2>1, <2>2, <2>3, <2>4 DEF ScanTypeInv, scanner
<1>5. ASSUME NEW u \in Users, Answer(u) PROVE ScanTypeInv'
  <2>1. loop' = Soon("answer", u)
    BY <1>5 DEF Answer
  <2>2. loop' \in Seq(Entries)
    BY <2>1, PushedSoon
  <2> QED
    BY <1>5, <2>2 DEF Answer, ScanTypeInv, ScanTypeOK, windows, scanner
<1>6. ASSUME NEW u \in Users, GotAdapter(u) \/ NotAvailable(u) \/ StopEnds(u)
      PROVE  ScanTypeInv'
  <2>1. loop' \in Seq(Entries)
    BY <1>6, Popped DEF GotAdapter, NotAvailable, StopEnds, Ready
  <2>2. /\ at' \in [Users -> StartPC \cup EndPC \cup {"idle", "body", "stopping"}]
        /\ \A x \in Users : at'[x] = "stopping" => waits[x] # None
        /\ \A x \in Users : at'[x] \in StartPC => x \in Watchers
    BY <1>6 DEF GotAdapter, NotAvailable, StopEnds, Finish, Goto, StartPC, EndPC, ScanTypeInv, ScanTypeOK
  <2>3. watcher' \in {watcher, None} /\ hooked' \subseteq hooked
    BY <1>6 DEF GotAdapter, NotAvailable, StopEnds, Finish, windows
  <2>4. UNCHANGED <<scanner, event, isSet, waits, pairs, status, owed, overlap>>
    BY <1>6 DEF GotAdapter, NotAvailable, StopEnds, windows
  <2>5. ScanTypeOK'
    BY <2>2, <2>3, <2>4 DEF ScanTypeInv, ScanTypeOK
  <2> QED
    BY <2>1, <2>2, <2>3, <2>4, <2>5 DEF ScanTypeInv, scanner
<1>7. ASSUME NEW u \in Watchers, NEW st, Check(u, st)
      PROVE  /\ at' \in [Users -> StartPC \cup EndPC \cup {"idle", "body", "stopping"}]
             /\ \A x \in Users : at'[x] = "stopping" => waits[x] # None
             /\ \A x \in Users : at'[x] \in StartPC => x \in Watchers
             /\ listeners' \subseteq Finders
  BY <1>7 DEF Check, Goto, BeginBody, StartPC, EndPC, ScanTypeInv, ScanTypeOK
<1>8. ASSUME NEW u \in Users, Create(u) PROVE ScanTypeInv'
  <2>1. loop' \in Seq(Entries)
    BY <1>8, Popped DEF Create, Ready
  <2>2. u \in Watchers
    BY <1>8 DEF Create, StartPC, ScanTypeInv
  <2>3. pairs' \in [Devices -> [Parts -> Watchers \cup {None}]] /\ DOMAIN seen' = Devices
    BY <1>8 DEF Create
  <2>4. PICK st \in {"created", "started"} :
           status' = [status EXCEPT ![u] = st] /\ Check(u, st)
    BY <1>8 DEF Create
  <2>5. /\ status' \in [Watchers -> {"none", "created", "started", "stopping", "stopped", "aborted"}]
        /\ hooked' \subseteq Watchers /\ watcher' = u /\ event' = u
    BY <1>8, <2>2, <2>4 DEF Create, ScanTypeInv, ScanTypeOK
  <2>6. isSet' = isSet /\ waits' = waits /\ owed' = owed /\ overlap' = overlap
    BY <1>8 DEF Create
  <2>7. /\ at' \in [Users -> StartPC \cup EndPC \cup {"idle", "body", "stopping"}]
        /\ \A x \in Users : at'[x] = "stopping" => waits[x] # None
        /\ \A x \in Users : at'[x] \in StartPC => x \in Watchers
        /\ listeners' \subseteq Finders
    BY <1>7, <2>2, <2>4
  <2>8. ScanTypeOK'
    BY <2>2, <2>5, <2>6, <2>7 DEF ScanTypeInv, ScanTypeOK
  <2> QED
    BY <1>0, <2>1, <2>3, <2>5, <2>6, <2>7, <2>8 DEF ScanTypeInv
<1>9. ASSUME NEW u \in Users, Polled(u) PROVE ScanTypeInv'
  <2> DEFINE st == IF watcher = None THEN "none" ELSE status[watcher]
  <2>1. u \in Watchers /\ Check(u, st)
    BY <1>9 DEF Polled, StartPC, ScanTypeInv
  <2> HIDE DEF st
  <2>2. /\ at' \in [Users -> StartPC \cup EndPC \cup {"idle", "body", "stopping"}]
        /\ \A x \in Users : at'[x] = "stopping" => waits[x] # None
        /\ \A x \in Users : at'[x] \in StartPC => x \in Watchers
        /\ listeners' \subseteq Finders
    BY <1>7, <2>1
  <2>3. UNCHANGED <<seen, watcher, event, isSet, waits, pairs, loop, windows, overlap>>
    BY <1>9 DEF Polled
  <2>4. ScanTypeOK'
    BY <2>2, <2>3 DEF ScanTypeInv, ScanTypeOK, windows
  <2> QED
    BY <2>2, <2>3, <2>4 DEF ScanTypeInv
<1>10. ASSUME NEW u \in Users, CloseGenerator(u) \/ Skip(u) PROVE ScanTypeInv'
  <2>1. loop' \in Seq(Entries)
    BY <1>10, Popped DEF CloseGenerator, Skip, Ready
  <2> QED
    BY <1>10, <2>1 DEF CloseGenerator, Skip, Unregister, ScanTypeInv, ScanTypeOK, windows, scanner
<1>11. CASE HandleReceived
  <2>1. loop' \in Seq(Entries) /\ Head(loop) \in Entries
    BY <1>11, Popped DEF HandleReceived
  <2>2. Head(loop).device \in Devices /\ Head(loop).part \in Parts /\ Head(loop).who \in Watchers
    BY <1>11, <2>1 DEF HandleReceived, Entries
  <2>3. pairs' \in [Devices -> [Parts -> Watchers \cup {None}]] /\ DOMAIN seen' = Devices
    BY <1>11, <2>2 DEF HandleReceived, Merge, Report, ScanTypeInv
  <2> QED
    BY <1>11, <2>1, <2>3 DEF HandleReceived, ScanTypeInv, ScanTypeOK, windows
<1>12. CASE HandleStopped
  <2>1. loop' \in Seq(Entries)
    BY <1>12, Woken
  <2>2. event # None
    BY <1>12, Woken DEF LoopInv
  <2>3. isSet' \subseteq Watchers
    BY <1>12, <2>2 DEF HandleStopped, ScanTypeInv, ScanTypeOK
  <2> QED
    BY <1>12, <2>1, <2>3 DEF HandleStopped, ScanTypeInv, ScanTypeOK, windows, scanner
<1>13. ASSUME NEW w \in Watchers, WatcherStarts(w) \/ WatcherStops(w) \/ WatcherAborts(w)
       PROVE  ScanTypeInv'
  BY <1>13 DEF WatcherStarts, WatcherStops, WatcherAborts, Become, ScanTypeInv, ScanTypeOK, scanner
<1>14. ASSUME NEW w \in Watchers, NEW d \in Devices, NEW p \in Parts, Receive(w, d, p)
       PROVE  ScanTypeInv'
  <2>1. Callback("received", w, d, p) \in Entries
    BY DEF Callback, Entries
  <2>2. loop' \in Seq(Entries)
    BY <1>14, <2>1, Pushed DEF Receive
  <2> QED
    BY <1>14, <2>2 DEF Receive, ScanTypeInv, ScanTypeOK, scanner
<1>15. ASSUME NEW w \in Watchers, RaiseStopped(w) PROVE ScanTypeInv'
  <2>1. Callback("stopped", w, None, None) \in Entries
    BY DEF Callback, Entries
  <2>2. loop' \in Seq(Entries)
    BY <1>15, <2>1, Pushed DEF RaiseStopped, Soon, ScanTypeInv
  <2> QED
    BY <1>15, <2>2 DEF RaiseStopped, ScanTypeInv, ScanTypeOK, scanner
<1>16. CASE UNCHANGED scanVars
  BY <1>16 DEF scanVars, windows, scanner, ScanTypeInv, ScanTypeOK
<1> QED
  BY <1>2, <1>3, <1>4, <1>5, <1>6, <1>8, <1>9, <1>10, <1>11, <1>12, <1>13, <1>14, <1>15, <1>16
  DEF ScanNext, Handle, Windows, Radio, Call, Task

-----------------------------------------------------------------------------
\* What stop() does to the calls, to the watchers and to their handlers.
LEMMA StopMoves ==
  ASSUME ScanTypeInv, NEW u \in Users, BeginStop(u)
  PROVE  /\ \A x \in Users \ {u} : at'[x] = at[x]
         /\ at'[u] \in {"raised", "stopping", "done"}
         /\ \A w \in Watchers : \/ status'[w] = status[w]
                                \/ status[w] \in StillRuns /\ status'[w] = "stopping"
         /\ hooked' \subseteq hooked
<1>1. CASE watcher = None
  BY <1>1 DEF BeginStop, Goto, ScanTypeInv, ScanTypeOK
<1>2. CASE watcher # None
  <2>1. StopWatcher(u) /\ watcher \in Watchers
    BY <1>2 DEF BeginStop, ScanTypeInv, ScanTypeOK
  <2>2. /\ Goto(u, "stopping") \/ Goto(u, "done")
        /\ hooked' \subseteq hooked
    BY <2>1 DEF StopWatcher, Finish
  <2>3. status' = [status EXCEPT ![watcher] =
                     IF @ \in {"created", "started"} THEN "stopping" ELSE @]
    BY <2>1 DEF StopWatcher
  <2>4. \A w \in Watchers : \/ status'[w] = status[w]
                            \/ status[w] \in StillRuns /\ status'[w] = "stopping"
    BY <2>1, <2>3 DEF ScanTypeInv, ScanTypeOK, StillRuns
  <2> QED
    BY <2>2, <2>4 DEF Goto, ScanTypeInv, ScanTypeOK
<1> QED
  BY <1>1, <1>2

\* Every step keeps what the queue and the watchers say of the calls.
LEMMA LoopStep ==
  ASSUME ScanTypeInv, LoopInv, [ScanNext]_scanVars
  PROVE  LoopInv'
<1> USE WinRTScannerAssumption, BleakScannerAssumption
<1>0. None \notin Users /\ Watchers \subseteq Users /\ Finders \subseteq Users
  BY DEF Watchers, WithScanner
\* What every step below keeps to: what it queues is harmless, no call goes back, and a watcher
\* that is over stays so.
<1> DEFINE Harmless(e) ==
             \/ e \in Within(loop)
             \/ e.kind \in {"received", "close"}
             \/ e.kind = "stopped" /\ status[e.who] \in IsOver /\ event # None
             \/ e.kind = "answer" /\ at[e.who] # "idle"
             \/ e.kind = "wake" /\ at[e.who] = "stopping"
           NotYet(w) == at[w] \in {"idle", "adapter", "radio"}
           Woke(x) == at[x] \in {"stopping", "done", "cancelled"}
<1>1. ASSUME \A e \in Within(loop') : Harmless(e),
             \A x \in Users : (at'[x] = "idle" => at[x] = "idle") /\ (Woke(x) => Woke(x)'),
             \A w \in Watchers :
                /\ NotYet(w)' => NotYet(w)
                /\ \/ status'[w] = status[w]
                   \/ status[w] = "none" /\ ~NotYet(w)'
                   \/ status[w] \in StillRuns,
             event' # None \/ (event' = event /\ hooked' \subseteq hooked),
             event' = None => event = None,
             ScanTypeInv'
      PROVE  LoopInv'
  <2>1. loop \in Seq(Entries) /\ loop' \in Seq(Entries)
    BY <1>1 DEF ScanTypeInv
  <2>2. \A e \in Within(loop') : e \in Entries
    BY <2>1 DEF Within
  <2>3. \A w \in Watchers : NotYet(w)' => status'[w] = "none"
    BY <1>1 DEF LoopInv, StillRuns
  <2>4. ASSUME NEW e \in Within(loop')
        PROVE  /\ e.kind = "stopped" => status'[e.who] \in IsOver /\ (event' = None => event # None)
               /\ e.kind = "answer" => at'[e.who] # "idle"
               /\ e.kind = "wake" => Woke(e.who)'
    <3>1. Harmless(e) /\ e \in Entries
      BY <1>1, <2>2
    <3>2. e.who \in Users /\ (e.kind = "stopped" => e.who \in Watchers)
      BY <1>0, <3>1 DEF Entries
    <3>3. /\ e.kind = "stopped" => status[e.who] \in IsOver /\ event # None
          /\ e.kind = "answer" => at[e.who] # "idle"
          /\ e.kind = "wake" => Woke(e.who)
      BY <3>1 DEF LoopInv
    <3> QED
      BY <1>1, <3>2, <3>3 DEF IsOver, StillRuns
  <2>5. event' = None => hooked' = {}
    BY <1>1 DEF LoopInv
  <2> QED
    BY <1>1, <2>3, <2>4, <2>5 DEF LoopInv
<1>2. ScanTypeInv'
  BY ScanTypeStep
<1> HIDE DEF Harmless, NotYet, Woke
<1>3. ASSUME loop' = loop \/ (loop # <<>> /\ loop' = Tail(loop))
      PROVE  \A e \in Within(loop') : Harmless(e)
  BY <1>3, Popped DEF Harmless
<1>4. ASSUME NEW u \in Users,
             \A x \in Users \ {u} : at'[x] = at[x],
             at'[u] # "idle", Woke(u) => Woke(u)', NotYet(u)' => NotYet(u)
      PROVE  /\ \A x \in Users : (at'[x] = "idle" => at[x] = "idle") /\ (Woke(x) => Woke(x)')
             /\ \A w \in Watchers : NotYet(w)' => NotYet(w)
  BY <1>0, <1>4 DEF Woke, NotYet
<1>5. ASSUME at' = at
      PROVE  /\ \A x \in Users : (at'[x] = "idle" => at[x] = "idle") /\ (Woke(x) => Woke(x)')
             /\ \A w \in Watchers : NotYet(w)' => NotYet(w)
  BY <1>5 DEF Woke, NotYet
<1>6. ASSUME NEW u \in Users, at[u] \in {"idle", "body"}, BeginStop(u), event' = event,
             \A e \in Within(loop') : Harmless(e)
      PROVE  LoopInv'
  <2>1. /\ \A x \in Users \ {u} : at'[x] = at[x]
        /\ at'[u] \in {"raised", "stopping", "done"}
        /\ \A w \in Watchers : status'[w] = status[w] \/ status[w] \in StillRuns
        /\ hooked' \subseteq hooked
    BY <1>6, StopMoves
  <2>2. at'[u] # "idle" /\ (Woke(u) => Woke(u)') /\ (NotYet(u)' => NotYet(u))
    BY <1>6, <2>1 DEF Woke, NotYet
  <2>3. /\ \A x \in Users : (at'[x] = "idle" => at[x] = "idle") /\ (Woke(x) => Woke(x)')
        /\ \A w \in Watchers : NotYet(w)' => NotYet(w)
    BY <1>4, <2>1, <2>2
  <2> QED
    BY <1>1, <1>2, <1>6, <2>1, <2>3
<1>7. ASSUME NEW u \in Users, NEW kind \in {"answer", "close"}, loop' = Soon(kind, u),
             kind = "answer" => at[u] # "idle"
      PROVE  \A e \in Within(loop') : Harmless(e)
  BY <1>7, PushedSoon DEF Harmless
<1>8. ASSUME NEW u \in Users, Stop(u) \/ LeaveBody(u) PROVE LoopInv'
  <2>1. /\ at[u] \in {"idle", "body"} /\ BeginStop(u)
        /\ event' = event /\ loop' = loop
    BY <1>8 DEF Stop, LeaveBody
  <2> QED
    BY <1>3, <1>6, <2>1
<1>9. ASSUME NEW u \in Users, TakeNext(u) PROVE LoopInv'
  <2>1. CASE Head(packets[u]) \in Wanted
    <3>1. at[u] = "body" /\ BeginStop(u) /\ event' = event /\ loop' = Soon("close", u)
      BY <1>9, <2>1 DEF TakeNext
    <3> QED
      BY <1>6, <1>7, <3>1
  <2>2. CASE Head(packets[u]) \notin Wanted
    BY <1>9, <2>2 DEF TakeNext, LoopInv
  <2> QED
    BY <2>1, <2>2
<1>10. ASSUME NEW u \in Users, UNCHANGED <<status, hooked, event>>,
              loop' = loop \/ (loop # <<>> /\ loop' = Tail(loop)),
              \A x \in Users \ {u} : at'[x] = at[x],
              at'[u] # "idle", Woke(u) => Woke(u)', NotYet(u)' => NotYet(u)
       PROVE  LoopInv'
  <2>1. /\ \A x \in Users : (at'[x] = "idle" => at[x] = "idle") /\ (Woke(x) => Woke(x)')
        /\ \A w \in Watchers : NotYet(w)' => NotYet(w)
    BY <1>4, <1>10
  <2>2. \A e \in Within(loop') : Harmless(e)
    BY <1>3, <1>10
  <2> QED
    BY <1>1, <1>2, <1>10, <2>1, <2>2
<1>11. ASSUME NEW u \in Users,
              Start(u) \/ Cancel(u) \/ GotAdapter(u) \/ NotAvailable(u)
       PROVE  LoopInv'
  <2>1. /\ \A x \in Users \ {u} : at'[x] = at[x]
        /\ at'[u] # "idle" /\ (Woke(u) => Woke(u)') /\ (NotYet(u)' => NotYet(u))
    BY <1>11 DEF Start, Cancel, GotAdapter, NotAvailable, Goto, StartPC, Woke, NotYet,
                 ScanTypeInv, ScanTypeOK
  <2>2. UNCHANGED <<status, hooked, event>>
    BY <1>11 DEF Start, Cancel, GotAdapter, NotAvailable, windows
  <2>3. loop' = loop \/ (loop # <<>> /\ loop' = Tail(loop))
    BY <1>11 DEF Start, Cancel, GotAdapter, NotAvailable, Ready
  <2> QED
    BY <1>10, <2>1, <2>2, <2>3
<1>12. ASSUME NEW u \in Users, StopEnds(u) PROVE LoopInv'
  <2>1. /\ \A x \in Users \ {u} : at'[x] = at[x]
        /\ at'[u] # "idle" /\ (Woke(u) => Woke(u)') /\ (NotYet(u)' => NotYet(u))
    BY <1>12 DEF StopEnds, Finish, Goto, Woke, NotYet, ScanTypeInv, ScanTypeOK
  <2>2. /\ UNCHANGED <<status, event>> /\ hooked' \subseteq hooked
        /\ loop # <<>> /\ loop' = Tail(loop)
    BY <1>12 DEF StopEnds, Finish, Ready
  <2>3. /\ \A x \in Users : (at'[x] = "idle" => at[x] = "idle") /\ (Woke(x) => Woke(x)')
        /\ \A w \in Watchers : NotYet(w)' => NotYet(w)
    BY <1>4, <2>1
  <2>4. \A e \in Within(loop') : Harmless(e)
    BY <1>3, <2>2
  <2> QED
    BY <1>1, <1>2, <2>2, <2>3, <2>4
<1>13. ASSUME NEW u \in Users, NEW st, Check(u, st)
       PROVE  /\ \A x \in Users \ {u} : at'[x] = at[x]
              /\ at'[u] \in {"polling", "body", "done", "raised"}
  BY <1>13 DEF Check, Goto, ScanTypeInv, ScanTypeOK
<1>14. ASSUME NEW u \in Users, Create(u) PROVE LoopInv'
  <2>1. u \in Watchers /\ status[u] = "none" /\ at[u] = "radio"
    BY <1>14 DEF Create, StartPC, ScanTypeInv, LoopInv
  <2>2. PICK st \in {"created", "started"} :
           status' = [status EXCEPT ![u] = st] /\ Check(u, st)
    BY <1>14 DEF Create
  <2>3. /\ \A x \in Users \ {u} : at'[x] = at[x]
        /\ at'[u] \in {"polling", "body", "done", "raised"}
    BY <1>13, <2>2
  <2>4. at'[u] # "idle" /\ (Woke(u) => Woke(u)') /\ ~NotYet(u)'
    BY <2>1, <2>3 DEF Woke, NotYet
  <2>5. /\ \A x \in Users : (at'[x] = "idle" => at[x] = "idle") /\ (Woke(x) => Woke(x)')
        /\ \A w \in Watchers : NotYet(w)' => NotYet(w)
    BY <1>4, <2>3, <2>4
  <2>6. \A e \in Within(loop') : Harmless(e)
    BY <1>3, <1>14 DEF Create, Ready
  <2>7. event' = u /\ u # None
    BY <1>0, <1>14 DEF Create
  <2>8. \A w \in Watchers : status'[w] = status[w] \/ (status[w] = "none" /\ ~NotYet(w)')
    BY <2>1, <2>2, <2>4 DEF ScanTypeInv, ScanTypeOK
  <2> QED
    BY <1>1, <1>2, <2>5, <2>6, <2>7, <2>8
<1>15. ASSUME NEW u \in Users, Polled(u) PROVE LoopInv'
  <2> DEFINE st == IF watcher = None THEN "none" ELSE status[watcher]
  <2>1. Check(u, st) /\ at[u] = "polling" /\ loop' = loop /\ UNCHANGED <<status, hooked, event>>
    BY <1>15 DEF Polled, windows
  <2> HIDE DEF st
  <2>2. /\ \A x \in Users \ {u} : at'[x] = at[x]
        /\ at'[u] \in {"polling", "body", "done", "raised"}
    BY <1>13, <2>1
  <2>3. at'[u] # "idle" /\ (Woke(u) => Woke(u)') /\ ~NotYet(u)'
    BY <2>1, <2>2 DEF Woke, NotYet
  <2> QED
    BY <1>10, <2>1, <2>2, <2>3
\* The steps that leave the calls alone.
<1>16. ASSUME at' = at, event' = event, hooked' = hooked,
              \A e \in Within(loop') : Harmless(e),
              \A w \in Watchers : status'[w] = status[w] \/ status[w] \in StillRuns
       PROVE  LoopInv'
  BY <1>1, <1>2, <1>5, <1>16
<1>17. ASSUME NEW u \in Users, CloseGenerator(u) \/ Skip(u) PROVE LoopInv'
  BY <1>3, <1>16, <1>17 DEF CloseGenerator, Skip, Ready, windows
<1>18. ASSUME NEW u \in Users, Answer(u) PROVE LoopInv'
  <2>1. \A e \in Within(loop') : Harmless(e)
    BY <1>7, <1>18 DEF Answer
  <2> QED
    BY <1>16, <1>18, <2>1 DEF Answer, windows
<1>19. CASE HandleReceived
  BY <1>3, <1>16, <1>19 DEF HandleReceived, windows
<1>20. CASE HandleStopped
  <2>1. \A e \in Within(loop') : Harmless(e)
    BY <1>20, Woken DEF Harmless
  <2> QED
    BY <1>16, <1>20, <2>1 DEF HandleStopped, windows
<1>21. ASSUME NEW w \in Watchers, WatcherStarts(w) \/ WatcherStops(w) \/ WatcherAborts(w)
       PROVE  LoopInv'
  <2>1. \A x \in Watchers : status'[x] = status[x] \/ status[x] \in StillRuns
    BY <1>21 DEF WatcherStarts, WatcherStops, WatcherAborts, Become, StillRuns, ScanTypeInv, ScanTypeOK
  <2>2. at' = at /\ event' = event /\ hooked' = hooked /\ loop' = loop
    BY <1>21 DEF WatcherStarts, WatcherStops, WatcherAborts, Become
  <2> QED
    BY <1>3, <1>16, <2>1, <2>2
<1>22. ASSUME NEW w \in Watchers, NEW d \in Devices, NEW p \in Parts, Receive(w, d, p)
       PROVE  LoopInv'
  <2> DEFINE e == Callback("received", w, d, p)
  <2>1. e \in Entries /\ e.kind = "received"
    BY DEF Callback, Entries
  <2>2. loop' = Append(loop, e)
    BY <1>22 DEF Receive
  <2> HIDE DEF e
  <2>3. \A a \in Within(loop') : Harmless(a)
    BY <2>1, <2>2, Pushed DEF Harmless
  <2> QED
    BY <1>16, <1>22, <2>3 DEF Receive
<1>23. ASSUME NEW w \in Watchers, RaiseStopped(w) PROVE LoopInv'
  <2>1. CASE w \in hooked
    <3> DEFINE e == Callback("stopped", w, None, None)
    <3>1. e \in Entries /\ e.kind = "stopped" /\ e.who = w
      BY DEF Callback, Entries
    <3>2. loop' = Append(loop, e)
      BY <1>23, <2>1 DEF RaiseStopped, Soon
    <3> HIDE DEF e
    <3>3. status[w] \in IsOver /\ event # None
      BY <1>23, <2>1 DEF RaiseStopped, LoopInv, IsOver
    <3>4. \A a \in Within(loop') : Harmless(a)
      BY <3>1, <3>2, <3>3, Pushed DEF Harmless
    <3> QED
      BY <1>16, <1>23, <3>4 DEF RaiseStopped
  <2>2. CASE w \notin hooked
    BY <1>3, <1>16, <1>23, <2>2 DEF RaiseStopped
  <2> QED
    BY <2>1, <2>2
<1>24. CASE UNCHANGED scanVars
  BY <1>3, <1>16, <1>24 DEF scanVars, windows
<1> QED
  BY <1>8, <1>9, <1>11, <1>12, <1>14, <1>15, <1>17, <1>18, <1>19, <1>20, <1>21, <1>22, <1>23,
     <1>24 DEF ScanNext, Handle, Windows, Radio, Call, Task

\* Every step keeps the callbacks of the finds in use.
LEMMA ListenStep ==
  ASSUME ScanTypeInv, ListenInv, [ScanNext]_scanVars
  PROVE  ListenInv'
<1> USE WinRTScannerAssumption, BleakScannerAssumption
<1>0. Finders \subseteq WithScanner /\ Finders \cap Stoppers = {} /\ listeners \subseteq Finders
      /\ Finders \subseteq Users
  BY DEF WithScanner, ScanTypeInv
<1> DEFINE KeepsCloses == \A e \in Within(loop) :
                             e.kind = "close" /\ e.who \in listeners' => e \in Within(loop')
<1>1. ASSUME KeepsCloses,
             \A u \in listeners' : \/ u \in listeners /\ (at[u] = "body" => at'[u] = "body")
                                   \/ at'[u] = "body" \/ Closing(u)'
      PROVE  ListenInv'
  BY <1>1 DEF ListenInv, Closing
<1>2. ASSUME loop # <<>>, loop' = Tail(loop), Head(loop).kind # "close"
      PROVE  KeepsCloses
  BY <1>2, Popped
<1>3. ASSUME loop' = loop PROVE KeepsCloses
  BY <1>3
<1> HIDE DEF KeepsCloses
<1>4. ASSUME NEW u \in Users, NEW kind \in {"answer", "close"}, loop' = Soon(kind, u)
      PROVE  KeepsCloses /\ (kind = "close" => Closing(u)')
  BY <1>4, PushedSoon DEF KeepsCloses, Closing
\* No task is in a body but the one the step is about.
<1>5. ASSUME NEW u \in Users, KeepsCloses, listeners' \subseteq listeners,
             \A x \in Users \ {u} : at'[x] = at[x],
             u \in listeners' => at[u] # "body" \/ Closing(u)'
      PROVE  ListenInv'
  BY <1>0, <1>1, <1>5
<1>6. ASSUME KeepsCloses, listeners' \subseteq listeners, at' = at
      PROVE  ListenInv'
  BY <1>1, <1>6
<1>7. ASSUME NEW u \in Users, Stop(u) PROVE ListenInv'
  <2>1. /\ \A x \in Users \ {u} : at'[x] = at[x]
        /\ at[u] = "idle" /\ loop' = loop /\ listeners' = listeners
    BY <1>7, StopMoves DEF Stop, scanner
  <2> QED
    BY <1>3, <1>5, <2>1
<1>8. ASSUME NEW u \in Users, LeaveBody(u) PROVE ListenInv'
  <2>1. /\ \A x \in Users \ {u} : at'[x] = at[x]
        /\ loop' = loop /\ listeners' = listeners \ {u}
    BY <1>8, StopMoves DEF LeaveBody, Unregister
  <2> QED
    BY <1>3, <1>5, <2>1
<1>9. ASSUME NEW u \in Users, TakeNext(u) PROVE ListenInv'
  <2>1. CASE Head(packets[u]) \in Wanted
    <3>1. /\ \A x \in Users \ {u} : at'[x] = at[x]
          /\ loop' = Soon("close", u) /\ listeners' = listeners
      BY <1>9, <2>1, StopMoves DEF TakeNext
    <3> QED
      BY <1>4, <1>5, <3>1
  <2>2. CASE Head(packets[u]) \notin Wanted
    BY <1>3, <1>6, <1>9, <2>2 DEF TakeNext
  <2> QED
    BY <2>1, <2>2
<1>10. ASSUME NEW u \in Users,
              \/ Start(u) \/ Cancel(u)
              \/ GotAdapter(u) \/ NotAvailable(u) \/ StopEnds(u)
       PROVE  ListenInv'
  <2>1. /\ \A x \in Users \ {u} : at'[x] = at[x]
        /\ at[u] # "body" /\ listeners' = listeners
    BY <1>10 DEF Start, Cancel, GotAdapter, NotAvailable, StopEnds, Finish, Goto, StartPC, scanner,
                 ScanTypeInv, ScanTypeOK
  <2>2. loop' = loop \/ (loop # <<>> /\ loop' = Tail(loop) /\ Head(loop).kind # "close")
    BY <1>10 DEF Start, Cancel, GotAdapter, NotAvailable, StopEnds, Ready
  <2> QED
    BY <1>2, <1>3, <1>5, <2>1, <2>2
<1>11. ASSUME NEW u \in Watchers, NEW st, Check(u, st), KeepsCloses, at[u] # "body"
       PROVE  ListenInv'
  <2>1. \A x \in Users \ {u} : at'[x] = at[x]
    BY <1>11 DEF Check, Goto, ScanTypeInv, ScanTypeOK
  <2>2. \/ listeners' = listeners
        \/ listeners' = listeners \cup {u} /\ u \in Finders /\ at'[u] = "body"
    <3>1. u \in Users
      BY DEF Watchers, WithScanner
    <3> QED
      BY <1>0, <1>11, <3>1 DEF Check, Goto, BeginBody, ScanTypeInv, ScanTypeOK
  <2> QED
    BY <1>0, <1>1, <1>11, <2>1, <2>2
<1>12. ASSUME NEW u \in Users, Create(u) PROVE ListenInv'
  <2>1. u \in Watchers /\ at[u] # "body" /\ \E st \in {"created", "started"} : Check(u, st)
    BY <1>12 DEF Create, StartPC, ScanTypeInv
  <2>2. KeepsCloses
    BY <1>2, <1>12 DEF Create, Ready
  <2>3. PICK st \in {"created", "started"} : Check(u, st)
    BY <2>1
  <2> QED
    BY <1>11, <2>1, <2>2, <2>3
<1>13. ASSUME NEW u \in Users, Polled(u) PROVE ListenInv'
  <2> DEFINE st == IF watcher = None THEN "none" ELSE status[watcher]
  <2>1. u \in Watchers /\ at[u] # "body" /\ Check(u, st) /\ loop' = loop
    BY <1>13 DEF Polled, StartPC, ScanTypeInv
  <2> HIDE DEF st
  <2> QED
    BY <1>3, <1>11, <2>1
<1>14. ASSUME NEW u \in Users, CloseGenerator(u) PROVE ListenInv'
  <2>1. /\ loop # <<>> /\ loop' = Tail(loop) /\ Head(loop).who = u
        /\ listeners' = listeners \ {u} /\ at' = at
    BY <1>14 DEF CloseGenerator, Ready, Unregister
  <2>2. KeepsCloses
    BY <2>1, Popped DEF KeepsCloses
  <2> QED
    BY <1>6, <2>1, <2>2
<1>15. ASSUME NEW u \in Users, Skip(u) PROVE ListenInv'
  BY <1>2, <1>6, <1>15 DEF Skip, Ready, scanner
<1>16. ASSUME NEW u \in Users, Answer(u) PROVE ListenInv'
  BY <1>4, <1>6, <1>16 DEF Answer, scanner
<1>17. CASE HandleReceived
  BY <1>2, <1>6, <1>17 DEF HandleReceived
<1>18. CASE HandleStopped
  <2>1. KeepsCloses
    BY <1>18, Woken DEF KeepsCloses
  <2> QED
    BY <1>6, <1>18, <2>1 DEF HandleStopped, scanner
<1>19. ASSUME NEW w \in Watchers, WatcherStarts(w) \/ WatcherStops(w) \/ WatcherAborts(w)
       PROVE  ListenInv'
  BY <1>3, <1>6, <1>19 DEF WatcherStarts, WatcherStops, WatcherAborts, Become, scanner
<1>20. ASSUME NEW w \in Watchers, NEW d \in Devices, NEW p \in Parts, Receive(w, d, p)
       PROVE  ListenInv'
  <2>1. Callback("received", w, d, p) \in Entries
    BY DEF Callback, Entries
  <2>2. KeepsCloses
    BY <1>20, <2>1, Pushed DEF Receive, KeepsCloses
  <2> QED
    BY <1>6, <1>20, <2>2 DEF Receive, scanner
<1>21. ASSUME NEW w \in Watchers, RaiseStopped(w) PROVE ListenInv'
  <2>1. Callback("stopped", w, None, None) \in Entries
    BY DEF Callback, Entries
  <2>2. KeepsCloses
    BY <1>3, <1>21, <2>1, Pushed DEF RaiseStopped, Soon, KeepsCloses
  <2> QED
    BY <1>6, <1>21, <2>2 DEF RaiseStopped, scanner
<1>22. CASE UNCHANGED scanVars
  BY <1>3, <1>6, <1>22 DEF scanVars, scanner
<1> QED
  BY <1>7, <1>8, <1>9, <1>10, <1>12, <1>13, <1>14, <1>15, <1>16, <1>17, <1>18, <1>19, <1>20,
     <1>21, <1>22 DEF ScanNext, Handle, Windows, Radio, Call, Task

-----------------------------------------------------------------------------
\* What stop() does while the calls are in turn: it finds no watcher, it waits for the last
\* one, alone, or it is done because that one is over.
LEMMA CalmStop ==
  ASSUME ScanTypeInv, LoopInv, OneInv, EndInv, NEW u \in Users, at[u] \in {"idle", "body"},
         BeginStop(u), overlap' = FALSE
  PROVE  \/ /\ watcher = None /\ at'[u] = "raised"
            /\ UNCHANGED <<status, waits, hooked, watcher>>
         \/ /\ watcher # None /\ at'[u] = "stopping" /\ \A x \in Users : at[x] # "stopping"
            /\ waits'[u] = watcher /\ \A x \in Users \ {u} : waits'[x] = waits[x]
            /\ UNCHANGED <<hooked, watcher>>
         \/ /\ watcher # None /\ at'[u] = "done" /\ \A x \in Users : at[x] # "stopping"
            /\ watcher' = None /\ hooked' = {} /\ waits' = waits
            /\ \A w \in Watchers : status'[w] \notin StillRuns
<1>1. CASE watcher = None
  BY <1>1 DEF BeginStop, Goto, ScanTypeInv, ScanTypeOK
<1>2. CASE watcher # None
  <2>1. StopWatcher(u) /\ watcher \in Watchers /\ event = watcher
    BY <1>2 DEF BeginStop, ScanTypeInv, ScanTypeOK, OneInv
  <2>2. \A x \in Users : at[x] # "stopping"
    BY <2>1 DEF StopWatcher
  <2>3. status' = [status EXCEPT ![watcher] =
                     IF @ \in {"created", "started"} THEN "stopping" ELSE @]
    BY <2>1 DEF StopWatcher
  <2>4. CASE status'[watcher] = "stopping" /\ event \notin isSet
    BY <1>2, <2>1, <2>2, <2>4 DEF StopWatcher, Goto, ScanTypeInv, ScanTypeOK
  <2>5. CASE ~(status'[watcher] = "stopping" /\ event \notin isSet)
    <3>1. at'[u] = "done" /\ watcher' = None /\ hooked' = {} /\ waits' = waits
      BY <2>1, <2>5 DEF StopWatcher, Finish, Goto, ScanTypeInv, ScanTypeOK, OneInv
    <3>2. status'[watcher] \notin StillRuns
      BY <2>1, <2>3, <2>5 DEF EndInv, IsOver, StillRuns, ScanTypeInv, ScanTypeOK
    <3>3. \A w \in Watchers \ {watcher} : status'[w] = status[w] /\ status[w] \notin StillRuns
      BY <2>3 DEF EndInv, ScanTypeInv, ScanTypeOK
    <3> QED
      BY <1>2, <2>2, <3>1, <3>2, <3>3
  <2> QED
    BY <2>4, <2>5
<1> QED
  BY <1>1, <1>2

\* No step makes calls that met be in turn again.
LEMMA OverlapStep ==
  ASSUME ScanTypeInv, [ScanNext]_scanVars, overlap' = FALSE
  PROVE  overlap = FALSE
<1>1. ASSUME NEW u \in Users, BeginStop(u) PROVE overlap = FALSE
  BY <1>1 DEF BeginStop, StopWatcher, ScanTypeInv
<1>2. ASSUME NEW u \in Users, Stop(u) \/ TakeNext(u) \/ LeaveBody(u) PROVE overlap = FALSE
  BY <1>1, <1>2 DEF Stop, TakeNext, LeaveBody
<1>3. ASSUME NEW u \in Users, Start(u) PROVE overlap = FALSE
  BY <1>3 DEF Start, ScanTypeInv
<1>4. CASE HandleReceived \/ HandleStopped
  BY <1>4 DEF HandleReceived, HandleStopped
<1>5. ASSUME NEW u \in Users, \/ GotAdapter(u) \/ NotAvailable(u) \/ Create(u) \/ StopEnds(u)
                              \/ CloseGenerator(u) \/ Skip(u)
      PROVE  overlap = FALSE
  BY <1>5 DEF GotAdapter, NotAvailable, Create, StopEnds, CloseGenerator, Skip
<1>6. ASSUME NEW u \in Users, Polled(u) \/ Cancel(u) \/ Answer(u) PROVE overlap = FALSE
  BY <1>6 DEF Polled, Cancel, Answer
<1>7. ASSUME NEW w \in Watchers, \/ WatcherStarts(w) \/ WatcherStops(w) \/ WatcherAborts(w)
                                 \/ RaiseStopped(w)
                                 \/ \E d \in Devices, p \in Parts : Receive(w, d, p)
      PROVE  overlap = FALSE
  BY <1>7 DEF WatcherStarts, WatcherStops, WatcherAborts, RaiseStopped, Receive, Become
<1>8. CASE UNCHANGED scanVars
  BY <1>8 DEF scanVars
<1> QED
  BY <1>2, <1>3, <1>4, <1>5, <1>6, <1>7, <1>8 DEF ScanNext, Handle, Windows, Radio, Call, Task

\* Every step keeps one start() and one stop() at a time.
LEMMA OneStep ==
  ASSUME ScanTypeInv, LoopInv, OneInv, EndInv, [ScanNext]_scanVars, overlap' = FALSE
  PROVE  OneInv'
<1> USE WinRTScannerAssumption, BleakScannerAssumption
<1>0. None \notin Users /\ Watchers \subseteq Users
  BY DEF Watchers, WithScanner
<1>1. ASSUME UNCHANGED <<at, watcher, event, waits, hooked>> PROVE OneInv'
  BY <1>1 DEF OneInv
<1>2. ASSUME NEW u \in Users, at[u] \in {"idle", "body"}, BeginStop(u), event' = event
      PROVE  OneInv'
  <2>1. /\ \A x \in Users \ {u} : at'[x] = at[x]
        /\ at'[u] \in {"raised", "stopping", "done"}
    BY <1>2, StopMoves
  <2>2. \/ /\ watcher = None /\ at'[u] = "raised"
           /\ UNCHANGED <<waits, hooked, watcher>>
        \/ /\ watcher # None /\ at'[u] = "stopping" /\ \A x \in Users : at[x] # "stopping"
           /\ waits'[u] = watcher
           /\ UNCHANGED <<hooked, watcher>>
        \/ /\ watcher # None /\ at'[u] = "done" /\ \A x \in Users : at[x] # "stopping"
           /\ watcher' = None /\ hooked' = {}
    BY <1>2, CalmStop
  <2> QED
    BY <1>2, <2>1, <2>2 DEF OneInv, StartPC
<1>3. ASSUME NEW u \in Users, Stop(u) \/ LeaveBody(u) PROVE OneInv'
  BY <1>2, <1>3 DEF Stop, LeaveBody
<1>4. ASSUME NEW u \in Users, TakeNext(u) PROVE OneInv'
  <2>1. CASE Head(packets[u]) \in Wanted
    BY <1>2, <1>4, <2>1 DEF TakeNext
  <2>2. CASE Head(packets[u]) \notin Wanted
    BY <1>1, <1>4, <2>2 DEF TakeNext
  <2> QED
    BY <2>1, <2>2
<1>5. ASSUME NEW u \in Users, Start(u) PROVE OneInv'
  <2>1. /\ \A x \in Users \ {u} : at'[x] = at[x]
        /\ at[u] = "idle"
        /\ UNCHANGED <<watcher, event, waits, hooked>>
    BY <1>5 DEF Start, Goto, windows, ScanTypeInv, ScanTypeOK
  <2>2. \/ at'[u] = "raised"
        \/ at'[u] = "adapter" /\ watcher = None /\ \A x \in Users : at[x] \notin StartPC
    BY <1>5 DEF Start, Goto, ScanTypeInv, ScanTypeOK
  <2> QED
    BY <2>1, <2>2 DEF OneInv, StartPC
<1>6. ASSUME NEW u \in Users, Cancel(u) \/ GotAdapter(u) \/ NotAvailable(u) PROVE OneInv'
  <2>1. /\ \A x \in Users \ {u} : at'[x] = at[x]
        /\ \/ at'[u] \in {"cancelled", "raised"}
           \/ at[u] = "adapter" /\ at'[u] = "radio"
        /\ UNCHANGED <<watcher, event, waits, hooked>>
    BY <1>6 DEF Cancel, GotAdapter, NotAvailable, Goto, windows, ScanTypeInv, ScanTypeOK
  <2> QED
    BY <2>1 DEF OneInv, StartPC
<1>7. ASSUME NEW u \in Users, NEW st, Check(u, st)
      PROVE  /\ \A x \in Users \ {u} : at'[x] = at[x]
             /\ at'[u] \in {"polling", "body", "done", "raised"}
  BY <1>7 DEF Check, Goto, ScanTypeInv, ScanTypeOK
<1>8. ASSUME NEW u \in Users, Create(u) PROVE OneInv'
  <2>1. \E st \in {"created", "started"} : Check(u, st)
    BY <1>8 DEF Create
  <2>2. PICK st \in {"created", "started"} : Check(u, st)
    BY <2>1
  <2>3. /\ \A x \in Users \ {u} : at'[x] = at[x]
        /\ at'[u] \in {"polling", "body", "done", "raised"}
    BY <1>7, <2>2
  <2>4. at[u] = "radio" /\ watcher = None
    BY <1>8 DEF Create, OneInv
  <2>5. \A x \in Users : at[x] # "stopping" /\ (at[x] \in StartPC => x = u)
    BY <2>4 DEF OneInv, StartPC
  <2>6. hooked = {}
    BY <1>0, <2>4 DEF OneInv, ScanTypeInv, ScanTypeOK
  <2>7. watcher' = u /\ event' = u /\ hooked' = {u} /\ waits' = waits
    BY <1>8, <2>6 DEF Create
  <2> QED
    BY <1>0, <2>3, <2>5, <2>7 DEF OneInv, StartPC
<1>9. ASSUME NEW u \in Users, Polled(u) PROVE OneInv'
  <2> DEFINE st == IF watcher = None THEN "none" ELSE status[watcher]
  <2>1. Check(u, st) /\ at[u] = "polling" /\ UNCHANGED <<watcher, event, waits, hooked>>
    BY <1>9 DEF Polled, windows
  <2> HIDE DEF st
  <2>2. /\ \A x \in Users \ {u} : at'[x] = at[x]
        /\ at'[u] \in {"polling", "body", "done", "raised"}
    BY <1>7, <2>1
  <2> QED
    BY <2>1, <2>2 DEF OneInv, StartPC
<1>10. ASSUME NEW u \in Users, StopEnds(u) PROVE OneInv'
  <2>1. /\ \A x \in Users \ {u} : at'[x] = at[x]
        /\ at[u] = "stopping" /\ at'[u] = "done" /\ watcher' = None /\ event' = event
        /\ hooked' = hooked \ {watcher} /\ waits' = waits
    BY <1>10 DEF StopEnds, Finish, Goto, ScanTypeInv, ScanTypeOK
  <2>2. \A x \in Users \ {u} : at[x] # "stopping"
    BY <2>1 DEF OneInv
  <2>3. hooked' = {}
    BY <2>1 DEF OneInv
  <2> QED
    BY <2>1, <2>2, <2>3 DEF OneInv, StartPC
<1>11. ASSUME NEW u \in Users, Answer(u) \/ CloseGenerator(u) \/ Skip(u) PROVE OneInv'
  BY <1>1, <1>11 DEF Answer, CloseGenerator, Skip, windows
<1>12. CASE HandleReceived \/ HandleStopped
  BY <1>1, <1>12 DEF HandleReceived, HandleStopped, windows
<1>13. ASSUME NEW w \in Watchers, \/ WatcherStarts(w) \/ WatcherStops(w) \/ WatcherAborts(w)
                                  \/ RaiseStopped(w)
                                  \/ \E d \in Devices, p \in Parts : Receive(w, d, p)
       PROVE  OneInv'
  BY <1>1, <1>13 DEF WatcherStarts, WatcherStops, WatcherAborts, RaiseStopped, Receive, Become
<1>14. CASE UNCHANGED scanVars
  BY <1>1, <1>14 DEF scanVars, windows
<1> QED
  BY <1>3, <1>4, <1>5, <1>6, <1>8, <1>9, <1>10, <1>11, <1>12, <1>13, <1>14
  DEF ScanNext, Handle, Windows, Radio, Call, Task

\* Every step keeps the order of the queue: GotAdapter is where nothing of Windows' is left.
LEMMA OrderStep ==
  ASSUME ScanTypeInv, LoopInv, OneInv, OrderInv, [ScanNext]_scanVars, overlap' = FALSE
  PROVE  OrderInv'
<1> USE WinRTScannerAssumption, BleakScannerAssumption
<1>0. None \notin Users /\ Watchers \subseteq Users
  BY DEF Watchers, WithScanner
<1> DEFINE Queues ==
             /\ \A e \in Within(loop') :
                   \/ e \in Within(loop) \/ e.kind \notin Events
                   \/ e.who = event /\ \A x \in Users : at[x] \notin {"adapter", "radio"}
             /\ \A x \in Users : at[x] = "adapter" /\ Ahead(x, loop) => Ahead(x, loop')
<1>1. ASSUME Queues, event' = event,
             \A x \in Users : at'[x] \in {"adapter", "radio"} => at'[x] = at[x]
      PROVE  OrderInv'
  BY <1>1 DEF OrderInv
<1>2. ASSUME loop' = loop \/ (loop # <<>> /\ loop' = Tail(loop)) PROVE Queues
  BY <1>2, Popped
<1>3. ASSUME NEW u \in Users, NEW kind \in {"answer", "close"}, loop' = Soon(kind, u)
      PROVE  Queues
  BY <1>3, PushedSoon DEF Events
<1> HIDE DEF Queues
<1>4. ASSUME NEW u \in Users, Stop(u) \/ LeaveBody(u) PROVE OrderInv'
  <2>1. BeginStop(u) /\ loop' = loop /\ event' = event
    BY <1>4 DEF Stop, LeaveBody
  <2>2. \A x \in Users : at'[x] \in {"adapter", "radio"} => at'[x] = at[x]
    BY <2>1, StopMoves
  <2> QED
    BY <1>1, <1>2, <2>1, <2>2
<1>5. ASSUME NEW u \in Users, TakeNext(u) PROVE OrderInv'
  <2>1. CASE Head(packets[u]) \in Wanted
    <3>1. BeginStop(u) /\ loop' = Soon("close", u) /\ event' = event
      BY <1>5, <2>1 DEF TakeNext
    <3>2. \A x \in Users : at'[x] \in {"adapter", "radio"} => at'[x] = at[x]
      BY <3>1, StopMoves
    <3> QED
      BY <1>1, <1>3, <3>1, <3>2
  <2>2. CASE Head(packets[u]) \notin Wanted
    BY <1>1, <1>2, <1>5, <2>2 DEF TakeNext
  <2> QED
    BY <2>1, <2>2
\* Nothing that start() would await is queued yet.
<1>6. ASSUME NEW u \in Users, Start(u) PROVE OrderInv'
  <2>1. /\ \A x \in Users \ {u} : at'[x] = at[x]
        /\ at[u] = "idle"
        /\ at'[u] \in {"adapter", "raised"} /\ loop' = loop /\ event' = event
    BY <1>6 DEF Start, Goto, ScanTypeInv, ScanTypeOK
  <2>2. ASSUME NEW e \in Within(loop), e.kind = "answer", e.who = u PROVE FALSE
    <3>1. at[e.who] # "idle"
      BY <2>2 DEF LoopInv
    <3> QED
      BY <2>1, <2>2, <3>1
  <2>3. \A i \in 1..Len(loop) : ~(loop[i].kind = "answer" /\ loop[i].who = u)
    BY <2>2 DEF Within
  <2>4. Ahead(u, loop)
    BY <2>3 DEF Ahead
  <2> QED
    BY <2>1, <2>4 DEF OrderInv
<1>7. ASSUME NEW u \in Users, Cancel(u) \/ NotAvailable(u) PROVE OrderInv'
  <2>1. /\ \A x \in Users : at'[x] \in {"adapter", "radio"} => at'[x] = at[x]
        /\ event' = event
    BY <1>7 DEF Cancel, NotAvailable, Goto, ScanTypeInv, ScanTypeOK
  <2>2. loop' = loop \/ (loop # <<>> /\ loop' = Tail(loop))
    BY <1>7 DEF Cancel, NotAvailable, Ready
  <2> QED
    BY <1>1, <1>2, <2>1, <2>2
<1>8. ASSUME NEW u \in Users, GotAdapter(u) PROVE OrderInv'
  <2>1. /\ loop # <<>> /\ loop' = Tail(loop) /\ Head(loop).kind = "answer" /\ Head(loop).who = u
        /\ at[u] = "adapter" /\ \A x \in Users \ {u} : at'[x] = at[x]
        /\ event' = event /\ at'[u] = "radio"
    BY <1>8 DEF GotAdapter, Ready, Goto, ScanTypeInv, ScanTypeOK
  <2>2. \A e \in Within(loop) : e.kind \notin Events
    <3>1. loop \in Seq(Entries) /\ Ahead(u, loop)
      BY <2>1 DEF ScanTypeInv, OrderInv
    <3> QED
      BY <2>1, <3>1, NothingLeft
  <2>3. /\ Within(loop') \subseteq Within(loop)
        /\ \A x \in Users : Ahead(x, loop) => Ahead(x, loop')
    BY <2>1, Popped
  <2> QED
    BY <2>1, <2>2, <2>3 DEF OrderInv
<1>9. ASSUME NEW u \in Users, NEW st, Check(u, st)
      PROVE  \A x \in Users : at'[x] \in {"adapter", "radio"} => at'[x] = at[x]
  BY <1>9 DEF Check, Goto, ScanTypeInv, ScanTypeOK
<1>10. ASSUME NEW u \in Users, Create(u) PROVE OrderInv'
  <2>1. PICK st \in {"created", "started"} : Check(u, st)
    BY <1>10 DEF Create
  <2>2. \A x \in Users : at'[x] \in {"adapter", "radio"} => at'[x] = at[x]
    BY <1>9, <2>1
  <2>3. at[u] = "radio" /\ loop # <<>> /\ loop' = Tail(loop)
    BY <1>10 DEF Create, Ready
  <2>4. \A e \in Within(loop') : e.kind \notin Events
    BY <2>3, Popped DEF OrderInv
  <2>5. \A x \in Users : Ahead(x, loop) => Ahead(x, loop')
    BY <2>3, Popped
  <2> QED
    BY <2>2, <2>4, <2>5 DEF OrderInv
<1>11. ASSUME NEW u \in Users, Polled(u) PROVE OrderInv'
  <2> DEFINE st == IF watcher = None THEN "none" ELSE status[watcher]
  <2>1. Check(u, st) /\ loop' = loop /\ event' = event
    BY <1>11 DEF Polled
  <2> HIDE DEF st
  <2>2. \A x \in Users : at'[x] \in {"adapter", "radio"} => at'[x] = at[x]
    BY <1>9, <2>1
  <2> QED
    BY <1>1, <1>2, <2>1, <2>2
<1>12. ASSUME NEW u \in Users, StopEnds(u) PROVE OrderInv'
  <2>1. /\ \A x \in Users : at'[x] \in {"adapter", "radio"} => at'[x] = at[x]
        /\ event' = event /\ loop # <<>> /\ loop' = Tail(loop)
    BY <1>12 DEF StopEnds, Finish, Ready, Goto, ScanTypeInv, ScanTypeOK
  <2> QED
    BY <1>1, <1>2, <2>1
<1>13. ASSUME NEW u \in Users, CloseGenerator(u) \/ Skip(u) PROVE OrderInv'
  BY <1>1, <1>2, <1>13 DEF CloseGenerator, Skip, Ready
<1>14. ASSUME NEW u \in Users, Answer(u) PROVE OrderInv'
  BY <1>1, <1>3, <1>14 DEF Answer
<1>15. CASE HandleReceived
  BY <1>1, <1>2, <1>15 DEF HandleReceived
<1>16. CASE HandleStopped
  <2>1. Queues
    BY <1>16, Woken DEF Queues, Events
  <2> QED
    BY <1>1, <1>16, <2>1 DEF HandleStopped
<1>17. ASSUME NEW w \in Watchers, WatcherStarts(w) \/ WatcherStops(w) \/ WatcherAborts(w)
       PROVE  OrderInv'
  BY <1>1, <1>2, <1>17 DEF WatcherStarts, WatcherStops, WatcherAborts, Become
\* A watcher with handlers is self.watcher, and start() has none while it awaits.
<1>18. ASSUME NEW w \in Watchers, w \in hooked
       PROVE  w = event /\ \A x \in Users : at[x] \notin {"adapter", "radio"}
  BY <1>0, <1>18 DEF OneInv
<1>19. ASSUME NEW e \in Entries, e.who \in hooked, e.who \in Watchers, loop' = Append(loop, e),
              at' = at, event' = event
       PROVE  OrderInv'
  <2>1. Queues
    BY <1>18, <1>19, Pushed DEF Queues
  <2> QED
    BY <1>1, <1>19, <2>1
<1>20. ASSUME NEW w \in Watchers, NEW d \in Devices, NEW p \in Parts, Receive(w, d, p)
       PROVE  OrderInv'
  <2>1. Callback("received", w, d, p) \in Entries /\ Callback("received", w, d, p).who = w
    BY DEF Callback, Entries
  <2> QED
    BY <1>19, <1>20, <2>1 DEF Receive
<1>21. ASSUME NEW w \in Watchers, RaiseStopped(w) PROVE OrderInv'
  <2>1. /\ Callback("stopped", w, None, None) \in Entries
        /\ Callback("stopped", w, None, None).who = w
    BY DEF Callback, Entries
  <2>2. CASE w \in hooked
    BY <1>19, <1>21, <2>1, <2>2 DEF RaiseStopped, Soon
  <2>3. CASE w \notin hooked
    BY <1>1, <1>2, <1>21, <2>3 DEF RaiseStopped
  <2> QED
    BY <2>2, <2>3
<1>22. CASE UNCHANGED scanVars
  BY <1>1, <1>2, <1>22 DEF scanVars
<1> QED
  BY <1>4, <1>5, <1>6, <1>7, <1>8, <1>10, <1>11, <1>12, <1>13, <1>14, <1>15, <1>16, <1>17,
     <1>20, <1>21, <1>22 DEF ScanNext, Handle, Windows, Radio, Call, Task

\* Every step keeps the only watcher that runs in reach, and a stop() waiting until it is over.
LEMMA EndStep ==
  ASSUME ScanTypeInv, LoopInv, OneInv, OrderInv, EndInv, [ScanNext]_scanVars, overlap' = FALSE
  PROVE  EndInv'
<1> USE WinRTScannerAssumption, BleakScannerAssumption
<1>0. None \notin Users /\ Watchers \subseteq Users
  BY DEF Watchers, WithScanner
<1>1. ASSUME watcher' = watcher, isSet' = isSet,
             \A w \in Watchers : status'[w] = status[w] \/ status[w] \in StillRuns,
             \A e \in Within(loop') : e.kind = "wake" => e \in Within(loop),
             \A x \in Users : at'[x] = "stopping" => at[x] = "stopping"
      PROVE  EndInv'
  <2>1. \A w \in Watchers : status'[w] \in StillRuns => status[w] \in StillRuns
    BY <1>1
  <2>2. \A w \in Watchers : status[w] \in IsOver => status'[w] \in IsOver
    BY <1>1 DEF IsOver, StillRuns
  <2>3. isSet \subseteq Watchers /\ loop \in Seq(Entries)
    BY DEF ScanTypeInv, ScanTypeOK
  <2>4. ASSUME NEW e \in Within(loop'), e.kind = "wake", at'[e.who] = "stopping"
        PROVE  status'[watcher] \in IsOver
    <3>1. e \in Within(loop)
      BY <1>1, <2>4
    <3>2. e \in Entries
      BY <2>3, <3>1 DEF Within
    <3>3. e.who \in Users
      BY <1>0, <3>2 DEF Entries
    <3>4. at[e.who] = "stopping"
      BY <1>1, <2>4, <3>3
    <3>5. status[watcher] \in IsOver /\ watcher # None
      BY <2>4, <3>1, <3>3, <3>4 DEF EndInv, OneInv
    <3> QED
      BY <2>2, <3>5 DEF ScanTypeInv, ScanTypeOK
  <2> QED
    BY <1>1, <2>1, <2>2, <2>3, <2>4 DEF EndInv
<1>2. ASSUME NEW kind \in {"answer", "close"}, NEW u \in Users, loop' = Soon(kind, u)
      PROVE  \A e \in Within(loop') : e.kind = "wake" => e \in Within(loop)
  BY <1>2, PushedSoon
<1>3. ASSUME loop' = loop \/ (loop # <<>> /\ loop' = Tail(loop))
      PROVE  \A e \in Within(loop') : e.kind = "wake" => e \in Within(loop)
  BY <1>3, Popped
<1>4. ASSUME NEW u \in Users, at[u] \in {"idle", "body"}, BeginStop(u), isSet' = isSet,
             \A e \in Within(loop') : e.kind = "wake" => e \in Within(loop)
      PROVE  EndInv'
  <2>1. /\ \A x \in Users \ {u} : at'[x] = at[x]
        /\ at'[u] \in {"raised", "stopping", "done"}
        /\ \A w \in Watchers : status'[w] = status[w] \/ status[w] \in StillRuns
    BY <1>4, StopMoves
  <2>2. \/ watcher = None /\ at'[u] = "raised" /\ UNCHANGED <<status, watcher>>
        \/ /\ watcher # None /\ \A x \in Users : at[x] # "stopping"
           /\ watcher' = watcher \/ \A w \in Watchers : status'[w] \notin StillRuns
    BY <1>4, CalmStop
  <2>3. CASE watcher = None /\ at'[u] = "raised" /\ UNCHANGED <<status, watcher>>
    BY <1>1, <1>4, <2>1, <2>3
  <2>4. CASE /\ watcher # None /\ \A x \in Users : at[x] # "stopping"
             /\ watcher' = watcher \/ \A w \in Watchers : status'[w] \notin StillRuns
    <3>1. \A w \in Watchers : status'[w] \in StillRuns => w = watcher'
      BY <2>1, <2>4 DEF EndInv
    <3>2. \A w \in isSet' : status'[w] \in IsOver
      BY <1>4, <2>1 DEF EndInv, IsOver, StillRuns, ScanTypeInv, ScanTypeOK
    <3>3. ASSUME NEW e \in Within(loop'), e.kind = "wake" PROVE at'[e.who] # "stopping"
      <4>1. e \in Within(loop) /\ at[e.who] \in {"stopping", "done", "cancelled"}
        BY <1>4, <3>3 DEF LoopInv
      <4>2. loop \in Seq(Entries)
        BY DEF ScanTypeInv
      <4>3. e \in Entries
        BY <4>1, <4>2 DEF Within
      <4>4. e.who \in Users /\ e.who # u
        BY <1>0, <1>4, <4>1, <4>3 DEF Entries
      <4> QED
        BY <2>1, <2>4, <4>4
    <3> QED
      BY <3>1, <3>2, <3>3 DEF EndInv
  <2> QED
    BY <2>2, <2>3, <2>4
<1>5. ASSUME NEW u \in Users, Stop(u) \/ LeaveBody(u) PROVE EndInv'
  BY <1>3, <1>4, <1>5 DEF Stop, LeaveBody
<1>6. ASSUME NEW u \in Users, TakeNext(u) PROVE EndInv'
  <2>1. CASE Head(packets[u]) \in Wanted
    BY <1>2, <1>4, <1>6, <2>1 DEF TakeNext
  <2>2. CASE Head(packets[u]) \notin Wanted
    BY <1>1, <1>3, <1>6, <2>2 DEF TakeNext
  <2> QED
    BY <2>1, <2>2
<1>7. ASSUME NEW u \in Users, Start(u) \/ Cancel(u) \/ GotAdapter(u) \/ NotAvailable(u)
      PROVE  EndInv'
  <2>1. /\ \A x \in Users : at'[x] = "stopping" => at[x] = "stopping"
        /\ watcher' = watcher /\ isSet' = isSet /\ status' = status
    BY <1>7 DEF Start, Cancel, GotAdapter, NotAvailable, Goto, windows, ScanTypeInv, ScanTypeOK
  <2>2. loop' = loop \/ (loop # <<>> /\ loop' = Tail(loop))
    BY <1>7 DEF Start, Cancel, GotAdapter, NotAvailable, Ready
  <2> QED
    BY <1>1, <1>3, <2>1, <2>2
<1>8. ASSUME NEW u \in Users, NEW st, Check(u, st)
      PROVE  \A x \in Users : at'[x] = "stopping" => at[x] = "stopping"
  BY <1>8 DEF Check, Goto, ScanTypeInv, ScanTypeOK
\* No watcher ran, and nobody waits for one.
<1>9. ASSUME NEW u \in Users, Create(u) PROVE EndInv'
  <2>1. PICK st \in {"created", "started"} :
           status' = [status EXCEPT ![u] = st] /\ Check(u, st)
    BY <1>9 DEF Create
  <2>2. \A x \in Users : at'[x] = "stopping" => at[x] = "stopping"
    BY <1>8, <2>1
  <2>3. at[u] = "radio" /\ watcher = None /\ u \in Watchers /\ status[u] = "none"
    BY <1>9 DEF Create, OneInv, LoopInv, ScanTypeInv, StartPC
  <2>4. \A x \in Users : at'[x] # "stopping"
    BY <2>2, <2>3 DEF OneInv
  <2>5. \A w \in Watchers \ {u} : status'[w] = status[w] /\ status[w] \notin StillRuns
    BY <1>0, <2>1, <2>3 DEF EndInv, ScanTypeInv, ScanTypeOK
  <2>6. u \notin isSet /\ isSet' = isSet /\ watcher' = u /\ isSet \subseteq Watchers
    BY <1>9, <2>3 DEF Create, EndInv, IsOver, ScanTypeInv, ScanTypeOK
  <2>7. \A e \in Within(loop') : e.who \in Users
    <3>1. loop' \in Seq(Entries)
      BY <1>9, Popped DEF Create, Ready
    <3>2. \A e \in Within(loop') : e \in Entries
      BY <3>1 DEF Within
    <3> QED
      BY <1>0, <3>2 DEF Entries
  <2> QED
    BY <2>4, <2>5, <2>6, <2>7 DEF EndInv
<1>10. ASSUME NEW u \in Users, Polled(u) PROVE EndInv'
  <2> DEFINE st == IF watcher = None THEN "none" ELSE status[watcher]
  <2>1. Check(u, st) /\ loop' = loop /\ watcher' = watcher /\ isSet' = isSet /\ status' = status
    BY <1>10 DEF Polled, windows
  <2> HIDE DEF st
  <2>2. \A x \in Users : at'[x] = "stopping" => at[x] = "stopping"
    BY <1>8, <2>1
  <2> QED
    BY <1>1, <1>3, <2>1, <2>2
\* The stop() that wakes finds its watcher over.
<1>11. ASSUME NEW u \in Users, StopEnds(u) PROVE EndInv'
  <2>1. /\ \A x \in Users \ {u} : at'[x] = at[x]
        /\ at[u] = "stopping" /\ at'[u] = "done" /\ watcher' = None /\ isSet' = isSet
        /\ status' = status /\ loop # <<>> /\ loop' = Tail(loop)
        /\ Head(loop).kind = "wake" /\ Head(loop).who = u
    BY <1>11 DEF StopEnds, Finish, Goto, Ready, ScanTypeInv, ScanTypeOK
  <2>2. \A x \in Users : at'[x] # "stopping"
    BY <2>1 DEF OneInv
  <2>3. status[watcher] \in IsOver
    BY <2>1, Popped DEF EndInv
  <2>4. \A w \in Watchers : status[w] \notin StillRuns
    BY <2>3 DEF EndInv, IsOver, StillRuns
  <2>5. \A e \in Within(loop') : e.who \in Users
    <3>1. loop' \in Seq(Entries)
      BY <2>1, Popped
    <3>2. \A e \in Within(loop') : e \in Entries
      BY <3>1 DEF Within
    <3> QED
      BY <1>0, <3>2 DEF Entries
  <2> QED
    BY <2>1, <2>2, <2>4, <2>5 DEF EndInv
<1>12. ASSUME NEW u \in Users, CloseGenerator(u) \/ Skip(u) PROVE EndInv'
  BY <1>1, <1>3, <1>12 DEF CloseGenerator, Skip, Ready, windows
<1>13. ASSUME NEW u \in Users, Answer(u) PROVE EndInv'
  BY <1>1, <1>2, <1>13 DEF Answer, windows
<1>14. CASE HandleReceived
  BY <1>1, <1>3, <1>14 DEF HandleReceived, windows
\* The handler sets the event of the watcher that is over, and wakes those who wait for it.
<1>15. CASE HandleStopped
  <2>1. Head(loop) \in Within(loop) /\ Head(loop).kind = "stopped"
    BY <1>15, Woken
  <2>2. status[event] \in IsOver
    BY <2>1 DEF LoopInv, OrderInv, Events
  <2>3. UNCHANGED <<at, watcher, status>> /\ isSet' = isSet \cup {event}
    BY <1>15 DEF HandleStopped, windows
  <2>4. ASSUME NEW e \in Within(loop'), e.kind = "wake", at[e.who] = "stopping"
        PROVE  status[watcher] \in IsOver
    <3>1. CASE e \in Within(loop)
      BY <2>4, <3>1 DEF EndInv
    <3>2. CASE e.who \in Users /\ at[e.who] = "stopping" /\ waits[e.who] = event
      BY <2>2, <3>2 DEF OneInv
    <3> QED
      BY <1>15, <3>1, <3>2, Woken
  <2> QED
    BY <2>2, <2>3, <2>4 DEF EndInv
<1>16. ASSUME NEW w \in Watchers, WatcherStarts(w) \/ WatcherStops(w) \/ WatcherAborts(w)
       PROVE  EndInv'
  <2>1. \A x \in Watchers : status'[x] = status[x] \/ status[x] \in StillRuns
    BY <1>16 DEF WatcherStarts, WatcherStops, WatcherAborts, Become, StillRuns, ScanTypeInv, ScanTypeOK
  <2>2. at' = at /\ watcher' = watcher /\ isSet' = isSet /\ loop' = loop
    BY <1>16 DEF WatcherStarts, WatcherStops, WatcherAborts, Become
  <2> QED
    BY <1>1, <1>3, <2>1, <2>2
<1>17. ASSUME NEW e \in Entries, e.kind # "wake", loop' = Append(loop, e),
              UNCHANGED <<at, watcher, isSet, status>>
       PROVE  EndInv'
  <2>1. \A a \in Within(loop') : a.kind = "wake" => a \in Within(loop)
    BY <1>17, Pushed
  <2> QED
    BY <1>1, <1>17, <2>1
<1>18. ASSUME NEW w \in Watchers, NEW d \in Devices, NEW p \in Parts, Receive(w, d, p)
       PROVE  EndInv'
  <2>1. Callback("received", w, d, p) \in Entries /\ Callback("received", w, d, p).kind # "wake"
    BY DEF Callback, Entries
  <2> QED
    BY <1>17, <1>18, <2>1 DEF Receive
<1>19. ASSUME NEW w \in Watchers, RaiseStopped(w) PROVE EndInv'
  <2>1. /\ Callback("stopped", w, None, None) \in Entries
        /\ Callback("stopped", w, None, None).kind # "wake"
    BY DEF Callback, Entries
  <2>2. CASE w \in hooked
    BY <1>17, <1>19, <2>1, <2>2 DEF RaiseStopped, Soon
  <2>3. CASE w \notin hooked
    BY <1>1, <1>3, <1>19, <2>3 DEF RaiseStopped
  <2> QED
    BY <2>2, <2>3
<1>20. CASE UNCHANGED scanVars
  BY <1>1, <1>3, <1>20 DEF scanVars, windows
<1> QED
  BY <1>5, <1>6, <1>7, <1>9, <1>10, <1>11, <1>12, <1>13, <1>14, <1>15, <1>16, <1>18, <1>19,
     <1>20 DEF ScanNext, Handle, Windows, Radio, Call, Task

\* Every step keeps the data of the last scan its own.
LEMMA FreshStep ==
  ASSUME ScanTypeInv, OrderInv, FreshInv, [ScanNext]_scanVars
  PROVE  FreshInv'
<1> USE WinRTScannerAssumption, BleakScannerAssumption
<1>1. ASSUME UNCHANGED <<event, pairs, seen>> PROVE FreshInv'
  BY <1>1 DEF FreshInv
<1>2. ASSUME NEW u \in Users, Create(u) PROVE FreshInv'
  BY <1>2 DEF Create, FreshInv
<1>3. CASE HandleReceived
  <2> DEFINE c == Head(loop)
             pair == Merge(c.device, c.part, c.who)
  <2>1. c \in Within(loop) /\ c \in Entries /\ c.kind = "received"
    BY <1>3, Popped DEF HandleReceived
  <2>2. c.device \in Devices /\ c.part \in Parts /\ c.who = event
    BY <2>1 DEF OrderInv, Entries, Events
  <2>3. /\ pairs' = [pairs EXCEPT ![c.device] = pair] /\ event' = event
        /\ seen' = seen \/ seen' = [seen EXCEPT ![c.device] = pair]
    BY <1>3 DEF HandleReceived, Report
  <2> HIDE DEF c
  <2>4. \A p \in Parts : pair[p] \in {None, event}
    BY <2>2 DEF Merge, FreshInv, ScanTypeInv
  <2> HIDE DEF pair
  <2> QED
    BY <2>2, <2>3, <2>4 DEF FreshInv, ScanTypeInv
<1>4. ASSUME NEW u \in Users, Start(u) \/ Stop(u) \/ TakeNext(u) \/ LeaveBody(u) PROVE FreshInv'
  BY <1>1, <1>4 DEF Start, Stop, TakeNext, LeaveBody, scanner
<1>5. ASSUME NEW u \in Users, \/ GotAdapter(u) \/ NotAvailable(u) \/ StopEnds(u)
                              \/ CloseGenerator(u) \/ Skip(u)
      PROVE  FreshInv'
  BY <1>1, <1>5 DEF GotAdapter, NotAvailable, StopEnds, CloseGenerator, Skip, scanner
<1>6. ASSUME NEW u \in Users, Polled(u) \/ Cancel(u) \/ Answer(u) PROVE FreshInv'
  BY <1>1, <1>6 DEF Polled, Cancel, Answer, scanner
<1>7. ASSUME NEW w \in Watchers, \/ WatcherStarts(w) \/ WatcherStops(w) \/ WatcherAborts(w)
                                 \/ RaiseStopped(w)
                                 \/ \E d \in Devices, p \in Parts : Receive(w, d, p)
      PROVE  FreshInv'
  BY <1>1, <1>7
  DEF WatcherStarts, WatcherStops, WatcherAborts, RaiseStopped, Receive, Become, scanner
<1>8. CASE HandleStopped
  BY <1>1, <1>8 DEF HandleStopped, scanner
<1>9. CASE UNCHANGED scanVars
  BY <1>1, <1>9 DEF scanVars, scanner
<1> QED
  BY <1>2, <1>3, <1>4, <1>5, <1>6, <1>7, <1>8, <1>9
  DEF ScanNext, Handle, Windows, Radio, Call, Task

-----------------------------------------------------------------------------
\* The inductive invariant: the types, what the queue says of the calls, the finds' callbacks,
\* and, while the calls are in turn, what keeps one watcher and its data.
THEOREM ScanInvariant == ScanSpec => []ScanIInv
<1>1. ScanInit => ScanIInv
  <2> SUFFICES ASSUME ScanInit PROVE ScanIInv
    OBVIOUS
  <2> USE WinRTScannerAssumption, BleakScannerAssumption
  <2>1. loop = <<>> /\ loop \in Seq(Entries) /\ Within(loop) = {}
    BY DEF ScanInit, Within
  <2>2. ScanTypeInv
    BY <2>1 DEF ScanInit, InitScanner, ScanTypeInv, ScanTypeOK, StartPC
  <2>3. LoopInv /\ ListenInv
    BY <2>1 DEF ScanInit, InitScanner, LoopInv, ListenInv
  <2>4. OneInv /\ OrderInv /\ EndInv
    BY <2>1 DEF ScanInit, OneInv, OrderInv, EndInv, StartPC, StillRuns
  <2>5. FreshInv
    BY DEF ScanInit, InitScanner, FreshInv
  <2> QED
    BY <2>2, <2>3, <2>4, <2>5 DEF ScanIInv, CalmInv
<1>2. ScanIInv /\ [ScanNext]_scanVars => ScanIInv'
  <2> SUFFICES ASSUME ScanIInv, [ScanNext]_scanVars PROVE ScanIInv'
    OBVIOUS
  <2>1. ScanTypeInv' /\ LoopInv' /\ ListenInv'
    BY ScanTypeStep, LoopStep, ListenStep DEF ScanIInv
  <2>2. ASSUME overlap' = FALSE PROVE CalmInv'
    <3>1. overlap = FALSE
      BY <2>2, OverlapStep DEF ScanIInv
    <3>2. OneInv /\ OrderInv /\ EndInv /\ FreshInv
      BY <3>1 DEF ScanIInv, CalmInv
    <3>3. OneInv' /\ OrderInv' /\ EndInv' /\ FreshInv'
      BY <2>2, <3>2, OneStep, OrderStep, EndStep, FreshStep DEF ScanIInv
    <3> QED
      BY <3>3 DEF CalmInv
  <2>3. overlap' \in BOOLEAN
    BY <2>1 DEF ScanTypeInv
  <2> QED
    BY <2>1, <2>2, <2>3 DEF ScanIInv
<1> QED
  BY <1>1, <1>2, PTL DEF ScanSpec

\* The variables keep their types (TypeOK).
THEOREM ScanTypeInvariant == ScanSpec => []ScanTypeOK
<1>1. ScanIInv => ScanTypeOK
  BY DEF ScanIInv, ScanTypeInv
<1> QED
  BY <1>1, ScanInvariant, PTL

\* The new scan's data is its own (FreshData): _received_handler() does not look at the sender,
\* and start() clears the pairs and the devices behind whatever was queued.
THEOREM DataIsFresh == ScanSpec => []FreshData
<1>1. ScanIInv => FreshData
  BY DEF ScanIInv, CalmInv, FreshInv, FreshData
<1> QED
  BY <1>1, ScanInvariant, PTL

\* A watcher that runs is self.watcher (WatcherReachable): stop() forgets it when it is over.
THEOREM WatchersAreReachable == ScanSpec => []WatcherReachable
<1>1. ScanIInv => WatcherReachable
  BY DEF ScanIInv, CalmInv, EndInv, StillRuns, WatcherReachable
<1> QED
  BY <1>1, ScanInvariant, PTL

\* Only a find that looks, or is about to be closed, has a callback (ListenersInUse).
THEOREM FindersLetGo == ScanSpec => []ListenersInUse
<1>1. ScanIInv => ListenersInUse
  <2> SUFFICES ASSUME ScanIInv, NEW u \in listeners, Closing(u)
               PROVE  \E i \in DOMAIN loop : loop[i].kind = "close" /\ loop[i].who = u
    BY DEF ScanIInv, ListenInv, ListenersInUse
  <2>1. DOMAIN loop = 1..Len(loop)
    BY DEF ScanIInv, ScanTypeInv
  <2> QED
    BY <2>1 DEF Closing, Within
<1> QED
  BY <1>1, ScanInvariant, PTL
=============================================================================
