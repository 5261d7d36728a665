---------------------------- MODULE BlueZGattProofs ----------------------------
(***************************************************************************)
(* Theorems about BlueZGatt, for any characteristics, calls, cancellations, *)
(* descriptor numbers and bounds.                                           *)
(***************************************************************************)
EXTENDS BlueZGatt, TLAPS

\* Every variable keeps its type.
THEOREM TypeInvariant == Spec => []TypeOK
<1> USE CallsAssumption, NumbersAssumption DEF TypeOK, client, notify, bluez
<1>1. Init => TypeOK
  <2> SUFFICES ASSUME Init PROVE TypeOK
    OBVIOUS
  <2>1. /\ pc \in [Calls -> {"idle"}] /\ reply \in [Calls -> {None}]
        /\ fds \in [Chars -> {None}] /\ readers \in [Fds -> {None}] /\ pipes \in [Fds -> {None}]
    BY DEF Init
  <2>2. /\ pc \in [Calls -> {"idle", "wait", "sleep", "over", "cancelled"}]
        /\ reply \in [Calls -> {"ok", "error", "busy", None} \cup Fds]
    BY <2>1
  <2>3. /\ fds \in [Chars -> Fds \cup {None}] /\ readers \in [Fds -> Chars \cup {None}]
        /\ pipes \in [Fds -> Chars \cup {None}]
    BY <2>1
  <2>4. 0 \in 0..MaxSessions /\ 0 \in 0..MaxBusy
    OBVIOUS
  <2> QED
    BY <2>2, <2>3, <2>4 DEF Init
<1>2. TypeOK /\ [Next]_vars => TypeOK'
  <2> SUFFICES ASSUME TypeOK, [Next]_vars PROVE TypeOK'
    OBVIOUS
  <2>1. ASSUME NEW k \in Calls, Begin(k) PROVE TypeOK'
    <3>1. CASE StartNotify(k)
      BY <3>1 DEF StartNotify, Send
    <3>2. CASE StopAcquired(k)
      <4>1. CASE fds[On[k]] = None
        BY <3>2, <4>1 DEF StopAcquired, Over
      <4>2. CASE fds[On[k]] # None
        BY <3>2, <4>2 DEF StopAcquired, CloseFd, Over
      <4> QED
        BY <4>1, <4>2
    <3>3. CASE AskBlueZ(k)
      BY <3>3 DEF AskBlueZ, Send
    <3>4. CASE NotConnected(k)
      BY <3>4 DEF NotConnected, Over
    <3> QED
      BY <2>1, <3>1, <3>2, <3>3, <3>4 DEF Begin
  <2>2. ASSUME NEW k \in Calls, Resume(k) \/ Cancel(k) PROVE TypeOK'
    <3>1. CASE Acquired(k)
      BY <3>1 DEF Acquired, Over
    <3>2. CASE Succeeds(k)
      BY <3>2 DEF Succeeds, Over
    <3>3. CASE Fails(k) \/ Cancel(k)
      BY <3>3 DEF Fails, Cancel, Over
    <3>4. CASE InProgress(k)
      BY <3>4 DEF InProgress, Goto
    <3>5. CASE Wake(k)
      BY <3>5 DEF Wake, Send, Over
    <3> QED
      BY <2>2, <3>1, <3>2, <3>3, <3>4, <3>5 DEF Resume
  <2>a. ASSUME NEW r \in {"ok", "error", "busy"} \cup Fds, NEW S \in SUBSET Calls, AnswerAll(r, S)
        PROVE  reply' \in [Calls -> {"ok", "error", "busy", None} \cup Fds]
    BY <2>a DEF AnswerAll
  <2>3. ASSUME NEW k \in Calls, Serve(k) PROVE TypeOK'
    <3>1. CASE ServeError(k)
      BY <3>1, <2>a DEF ServeError, Answer
    <3>2. CASE ServeAcquire(k)
      <4>1. PICK f \in Fds : pipes' = [pipes EXCEPT ![f] = On[k]] /\ Answer(k, f)
        BY <3>2 DEF ServeAcquire
      <4>2. reply' \in [Calls -> {"ok", "error", "busy", None} \cup Fds] /\ sent' \subseteq Calls
        BY <4>1, <2>a DEF Answer
      <4> QED
        BY <3>2, <4>1, <4>2 DEF ServeAcquire
    <3>3. CASE ServeStart(k) \/ ServeStop(k)
      BY <3>3, <2>a DEF ServeStart, ServeStop, Answer
    <3>4. CASE ServeIo(k)
      BY <3>4, <2>a DEF ServeIo, Answer
    <3> QED
      BY <2>3, <3>1, <3>2, <3>3, <3>4 DEF Serve
  <2>4. ASSUME NEW f \in Fds, OnEof(f) PROVE TypeOK'
    BY <2>4 DEF OnEof, CloseFd
  <2>5. CASE Unpair \/ OnDisconnected
    BY <2>5 DEF Unpair, OnDisconnected
  <2>6. CASE ServeUnpair \/ LinkLost
    BY <2>6, <2>a DEF ServeUnpair, LinkLost, LinkDown
  <2>7. CASE Connect
    BY <2>7 DEF Connect
  <2>8. CASE Disconnect
    BY <2>8, <2>a DEF Disconnect
  <2>9. CASE UNCHANGED vars
    BY <2>9 DEF vars
  <2> QED
    BY <2>1, <2>2, <2>3, <2>4, <2>5, <2>6, <2>7, <2>8, <2>9 DEF Next
<1> QED
  BY <1>1, <1>2, PTL DEF Spec

-----------------------------------------------------------------------------
\* The inductive invariant.

\* The starts and stops of one characteristic wait one at a time.
OneNotify ==
    \A k, x \in Calls : k # x /\ On[k] = On[x] /\ Kind[k] # "io" /\ Kind[x] # "io" =>
        ~(pc[k] = "wait" /\ pc[x] = "wait")

\* What a call can still be asked for or told, and what was ready before it was asked.
AskedInv ==
    \A k \in Calls :
        /\ reply[k] # None => k \notin sent /\ pc[k] \in {"wait", "sleep"}
        /\ pc[k] = "sleep" => Kind[k] = "io"
        /\ reply[k] = "busy" => Kind[k] = "io"
        /\ reply[k] \in Fds => Kind[k] = "start" /\ Acquires(k)
        /\ k \in sent => pc[k] \in {"wait", "cancelled"}
        /\ Kind[k] = "stop" /\ (pc[k] = "wait" \/ k \in sent) => On[k] \notin Acquirable
        /\ Kind[k] = "start" /\ ~Acquires(k) /\ k \in sent => On[k] \in callbacks
        /\ Kind[k] = "stop" /\ reply[k] = "ok" =>
              /\ On[k] \notin notifying
              /\ \A s \in sent : On[s] = On[k] => Kind[s] # "start"

\* The reader and the entry of a descriptor refer to each other and to its pipe; one that
\* is on its way to a start_notify() has neither yet.
ReaderInv ==
    /\ \A f \in Fds, c \in Chars : /\ readers[f] = c <=> fds[c] = f
                                   /\ readers[f] = c => pipes[f] = c
    /\ \A k \in Calls : reply[k] \in Fds =>
          pipes[reply[k]] = On[k] /\ readers[reply[k]] = None /\ fds[On[k]] = None

\* Where a pipe that nobody reads and a StartNotify on a characteristic with NotifyAcquired
\* come from.
SourceInv ==
    /\ \A f \in Fds : pipes[f] # None =>
          /\ pipes[f] \in Acquirable
          /\ f \notin ended /\ readers[f] = None =>
               \/ \E k \in Calls : reply[k] = f
               \/ \E s \in Calls : /\ On[s] = pipes[f] /\ Kind[s] = "start"
                                   /\ Acquires(s) /\ pc[s] = "cancelled"
    /\ \A c \in notifying : c \in Acquirable => ForcedOn(c)

GattInv == OneNotify /\ AskedInv /\ ReaderInv /\ SourceInv /\ NotifyingHasCallback

\* Every step keeps the inductive invariant: of what a call, BlueZ and the loop can do to the
\* notifications of a characteristic, no order breaks it.
LEMMA GattStep ==
  ASSUME TypeOK, TypeOK', GattInv, [Next]_vars
  PROVE  GattInv'
<1> USE CallsAssumption
    DEF TypeOK, client, notify, bluez, GattInv, OneNotify, AskedInv, ReaderInv, SourceInv,
        NotifyingHasCallback, Acquires, ForcedOn
<1>1. ASSUME NEW k \in Calls, StartNotify(k) PROVE GattInv'
  BY <1>1 DEF StartNotify, May, Send
<1>2. ASSUME NEW k \in Calls, StopAcquired(k) PROVE GattInv'
  BY <1>2 DEF StopAcquired, May, CloseFd, Over
<1>3. ASSUME NEW k \in Calls, AskBlueZ(k) PROVE GattInv'
  BY <1>3 DEF AskBlueZ, May, Send
<1>4. ASSUME NEW k \in Calls, NotConnected(k) PROVE GattInv'
  BY <1>4 DEF NotConnected, May, Over
<1>5. ASSUME NEW k \in Calls, Acquired(k) PROVE GattInv'
  BY <1>5 DEF Acquired, Over
<1>6. ASSUME NEW k \in Calls, Succeeds(k) PROVE GattInv'
  BY <1>6 DEF Succeeds, Over
<1>7. ASSUME NEW k \in Calls, Fails(k) PROVE GattInv'
  BY <1>7 DEF Fails, Over
<1>8. ASSUME NEW k \in Calls, InProgress(k) PROVE GattInv'
  BY <1>8 DEF InProgress, Goto
<1>9. ASSUME NEW k \in Calls, Wake(k) PROVE GattInv'
  BY <1>9 DEF Wake, Send, Over
<1>10. ASSUME NEW k \in Calls, Cancel(k) PROVE GattInv'
  BY <1>10 DEF Cancel
<1>11. ASSUME NEW k \in Calls, ServeError(k) PROVE GattInv'
  BY <1>11 DEF ServeError, Answer, AnswerAll
<1>12. ASSUME NEW k \in Calls, ServeAcquire(k) PROVE GattInv'
  <2>1. PICK f \in Fds : pipes[f] = None /\ pipes' = [pipes EXCEPT ![f] = On[k]] /\ Answer(k, f)
    BY <1>12 DEF ServeAcquire
  <2>2. fds[On[k]] = None /\ readers[f] = None
    BY <1>12, <2>1 DEF ServeAcquire
  <2>3. \A x \in Calls : reply'[x] # reply[x] => x = k /\ reply'[x] = f
    BY <2>1 DEF Answer, AnswerAll
  <2>4. ReaderInv'
    BY <1>12, <2>1, <2>2, <2>3 DEF ServeAcquire
  <2>5. OneNotify' /\ AskedInv'
    BY <1>12, <2>1 DEF ServeAcquire, Answer, AnswerAll, InTurn
  <2>6. SourceInv'
    BY <1>12, <2>1 DEF ServeAcquire, Answer, AnswerAll, InTurn
  <2> QED
    BY <1>12, <2>4, <2>5, <2>6 DEF ServeAcquire
<1>13. ASSUME NEW k \in Calls, ServeStart(k) PROVE GattInv'
  BY <1>13 DEF ServeStart, Answer, AnswerAll, InTurn
<1>14. ASSUME NEW k \in Calls, ServeStop(k) PROVE GattInv'
  BY <1>14 DEF ServeStop, Answer, AnswerAll, InTurn
<1>15. ASSUME NEW k \in Calls, ServeIo(k) PROVE GattInv'
  BY <1>15 DEF ServeIo, Answer, AnswerAll
<1>16. ASSUME NEW f \in Fds, OnEof(f) PROVE GattInv'
  BY <1>16 DEF OnEof, CloseFd
<1>17. CASE Unpair
  BY <1>17 DEF Unpair
<1>18. CASE ServeUnpair
  BY <1>18 DEF ServeUnpair, LinkDown, AnswerAll
<1>19. CASE Connect
  BY <1>19 DEF Connect
<1>20. CASE LinkLost
  BY <1>20 DEF LinkLost, LinkDown, AnswerAll
<1>21. CASE OnDisconnected
  BY <1>21 DEF OnDisconnected
<1>22. CASE Disconnect
  BY <1>22 DEF Disconnect, AnswerAll
<1>23. CASE UNCHANGED vars
  BY <1>23 DEF vars
<1> QED
  BY <1>1, <1>2, <1>3, <1>4, <1>5, <1>6, <1>7, <1>8, <1>9, <1>10, <1>11, <1>12,
     <1>13, <1>14, <1>15, <1>16, <1>17, <1>18, <1>19, <1>20, <1>21, <1>22, <1>23
     DEF Next, Begin, Resume, Serve

-----------------------------------------------------------------------------
\* The properties.

\* What the client, the loop, the kernel and BlueZ know of the notifications of a
\* characteristic stays consistent in every behaviour.
THEOREM GattInvariant == Spec => []GattInv
<1>1. Init => GattInv
  BY CallsAssumption DEF Init, GattInv, OneNotify, AskedInv, ReaderInv, SourceInv,
     NotifyingHasCallback
<1>2. TypeOK /\ TypeOK' /\ GattInv /\ [Next]_vars => GattInv'
  BY GattStep
<1> QED
  BY <1>1, <1>2, TypeInvariant, PTL DEF Spec

\* No descriptor is read, or closed, that has become another file's, and none that is
\* registered is closed without its reader: in any order of stop_notify(), ends of file,
\* cancellations and lost links.
THEOREM ReadersAreOwned == Spec => []ReadersOwned
<1>1. TypeOK /\ GattInv => ReadersOwned
  BY DEF TypeOK, GattInv, ReaderInv, ReadersOwned
<1> QED
  BY <1>1, TypeInvariant, GattInvariant, PTL

\* A characteristic that BlueZ notifies has a callback.
THEOREM CallbacksAreReady == Spec => []NotifyingHasCallback
<1>1. GattInv => NotifyingHasCallback
  BY DEF GattInv
<1> QED
  BY <1>1, GattInvariant, PTL

\* What StopSilences says of one step.
StopBar ==
    \A k \in Calls : Kind[k] = "stop" /\ (StopAcquired(k) \/ Succeeds(k)) =>
        /\ On[k] \in notifying' => ForcedOn(On[k])
        /\ \A f \in Fds : pipes'[f] = On[k] => f \in ended' \/ Abandoned(f, On[k])'

\* A characteristic is silent when its stop_notify() has returned, but for what a
\* start_notify() with use_start_notify had asked for, and for a descriptor that came for a
\* cancelled start_notify().
THEOREM StopsSilence == Spec => StopSilences
<1> USE CallsAssumption DEF TypeOK, GattInv, AskedInv, ReaderInv, SourceInv, Acquires
<1>1. TypeOK /\ GattInv /\ [Next]_vars => [StopBar]_vars
  <2> SUFFICES ASSUME TypeOK, GattInv, NEW k \in Calls, Kind[k] = "stop",
                      StopAcquired(k) \/ Succeeds(k)
               PROVE  /\ On[k] \in notifying' => ForcedOn(On[k])
                      /\ \A f \in Fds :
                            pipes'[f] = On[k] => f \in ended' \/ Abandoned(f, On[k])'
    BY DEF StopBar
  <2>1. CASE Succeeds(k)
    <3>1. On[k] \notin Acquirable /\ On[k] \notin notifying
      BY <2>1 DEF Succeeds
    <3>2. notifying' = notifying /\ pipes' = pipes
      BY <2>1 DEF Succeeds, bluez
    <3> QED
      BY <3>1, <3>2
  <2>2. CASE StopAcquired(k)
    <3>1. notifying' = notifying /\ On[k] \in Acquirable
      BY <2>2 DEF StopAcquired
    <3>2. On[k] \in notifying' => ForcedOn(On[k])
      BY <3>1
    <3>3. ASSUME NEW f \in Fds, pipes'[f] = On[k], f \notin ended'
          PROVE  Abandoned(f, On[k])'
      <4>1. pipes[f] = On[k] /\ f \notin ended /\ f # fds[On[k]]
        BY <2>2, <3>3 DEF StopAcquired, CloseFd
      <4>2. readers[f] = None
        BY <4>1
      <4>3. \A x \in Calls : On[x] = On[k] => reply[x] # f
        BY <2>2 DEF StopAcquired, May
      <4>4. \A x \in Calls : reply[x] = f => On[x] = On[k]
        BY <4>1
      <4>5. PICK s \in Calls : /\ On[s] = On[k] /\ Kind[s] = "start"
                               /\ Acquires(s) /\ pc[s] = "cancelled"
        BY <4>1, <4>2, <4>3, <4>4
      <4>6. pc'[s] = "cancelled" /\ readers'[f] = None /\ fds'[On[k]] # f
        BY <2>2, <4>1, <4>2, <4>5 DEF StopAcquired, CloseFd, Over, May
      <4> QED
        BY <4>5, <4>6 DEF Abandoned
    <3> QED
      BY <3>2, <3>3
  <2> QED
    BY <2>1, <2>2
<1> QED
  BY <1>1, TypeInvariant, GattInvariant, PTL DEF Spec, StopSilences, StopBar
=============================================================================
