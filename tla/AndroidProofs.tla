----------------------------- MODULE AndroidProofs -----------------------------
(***************************************************************************)
(* Theorems about AndroidClient and AndroidScanner, for any calls, names of *)
(* callbacks, scanners, cancellations and bounds.                           *)
(***************************************************************************)
EXTENDS AndroidClient, AndroidScanner, TLAPS

-----------------------------------------------------------------------------
\* AndroidClient: the inductive invariant

StateApi == "onConnectionStateChange"

\* A callback that was posted to the event loop.
PostedTypes == [cb : Connects, api : Apis, ok : BOOLEAN, value : {"up", "down", "ok"}]

\* TypeOK, and where each call can be.
TypeInv ==
    /\ TypeOK
    /\ posted \in Seq(PostedTypes)
    /\ \A c \in Connects : pc[c] \in {"idle", "connecting", "mtu", "discover", "cleanup", "done",
                                      "raised", "givenup"}
    /\ \A d \in Disconnects : pc[d] \in {"idle", "waiting", "done", "raised"}
    /\ \A x \in Requests : pc[x] \in {"idle", "wait", "done", "raised"}

\* One connect() at a time, and the fields it has, unless a disconnect() has reset them.
TurnInv ==
    /\ \A x, y \in Connects : ~Over(x) /\ ~Over(y) => x = y
    /\ \A c \in Connects : ~Over(c) =>
          /\ callbacks \in {c, None}
          /\ pc[c] = "connecting" => gatt # c
          /\ pc[c] # "connecting" => gatt = callbacks
    /\ gatt # None => callbacks # None

\* The name connect() waits under.
Awaited(l) == CASE l = "mtu" -> "onMtuChanged" [] l = "discover" -> "onServicesDiscovered"
                [] OTHER -> StateApi

\* A future that is not done is that of a call that waits for it, where the await put it.
FutureInv ==
    \A c \in Connects : \A a \in Apis : LET x == futures[c][a] IN x # None =>
        /\ outcome[x] = None
        /\ \A b \in Connects : \A n \in Apis : futures[b][n] = x => b = c /\ n = a
        /\ x \in Connects =>
              /\ x = c
              /\ a = Awaited(pc[x])
              /\ pc[x] \in {"connecting", "mtu", "discover", "cleanup"}
        /\ x \in Disconnects => a = StateApi /\ pc[x] = "waiting" /\ callbacks \in {c, None}
        /\ x \in Requests => a = ApiOf[x] /\ pc[x] = "wait"

\* Where a connect() is that has failed or is about to.
Failing == {"cleanup", "raised", "givenup"}

\* What the client and its calls know of a link.
LinkInv ==
    /\ \A c \in Connects :
          /\ pc[c] = "idle" => link[c] = "none"
          /\ link[c] = "pending" => pc[c] \in {"connecting", "givenup"}
          /\ states[c] = "down" => link[c] = "down"
          /\ link[c] = "down" => c \in told
          /\ pc[c] = "connecting" =>
                /\ link[c] = "pending" => outcome[c] = None
                /\ outcome[c] = "up" => link[c] # "none"
                /\ outcome[c] \in {"down", "error"} => link[c] = "down"
          /\ pc[c] \in Failing /\ gatt = c => link[c] \in {"closing", "down"}
    /\ gatt # None => link[gatt] \notin {"none", "pending"}
    /\ gatt # None /\ gatt # callbacks => link[gatt] = "down"

\* The events on their way: nothing comes before a connection is there or after its end.
EventAt(i) ==
    LET e == posted[i] IN
    /\ link[e.cb] \notin {"none", "pending"}
    /\ e.api = StateApi /\ e.value # "down" =>
          /\ e.value = "up" /\ e.ok
          /\ pc[e.cb] = "givenup" \/ (pc[e.cb] = "connecting" /\ outcome[e.cb] = None)
          /\ \A j \in 1..Len(posted) : j < i => posted[j].cb # e.cb
    /\ e.api = StateApi /\ e.value = "down" =>
          /\ link[e.cb] = "down"
          /\ \A j \in 1..Len(posted) : j > i => posted[j].cb # e.cb
    /\ e.api # StateApi => e.value = "ok" /\ pc[e.cb] \notin {"idle", "connecting"}

EventInv ==
    /\ \A i \in 1..Len(posted) : EventAt(i)
    /\ \A c \in Connects :
          /\ busy[c] # StateApi
          /\ busy[c] # None => pc[c] \notin {"idle", "connecting"}

\* An answer that is on its way or owed by a connected device finds the future of the call
\* that asked, unless connect() failed meanwhile.
HomeOf(c) ==
    /\ busy[c] # None /\ link[c] = "up" =>
          /\ futures[c][busy[c]] # None
          /\ \A i \in 1..Len(posted) : posted[i].cb = c => posted[i].api # busy[c]
    /\ \A i \in 1..Len(posted) : posted[i].cb = c /\ posted[i].api # StateApi =>
          /\ futures[c][posted[i].api] # None
          /\ \A j \in 1..Len(posted) :
                posted[j].cb = c /\ posted[j].api = posted[i].api => j = i

HomeInv == \A c \in Connects : pc[c] \notin Failing => HomeOf(c)

\* A disconnect() that is about to reset the fields.
Told(d) == pc[d] = "waiting" /\ outcome[d] # None

\* A connection that connect() has returned is the client's until it ends, and a disconnect()
\* that is told something is told of the end.
OpenInv ==
    /\ \A c \in Connects : pc[c] = "done" /\ link[c] # "down" => gatt = c /\ callbacks = c
    /\ \A d \in Disconnects :
          Told(d) /\ gatt # None /\ pc[gatt] \notin Failing => link[gatt] = "down"

\* A disconnect() that waits has taken its name from a connect() in its first await, or came
\* after the answer: it is told of the end.
TakenInv ==
    \A c \in Connects : pc[c] = "connecting" =>
        /\ futures[c][StateApi] = c =>
              (\A d \in Disconnects : pc[d] # "waiting") /\ (callbacks = None => link[c] = "down")
        /\ outcome[c] = "up" /\ (callbacks = None \/ \E d \in Disconnects : Told(d))
              => link[c] = "down"

Invariant ==
    /\ TypeInv /\ TurnInv /\ FutureInv /\ LinkInv
    /\ EventInv /\ HomeInv /\ OpenInv /\ TakenInv /\ NoLinkForgotten
-----------------------------------------------------------------------------
\* Lemmas

\* An await leaves its call's future under the one name and takes back all others.
LEMMA AwaitFuture ==
    ASSUME TypeInv, NEW x \in Calls, NEW c \in Connects, NEW api \in Apis, NEW l, Await(x, c, api, l)
    PROVE  /\ futures' \in [Connects -> [Apis -> Calls \cup {None}]]
           /\ \A b \in Connects : \A n \in Apis :
                 futures'[b][n] = IF b = c /\ n = api THEN x
                                  ELSE IF futures[b][n] = x THEN None ELSE futures[b][n]
<1>1. Without(x) \in [Connects -> [Apis -> Calls \cup {None}]]
    BY DEF Without, TypeInv, TypeOK
<1>2. \A b \in Connects : \A n \in Apis :
          Without(x)[b][n] = IF futures[b][n] = x THEN None ELSE futures[b][n]
    BY DEF Without
<1>3. futures' = [Without(x) EXCEPT ![c][api] = x]
    BY DEF Await
<1> QED
    BY <1>1, <1>2, <1>3

\* The future of a call that gives up is gone.
LEMMA WithoutFuture ==
    ASSUME TypeInv, NEW x \in Calls, futures' = Without(x)
    PROVE  /\ futures' \in [Connects -> [Apis -> Calls \cup {None}]]
           /\ \A b \in Connects : \A n \in Apis :
                 futures'[b][n] = IF futures[b][n] = x THEN None ELSE futures[b][n]
BY DEF Without, TypeInv, TypeOK

\* Whose future is not done waits.
LEMMA FutureWaits ==
    ASSUME TypeInv, FutureInv, NEW c \in Connects, NEW a \in Apis, futures[c][a] # None
    PROVE  futures[c][a] \in Calls /\ ~Over(futures[c][a])
<1> DEFINE x == futures[c][a]
<1>1. x \in Calls
    BY DEF TypeInv, TypeOK
<1>2. pc[x] \in {"connecting", "mtu", "discover", "cleanup", "waiting", "wait"}
    BY <1>1 DEF FutureInv, Calls
<1> QED
    BY <1>1, <1>2 DEF Over

\* The future of a connect() is among those of its own connection.
LEMMA FutureOfConnect ==
    ASSUME TypeInv, FutureInv, NEW b \in Connects, NEW n \in Apis, futures[b][n] \in Connects
    PROVE  /\ futures[b][n] = b /\ n = Awaited(pc[b]) /\ outcome[b] = None
           /\ pc[b] \in {"connecting", "mtu", "discover", "cleanup"}
BY CallsAssumption DEF FutureInv, Calls

\* The fields of a posted callback.
LEMMA PostedFields ==
    ASSUME TypeInv, NEW i \in 1..Len(posted)
    PROVE  /\ posted[i].cb \in Connects /\ posted[i].api \in Apis /\ posted[i].ok \in BOOLEAN
           /\ posted[i].value \in {"up", "down", "ok"}
<1>1. posted[i] \in PostedTypes
    BY DEF TypeInv
<1> QED
    BY <1>1 DEF PostedTypes

\* The answers of a connection keep their home while its futures stay.
LEMMA HomeStays ==
    ASSUME TypeInv, NEW c \in Connects, HomeOf(c), posted' = posted, busy'[c] = busy[c],
           link'[c] = "up" => link[c] = "up",
           \A n \in Apis : futures[c][n] # None => futures'[c][n] # None
    PROVE  HomeOf(c)'
<1>1. busy[c] \in Apis \cup {None} /\ \A i \in 1..Len(posted) : posted[i].api \in Apis
    BY PostedFields DEF TypeInv, TypeOK
<1> QED
    BY <1>1 DEF HomeOf

\* The initial state satisfies the invariant.
LEMMA InitInvariant == Init => Invariant
<1> SUFFICES ASSUME Init PROVE Invariant
    OBVIOUS
<1> USE CallsAssumption DEF Init, Results, States
<1>1. TypeInv
    BY DEF TypeInv, TypeOK, Calls
<1>2. TurnInv
    BY DEF TurnInv, Over, Calls
<1>3. FutureInv
    BY DEF FutureInv
<1>4. LinkInv
    BY DEF LinkInv, Calls
<1>n. \A i \in 1..Len(posted) : FALSE
  <2>1. posted = <<>>
    OBVIOUS
  <2> QED
    BY <2>1
<1>5. EventInv
  <2>1. \A c \in Connects : busy[c] = None
    OBVIOUS
  <2>2. None # StateApi
    BY DEF StateApi, Apis, ConnectApis
  <2> HIDE DEF Init
  <2> QED
    BY <1>n, <2>1, <2>2 DEF EventInv
<1>6. HomeInv
  <2>1. \A c \in Connects : busy[c] = None
    OBVIOUS
  <2> HIDE DEF Init
  <2> QED
    BY <1>n, <2>1 DEF HomeInv, HomeOf
<1>7. OpenInv /\ TakenInv /\ NoLinkForgotten
    BY DEF OpenInv, TakenInv, Told, NoLinkForgotten, Calls
<1> QED
    BY <1>1, <1>2, <1>3, <1>4, <1>5, <1>6, <1>7 DEF Invariant

-----------------------------------------------------------------------------
\* connect()

\* A new connection is nobody's yet; the last one has ended.
LEMMA StartConnectInvariant ==
    ASSUME Invariant, NEW c \in Connects, StartConnect(c) PROVE Invariant'
<1> USE CallsAssumption DEF Invariant, Failing, Results, States, StartConnect
<1>a. c \in Calls /\ StateApi \in Apis
    BY DEF Calls, Apis, ConnectApis, StateApi
<1>b. Await(c, c, StateApi, "connecting")
    BY DEF StateApi
<1>1. /\ futures' \in [Connects -> [Apis -> Calls \cup {None}]]
      /\ \A b \in Connects : \A n \in Apis :
            futures'[b][n] = IF b = c /\ n = StateApi THEN c
                             ELSE IF futures[b][n] = c THEN None ELSE futures[b][n]
    BY <1>a, <1>b, AwaitFuture
<1>2. pc' = [pc EXCEPT ![c] = "connecting"] /\ outcome' = [outcome EXCEPT ![c] = None]
    BY DEF Await, Goto
<1>3. TypeInv'
    BY <1>1, <1>2 DEF TypeInv, TypeOK, Calls
<1>4. TurnInv'
    BY <1>2 DEF TurnInv, LinkInv, TypeInv, TypeOK, Over, Calls
<1>c. \A b \in Connects : \A n \in Apis : futures[b][n] = None
    BY FutureWaits
<1>d. \A b \in Connects : \A n \in Apis :
          futures'[b][n] = IF b = c /\ n = StateApi THEN c ELSE None
    BY <1>1, <1>c
<1>5. FutureInv'
    BY <1>d, <1>2 DEF FutureInv, TypeInv, TypeOK, Calls, Awaited
<1>6. LinkInv'
    BY <1>2 DEF LinkInv, TypeInv, TypeOK, Over, Calls
<1>7. EventInv'
    BY <1>2 DEF EventInv, EventAt, LinkInv, TypeInv, TypeOK, Over, Calls, PostedTypes
<1>8. HomeInv'
  <2>1. busy[c] = None /\ \A i \in 1..Len(posted) : posted[i].cb # c
    BY DEF EventInv, EventAt, LinkInv, TypeInv, TypeOK, PostedTypes
  <2>2. SUFFICES ASSUME NEW b \in Connects \ {c}, pc[b] \notin Failing
                 PROVE  /\ ~(busy[b] # None /\ link[b] = "up")
                        /\ \A i \in 1..Len(posted) : posted[i].cb = b => posted[i].api = StateApi
    BY <1>2, <2>1 DEF HomeInv, HomeOf, TypeInv, TypeOK, Calls
  <2>3. busy[b] \in Apis \cup {None} /\ \A i \in 1..Len(posted) : posted[i].api \in Apis
    BY PostedFields DEF TypeInv, TypeOK
  <2> QED
    BY <1>c, <2>2, <2>3 DEF HomeInv, HomeOf
<1>9. OpenInv'
    BY <1>2 DEF OpenInv, Told, TypeInv, TypeOK, Over, Calls, LinkInv
<1>t. TakenInv'
    BY <1>2 DEF TakenInv, Told, TypeInv, TypeOK, TurnInv, Over, Calls
<1>10. NoLinkForgotten'
    BY <1>2 DEF NoLinkForgotten, TypeInv, TypeOK, Over, Calls, LinkInv
<1> QED
    BY <1>3, <1>4, <1>5, <1>6, <1>7, <1>8, <1>9, <1>10, <1>t

\* Nothing is asked of Android without an adapter.
LEMMA NoAdapterInvariant ==
    ASSUME Invariant, NEW c \in Connects, NoAdapter(c) PROVE Invariant'
<1> USE CallsAssumption DEF Invariant, Failing, NoAdapter, Goto, client, java, android
<1>1. TypeInv'
    BY DEF TypeInv, TypeOK, Calls
<1>2. TurnInv'
    BY DEF TurnInv, TypeInv, TypeOK, Over, Calls
<1>3. FutureInv'
  <2>1. \A b \in Connects : \A n \in Apis : futures[b][n] = None
    BY FutureWaits DEF Calls
  <2> QED
    BY <2>1 DEF FutureInv
<1>4. LinkInv'
    BY DEF LinkInv, TypeInv, TypeOK, Calls
<1>5. EventInv'
    BY PostedFields DEF EventInv, EventAt, LinkInv, TypeInv, TypeOK, Calls
<1>6. HomeInv'
    BY DEF HomeInv, HomeOf, TypeInv, TypeOK, Calls
<1>7. OpenInv'
    BY DEF OpenInv, Told, TypeInv, TypeOK, Over, Calls
<1>t. TakenInv'
    BY DEF TakenInv, Told, TypeInv, TypeOK, TurnInv, Over, Calls
<1>8. NoLinkForgotten'
    BY DEF NoLinkForgotten, TypeInv, TypeOK, LinkInv, Calls
<1> QED
    BY <1>1, <1>2, <1>3, <1>4, <1>5, <1>6, <1>7, <1>8, <1>t

\* The connect() that has its BluetoothGatt asks for the MTU; nothing is owed yet.
LEMMA ConnectedInvariant ==
    ASSUME Invariant, NEW c \in Connects, Connected(c) PROVE Invariant'
<1> DEFINE api == "onMtuChanged"
<1> USE CallsAssumption DEF Invariant, Failing, Connected, Results, States
<1>a. c \in Calls /\ api \in Apis /\ StateApi \in Apis /\ api # StateApi
    BY DEF Calls, Apis, ConnectApis, StateApi
<1>b. busy[c] = None
    BY DEF EventInv, EventAt
<1>c. Await(c, c, api, "mtu") /\ busy' = [busy EXCEPT ![c] = api]
    BY <1>b DEF Ask, Refused
<1>1. /\ futures' \in [Connects -> [Apis -> Calls \cup {None}]]
      /\ \A b \in Connects : \A n \in Apis :
            futures'[b][n] = IF b = c /\ n = api THEN c
                             ELSE IF futures[b][n] = c THEN None ELSE futures[b][n]
    BY <1>a, <1>c, AwaitFuture
<1>2. pc' = [pc EXCEPT ![c] = "mtu"] /\ outcome' = [outcome EXCEPT ![c] = None]
    BY <1>c DEF Await, Goto
<1> HIDE DEF api
<1>3. TypeInv'
    BY <1>1, <1>2, <1>a, <1>c DEF TypeInv, TypeOK, Calls
<1>4. TurnInv'
    BY <1>2 DEF TurnInv, TypeInv, TypeOK, Over, Calls
<1>5. FutureInv'
    BY <1>1, <1>2, <1>a DEF FutureInv, TypeInv, TypeOK, Calls, Awaited, api
<1>6. LinkInv'
    BY <1>2 DEF LinkInv, TypeInv, TypeOK, TurnInv, Over, Calls
<1>7. EventInv'
    BY <1>2, <1>c, <1>a, PostedFields DEF EventInv, EventAt, TypeInv, TypeOK, Calls
<1>8. HomeInv'
  <2>1. \A i \in 1..Len(posted) : posted[i].cb = c => posted[i].api = StateApi
    BY DEF EventInv, EventAt
  <2>2. ASSUME NEW b \in Connects, b # c
        PROVE  /\ pc'[b] = pc[b] /\ busy'[b] = busy[b]
               /\ \A n \in Apis : futures'[b][n] = futures[b][n]
    BY <1>1, <1>2, <1>c, <2>2, FutureOfConnect DEF TypeInv, TypeOK, Calls
  <2>3. busy'[c] = api /\ futures'[c][api] # None
    BY <1>1, <1>a, <1>c DEF TypeInv, TypeOK, Calls
  <2>5. \A b \in Connects : pc'[b] \notin Failing /\ b # c => HomeOf(b)'
    BY <2>2, HomeStays DEF HomeInv
  <2>6. HomeOf(c)'
    BY <2>1, <2>3, <1>a DEF HomeOf
  <2> QED
    BY <2>5, <2>6 DEF HomeInv
<1>9. OpenInv'
    BY <1>2 DEF OpenInv, TakenInv, Told, TypeInv, TypeOK, TurnInv, Over, Calls
<1>t. TakenInv'
    BY <1>2 DEF TakenInv, Told, TypeInv, TypeOK, TurnInv, Over, Calls
<1>10. NoLinkForgotten'
    BY <1>2 DEF NoLinkForgotten, TypeInv, TypeOK, TurnInv, Over, Calls
<1> QED
    BY <1>3, <1>4, <1>5, <1>6, <1>7, <1>8, <1>9, <1>10, <1>t

\* The next question takes the place of the one that was answered.
LEMMA MtuChangedInvariant ==
    ASSUME Invariant, NEW c \in Connects, MtuChanged(c) PROVE Invariant'
<1> DEFINE api == "onServicesDiscovered"
<1> USE CallsAssumption DEF Invariant, Failing, MtuChanged, Results, States, client
<1>a. c \in Calls /\ api \in Apis /\ StateApi \in Apis /\ api # StateApi
    BY DEF Calls, Apis, ConnectApis, StateApi
<1>c. futures[c][api] = None
  <2>1. futures[c][api] \notin Connects
    BY <1>a, FutureOfConnect
  <2>2. futures[c][api] \in Calls \cup {None}
    BY <1>a DEF TypeInv, TypeOK
  <2> QED
    BY <2>1, <2>2, <1>a DEF FutureInv, api, ConnectApis, Calls
<1>1. /\ futures' \in [Connects -> [Apis -> Calls \cup {None}]]
      /\ \A b \in Connects : \A n \in Apis :
            futures'[b][n] = IF b = c /\ n = api /\ outcome'[c] = None THEN c ELSE futures[b][n]
  <2>1. CASE Await(c, c, api, "discover")
    <3>1. \A b \in Connects : \A n \in Apis : futures[b][n] # c
        BY <1>a, FutureOfConnect
    <3>2. outcome'[c] = None
        BY <1>a, <2>1 DEF Await, TypeInv, TypeOK
    <3>3. /\ futures' \in [Connects -> [Apis -> Calls \cup {None}]]
          /\ \A b \in Connects : \A n \in Apis :
                futures'[b][n] = IF b = c /\ n = api THEN c
                                 ELSE IF futures[b][n] = c THEN None ELSE futures[b][n]
        BY <1>a, <2>1, AwaitFuture
    <3> QED
        BY <3>1, <3>2, <3>3
  <2>2. CASE Refused(c, c, api) /\ outcome' = [outcome EXCEPT ![c] = "error"]
    BY <1>a, <1>c, <2>2 DEF Refused, TypeInv, TypeOK
  <2> QED
    BY <2>1, <2>2 DEF Ask
<1>2. /\ pc' = [pc EXCEPT ![c] = "discover"]
      /\ \/ outcome' = [outcome EXCEPT ![c] = None] /\ busy' = [busy EXCEPT ![c] = api]
         \/ outcome' = [outcome EXCEPT ![c] = "error"] /\ busy' = busy
    BY DEF Ask, Await, Goto
<1> HIDE DEF api
<1>3. TypeInv'
  <2>1. outcome' \in [Calls -> Results \cup {None}]
    BY <1>2, <1>a DEF TypeInv, TypeOK
  <2>2. busy' \in [Connects -> Apis \cup {None}]
    BY <1>2, <1>a DEF TypeInv, TypeOK
  <2> QED
    BY <1>1, <1>2, <1>a, <2>1, <2>2 DEF TypeInv, TypeOK, Calls
<1>4. TurnInv'
    BY <1>2 DEF TurnInv, TypeInv, TypeOK, Over, Calls
<1>5. FutureInv'
    BY <1>1, <1>2, <1>a DEF FutureInv, TypeInv, TypeOK, Calls, Awaited, api
<1>6. LinkInv'
    BY <1>2 DEF LinkInv, TypeInv, TypeOK, TurnInv, Over, Calls
<1>7. EventInv'
    BY <1>2, <1>a, PostedFields DEF EventInv, EventAt, TypeInv, TypeOK, Calls
<1>8. HomeInv'
  <2>1. ASSUME NEW b \in Connects, b # c
        PROVE  /\ pc'[b] = pc[b] /\ busy'[b] = busy[b]
               /\ \A n \in Apis : futures'[b][n] = futures[b][n]
    BY <1>1, <1>2, <2>1 DEF TypeInv, TypeOK, Calls
  <2>2. busy \in [Connects -> Apis \cup {None}] /\ \A i \in 1..Len(posted) : posted[i].api \in Apis
    BY PostedFields DEF TypeInv, TypeOK
  <2>3. \A b \in Connects : pc'[b] \notin Failing /\ b # c => HomeOf(b)'
    BY <2>1, HomeStays DEF HomeInv
  <2>4. HomeOf(c)'
    <3>1. \A n \in Apis : futures[c][n] # None => n # api /\ futures'[c][n] = futures[c][n]
        BY <1>1, <1>c
    <3>2. \A i \in 1..Len(posted) : posted[i].cb = c => posted[i].api # api
        BY <1>a, <1>c DEF HomeInv, HomeOf
    <3>3. CASE outcome' = [outcome EXCEPT ![c] = None] /\ busy' = [busy EXCEPT ![c] = api]
      <4>1. busy'[c] = api /\ futures'[c][api] # None
        BY <3>3, <1>1, <1>a DEF TypeInv, TypeOK, Calls
      <4> QED
        BY <3>1, <3>2, <4>1, <2>2 DEF HomeInv, HomeOf
    <3>4. CASE outcome' = [outcome EXCEPT ![c] = "error"] /\ busy' = busy
        BY <3>1, <3>4, <2>2 DEF HomeInv, HomeOf
    <3> QED
        BY <1>2, <3>3, <3>4
  <2> QED
    BY <2>3, <2>4 DEF HomeInv
<1>9. OpenInv'
    BY <1>2 DEF OpenInv, Told, TypeInv, TypeOK, TurnInv, Over, Calls
<1>t. TakenInv'
    BY <1>2 DEF TakenInv, Told, TypeInv, TypeOK, TurnInv, Over, Calls
<1>10. NoLinkForgotten'
    BY <1>2 DEF NoLinkForgotten, TypeInv, TypeOK, TurnInv, Over, Calls
<1> QED
    BY <1>3, <1>4, <1>5, <1>6, <1>7, <1>8, <1>9, <1>10, <1>t

\* A connect() that was refused: its connection is down.
LEMMA NotConnectedInvariant ==
    ASSUME Invariant, NEW c \in Connects, NotConnected(c) PROVE Invariant'
<1> USE CallsAssumption DEF Invariant, Failing, NotConnected, Goto, client, java, android
<1>1. TypeInv'
    BY DEF TypeInv, TypeOK, Calls
<1>2. TurnInv'
    BY DEF TurnInv, TypeInv, TypeOK, Over, Calls
<1>3. FutureInv'
  <2>1. \A b \in Connects : \A n \in Apis : futures[b][n] # c
    BY FutureOfConnect DEF Results, States
  <2> QED
    BY <2>1 DEF FutureInv, TypeInv, TypeOK, Calls
<1>4. LinkInv'
    BY DEF LinkInv, TypeInv, TypeOK, TurnInv, Over, Calls
<1>5. EventInv'
    BY PostedFields DEF EventInv, EventAt, TypeInv, TypeOK, Calls, Results, States
<1>6. HomeInv'
    BY HomeStays DEF HomeInv, TypeInv, TypeOK, Calls
<1>7. OpenInv'
    BY DEF OpenInv, Told, TypeInv, TypeOK, Calls
<1>8. TakenInv'
    BY DEF TakenInv, Told, TypeInv, TypeOK, Calls
<1>9. NoLinkForgotten'
    BY DEF NoLinkForgotten, TypeInv, TypeOK, LinkInv, Calls
<1> QED
    BY <1>1, <1>2, <1>3, <1>4, <1>5, <1>6, <1>7, <1>8, <1>9

\* A connect() that is cancelled in its first await takes its future along.
LEMMA GiveUpInvariant ==
    ASSUME Invariant, NEW c \in Connects, GiveUp(c) PROVE Invariant'
<1> USE CallsAssumption DEF Invariant, Failing, GiveUp, Goto, client, android
<1>1. /\ futures' \in [Connects -> [Apis -> Calls \cup {None}]]
      /\ \A b \in Connects : \A n \in Apis :
            futures'[b][n] = IF futures[b][n] = c THEN None ELSE futures[b][n]
    BY WithoutFuture DEF Calls
<1>2. \A b \in Connects : b # c => \A n \in Apis : futures[b][n] # c
    BY FutureOfConnect
<1>3. TypeInv'
    BY <1>1 DEF TypeInv, TypeOK, Calls
<1>4. TurnInv'
    BY DEF TurnInv, TypeInv, TypeOK, Over, Calls
<1>5. FutureInv'
    BY <1>1 DEF FutureInv, TypeInv, TypeOK, Calls
<1>6. LinkInv'
    BY DEF LinkInv, TypeInv, TypeOK, TurnInv, Over, Calls
<1>7. EventInv'
    BY PostedFields DEF EventInv, EventAt, TypeInv, TypeOK, Calls
<1>8. HomeInv'
    BY <1>1, <1>2, HomeStays DEF HomeInv, TypeInv, TypeOK, Calls
<1>9. OpenInv'
    BY DEF OpenInv, Told, TypeInv, TypeOK, Calls
<1>10. TakenInv'
    BY DEF TakenInv, Told, TypeInv, TypeOK, TurnInv, Over, Calls
<1>11. NoLinkForgotten'
    BY DEF NoLinkForgotten, TypeInv, TypeOK, Calls
<1> QED
    BY <1>3, <1>4, <1>5, <1>6, <1>7, <1>8, <1>9, <1>10, <1>11

\* A connect() whose fields were reset: its connection is not there any more.
LEMMA FieldsGoneInvariant ==
    ASSUME Invariant, NEW c \in Connects, FieldsGone(c) PROVE Invariant'
<1> USE CallsAssumption DEF Invariant, Failing, FieldsGone, Goto, java, android, Forget
<1>1. TypeInv'
    BY DEF TypeInv, TypeOK, Calls
<1>2. TurnInv'
    BY DEF TurnInv, TypeInv, TypeOK, Over, Calls
<1>3. FutureInv'
  <2>1. \A b \in Connects : \A n \in Apis : futures[b][n] # c
    BY FutureOfConnect DEF Results, States
  <2> QED
    BY <2>1 DEF FutureInv, TypeInv, TypeOK, Calls
<1>4. LinkInv'
    BY DEF LinkInv, TypeInv, TypeOK, TurnInv, Calls, Results, States
<1>5. EventInv'
    BY PostedFields DEF EventInv, EventAt, TypeInv, TypeOK, Calls, Results, States
<1>6. HomeInv'
    BY HomeStays DEF HomeInv, TypeInv, TypeOK, Calls
<1>7. OpenInv'
    BY DEF OpenInv, Told, TypeInv, TypeOK, Calls
<1>8. TakenInv'
    BY DEF TakenInv, Told, TypeInv, TypeOK, TurnInv, Over, Calls
<1>9. NoLinkForgotten'
    BY DEF NoLinkForgotten, TakenInv, TypeInv, TypeOK, Calls
<1> QED
    BY <1>1, <1>2, <1>3, <1>4, <1>5, <1>6, <1>7, <1>8, <1>9

\* The connection connect() returns is the client's.
LEMMA ServicesDiscoveredInvariant ==
    ASSUME Invariant, NEW c \in Connects, ServicesDiscovered(c) PROVE Invariant'
<1> USE CallsAssumption DEF Invariant, Failing, ServicesDiscovered, Goto, Results, States, java, android
<1>1. TypeInv'
    BY DEF TypeInv, TypeOK, Calls
<1>2. TurnInv'
    BY DEF TurnInv, TypeInv, TypeOK, Over, Calls
<1>3. FutureInv'
    BY DEF FutureInv, TypeInv, TypeOK, Calls
<1>4. LinkInv'
    BY DEF LinkInv, TypeInv, TypeOK, Calls
<1>5. EventInv'
    BY PostedFields DEF EventInv, EventAt, TypeInv, TypeOK, Calls
<1>6. HomeInv'
    BY HomeStays DEF HomeInv, TypeInv, TypeOK, Calls
<1>7. OpenInv'
    BY DEF OpenInv, Told, TypeInv, TypeOK, TurnInv, Over, Calls
<1>t. TakenInv'
    BY DEF TakenInv, Told, TypeInv, TypeOK, TurnInv, Over, Calls
<1>8. NoLinkForgotten'
    BY DEF NoLinkForgotten, TypeInv, TypeOK, TurnInv, Over, Calls
<1> QED
    BY <1>1, <1>2, <1>3, <1>4, <1>5, <1>6, <1>7, <1>8, <1>t

-----------------------------------------------------------------------------
\* disconnect() and the requests

\* Who may hang up.
Hanging(x, there, end) ==
    \/ x \in Connects /\ pc[x] \in {"mtu", "discover"} /\ there = "cleanup" /\ end = "raised"
    \/ x \in Disconnects /\ pc[x] = "idle" /\ there = "waiting" /\ end = "done"

\* There is no connection, or it is known to be down and the client forgets it.
LEMMA HangupEnds ==
    ASSUME Invariant, NEW x \in Connects \cup Disconnects, NEW there, NEW end,
           Hanging(x, there, end), Hangup(x, there, end),
           UNCHANGED <<states, posted, busy, told, losses>>,
           gatt = None \/ states[callbacks] = "down"
    PROVE  Invariant'
<1> USE CallsAssumption DEF Invariant, Failing
<1>1. /\ pc' = [pc EXCEPT ![x] = end] /\ x \in Calls /\ end \in {"raised", "done"}
      /\ x \in Connects => pc[x] \in {"mtu", "discover"} /\ end = "raised"
      /\ x \in Disconnects => pc[x] = "idle" /\ end = "done"
    BY DEF Hangup, Hanging, Calls, Goto
<1>2. /\ outcome' = outcome /\ link' = link /\ gatt' = None
      /\ services' \in {services, None} /\ closed' \subseteq closed \cup ({gatt} \ {None})
      /\ \/ callbacks' = callbacks /\ gatt = None
         \/ callbacks' = None /\ callbacks \in Connects /\ link[callbacks] = "down"
    BY DEF Hangup, Forget, client, LinkInv, TurnInv, TypeInv, TypeOK
<1>3. /\ futures' \in [Connects -> [Apis -> Calls \cup {None}]]
      /\ \A b \in Connects : \A n \in Apis :
            futures'[b][n] = IF futures[b][n] = x THEN None ELSE futures[b][n]
    BY <1>1, WithoutFuture DEF Hangup
<1>4. /\ \A y \in Calls : y # x => pc'[y] = pc[y]
      /\ pc'[x] = end
    BY <1>1 DEF TypeInv, TypeOK
<1>5. TypeInv'
    BY <1>1, <1>2, <1>3 DEF TypeInv, TypeOK, Calls
<1>6. TurnInv'
    BY <1>1, <1>2, <1>4 DEF TurnInv, TypeInv, TypeOK, Over, Calls
<1>7. FutureInv'
  <2>1. SUFFICES ASSUME NEW b \in Connects, NEW n \in Apis, futures'[b][n] # None
                 PROVE  LET y == futures'[b][n] IN
                        /\ y = futures[b][n] /\ pc'[y] = pc[y]
                        /\ \A a \in Connects : \A m \in Apis : futures'[a][m] = y => a = b /\ m = n
    BY <1>2 DEF FutureInv
  <2>2. futures'[b][n] = futures[b][n] /\ futures[b][n] # x /\ futures[b][n] \in Calls
    BY <2>1, <1>3, FutureWaits
  <2> QED
    BY <2>1, <2>2, <1>3, <1>4 DEF FutureInv
<1>8. LinkInv'
    BY <1>1, <1>2, <1>4 DEF LinkInv, TurnInv, TypeInv, TypeOK, Over, Calls
<1>9. EventInv'
    BY <1>1, <1>2, <1>4, PostedFields DEF EventInv, EventAt, TypeInv, TypeOK, Calls
<1>10. HomeInv'
  <2>1. SUFFICES ASSUME NEW b \in Connects, pc'[b] \notin Failing PROVE HomeOf(b)'
    BY DEF HomeInv
  <2>2. b # x /\ pc'[b] = pc[b]
    BY <2>1, <1>1, <1>4 DEF Calls
  <2>3. \A n \in Apis : futures[b][n] # x
    BY <2>2, <1>1, FutureOfConnect, FutureWaits DEF Over
  <2> QED
    BY <2>1, <2>2, <2>3, <1>2, <1>3, HomeStays DEF HomeInv
<1>11. OpenInv'
    BY <1>1, <1>2, <1>4 DEF OpenInv, Told, TypeInv, TypeOK, Calls
<1>12. TakenInv'
  <2>1. SUFFICES ASSUME NEW b \in Connects, pc'[b] = "connecting"
                 PROVE  /\ futures'[b][StateApi] = b =>
                              /\ \A d \in Disconnects : pc'[d] # "waiting"
                              /\ callbacks' = None => link[b] = "down"
                        /\ outcome[b] = "up" /\ (callbacks' = None \/ \E d \in Disconnects : Told(d)')
                              => link[b] = "down"
    BY <1>2 DEF TakenInv
  <2>2. b # x /\ pc[b] = "connecting" /\ StateApi \in Apis
    BY <2>1, <1>1, <1>4 DEF Calls, StateApi, Apis, ConnectApis
  <2>3. \A d \in Disconnects : (pc'[d] = "waiting" => pc[d] = "waiting") /\ (Told(d)' => Told(d))
    BY <1>1, <1>2, <1>4 DEF Told, Calls
  <2>4. callbacks \in {b, None}
    BY <2>2 DEF TurnInv, Over
  <2>5. futures'[b][StateApi] = b => futures[b][StateApi] = b
    BY <2>2, <1>3 DEF Calls
  <2>6. callbacks' = None => link[b] = "down" \/ callbacks = None
    BY <2>4, <1>2
  <2>7. /\ futures[b][StateApi] = b => /\ \A d \in Disconnects : pc[d] # "waiting"
                                       /\ callbacks = None => link[b] = "down"
        /\ outcome[b] = "up" /\ (callbacks = None \/ \E d \in Disconnects : Told(d))
              => link[b] = "down"
    BY <2>2 DEF TakenInv
  <2> QED
    BY <2>3, <2>5, <2>6, <2>7
<1>13. NoLinkForgotten'
    BY <1>1, <1>2, <1>4 DEF NoLinkForgotten, LinkInv, Calls
<1> QED
    BY <1>5, <1>6, <1>7, <1>8, <1>9, <1>10, <1>11, <1>12, <1>13

\* The link is told to end, and the caller waits for it to.
LEMMA HangupWaits ==
    ASSUME Invariant, NEW x \in Connects \cup Disconnects, NEW there, NEW end,
           Hanging(x, there, end), Hangup(x, there, end),
           UNCHANGED <<states, posted, busy, told, losses>>,
           gatt # None, states[callbacks] # "down"
    PROVE  Invariant'
<1> USE CallsAssumption DEF Invariant, Failing, Goto, Results, States, client
<1>a. callbacks \in Connects /\ gatt \in Connects /\ x \in Calls /\ StateApi \in Apis
    BY DEF TypeInv, TypeOK, TurnInv, Calls, StateApi, Apis, ConnectApis
<1>b. Await(x, callbacks, StateApi, there)
    BY DEF Hangup, StateApi
<1>1. /\ pc' = [pc EXCEPT ![x] = there] /\ there \in {"cleanup", "waiting"}
      /\ x \in Connects => pc[x] \in {"mtu", "discover"} /\ there = "cleanup"
                             /\ gatt = x /\ callbacks = x
      /\ x \in Disconnects => pc[x] = "idle" /\ there = "waiting"
    BY <1>b DEF Await, Hanging, Calls, TurnInv, Over
<1>2. /\ outcome' = [outcome EXCEPT ![x] = None] /\ UNCHANGED <<client, closed>>
      /\ link' = [link EXCEPT ![gatt] = IF @ = "up" THEN "closing" ELSE @]
    BY <1>b DEF Await, Hangup
<1>3. /\ futures' \in [Connects -> [Apis -> Calls \cup {None}]]
      /\ \A b \in Connects : \A n \in Apis :
            futures'[b][n] = IF b = callbacks /\ n = StateApi THEN x
                             ELSE IF futures[b][n] = x THEN None ELSE futures[b][n]
    BY <1>a, <1>b, AwaitFuture
<1>4. /\ \A b \in Connects : link'[b] = IF b = gatt /\ link[b] = "up" THEN "closing" ELSE link[b]
      /\ link' \in [Connects -> {"none", "pending", "up", "closing", "down"}]
    BY <1>2, <1>a DEF TypeInv, TypeOK
<1>5. TypeInv'
    BY <1>1, <1>2, <1>3, <1>4 DEF TypeInv, TypeOK, Calls
<1>6. TurnInv'
    BY <1>1, <1>2 DEF TurnInv, TypeInv, TypeOK, Over, Calls
<1>7. FutureInv'
    BY <1>1, <1>2, <1>3, <1>a DEF FutureInv, TypeInv, TypeOK, Over, Calls, Awaited
<1>8. LinkInv'
    BY <1>1, <1>2, <1>4, <1>a DEF LinkInv, TypeInv, TypeOK, Over, Calls
<1>9. EventInv'
    BY <1>1, <1>2, <1>4, PostedFields DEF EventInv, EventAt, TypeInv, TypeOK, Calls
<1>10. HomeInv'
  <2>1. SUFFICES ASSUME NEW b \in Connects, pc'[b] \notin Failing PROVE HomeOf(b)'
    BY DEF HomeInv
  <2>2. b # x /\ pc'[b] = pc[b]
    BY <2>1, <1>1 DEF TypeInv, TypeOK, Calls
  <2>3. \A n \in Apis : futures[b][n] # x
    <3>1. CASE x \in Connects
        BY <3>1, <2>2, FutureOfConnect
    <3>2. CASE x \in Disconnects
        BY <3>2, <1>1, <1>a, FutureWaits DEF Over
    <3> QED
        BY <3>1, <3>2
  <2>4. link'[b] = "up" => link[b] = "up"
    BY <1>4
  <2>5. \A n \in Apis : futures[b][n] # None => futures'[b][n] # None
    BY <2>3, <1>3, <1>a
  <2> QED
    BY <2>1, <2>2, <2>4, <2>5, <1>2, HomeStays DEF HomeInv
<1>11. OpenInv'
    BY <1>1, <1>2, <1>4, <1>a DEF OpenInv, Told, TypeInv, TypeOK, Over, Calls
<1>t. TakenInv'
  <2>1. SUFFICES ASSUME NEW b \in Connects, pc'[b] = "connecting"
                 PROVE  /\ futures'[b][StateApi] # b
                        /\ outcome'[b] = "up" /\ (callbacks' = None \/ \E d \in Disconnects : Told(d)')
                              => link'[b] = "down"
    BY DEF TakenInv
  <2>2. b # x /\ pc[b] = "connecting" /\ outcome'[b] = outcome[b]
    BY <2>1, <1>1, <1>2 DEF TypeInv, TypeOK, Calls
  <2>3. callbacks = b
    BY <2>2, <1>a DEF TurnInv, Over
  <2>4. \A d \in Disconnects : Told(d)' => Told(d)
    BY <1>1, <1>2, <1>a DEF Told, TypeInv, TypeOK, Calls
  <2>5. link[b] = "down" => link'[b] = "down"
    BY <1>4
  <2> QED
    BY <2>2, <2>3, <2>4, <2>5, <1>2, <1>3, <1>a DEF TakenInv
<1>12. NoLinkForgotten'
    BY <1>1, <1>2, <1>4 DEF NoLinkForgotten, TypeInv, TypeOK, Calls
<1> QED
    BY <1>5, <1>6, <1>7, <1>8, <1>9, <1>10, <1>11, <1>12, <1>t

\* connect() fails after it had its BluetoothGatt.
LEMMA ConnectFailsInvariant ==
    ASSUME Invariant, NEW c \in Connects, ConnectFails(c) PROVE Invariant'
<1>1. Hanging(c, "cleanup", "raised")
    BY DEF Hanging, ConnectFails, Invariant, TurnInv, Over
<1> QED
    BY <1>1, HangupEnds, HangupWaits DEF ConnectFails

\* disconnect(), which ends at once when there is no connection or it is down already.
LEMMA DisconnectInvariant ==
    ASSUME Invariant, NEW d \in Disconnects, Disconnect(d) PROVE Invariant'
<1>1. Hanging(d, "waiting", "done")
    BY DEF Hanging, Disconnect
<1> QED
    BY <1>1, HangupEnds, HangupWaits DEF Disconnect

\* The end of the link was awaited: the client forgets it.
LEMMA HungUpInvariant ==
    ASSUME Invariant, NEW x \in Calls, HungUp(x) PROVE Invariant'
<1> USE CallsAssumption DEF Invariant, Failing, HungUp, Results, States, Forget, java
<1>1. /\ pc' = [pc EXCEPT ![x] = IF pc[x] = "cleanup" THEN "raised" ELSE "done"]
      /\ (x \in Connects /\ pc[x] = "cleanup") \/ (x \in Disconnects /\ pc[x] = "waiting")
    BY DEF Goto, TypeInv, Calls
<1>2. /\ \A b \in Connects : \A n \in Apis : futures[b][n] # x
      /\ x \in Calls
    BY <1>1 DEF FutureInv, Calls
<1>3. /\ gatt # None => link[gatt] = "down" \/ (pc[gatt] \in Failing /\ link[gatt] = "closing")
      /\ \A b \in Connects : pc[b] = "connecting" =>
            (outcome[b] = "up" => link[b] = "down") /\ futures[b][StateApi] # b
  <2>1. CASE x \in Connects /\ pc[x] = "cleanup"
    BY <2>1 DEF LinkInv, TurnInv, Over
  <2>2. CASE x \in Disconnects /\ Told(x)
    BY <2>2 DEF LinkInv, OpenInv, TakenInv, TypeInv, TypeOK
  <2> QED
    BY <1>1, <2>1, <2>2 DEF Told
<1>4. TypeInv'
    BY <1>1, <1>3 DEF TypeInv, TypeOK, Calls
<1>5. TurnInv'
    BY <1>1, <1>2 DEF TypeInv, TypeOK, TurnInv, Over, Calls
<1>6. FutureInv'
  <2>1. SUFFICES ASSUME NEW b \in Connects, NEW n \in Apis, futures[b][n] # None
                 PROVE  pc'[futures[b][n]] = pc[futures[b][n]]
    BY DEF FutureInv
  <2>2. futures[b][n] # x /\ futures[b][n] \in Calls
    BY <2>1, <1>2, FutureWaits
  <2> QED
    BY <2>2, <1>1 DEF TypeInv, TypeOK
<1>7. LinkInv'
    BY <1>1 DEF LinkInv, TypeInv, TypeOK, Calls
<1>8. EventInv'
    BY <1>1, PostedFields DEF EventInv, EventAt, TypeInv, TypeOK, Calls
<1>9. HomeInv'
    BY <1>1, HomeStays DEF HomeInv, TypeInv, TypeOK, Calls
<1>10. OpenInv'
    BY <1>1, <1>2, <1>3 DEF OpenInv, Told, TurnInv, TypeInv, TypeOK, Over, Calls
<1>t. TakenInv'
    BY <1>1, <1>3, CallsAssumption DEF TakenInv, TypeInv, TypeOK, Calls
<1>11. NoLinkForgotten'
    BY <1>1, <1>3 DEF NoLinkForgotten, TypeInv, TypeOK, Calls
<1> QED
    BY <1>4, <1>5, <1>6, <1>7, <1>8, <1>9, <1>10, <1>11, <1>t

\* A cancelled hangup leaves the client as it is, and its future is gone.
LEMMA HangupCancelledInvariant ==
    ASSUME Invariant, NEW x \in Calls, HangupCancelled(x) PROVE Invariant'
<1> USE CallsAssumption DEF Invariant, Failing, HangupCancelled, Results, States, client, android
<1>1. /\ pc' = [pc EXCEPT ![x] = "raised"]
      /\ (x \in Connects /\ pc[x] = "cleanup") \/ (x \in Disconnects /\ pc[x] = "waiting")
    BY DEF Goto, TypeInv, Calls
<1>2. /\ futures' \in [Connects -> [Apis -> Calls \cup {None}]]
      /\ \A b \in Connects : \A n \in Apis :
            futures'[b][n] = IF futures[b][n] = x THEN None ELSE futures[b][n]
    BY WithoutFuture
<1>3. TypeInv'
    BY <1>1, <1>2 DEF TypeInv, TypeOK, Calls
<1>4. TurnInv'
    BY <1>1 DEF TypeInv, TypeOK, TurnInv, Over, Calls
<1>5. FutureInv'
    BY <1>1, <1>2 DEF FutureInv, TypeInv, TypeOK, Calls
<1>6. LinkInv'
    BY <1>1 DEF LinkInv, TypeInv, TypeOK, Calls
<1>7. EventInv'
    BY <1>1, PostedFields DEF EventInv, EventAt, TypeInv, TypeOK, Calls
<1>8. HomeInv'
  <2>1. SUFFICES ASSUME NEW b \in Connects, pc'[b] \notin Failing PROVE HomeOf(b)'
    BY DEF HomeInv
  <2>2. b # x /\ pc'[b] = pc[b]
    BY <2>1, <1>1 DEF TypeInv, TypeOK, Calls
  <2>3. HomeOf(b)
    BY <2>1, <2>2 DEF HomeInv
  <2>4. \A n \in Apis : futures[b][n] = x => n = StateApi
    BY <1>1, <2>2, FutureOfConnect DEF FutureInv
  <2>5. /\ busy[b] \in Apis \cup {None} /\ busy[b] # StateApi
        /\ \A i \in 1..Len(posted) : posted[i].api \in Apis
    BY PostedFields DEF TypeInv, TypeOK, EventInv, EventAt
  <2> QED
    BY <2>3, <2>4, <2>5, <1>2 DEF HomeOf
<1>9. OpenInv'
    BY <1>1 DEF OpenInv, Told, TypeInv, TypeOK, Calls
<1>t. TakenInv'
    BY <1>1, <1>2 DEF TakenInv, Told, TypeInv, TypeOK, Calls, StateApi, Apis, ConnectApis
<1>10. NoLinkForgotten'
    BY <1>1 DEF NoLinkForgotten, TypeInv, TypeOK, Calls
<1> QED
    BY <1>3, <1>4, <1>5, <1>6, <1>7, <1>8, <1>9, <1>10, <1>t

\* A request takes a name nobody waits under.
LEMMA RequestInvariant ==
    ASSUME Invariant, NEW x \in Requests, Request(x) PROVE Invariant'
<1> DEFINE api == ApiOf[x]
<1> USE CallsAssumption DEF Invariant, Failing, Request, Results, States, client
<1>a. /\ callbacks \in Connects /\ gatt \in Connects
      /\ x \in Calls /\ x \notin Connects /\ x \notin Disconnects
      /\ api \in Apis /\ StateApi \in Apis /\ api # StateApi /\ api \notin ConnectApis
    BY DEF TypeInv, TypeOK, TurnInv, Calls, StateApi, Apis, ConnectApis
<1>b. \A b \in Connects : \A n \in Apis :
          futures[b][n] \notin Connects /\ (futures[b][n] # None => futures[b][n] # x)
    BY FutureWaits, FutureOfConnect DEF Over
<1>c. futures[callbacks][api] = None
  <2>1. SUFFICES ASSUME futures[callbacks][api] # None PROVE FALSE
    OBVIOUS
  <2>2. futures[callbacks][api] \in Calls
    BY <1>a, <2>1, FutureWaits
  <2>3. futures[callbacks][api] \in Requests
    BY <1>a, <1>b, <2>1, <2>2 DEF FutureInv, Calls
  <2> QED
    BY <1>a, <2>1, <2>3 DEF FutureInv
<1>d. pc[gatt] \in {"done", "raised", "givenup"}
    BY <1>a DEF LinkInv, Over
<1>1. \/ /\ busy[gatt] = None /\ busy' = [busy EXCEPT ![gatt] = api]
         /\ Await(x, callbacks, api, "wait")
      \/ /\ busy' = busy /\ outcome' = outcome /\ pc' = [pc EXCEPT ![x] = "raised"]
         /\ futures' = [futures EXCEPT ![callbacks][api] = None]
    BY DEF Refused, Goto
<1>2. /\ futures' \in [Connects -> [Apis -> Calls \cup {None}]]
      /\ \A b \in Connects : \A n \in Apis :
            futures'[b][n] = IF b = callbacks /\ n = api /\ pc'[x] = "wait" THEN x ELSE futures[b][n]
  <2>1. CASE Await(x, callbacks, api, "wait")
    <3>1. pc'[x] = "wait"
        BY <2>1, <1>a DEF Await, Goto, TypeInv, TypeOK
    <3> QED
        BY <3>1, <2>1, <1>a, <1>b, AwaitFuture
  <2>2. CASE futures' = [futures EXCEPT ![callbacks][api] = None] /\ pc' = [pc EXCEPT ![x] = "raised"]
    BY <1>a, <1>c, <2>2 DEF TypeInv, TypeOK
  <2> QED
    BY <1>1, <2>1, <2>2
<1>3. \/ /\ busy[gatt] = None /\ busy' = [busy EXCEPT ![gatt] = api]
         /\ pc' = [pc EXCEPT ![x] = "wait"] /\ outcome' = [outcome EXCEPT ![x] = None]
      \/ busy' = busy /\ outcome' = outcome /\ pc' = [pc EXCEPT ![x] = "raised"]
    BY <1>1 DEF Await, Goto
<1>4. /\ \A y \in Calls : y # x => pc'[y] = pc[y] /\ outcome'[y] = outcome[y]
      /\ \A c \in Connects : pc'[c] = pc[c] /\ outcome'[c] = outcome[c]
      /\ \A d \in Disconnects : pc'[d] = pc[d] /\ outcome'[d] = outcome[d]
      /\ pc'[x] \in {"wait", "raised"} /\ (pc'[x] = "wait" => outcome'[x] = None)
    BY <1>3, <1>a DEF TypeInv, TypeOK, Calls
<1> HIDE DEF api
<1>5. TypeInv'
  <2>1. /\ busy' \in [Connects -> Apis \cup {None}]
    BY <1>3, <1>a DEF TypeInv, TypeOK
  <2>2. outcome' \in [Calls -> Results \cup {None}]
    BY <1>3, <1>a DEF TypeInv, TypeOK
  <2>3. pc' \in [Calls -> {"idle", "connecting", "mtu", "discover", "cleanup", "waiting",
                          "wait", "done", "raised", "givenup"}]
    BY <1>3, <1>a DEF TypeInv, TypeOK
  <2>4. \A y \in Requests : pc'[y] \in {"idle", "wait", "done", "raised"}
    BY <1>4 DEF TypeInv, Calls
  <2> QED
    BY <1>2, <1>4, <2>1, <2>2, <2>3, <2>4 DEF TypeInv, TypeOK
<1>6. TurnInv'
    BY <1>4 DEF TurnInv, Over
<1>7. FutureInv'
  <2>1. SUFFICES ASSUME NEW b \in Connects, NEW n \in Apis, futures'[b][n] # None
                 PROVE  LET y == futures'[b][n] IN
                        /\ outcome'[y] = None
                        /\ \A a \in Connects : \A m \in Apis : futures'[a][m] = y => a = b /\ m = n
                        /\ y \notin Connects
                        /\ y \in Disconnects =>
                              n = StateApi /\ pc'[y] = "waiting" /\ callbacks \in {b, None}
                        /\ y \in Requests => n = ApiOf[y] /\ pc'[y] = "wait"
    BY DEF FutureInv
  <2>2. CASE b = callbacks /\ n = api /\ pc'[x] = "wait"
    BY <2>2, <1>2, <1>4, <1>a, <1>b DEF api
  <2>3. CASE futures'[b][n] = futures[b][n] /\ futures[b][n] # x
    <3>1. futures[b][n] \in Calls
        BY <2>1, <2>3, FutureWaits
    <3> QED
        BY <2>1, <2>3, <3>1, <1>2, <1>4, <1>b DEF FutureInv
  <2> QED
    BY <2>1, <2>2, <2>3, <1>2, <1>b
<1>8. LinkInv'
    BY <1>4 DEF LinkInv
<1>9. EventInv'
  <2>1. \A c \in Connects : busy'[c] # StateApi /\ (busy'[c] # None => busy'[c] = busy[c] \/ c = gatt)
    BY <1>3, <1>a DEF EventInv, EventAt, TypeInv, TypeOK
  <2> QED
    BY <1>4, <1>d, <2>1, PostedFields DEF EventInv, EventAt
<1>10. HomeInv'
  <2>1. SUFFICES ASSUME NEW b \in Connects, pc'[b] \notin Failing PROVE HomeOf(b)'
    BY DEF HomeInv
  <2>2. HomeOf(b) /\ pc'[b] = pc[b]
    BY <2>1, <1>4 DEF HomeInv
  <2>3. \A n \in Apis : futures[b][n] # None => futures'[b][n] # None
    BY <1>2, <1>a
  <2>4. CASE busy'[b] = busy[b]
    BY <2>2, <2>3, <2>4, HomeStays
  <2>5. CASE b = gatt /\ busy'[b] = api /\ pc'[x] = "wait"
    <3>1. CASE gatt = callbacks
      <4>1. \A i \in 1..Len(posted) : posted[i].cb = b => posted[i].api # api
        BY <2>2, <2>5, <3>1, <1>a, <1>c DEF HomeOf
      <4>2. futures'[b][api] # None
        BY <2>5, <3>1, <1>2, <1>a
      <4>3. \A i \in 1..Len(posted) : posted[i].api \in Apis
        BY PostedFields
      <4> QED
        BY <2>2, <2>3, <2>5, <4>1, <4>2, <4>3 DEF HomeOf
    <3>2. CASE gatt # callbacks
      <4>1. link[b] = "down" /\ \A i \in 1..Len(posted) : posted[i].api \in Apis
        BY <2>5, <3>2, PostedFields DEF LinkInv
      <4> QED
        BY <2>2, <2>3, <4>1 DEF HomeOf
    <3> QED
        BY <3>1, <3>2
  <2> QED
    BY <2>4, <2>5, <1>3, <1>a, <1>4 DEF TypeInv, TypeOK
<1>11. OpenInv'
    BY <1>4, <1>a DEF OpenInv, Told
<1>t. TakenInv'
    BY <1>4, <1>a DEF TakenInv, Told, TypeInv, TypeOK, TurnInv, Over, Calls
<1>12. NoLinkForgotten'
    BY <1>4 DEF NoLinkForgotten
<1> QED
    BY <1>5, <1>6, <1>7, <1>8, <1>9, <1>10, <1>11, <1>12, <1>t

\* A request that was answered goes on.
LEMMA RequestEndsInvariant ==
    ASSUME Invariant, NEW x \in Requests, RequestEnds(x) PROVE Invariant'
<1> USE CallsAssumption DEF Invariant, Failing, RequestEnds, Goto, Results, States,
                            client, java, android
<1>1. TypeInv'
    BY DEF TypeInv, TypeOK, Calls
<1>2. TurnInv'
    BY DEF TurnInv, TypeInv, TypeOK, Over, Calls
<1>3. FutureInv'
    BY DEF FutureInv, TypeInv, TypeOK, Calls
<1>4. \A c \in Connects \cup Disconnects : pc'[c] = pc[c]
    BY DEF TypeInv, TypeOK, Calls
<1>5. LinkInv' /\ NoLinkForgotten'
    BY <1>4 DEF LinkInv, NoLinkForgotten
<1>8. OpenInv'
    BY <1>4 DEF OpenInv, Told, LinkInv, TurnInv, TypeInv, TypeOK
<1>t. TakenInv'
    BY <1>4 DEF TakenInv, Told, TypeInv, TypeOK, TurnInv, Over, Calls
<1>6. EventInv'
    BY <1>4, PostedFields DEF EventInv, EventAt
<1>7. HomeInv'
    BY <1>4, HomeStays DEF HomeInv
<1> QED
    BY <1>1, <1>2, <1>3, <1>5, <1>6, <1>7, <1>8, <1>t

-----------------------------------------------------------------------------
\* Android

\* A callback is posted behind the others.
LEMMA PostLast ==
    ASSUME TypeInv, NEW c \in Connects, NEW api \in Apis, NEW status \in {"success", "error"},
           NEW value \in {"up", "down", "ok"}, Post(c, api, status, value)
    PROVE  /\ posted' \in Seq(PostedTypes) /\ Len(posted) \in Nat /\ Len(posted') = Len(posted) + 1
           /\ \A i \in 1..Len(posted) : posted'[i] = posted[i]
           /\ posted'[Len(posted')] =
                 [cb |-> c, api |-> api, ok |-> status = "success", value |-> value]
<1> DEFINE e == [cb |-> c, api |-> api, ok |-> status = "success", value |-> value]
<1>1. e \in PostedTypes /\ posted' = Append(posted, e) /\ posted \in Seq(PostedTypes)
    BY DEF PostedTypes, Post, TypeInv
<1> HIDE DEF e
<1>2. /\ posted' \in Seq(PostedTypes) /\ Len(posted) \in Nat /\ Len(posted') = Len(posted) + 1
      /\ \A i \in 1..Len(posted) : posted'[i] = posted[i]
      /\ posted'[Len(posted')] = e
    BY <1>1
<1> QED
    BY <1>2 DEF e

\* A connection comes up: nothing of it was on its way.
LEMMA LinkUpInvariant ==
    ASSUME Invariant, NEW c \in Connects, LinkUp(c) PROVE Invariant'
<1> USE CallsAssumption DEF Invariant, Failing, LinkUp, client
<1>a. StateApi \in Apis /\ Post(c, StateApi, "success", "up")
    BY DEF StateApi, Apis, ConnectApis
<1>1. /\ posted' \in Seq(PostedTypes) /\ Len(posted) \in Nat /\ Len(posted') = Len(posted) + 1
      /\ \A i \in 1..Len(posted) : posted'[i] = posted[i]
      /\ posted'[Len(posted')] = [cb |-> c, api |-> StateApi, ok |-> TRUE, value |-> "up"]
    BY <1>a, PostLast
<1>2. /\ link' \in [Connects -> {"none", "pending", "up", "closing", "down"}]
      /\ \A b \in Connects : link'[b] = IF b = c THEN "up" ELSE link[b]
    BY DEF TypeInv, TypeOK
<1>3. pc[c] = "givenup" \/ (pc[c] = "connecting" /\ outcome[c] = None)
    BY DEF LinkInv
<1>4. \A i \in 1..Len(posted) : posted[i].cb # c
    BY DEF EventInv, EventAt
<1>5. TypeInv'
    BY <1>1, <1>2 DEF TypeInv, TypeOK
<1>6. TurnInv' /\ FutureInv' /\ OpenInv' /\ TakenInv'
  <2>1. TurnInv' /\ FutureInv'
    BY DEF TurnInv, FutureInv, Over
  <2>2. \A b \in Connects : link[b] = "down" => link'[b] = "down"
    BY <1>2
  <2>3. OpenInv' /\ TakenInv'
    BY <1>2, <1>3, <2>2 DEF OpenInv, TakenInv, Told, LinkInv, TurnInv, TypeInv, TypeOK
  <2> QED
    BY <2>1, <2>3
<1>7. LinkInv'
    BY <1>2, <1>3 DEF LinkInv, TypeInv, TypeOK, Results, States
<1>8. EventInv'
  <2>1. ASSUME NEW i \in 1..Len(posted') PROVE EventAt(i)'
    <3>1. CASE i = Len(posted')
        BY <3>1, <1>1, <1>2, <1>3, <1>4 DEF EventAt
    <3>2. CASE i \in 1..Len(posted)
      <4>1. /\ posted'[i] = posted[i] /\ EventAt(i) /\ posted[i].cb # c
            /\ posted[i].cb \in Connects /\ link'[posted[i].cb] = link[posted[i].cb]
        BY <3>2, <1>1, <1>2, <1>4, PostedFields DEF EventInv
      <4>2. /\ \A j \in 1..Len(posted') : j < i => j \in 1..Len(posted) /\ posted'[j] = posted[j]
            /\ \A j \in 1..Len(posted') :
                  (j \in 1..Len(posted) /\ posted'[j] = posted[j]) \/ posted'[j].cb = c
        BY <3>2, <1>1
      <4> QED
        BY <4>1, <4>2 DEF EventAt
    <3> QED
        BY <3>1, <3>2, <1>1
  <2> QED
    BY <2>1 DEF EventInv
<1>9. HomeInv'
  <2>1. SUFFICES ASSUME NEW b \in Connects, pc[b] \notin Failing PROVE HomeOf(b)'
    BY DEF HomeInv
  <2>2. HomeOf(b)
    BY <2>1 DEF HomeInv
  <2>3. CASE b = c
    BY <2>1, <2>3, <1>1, <1>3, <1>4 DEF HomeOf, EventInv
  <2>4. CASE b # c
    BY <2>2, <2>4, <1>1, <1>2, <1>4 DEF HomeOf
  <2> QED
    BY <2>3, <2>4
<1>10. NoLinkForgotten'
    BY <1>2 DEF NoLinkForgotten
<1> QED
    BY <1>5, <1>6, <1>7, <1>8, <1>9, <1>10

\* A connection ends: what is posted is the last of it, and the client is told.
LEMMA DownInvariant ==
    ASSUME Invariant, NEW c \in Connects, NEW status \in {"success", "error"}, Down(c, status),
           link[c] \in {"pending", "up", "closing"},
           UNCHANGED <<pc, outcome, client, states, futures, busy, closed>>,
           losses' \in 0..MaxLosses
    PROVE  Invariant'
<1> USE CallsAssumption DEF Invariant, Failing, Down, client
<1>a. StateApi \in Apis /\ Post(c, StateApi, status, "down")
    BY DEF StateApi, Apis, ConnectApis
<1>1. /\ posted' \in Seq(PostedTypes) /\ Len(posted) \in Nat /\ Len(posted') = Len(posted) + 1
      /\ \A i \in 1..Len(posted) : posted'[i] = posted[i]
      /\ posted'[Len(posted')] =
             [cb |-> c, api |-> StateApi, ok |-> status = "success", value |-> "down"]
    BY <1>a, PostLast
<1>2. /\ link' \in [Connects -> {"none", "pending", "up", "closing", "down"}]
      /\ \A b \in Connects : link'[b] = IF b = c THEN "down" ELSE link[b]
    BY DEF TypeInv, TypeOK
<1>5. TypeInv'
    BY <1>1, <1>2 DEF TypeInv, TypeOK
<1>6. TurnInv' /\ FutureInv' /\ OpenInv' /\ TakenInv'
  <2>1. TurnInv' /\ FutureInv'
    BY DEF TurnInv, FutureInv, Over
  <2>2. \A b \in Connects : link[b] = "down" => link'[b] = "down"
    BY <1>2
  <2>3. OpenInv' /\ TakenInv'
    BY <1>2, <2>2 DEF OpenInv, TakenInv, Told, LinkInv, TurnInv, TypeInv, TypeOK
  <2> QED
    BY <2>1, <2>3
<1>7. LinkInv'
    BY <1>2 DEF LinkInv, TypeInv, TypeOK, Results, States
<1>8. EventInv'
  <2>1. ASSUME NEW i \in 1..Len(posted') PROVE EventAt(i)'
    <3>1. CASE i = Len(posted')
        BY <3>1, <1>1, <1>2 DEF EventAt
    <3>2. CASE i \in 1..Len(posted)
      <4>1. /\ posted'[i] = posted[i] /\ EventAt(i) /\ posted[i].cb \in Connects
        BY <3>2, <1>1, PostedFields DEF EventInv
      <4>2. \A j \in 1..Len(posted') : j < i => j \in 1..Len(posted) /\ posted'[j] = posted[j]
        BY <3>2, <1>1
      <4>3. \A j \in 1..Len(posted') :
                (j \in 1..Len(posted) /\ posted'[j] = posted[j]) \/ posted'[j].cb = c
        BY <1>1
      <4>4. link'[posted[i].cb] \notin {"none", "pending"} /\ (posted[i].cb = c => link[c] # "down")
        BY <4>1, <1>2 DEF EventAt
      <4>5. link[posted[i].cb] = "down" => link'[posted[i].cb] = "down" /\ posted[i].cb # c
        BY <4>1, <1>2
      <4> QED
        BY <4>1, <4>2, <4>3, <4>4, <4>5 DEF EventAt
    <3> QED
        BY <3>1, <3>2, <1>1
  <2> QED
    BY <2>1 DEF EventInv
<1>9. HomeInv'
  <2>1. SUFFICES ASSUME NEW b \in Connects, pc[b] \notin Failing PROVE HomeOf(b)'
    BY DEF HomeInv
  <2>2. HomeOf(b)
    BY <2>1 DEF HomeInv
  <2>3. busy[b] # StateApi
    BY DEF EventInv
  <2> QED
    BY <2>2, <2>3, <1>1, <1>2 DEF HomeOf
<1>10. NoLinkForgotten'
    BY <1>2 DEF NoLinkForgotten
<1> QED
    BY <1>5, <1>6, <1>7, <1>8, <1>9, <1>10

\* The device answers what it owes, to the future that waits for it.
LEMMA AnswerInvariant ==
    ASSUME Invariant, NEW c \in Connects, Answer(c) PROVE Invariant'
<1> DEFINE api == busy[c]
<1> USE CallsAssumption DEF Invariant, Failing, Answer, client
<1>a. api \in Apis /\ api # StateApi /\ pc[c] \notin {"idle", "connecting"}
    BY DEF TypeInv, TypeOK, EventInv
<1>b. PICK status \in {"success", "error"} : Post(c, api, status, "ok")
    OBVIOUS
<1>1. /\ posted' \in Seq(PostedTypes) /\ Len(posted) \in Nat /\ Len(posted') = Len(posted) + 1
      /\ \A i \in 1..Len(posted) : posted'[i] = posted[i]
      /\ posted'[Len(posted')] = [cb |-> c, api |-> api, ok |-> status = "success", value |-> "ok"]
    BY <1>a, <1>b, PostLast
<1>2. /\ busy' \in [Connects -> Apis \cup {None}]
      /\ \A b \in Connects : busy'[b] = IF b = c THEN None ELSE busy[b]
    BY DEF TypeInv, TypeOK
<1> HIDE DEF api
<1>5. TypeInv'
    BY <1>1, <1>2 DEF TypeInv, TypeOK
<1>6. TurnInv' /\ FutureInv' /\ OpenInv' /\ TakenInv' /\ LinkInv' /\ NoLinkForgotten'
    BY DEF TurnInv, FutureInv, Over, OpenInv, TakenInv, Told, LinkInv, NoLinkForgotten
<1>7. EventInv'
  <2>1. ASSUME NEW i \in 1..Len(posted') PROVE EventAt(i)'
    <3>1. CASE i = Len(posted')
        BY <3>1, <1>1, <1>a DEF EventAt
    <3>2. CASE i \in 1..Len(posted)
      <4>1. /\ posted'[i] = posted[i] /\ EventAt(i)
            /\ posted[i].cb \in Connects
        BY <3>2, <1>1, PostedFields DEF EventInv
      <4>2. /\ \A j \in 1..Len(posted') : j < i => j \in 1..Len(posted) /\ posted'[j] = posted[j]
            /\ \A j \in 1..Len(posted') :
                  (j \in 1..Len(posted) /\ posted'[j] = posted[j]) \/ posted'[j].cb = c
        BY <3>2, <1>1
      <4> QED
        BY <4>1, <4>2 DEF EventAt
    <3> QED
        BY <3>1, <3>2, <1>1
  <2>2. None # StateApi
    BY DEF StateApi, Apis, ConnectApis
  <2>3. \A b \in Connects : /\ busy[b] # StateApi
                            /\ busy[b] # None => pc[b] \notin {"idle", "connecting"}
    BY DEF EventInv
  <2>4. \A b \in Connects : /\ busy'[b] # StateApi
                            /\ busy'[b] # None => pc'[b] \notin {"idle", "connecting"}
    BY <1>2, <2>2, <2>3
  <2> QED
    BY <2>1, <2>4 DEF EventInv
<1>8. HomeInv'
  <2>1. SUFFICES ASSUME NEW b \in Connects, pc[b] \notin Failing PROVE HomeOf(b)'
    BY DEF HomeInv
  <2>2. HomeOf(b)
    BY <2>1 DEF HomeInv
  <2>3. CASE b # c
    BY <2>2, <2>3, <1>1, <1>2 DEF HomeOf
  <2>4. CASE b = c
    <3>1. /\ futures[c][api] # None
          /\ \A i \in 1..Len(posted) : posted[i].cb = c => posted[i].api # api
        BY <2>2, <2>4, <1>a DEF HomeOf, api
    <3> QED
        BY <2>2, <2>4, <3>1, <1>1, <1>2, <1>a DEF HomeOf
  <2> QED
    BY <2>3, <2>4
<1> QED
    BY <1>5, <1>6, <1>7, <1>8

\* The event loop takes the first callback.
LEMMA TakeFirst ==
    ASSUME TypeInv, posted # <<>>, posted' = Tail(posted)
    PROVE  /\ posted' \in Seq(PostedTypes)
           /\ Len(posted) \in Nat \ {0} /\ Len(posted') = Len(posted) - 1
           /\ \A i \in 1..Len(posted') : i + 1 \in 1..Len(posted) /\ posted'[i] = posted[i + 1]
           /\ Head(posted) = posted[1]
<1>1. posted \in Seq(PostedTypes)
    BY DEF TypeInv
<1> QED
    BY <1>1

\* What a callback says reaches the call that waits for it; without one, an error reaches
\* all that wait.
LEMMA HandleInvariant ==
    ASSUME Invariant, Handle PROVE Invariant'
<1> DEFINE e == Head(posted)
           c == e.cb
           R == Resolves(e)
<1> USE CallsAssumption DEF Invariant, Failing, Results, States, client, android
<1>1. /\ posted' \in Seq(PostedTypes) /\ Len(posted) \in Nat \ {0} /\ Len(posted') = Len(posted) - 1
      /\ \A i \in 1..Len(posted') : i + 1 \in 1..Len(posted) /\ posted'[i] = posted[i + 1]
      /\ e = posted[1]
    BY TakeFirst DEF Handle
<1>2. /\ c \in Connects /\ e.api \in Apis /\ e.ok \in BOOLEAN /\ e.value \in {"up", "down", "ok"}
      /\ EventAt(1)
    BY <1>1, PostedFields DEF EventInv
<1>3. R \subseteq Apis /\ \A a \in R : futures[c][a] # None
    BY <1>2 DEF Resolves
<1>4. /\ futures' \in [Connects -> [Apis -> Calls \cup {None}]]
      /\ \A b \in Connects : \A n \in Apis :
            futures'[b][n] = IF b = c /\ n \in R THEN None ELSE futures[b][n]
    BY <1>2 DEF Handle, TypeInv, TypeOK
<1>5. /\ outcome' \in [Calls -> Results \cup {None}]
      /\ \A x \in Calls : (\A a \in R : futures[c][a] # x) => outcome'[x] = outcome[x]
      /\ \A x \in Calls : (\E a \in R : futures[c][a] = x) =>
                             outcome'[x] = IF e.ok THEN e.value ELSE "error"
  <2>1. outcome' = [x \in Calls |-> IF x \in {futures[c][a] : a \in R}
                                   THEN IF e.ok THEN e.value ELSE "error" ELSE outcome[x]]
    BY DEF Handle
  <2>2. \A x \in Calls : outcome[x] \in Results \cup {None}
    BY DEF TypeInv, TypeOK
  <2> HIDE DEF R, c, e
  <2> QED
    BY <1>2, <2>1, <2>2
<1>6. /\ states' \in [Connects -> States \cup {None}]
      /\ \A b \in Connects : states'[b] = IF b = c /\ e.api = StateApi THEN e.value ELSE states[b]
    BY <1>1, <1>2 DEF Handle, KeepState, TypeInv, TypeOK, StateApi, EventAt
<1>7. UNCHANGED <<pc, gatt, callbacks, services, link, busy, closed, told, losses>>
    BY DEF Handle
<1> HIDE DEF R
<1>8. TypeInv'
    BY <1>1, <1>4, <1>5, <1>6, <1>7 DEF TypeInv, TypeOK
<1>9. TurnInv' /\ NoLinkForgotten'
    BY <1>7 DEF TurnInv, Over, NoLinkForgotten
<1>10. FutureInv'
  <2>1. SUFFICES ASSUME NEW b \in Connects, NEW n \in Apis, futures'[b][n] # None
                 PROVE  outcome'[futures'[b][n]] = None
    BY <1>4, <1>7 DEF FutureInv
  <2>2. futures'[b][n] = futures[b][n] /\ futures[b][n] \in Calls /\ (b # c \/ n \notin R)
    BY <2>1, <1>4, FutureWaits
  <2>3. \A a \in R : futures[c][a] # futures[b][n]
    BY <2>1, <2>2, <1>2, <1>3 DEF FutureInv
  <2>4. outcome[futures[b][n]] = None
    BY <2>1, <2>2 DEF FutureInv
  <2> QED
    BY <2>2, <2>3, <2>4, <1>5
<1>11. ASSUME NEW b \in Connects, pc[b] = "connecting", outcome'[b] # outcome[b]
       PROVE  /\ b = c /\ futures[c][StateApi] = c
              /\ e.api = StateApi /\ link[c] \notin {"none", "pending"}
              /\ e.value = "up" => outcome'[b] = "up"
              /\ e.value = "down" => link[b] = "down" /\ outcome'[b] \in {"down", "error"}
  <2>1. PICK a \in R : futures[c][a] = b
    BY <1>5, <1>11 DEF Calls
  <2>2. b = c /\ a = StateApi
    BY <2>1, <1>2, <1>3, <1>11, FutureOfConnect DEF Awaited
  <2>3. e.api = StateApi
    BY <2>2, <1>1, <1>2, <1>11 DEF EventAt
  <2> QED
    BY <2>1, <2>2, <2>3, <1>1, <1>2, <1>5, <1>11 DEF EventAt, Calls
<1>12. LinkInv'
  <2>1. ASSUME NEW b \in Connects
        PROVE  /\ states'[b] = "down" => link[b] = "down"
               /\ pc[b] = "connecting" =>
                     /\ link[b] = "pending" => outcome'[b] = None
                     /\ outcome'[b] = "up" => link[b] # "none"
                     /\ outcome'[b] \in {"down", "error"} => link[b] = "down"
    <3>1. states'[b] = "down" => link[b] = "down"
        BY <1>1, <1>2, <1>6 DEF LinkInv, EventAt
    <3>2. CASE outcome'[b] = outcome[b]
        BY <3>1, <3>2 DEF LinkInv
    <3>3. CASE pc[b] = "connecting" /\ outcome'[b] # outcome[b]
        BY <3>1, <3>3, <1>11, <1>1, <1>2 DEF EventAt
    <3> QED
        BY <3>1, <3>2, <3>3
  <2> QED
    BY <2>1, <1>7 DEF LinkInv
<1>13. EventInv'
  <2>1. ASSUME NEW i \in 1..Len(posted') PROVE EventAt(i)'
    <3>1. /\ i + 1 \in 1..Len(posted) /\ posted'[i] = posted[i + 1] /\ EventAt(i + 1)
          /\ posted[i + 1].cb \in Connects
        BY <1>1, PostedFields DEF EventInv
    <3>2. \A j \in 1..Len(posted') :
              /\ posted'[j] = posted[j + 1] /\ j + 1 \in 1..Len(posted)
              /\ (j < i => j + 1 < i + 1) /\ (j > i => j + 1 > i + 1)
        BY <1>1
    <3>3. posted[i + 1].api = StateApi /\ posted[i + 1].value # "down" => posted[i + 1].cb # c
        BY <1>1, <3>1 DEF EventAt
    <3>4. posted[i + 1].cb # c /\ pc[posted[i + 1].cb] = "connecting" =>
             outcome'[posted[i + 1].cb] = outcome[posted[i + 1].cb]
        BY <3>1, <1>11
    <3>5. /\ posted[i + 1].value # "down" /\ posted[i + 1].api = StateApi =>
                \A j \in 1..Len(posted') : j < i => posted'[j].cb # posted[i + 1].cb
          /\ posted[i + 1].value = "down" /\ posted[i + 1].api = StateApi =>
                \A j \in 1..Len(posted') : j > i => posted'[j].cb # posted[i + 1].cb
        BY <3>1, <3>2 DEF EventAt
    <3>6. pc' = pc /\ link' = link
        BY <1>7
    <3> QED
        BY <3>1, <3>3, <3>4, <3>5, <3>6 DEF EventAt
  <2> QED
    BY <2>1, <1>7 DEF EventInv
<1>14. ASSUME NEW b \in Connects, pc[b] \notin Failing, HomeOf(b), b = c
       PROVE  R \subseteq {e.api} \/ (link[b] = "down" /\ \A i \in 1..Len(posted') : posted'[i].cb # b)
  <2>1. CASE futures[c][e.api] # None
    BY <2>1 DEF Resolves, R
  <2>2. CASE futures[c][e.api] = None /\ e.api # StateApi
    BY <2>2, <1>1, <1>2, <1>14 DEF HomeOf
  <2>3. CASE futures[c][e.api] = None /\ e.api = StateApi /\ e.value # "down"
    BY <2>3, <1>1, <1>2 DEF EventAt, Resolves, R
  <2>4. CASE futures[c][e.api] = None /\ e.api = StateApi /\ e.value = "down"
    <3>1. link[c] = "down" /\ \A j \in 1..Len(posted) : j > 1 => posted[j].cb # c
        BY <2>4, <1>1, <1>2 DEF EventAt
    <3>2. \A i \in 1..Len(posted') : i + 1 > 1
        BY <1>1
    <3> QED
        BY <3>1, <3>2, <1>1, <1>14
  <2> QED
    BY <2>1, <2>2, <2>3, <2>4
<1>15. HomeInv'
  <2>1. SUFFICES ASSUME NEW b \in Connects, pc[b] \notin Failing PROVE HomeOf(b)'
    BY <1>7 DEF HomeInv
  <2>2. HomeOf(b)
    BY <2>1 DEF HomeInv
  <2>3. busy[b] \in Apis \cup {None} /\ busy[b] # StateApi
    BY DEF TypeInv, TypeOK, EventInv
  <2>7. \A i \in 1..Len(posted') : posted'[i].api \in Apis
    BY <1>1, PostedFields
  <2>8. \A i \in 1..Len(posted') : \A j \in 1..Len(posted') :
            posted[j + 1].cb = b /\ posted[j + 1].api = posted[i + 1].api
              /\ posted[i + 1].cb = b /\ posted[i + 1].api # StateApi => j = i
    <3> SUFFICES ASSUME NEW i \in 1..Len(posted'), NEW j \in 1..Len(posted'),
                        posted[j + 1].cb = b, posted[j + 1].api = posted[i + 1].api,
                        posted[i + 1].cb = b, posted[i + 1].api # StateApi
                 PROVE  j = i
        OBVIOUS
    <3>1. i + 1 \in 1..Len(posted) /\ j + 1 \in 1..Len(posted)
        BY <1>1
    <3>2. j + 1 = i + 1
        BY <2>2, <3>1 DEF HomeOf
    <3> QED
        BY <3>2
  <2>9. busy[b] # None /\ link[b] = "up" =>
           /\ futures[b][busy[b]] # None
           /\ \A i \in 1..Len(posted') : posted'[i].cb = b => posted'[i].api # busy[b]
    BY <2>2, <1>1 DEF HomeOf
  <2>10. \A i \in 1..Len(posted') : posted'[i].cb = b /\ posted'[i].api # StateApi =>
           /\ futures[b][posted'[i].api] # None
           /\ \A j \in 1..Len(posted') :
                 posted'[j].cb = b /\ posted'[j].api = posted'[i].api => j = i
    BY <2>2, <2>8, <1>1 DEF HomeOf
  <2>4. CASE b # c
    <3>1. \A n \in Apis : futures'[b][n] = futures[b][n]
        BY <2>4, <1>4
    <3> QED
        BY <2>3, <2>7, <2>9, <2>10, <3>1, <1>7 DEF HomeOf
  <2>5. CASE b = c /\ R \subseteq {e.api}
    <3>1. \A n \in Apis : n # e.api => futures'[b][n] = futures[b][n]
        BY <2>5, <1>4
    <3>2. busy[b] # None /\ link[b] = "up" => busy[b] # e.api
        BY <2>2, <2>5, <1>1 DEF HomeOf
    <3>3. \A i \in 1..Len(posted') :
              posted'[i].cb = b /\ posted'[i].api # StateApi => posted'[i].api # e.api
        BY <2>2, <2>5, <1>1 DEF HomeOf
    <3> QED
        BY <2>3, <2>7, <2>9, <2>10, <3>1, <3>2, <3>3, <1>7 DEF HomeOf
  <2>6. CASE link[b] = "down" /\ \A i \in 1..Len(posted') : posted'[i].cb # b
    BY <2>6, <1>7 DEF HomeOf
  <2> QED
    BY <2>1, <2>2, <2>4, <2>5, <2>6, <1>14
<1>16. ASSUME NEW d \in Disconnects, pc[d] = "waiting", outcome'[d] # None, outcome[d] = None
       PROVE  /\ gatt # None /\ pc[gatt] \notin Failing => link[gatt] = "down"
              /\ \A b \in Connects : pc[b] = "connecting" /\ outcome'[b] = "up" => link[b] = "down"
  <2>1. PICK a \in R : futures[c][a] = d
    BY <1>5, <1>16 DEF Calls
  <2>2. a = StateApi /\ callbacks \in {c, None} /\ d \in Calls
    BY <2>1, <1>2, <1>3 DEF FutureInv, Calls
  <2>3. gatt # None /\ gatt # c => link[gatt] = "down"
    BY <2>2 DEF LinkInv, TurnInv
  <2>4. ASSUME NEW b \in Connects, pc[b] = "connecting", outcome'[b] = "up", b # c
        PROVE  link[b] = "down"
    <3>1. outcome[b] = "up" /\ ~Over(b)
        BY <1>11, <2>4 DEF Over
    <3>2. callbacks = None
        BY <1>2, <2>2, <2>4, <3>1 DEF TurnInv
    <3> QED
        BY <2>4, <3>1, <3>2 DEF TakenInv
  <2>5. CASE e.api # StateApi
    <3>1. pc[c] # "connecting"
        BY <1>1, <1>2, <2>5 DEF EventAt
    <3>2. gatt = c /\ pc[c] \notin Failing => link[c] = "down"
        BY <1>2, <1>14, <2>1, <2>2, <2>5 DEF HomeInv
    <3> QED
        BY <2>3, <2>4, <3>1, <3>2
  <2>6. CASE e.api = StateApi /\ e.value = "down"
    <3>1. link[c] = "down"
        BY <1>1, <1>2, <2>6 DEF EventAt
    <3> QED
        BY <2>3, <2>4, <3>1
  <2>7. CASE e.api = StateApi /\ e.value # "down"
    <3>1. pc[c] = "givenup" \/ (pc[c] = "connecting" /\ outcome[c] = None)
        BY <1>1, <1>2, <2>7 DEF EventAt
    <3>2. gatt = c => pc[c] \in Failing
        BY <1>2, <3>1 DEF TurnInv, Over
    <3>3. ASSUME pc[c] = "connecting", outcome'[c] = "up" PROVE FALSE
      <4>1. PICK n \in R : futures[c][n] = c
        BY <1>2, <1>5, <3>1, <3>3 DEF Calls
      <4>2. n = StateApi
        BY <1>2, <1>3, <3>3, <4>1, FutureOfConnect DEF Awaited
      <4> QED
        BY <1>2, <2>1, <2>2, <4>1, <4>2
    <3> QED
        BY <2>3, <2>4, <3>2, <3>3
  <2> QED
    BY <2>5, <2>6, <2>7
<1>17. OpenInv'
    BY <1>5, <1>7, <1>16 DEF OpenInv, Told, Calls
<1>18. TakenInv'
  <2>1. SUFFICES ASSUME NEW b \in Connects, pc[b] = "connecting"
                 PROVE  /\ futures'[b][StateApi] = b =>
                              /\ \A d \in Disconnects : pc[d] # "waiting"
                              /\ callbacks = None => link[b] = "down"
                        /\ outcome'[b] = "up" /\ callbacks = None => link[b] = "down"
                        /\ \A d \in Disconnects : outcome'[b] = "up" /\ Told(d)' => link[b] = "down"
    BY <1>7 DEF TakenInv
  <2>2. futures'[b][StateApi] = b => futures[b][StateApi] = b
    BY <1>4, CallsAssumption DEF Calls, StateApi, Apis, ConnectApis
  <2>3. /\ futures[b][StateApi] = b => /\ \A d \in Disconnects : pc[d] # "waiting"
                                       /\ callbacks = None => link[b] = "down"
        /\ \A d \in Disconnects : outcome[b] = "up" /\ Told(d) => link[b] = "down"
        /\ outcome[b] = "up" /\ callbacks = None => link[b] = "down"
    BY <2>1 DEF TakenInv
  <2>4. outcome'[b] # outcome[b] => futures[b][StateApi] = b
    BY <2>1, <1>11
  <2>5. ASSUME NEW d \in Disconnects, outcome'[b] = "up", Told(d)' PROVE link[b] = "down"
    <3>1. pc[d] = "waiting" /\ outcome'[d] # None
        BY <2>5, <1>7 DEF Told
    <3>2. outcome[b] = "up"
        BY <2>3, <2>4, <2>5, <3>1
    <3> QED
        BY <2>1, <2>3, <2>5, <3>1, <3>2, <1>16 DEF Told
  <2> QED
    BY <2>2, <2>3, <2>4, <2>5
<1> QED
    BY <1>8, <1>9, <1>10, <1>12, <1>13, <1>15, <1>17, <1>18

-----------------------------------------------------------------------------
\* The theorems of AndroidClient

\* Every step keeps the inductive invariant.
LEMMA StepInvariant == Invariant /\ [Next]_vars => Invariant'
<1> SUFFICES ASSUME Invariant, [Next]_vars PROVE Invariant'
    OBVIOUS
<1>1. CASE UNCHANGED vars
    BY <1>1 DEF vars, client, java, android, Invariant, TypeInv, TypeOK, TurnInv, Over, FutureInv,
                LinkInv, EventInv, EventAt, HomeInv, HomeOf, OpenInv, TakenInv, Told, NoLinkForgotten
<1>2. ASSUME NEW c \in Connects, StartConnect(c) \/ NoAdapter(c) PROVE Invariant'
    BY <1>2, StartConnectInvariant, NoAdapterInvariant
<1>3. ASSUME NEW d \in Disconnects, Disconnect(d) PROVE Invariant'
    BY <1>3, DisconnectInvariant
<1>4. ASSUME NEW x \in Requests, Request(x) PROVE Invariant'
    BY <1>4, RequestInvariant
<1>5. ASSUME NEW x \in Calls, Resume(x) PROVE Invariant'
    BY <1>5, ConnectedInvariant, MtuChangedInvariant, ServicesDiscoveredInvariant,
       NotConnectedInvariant, GiveUpInvariant, FieldsGoneInvariant, ConnectFailsInvariant,
       HungUpInvariant, RequestEndsInvariant DEF Resume
<1>6. ASSUME NEW x \in Calls, HangupCancelled(x) PROVE Invariant'
    BY <1>6, HangupCancelledInvariant
<1>7. CASE Handle
    BY <1>7, HandleInvariant
<1>8. ASSUME NEW c \in Connects, LinkUp(c) PROVE Invariant'
    BY <1>8, LinkUpInvariant
<1>9. ASSUME NEW c \in Connects, AttemptFails(c) \/ LinkLost(c) \/ LinkClosed(c) PROVE Invariant'
  <2>1. losses' \in 0..MaxLosses
    BY <1>9, CallsAssumption DEF AttemptFails, LinkLost, LinkClosed, Invariant, TypeInv, TypeOK
  <2> QED
    BY <2>1, <1>9, DownInvariant DEF AttemptFails, LinkLost, LinkClosed
<1>10. ASSUME NEW c \in Connects, Answer(c) PROVE Invariant'
    BY <1>10, AnswerInvariant
<1> QED
    BY <1>1, <1>2, <1>3, <1>4, <1>5, <1>6, <1>7, <1>8, <1>9, <1>10 DEF Next

\* The inductive invariant holds throughout.
THEOREM AlwaysInvariant == Spec => []Invariant
BY InitInvariant, StepInvariant, PTL DEF Spec

\* Every variable and every posted callback holds what the code could put there.
THEOREM TypesAreKept == Spec => []TypeInv
<1>1. Invariant => TypeInv
    BY DEF Invariant
<1> QED
    BY <1>1, AlwaysInvariant, PTL

\* No connection is left behind, whatever disconnect() is called meanwhile: one that is
\* there, or may still come, is the one disconnect() would end, or that of a connect() in its
\* first await or cancelled there (client.py:115), and of no connect() that failed otherwise.
THEOREM NoLinkIsForgotten == Spec => []NoLinkForgotten
<1>1. Invariant => NoLinkForgotten
    BY DEF Invariant
<1> QED
    BY <1>1, AlwaysInvariant, PTL

-----------------------------------------------------------------------------
\* The sessions

\* A connection's phase depends on its connect() and on whether the client was told.
LEMMA PhaseStays ==
    ASSUME NEW c \in Connects, pc'[c] = pc[c], c \in told' <=> c \in told
    PROVE  Phase(c)' = Phase(c)
BY DEF Phase

\* A step of one connection.
LEMMA PhaseBecomes ==
    ASSUME NEW c \in Connects, NEW p, Phase(c)' = p,
           \A b \in Connects : b # c => Phase(b)' = Phase(b)
    PROVE  Sessions!Become(c, p)
BY DEF Sessions!Become

\* A step of none.
LEMMA PhasesStay ==
    ASSUME \A c \in Connects : pc'[c] = pc[c], told' = told
    PROVE  UNCHANGED [c \in Connects |-> Phase(c)]
BY PhaseStays

\* A connect() that fails or is given up while it tries.
LEMMA TryingFails ==
    ASSUME TypeInv, NEW c \in Connects, pc[c] \in {"connecting", "mtu", "discover", "cleanup"},
           pc' = [pc EXCEPT ![c] = "raised"] \/ pc' = [pc EXCEPT ![c] = "givenup"], told' = told
    PROVE  Sessions!Fail(c)
<1>1. Phase(c) = "trying" /\ Phase(c)' = "failed"
    BY DEF Phase, TypeInv, TypeOK, Calls
<1>2. \A b \in Connects : b # c => Phase(b)' = Phase(b)
    BY PhaseStays DEF TypeInv, TypeOK, Calls
<1>3. Sessions!Become(c, "failed")
    BY <1>1, <1>2, PhaseBecomes
<1> QED
    BY <1>1, <1>3 DEF Sessions!Fail

\* A connect() that goes on trying.
LEMMA TryingGoesOn ==
    ASSUME TypeInv, NEW c \in Connects, pc[c] \in {"connecting", "mtu", "discover", "cleanup"},
           NEW l \in {"connecting", "mtu", "discover", "cleanup"},
           pc' = [pc EXCEPT ![c] = l], told' = told
    PROVE  UNCHANGED [b \in Connects |-> Phase(b)]
<1>1. Phase(c)' = Phase(c)
    BY DEF Phase, TypeInv, TypeOK, Calls
<1>2. \A b \in Connects : b # c => Phase(b)' = Phase(b)
    BY PhaseStays DEF TypeInv, TypeOK, Calls
<1> QED
    BY <1>1, <1>2

\* connect() is called when the last session has ended, and its end was reported.
LEMMA StartConnectTries ==
    ASSUME Invariant, NEW c \in Connects, StartConnect(c) PROVE Sessions!Try(c)
<1> USE CallsAssumption DEF Invariant
<1>1. pc' = [pc EXCEPT ![c] = "connecting"] /\ told' = told
    BY DEF StartConnect, Await, Goto
<1>2. Phase(c) = "idle" /\ Phase(c)' = "trying"
    BY <1>1 DEF StartConnect, Phase, TypeInv, TypeOK, Calls
<1>3. \A b \in Connects : b # c => Phase(b)' = Phase(b)
    BY <1>1, PhaseStays DEF TypeInv, TypeOK, Calls
<1>4. ASSUME NEW b \in Connects PROVE Phase(b) \notin {"trying", "open"}
  <2>1. pc[b] = "done" => b \in told
    BY DEF StartConnect, OpenInv, LinkInv, Calls
  <2> QED
    BY <2>1 DEF StartConnect, Over, Phase, Calls
<1>5. Sessions!Become(c, "trying")
    BY <1>2, <1>3, PhaseBecomes
<1> QED
    BY <1>2, <1>4, <1>5 DEF Sessions!Try, Sessions!Alive

\* The end of a session that connect() has returned is reported; that of another shows
\* when connect() returns or fails.
LEMMA DownReports ==
    ASSUME Invariant, NEW c \in Connects, told' = told \cup {c}, pc' = pc
    PROVE  Sessions!Report(c) \/ UNCHANGED [b \in Connects |-> Phase(b)]
<1>1. \A b \in Connects : b # c => Phase(b)' = Phase(b)
    BY PhaseStays
<1>2. CASE pc[c] = "done" /\ c \notin told
  <2>1. Phase(c) = "open" /\ Phase(c)' = "reported"
    BY <1>2 DEF Phase
  <2>2. Sessions!Become(c, "reported")
    BY <1>1, <2>1, PhaseBecomes
  <2> QED
    BY <2>1, <2>2 DEF Sessions!Report, Sessions!Alive
<1>3. CASE ~(pc[c] = "done" /\ c \notin told)
  <2>1. Phase(c)' = Phase(c)
    BY <1>3 DEF Phase
  <2> QED
    BY <1>1, <2>1
<1> QED
    BY <1>2, <1>3

\* connect() returns: its session is open, unless its end was reported already.
LEMMA ServicesDiscoveredOpens ==
    ASSUME Invariant, NEW c \in Connects, ServicesDiscovered(c)
    PROVE  Sessions!Open(c) \/ Sessions!Report(c)
<1> USE DEF Invariant, ServicesDiscovered, Goto, android
<1>1. Phase(c) = "trying" /\ Phase(c)' = IF c \in told THEN "reported" ELSE "open"
    BY DEF Phase, TypeInv, TypeOK, Calls
<1>2. \A b \in Connects : b # c => Phase(b)' = Phase(b)
    BY PhaseStays DEF TypeInv, TypeOK, Calls
<1>3. Sessions!Become(c, Phase(c)')
    BY <1>2, PhaseBecomes
<1> QED
    BY <1>1, <1>3 DEF Sessions!Open, Sessions!Report, Sessions!Alive

\* Every step of the client is a step of its sessions or none.
LEMMA StepRefines ==
    Invariant /\ [Next]_vars => [Sessions!Next]_([c \in Connects |-> Phase(c)])
<1> SUFFICES ASSUME Invariant, [Next]_vars
             PROVE  [Sessions!Next]_([c \in Connects |-> Phase(c)])
    OBVIOUS
<1> USE DEF Sessions!Next
<1>1. CASE UNCHANGED vars
    BY <1>1, PhasesStay DEF vars, android
<1>2. ASSUME NEW c \in Connects, StartConnect(c) PROVE Sessions!Next
    BY <1>2, StartConnectTries
<1>3. ASSUME NEW c \in Connects, NoAdapter(c) PROVE Sessions!Next
  <2>1. Phase(c) = "idle" /\ Phase(c)' = "failed"
    BY <1>3 DEF NoAdapter, Goto, Phase, Invariant, TypeInv, TypeOK, Calls
  <2>2. \A b \in Connects : b # c => Phase(b)' = Phase(b)
    BY <1>3, PhaseStays DEF NoAdapter, Goto, android, Invariant, TypeInv, TypeOK, Calls
  <2>3. Sessions!Become(c, "failed")
    BY <2>1, <2>2, PhaseBecomes
  <2> QED
    BY <2>1, <2>3 DEF Sessions!Refuse
<1>4. ASSUME NEW d \in Disconnects, Disconnect(d)
      PROVE  UNCHANGED [c \in Connects |-> Phase(c)]
  <2>1. pc' = [pc EXCEPT ![d] = "waiting"] \/ pc' = [pc EXCEPT ![d] = "done"]
    BY <1>4 DEF Disconnect, Hangup, Await, Goto
  <2> QED
    BY <1>4, <2>1, PhasesStay, CallsAssumption DEF Disconnect, Invariant, TypeInv, TypeOK, Calls
<1>5. ASSUME NEW x \in Requests, Request(x) \/ RequestEnds(x)
      PROVE  UNCHANGED [c \in Connects |-> Phase(c)]
  <2>1. /\ \E l \in {"wait", "done", "raised"} : pc' = [pc EXCEPT ![x] = l]
        /\ told' = told
    BY <1>5 DEF Request, RequestEnds, Await, Goto, android
  <2> QED
    BY <2>1, PhasesStay, CallsAssumption DEF Invariant, TypeInv, TypeOK, Calls
<1>6. ASSUME NEW c \in Connects, Connected(c) \/ MtuChanged(c)
      PROVE  UNCHANGED [b \in Connects |-> Phase(b)]
  <2>1. /\ pc[c] \in {"connecting", "mtu"} /\ told' = told
        /\ pc' = [pc EXCEPT ![c] = "mtu"] \/ pc' = [pc EXCEPT ![c] = "discover"]
    BY <1>6 DEF Connected, MtuChanged, Ask, Await, Goto
  <2> QED
    BY <2>1, TryingGoesOn DEF Invariant
<1>7. ASSUME NEW c \in Connects, NotConnected(c) \/ GiveUp(c) \/ FieldsGone(c)
      PROVE  Sessions!Next
    BY <1>7, TryingFails DEF NotConnected, GiveUp, FieldsGone, Goto, android, Invariant
<1>8. ASSUME NEW c \in Connects, ServicesDiscovered(c) PROVE Sessions!Next
    BY <1>8, ServicesDiscoveredOpens
<1>9. ASSUME NEW c \in Connects, ConnectFails(c)
      PROVE  Sessions!Next \/ UNCHANGED [b \in Connects |-> Phase(b)]
  <2>1. /\ pc[c] \in {"mtu", "discover"} /\ told' = told
        /\ pc' = [pc EXCEPT ![c] = "cleanup"] \/ pc' = [pc EXCEPT ![c] = "raised"]
    BY <1>9 DEF ConnectFails, Hangup, Await, Goto
  <2> QED
    BY <2>1, TryingGoesOn, TryingFails DEF Invariant
<1>10. ASSUME NEW x \in Calls, HungUp(x) \/ HangupCancelled(x)
       PROVE  Sessions!Next \/ UNCHANGED [c \in Connects |-> Phase(c)]
  <2>1. told' = told /\ pc[x] \in {"cleanup", "waiting"}
    BY <1>10 DEF HungUp, HangupCancelled, android
  <2>2. CASE x \in Connects
    <3>1. pc[x] = "cleanup"
        BY <2>1, <2>2 DEF Invariant, TypeInv
    <3>2. pc' = [pc EXCEPT ![x] = "raised"]
        BY <1>10, <3>1 DEF HungUp, HangupCancelled, Goto
    <3> QED
        BY <2>1, <2>2, <3>1, <3>2, TryingFails DEF Invariant
  <2>3. CASE x \notin Connects
    <3>1. \A c \in Connects : pc'[c] = pc[c]
        BY <1>10, <2>3 DEF HungUp, HangupCancelled, Goto, Invariant, TypeInv, TypeOK, Calls
    <3> QED
        BY <2>1, <3>1, PhasesStay
  <2> QED
    BY <2>2, <2>3
<1>11. CASE Handle
    BY <1>11, PhasesStay DEF Handle, android
<1>12. ASSUME NEW c \in Connects, LinkUp(c) \/ Answer(c)
       PROVE  UNCHANGED [b \in Connects |-> Phase(b)]
    BY <1>12, PhasesStay DEF LinkUp, Answer
<1>13. ASSUME NEW c \in Connects, AttemptFails(c) \/ LinkLost(c) \/ LinkClosed(c)
       PROVE  Sessions!Next \/ UNCHANGED [b \in Connects |-> Phase(b)]
  <2>1. told' = told \cup {c} /\ pc' = pc
    BY <1>13 DEF AttemptFails, LinkLost, LinkClosed, Down
  <2> QED
    BY <2>1, DownReports
<1>14. ASSUME NEW x \in Calls, Resume(x)
       PROVE  Sessions!Next \/ UNCHANGED [b \in Connects |-> Phase(b)]
  <2> HIDE DEF Sessions!Next
  <2> QED
    BY <1>5, <1>6, <1>7, <1>8, <1>9, <1>10, <1>14 DEF Resume
<1> HIDE DEF Sessions!Next
<1> QED
    BY <1>1, <1>2, <1>3, <1>4, <1>5, <1>10, <1>11, <1>12, <1>13, <1>14 DEF Next

\* The sessions of the client follow one another as Session promises: a new one is tried
\* for only when the last one has ended, and the end of a session that connect() has
\* returned is reported to the disconnected callback, once.
THEOREM SessionsRefine == Spec => SessionsInTurn
<1>1. Init => Sessions!Init
    BY CallsAssumption DEF Init, Sessions!Init, Phase, Calls
<1>2. Invariant /\ [Next]_vars => [Sessions!Next]_([c \in Connects |-> Phase(c)])
    BY StepRefines
<1> QED
    BY <1>1, <1>2, AlwaysInvariant, PTL DEF Spec, SessionsInTurn, Sessions!Spec

-----------------------------------------------------------------------------
\* AndroidScanner

\* A callback in the event loop, and what the scanners' variables hold.
EventTypes == [kind : {"result", "ok"} \cup Codes, who : Scanners, start : Nat]

ScanTypeInv == ScanTypeOK /\ events \in Seq(EventTypes)

\* Unless two start() calls waited for the permission together: one waits at a time and
\* finds the class attribute free, who has a __javascanner is in the class attribute, and
\* who scans has one.
HeldInv ==
    "permission" \notin overlap =>
        /\ \A s, t \in Scanners : at[s] = "permission" /\ at[t] = "permission" => s = t
        /\ \A s \in Scanners : at[s] = "permission" => holder = None
        /\ javascanner \subseteq {holder}
        /\ \A s \in Scanners : scan[s] # "off" => s \in javascanner

ScanInvariant == ScanTypeInv /\ HeldInv /\ HolderCanStop

\* startScan() is called for a scanner.
LEMMA StartScanTypes ==
    ASSUME ScanTypeOK, NEW s \in Scanners, NEW l \in Scanning, StartScan(s, l),
           starts' = starts \/ starts' = [starts EXCEPT ![s] = @ + 1],
           UNCHANGED <<stated, bluetooth, overlap>>
    PROVE  ScanTypeOK'
<1> USE ScannersAssumption DEF bluetooth, ScanTypeOK, StartScan, Go
<1>1. at' \in [Scanners -> Waiting \cup {"idle", "done", "raised"}]
    BY DEF Scanning, Waiting
<1>2. starts' \in [Scanners -> Nat]
    OBVIOUS
<1>3. /\ javascanner' \subseteq Scanners /\ pending' \subseteq Scanners /\ holder' \in Scanners
      /\ scan' \in [Scanners -> {"off", "starting", "on"}]
    OBVIOUS
<1>4. onScan' \in [Scanners -> Codes \cup {"ok", None}]
    OBVIOUS
<1> QED
    BY <1>1, <1>2, <1>3, <1>4

\* start(), from its first line or as `return await self.start()`.
LEMMA EnterHolds ==
    ASSUME ScanInvariant, NEW s \in Scanners, Enter(s), at[s] # "permission",
           UNCHANGED <<stated, seen, events, bluetooth, count>>
    PROVE  ScanInvariant'
<1> USE ScannersAssumption DEF bluetooth, ScanInvariant, Enter, Go
<1>1. ScanTypeInv'
  <2>1. CASE StartScan(s, "rescan") /\ UNCHANGED overlap
    BY <2>1, StartScanTypes DEF ScanTypeInv, Scanning
  <2>2. CASE /\ UNCHANGED <<holder, javascanner, pending, onScan, scan>>
             /\ \/ Go(s, "raised") /\ UNCHANGED overlap
                \/ Go(s, "permission") /\ Together(s, {"permission"}, "permission")
    <3>1. at' \in [Scanners -> Waiting \cup {"idle", "done", "raised"}]
        BY <2>2 DEF ScanTypeInv, ScanTypeOK, Waiting
    <3>2. overlap' \subseteq {"permission", "reset"}
        BY <2>2 DEF ScanTypeInv, ScanTypeOK, Together
    <3> QED
        BY <2>2, <3>1, <3>2 DEF ScanTypeInv, ScanTypeOK
  <2> QED
    BY <2>1, <2>2
<1>2. HeldInv'
  <2>1. CASE holder # None
    BY <2>1 DEF HeldInv, ScanTypeInv, ScanTypeOK
  <2>2. CASE holder = None /\ s \in javascanner
    BY <2>2 DEF HeldInv, StartScan
  <2>3. CASE holder = None /\ s \notin javascanner
    <3>1. /\ at' = [at EXCEPT ![s] = "permission"] /\ Together(s, {"permission"}, "permission")
          /\ UNCHANGED <<holder, javascanner, scan>>
        BY <2>3
    <3>2. "permission" \notin overlap' =>
             "permission" \notin overlap /\ \A x \in Scanners \ {s} : at[x] # "permission"
        BY <3>1 DEF Together
    <3> QED
        BY <2>3, <3>1, <3>2 DEF HeldInv, ScanTypeInv, ScanTypeOK
  <2> QED
    BY <2>1, <2>2, <2>3
<1>3. HolderCanStop'
    BY DEF HolderCanStop, StartScan
<1> QED
    BY <1>1, <1>2, <1>3

\* stop(), by the program or by a start() whose scan failed.
LEMMA StopScanHolds ==
    ASSUME ScanInvariant, NEW s \in Scanners, StopScan(s),
           at' = at \/ at' = [at EXCEPT ![s] = "raised"],
           UNCHANGED <<starts, pending, onScan, stated, seen, events, bluetooth, count, overlap>>
    PROVE  ScanInvariant'
<1> USE ScannersAssumption DEF bluetooth, ScanInvariant, StopScan
<1>1. ScanTypeInv'
  <2>1. /\ at' \in [Scanners -> Waiting \cup {"idle", "done", "raised"}]
        /\ holder' \in Scanners \cup {None} /\ javascanner' \subseteq Scanners
        /\ scan' \in [Scanners -> {"off", "starting", "on"}]
    BY DEF ScanTypeInv, ScanTypeOK
  <2>2. /\ starts' = starts /\ pending' = pending /\ onScan' = onScan /\ stated' = stated
        /\ events' = events /\ adapter' = adapter /\ heard' = heard /\ overlap' = overlap
    OBVIOUS
  <2> QED
    BY <2>1, <2>2 DEF ScanTypeInv, ScanTypeOK
<1>2. HeldInv'
  <2>1. overlap' = overlap /\ \A x \in Scanners : at'[x] = at[x] \/ at'[x] = "raised"
    BY DEF ScanTypeInv, ScanTypeOK
  <2>2. \/ holder' = None /\ javascanner' = javascanner \ {s} /\ scan' = [scan EXCEPT ![s] = "off"]
        \/ holder' = holder /\ javascanner' = javascanner /\ scan' = scan
    OBVIOUS
  <2>3. javascanner \subseteq {holder} => javascanner' \subseteq {holder'}
    BY <2>2
  <2>4. \A x \in Scanners : scan'[x] # "off" =>
            scan[x] # "off" /\ (x \in javascanner => x \in javascanner')
    BY <2>2 DEF ScanTypeInv, ScanTypeOK
  <2>5. holder = None => holder' = None
    BY <2>2
  <2> QED
    BY <2>1, <2>3, <2>4, <2>5 DEF HeldInv
<1>3. HolderCanStop'
    BY DEF HolderCanStop
<1> QED
    BY <1>1, <1>2, <1>3

\* Every other step of start().
LEMMA ResumeHolds ==
    ASSUME ScanInvariant, NEW s \in Scanners, ResumeStart(s) \/ Cancel(s)
    PROVE  ScanInvariant'
<1> USE ScannersAssumption DEF bluetooth, ScanInvariant, Go, scanner, platform
<1>1. CASE Permitted(s)
  <2>1. ScanTypeInv'
    <3>1. CASE StartScan(s, "scan")
        BY <1>1, <3>1, StartScanTypes DEF Permitted, ScanTypeInv, Scanning
    <3>2. CASE UNCHANGED <<holder, javascanner, pending, onScan, scan>> /\ Go(s, "raised")
        BY <1>1, <3>2 DEF Permitted, ScanTypeInv, ScanTypeOK
    <3> QED
        BY <1>1, <3>1, <3>2 DEF Permitted
  <2>2. HeldInv'
    <3>1. CASE adapter = "on"
      <4>1. /\ at' = [at EXCEPT ![s] = "scan"] /\ overlap' = overlap
            /\ holder' = s /\ javascanner' = javascanner \cup {s}
            /\ scan' = [scan EXCEPT ![s] = "starting"]
        BY <1>1, <3>1 DEF Permitted, StartScan
      <4>2. "permission" \notin overlap =>
                /\ javascanner = {}
                /\ \A t \in Scanners : t # s => at[t] # "permission"
        BY <1>1 DEF Permitted, HeldInv, ScanTypeInv, ScanTypeOK
      <4> QED
        BY <4>1, <4>2 DEF HeldInv, ScanTypeInv, ScanTypeOK
    <3>2. CASE adapter # "on"
        BY <1>1, <3>2 DEF Permitted, HeldInv, ScanTypeInv, ScanTypeOK
    <3> QED
        BY <3>1, <3>2
  <2>3. HolderCanStop'
    BY <1>1 DEF Permitted, StartScan, HolderCanStop
  <2> QED
    BY <2>1, <2>2, <2>3
<1>2. CASE Denied(s) \/ Confirmed(s) \/ Cancel(s) \/ AdapterError(s) \/ EnableAdapter(s)
  <2>1. /\ \E l \in {"raised", "done", "on"} : at' = [at EXCEPT ![s] = l]
        /\ UNCHANGED <<holder, javascanner, scan, overlap>>
    BY <1>2 DEF Denied, Confirmed, Cancel, AdapterError, EnableAdapter
  <2>2. /\ at' \in [Scanners -> Waiting \cup {"idle", "done", "raised"}]
        /\ heard' \in [Scanners -> {"state", "error", None}]
        /\ adapter' \in {adapter, "on", "enabling"} /\ pending' \subseteq pending
        /\ UNCHANGED <<starts, onScan, stated, events>>
    <3>1. at' \in [Scanners -> Waiting \cup {"idle", "done", "raised"}]
        BY <2>1 DEF ScanTypeInv, ScanTypeOK, Waiting
    <3>2. CASE Denied(s) \/ Confirmed(s) \/ Cancel(s) \/ AdapterError(s)
        BY <3>1, <3>2 DEF Denied, Confirmed, Cancel, AdapterError, ScanTypeInv, ScanTypeOK
    <3>3. CASE EnableAdapter(s)
        BY <3>1, <3>3 DEF EnableAdapter, ScanTypeInv, ScanTypeOK
    <3> QED
        BY <1>2, <3>2, <3>3
  <2>5. ScanTypeInv'
    BY <2>1, <2>2 DEF ScanTypeInv, ScanTypeOK
  <2>3. HeldInv'
    BY <2>1 DEF HeldInv, ScanTypeInv, ScanTypeOK
  <2>4. HolderCanStop'
    BY <2>1 DEF HolderCanStop
  <2> QED
    BY <2>3, <2>4, <2>5
<1>3. CASE Failed(s)
    BY <1>3, StopScanHolds DEF Failed
<1>4. CASE ResetAdapter(s)
  <2>1. ScanTypeInv'
    BY <1>4 DEF ResetAdapter, Together, ScanTypeInv, ScanTypeOK, Waiting
  <2>2. "permission" \notin overlap' => "permission" \notin overlap
    BY <1>4 DEF ResetAdapter, Together
  <2>3. HeldInv'
    BY <1>4, <2>2 DEF ResetAdapter, HeldInv, ScanTypeInv, ScanTypeOK
  <2>4. HolderCanStop'
    BY <1>4 DEF ResetAdapter, HolderCanStop
  <2> QED
    BY <2>1, <2>3, <2>4
<1>5. CASE Restart(s)
    BY <1>5, EnterHolds DEF Restart
<1> QED
    BY <1>1, <1>2, <1>3, <1>4, <1>5 DEF ResumeStart

\* What Android does, and the callbacks in the event loop: nothing begins to scan.
LEMMA AndroidHolds ==
    ASSUME ScanInvariant,
           RunCallback \/ AdapterTurns \/ AdapterFails
             \/ \E s \in Scanners : ScanResult(s) \/ ScanFailed(s)
    PROVE  ScanInvariant'
<1> USE ScannersAssumption DEF bluetooth, ScanInvariant, scanner, platform
<1>1. CASE RunCallback
  <2> DEFINE e == Head(events)
  <2>1. e \in EventTypes /\ Tail(events) \in Seq(EventTypes)
    BY <1>1 DEF RunCallback, ScanTypeInv
  <2>2. e.who \in Scanners /\ e.kind \in {"result", "ok"} \cup Codes
    BY <2>1 DEF EventTypes
  <2>3. UNCHANGED <<at, starts, holder, javascanner, scan, bluetooth, overlap>> /\ events' = Tail(events)
    BY <1>1 DEF RunCallback
  <2> HIDE DEF e
  <2>4. /\ pending' \subseteq Scanners /\ stated' \subseteq Scanners
        /\ onScan' \in [Scanners -> Codes \cup {"ok", None}]
    <3>1. CASE e.kind = "result"
        BY <1>1, <3>1 DEF RunCallback, HandleResult, e, ScanTypeInv, ScanTypeOK
    <3>2. CASE e.kind # "result" /\ HandleState(e)
        BY <2>2, <3>2 DEF HandleState, ScanTypeInv, ScanTypeOK
    <3> QED
        BY <1>1, <3>1, <3>2 DEF RunCallback, e
  <2>5. ScanTypeInv'
    BY <2>1, <2>3, <2>4 DEF ScanTypeInv, ScanTypeOK
  <2> QED
    BY <2>3, <2>5 DEF HeldInv, HolderCanStop
<1>2. CASE AdapterTurns \/ AdapterFails
    BY <1>2 DEF AdapterTurns, AdapterFails, ScanTypeInv, ScanTypeOK, HeldInv, HolderCanStop
<1>3. ASSUME NEW s \in Scanners, ScanResult(s) \/ ScanFailed(s) PROVE ScanInvariant'
  <2>1. /\ UNCHANGED <<at, starts, holder, javascanner, pending, onScan, stated, bluetooth, overlap>>
        /\ \/ scan' = [scan EXCEPT ![s] = "on"] /\ scan[s] # "off"
           \/ scan' = [scan EXCEPT ![s] = "off"]
    BY <1>3 DEF ScanResult, ScanFailed
  <2>2. events' \in Seq(EventTypes)
    <3>1. \A kind \in {"result", "ok"} \cup Codes : ScanEvent(kind, s, starts[s]) \in EventTypes
        BY DEF ScanEvent, EventTypes, ScanTypeInv, ScanTypeOK
    <3>2. events \in Seq(EventTypes)
        BY DEF ScanTypeInv
    <3>3. CASE ScanResult(s)
      <4>1. /\ <<ScanEvent("result", s, starts[s])>> \in Seq(EventTypes)
            /\ <<ScanEvent("ok", s, starts[s])>> \in Seq(EventTypes) /\ <<>> \in Seq(EventTypes)
        BY <3>1
      <4> QED
        BY <3>2, <3>3, <4>1 DEF ScanResult
    <3>4. CASE ScanFailed(s)
      <4>1. PICK code \in Codes : events' = Append(events, ScanEvent(code, s, starts[s]))
        BY <3>4 DEF ScanFailed
      <4>2. ScanEvent(code, s, starts[s]) \in EventTypes
        BY <3>1, <4>1
      <4> QED
        BY <3>2, <4>1, <4>2
    <3> QED
        BY <1>3, <3>3, <3>4
  <2>3. ScanTypeInv'
    <3>1. scan' \in [Scanners -> {"off", "starting", "on"}]
        BY <2>1 DEF ScanTypeInv, ScanTypeOK
    <3>2. /\ at' = at /\ starts' = starts /\ holder' = holder /\ javascanner' = javascanner
          /\ pending' = pending /\ onScan' = onScan /\ stated' = stated
          /\ adapter' = adapter /\ heard' = heard /\ overlap' = overlap
        BY <2>1
    <3> QED
        BY <2>2, <3>1, <3>2 DEF ScanTypeInv, ScanTypeOK
  <2> QED
    BY <2>1, <2>3 DEF HeldInv, HolderCanStop, ScanTypeInv, ScanTypeOK
<1> QED
    BY <1>1, <1>2, <1>3

\* The inductive invariant of AndroidScanner holds throughout.
THEOREM AlwaysScanInvariant == ScanSpec => []ScanInvariant
<1>1. ScanInit => ScanInvariant
    BY ScannersAssumption DEF ScanInit, ScanInvariant, ScanTypeInv, ScanTypeOK, HeldInv,
                              HolderCanStop, Waiting
<1>2. ScanInvariant /\ [ScanNext]_scanVars => ScanInvariant'
  <2> SUFFICES ASSUME ScanInvariant, [ScanNext]_scanVars PROVE ScanInvariant'
    OBVIOUS
  <2>1. CASE UNCHANGED scanVars
    BY <2>1 DEF scanVars, scanner, platform, bluetooth, ScanInvariant, ScanTypeInv, ScanTypeOK,
                HeldInv, HolderCanStop
  <2>2. ASSUME NEW s \in Scanners, Start(s) PROVE ScanInvariant'
    BY <2>2, EnterHolds DEF Start, Waiting
  <2>3. ASSUME NEW s \in Scanners, Stop(s) PROVE ScanInvariant'
    BY <2>3, StopScanHolds DEF Stop
  <2> QED
    BY <2>1, <2>2, <2>3, ResumeHolds, AndroidHolds DEF ScanNext
<1> QED
    BY <1>1, <1>2, PTL DEF ScanSpec

\* Every variable and every callback in the event loop holds what the code could put there.
THEOREM ScanTypesAreKept == ScanSpec => []ScanTypeInv
<1>1. ScanInvariant => ScanTypeInv
    BY DEF ScanInvariant
<1> QED
    BY <1>1, AlwaysScanInvariant, PTL

\* What scans is held: it is the scanner of the class attribute and has its __javascanner,
\* so that stop() stops it and no other may start (scanner.py:66-138), unless two start()
\* calls waited for the permission together.
THEOREM ScansAreHeld == ScanSpec => []ScanHeld
<1>1. ScanInvariant => ScanHeld
    BY DEF ScanInvariant, HeldInv, ScanHeld
<1> QED
    BY <1>1, AlwaysScanInvariant, PTL

\* The scanner in the class attribute has a __javascanner, so that its stop() frees the
\* attribute for the others (scanner.py:214-221), in any overlap.
THEOREM HoldersCanStop == ScanSpec => []HolderCanStop
<1>1. ScanInvariant => HolderCanStop
    BY DEF ScanInvariant
<1> QED
    BY <1>1, AlwaysScanInvariant, PTL
=============================================================================
