-------------------------- MODULE BlueZManagerProofs --------------------------
(***************************************************************************)
(* Theorems about BlueZManager, for any objects of BlueZ and any number of  *)
(* calls of async_init(), changes of the tree and losses of the connection. *)
(***************************************************************************)
EXTENDS BlueZManager, SequenceTheorems, FiniteSetTheorems, TLAPS

\* What NoBusLeaked rests on: who holds the lock, and that buses are made by calls.
BusInv ==
    /\ pc \in [Callers -> Pc]
    /\ open \subseteq Callers
    /\ LockExclusive
    /\ NoBusLeaked

\* What is not about async_init() leaves the lock and the buses alone.
LEMMA Elsewhere ==
    ASSUME BusInv, UNCHANGED <<pc, lock, bus, open>> PROVE BusInv'
  BY DEF BusInv, LockExclusive, NoBusLeaked

\* A bus belongs to the manager or to the one call that is making a new one.
THEOREM BusInvariant == Spec => []BusInv
<1> USE TreeAssumption
<1>1. Init => BusInv
  BY DEF Init, BusInv, LockExclusive, NoBusLeaked, Pc, Busy
<1>2. BusInv /\ [Next]_vars => BusInv'
  <2> SUFFICES ASSUME BusInv, [Next]_vars PROVE BusInv'
    OBVIOUS
  <2>1. ASSUME NEW t \in Callers, StartInit(t) PROVE BusInv'
    BY <2>1 DEF StartInit, Goto, fields, dbus, BusInv, LockExclusive, NoBusLeaked, Pc, Busy
  <2>15. ASSUME NEW t \in Callers, CheckVersion(t) PROVE BusInv'
    BY <2>15 DEF CheckVersion, Proceed, Goto, fields, dbus, BusInv, LockExclusive, NoBusLeaked,
       Pc, Busy
  <2>16. ASSUME NEW t \in Callers, VersionFound(t) \/ VersionSeen(t) PROVE BusInv'
    BY <2>16 DEF VersionFound, VersionSeen, Proceed, Goto, fields, dbus, BusInv, LockExclusive,
       NoBusLeaked, Pc, Busy
  <2>17. ASSUME NEW t \in Callers, CheckCancelled(t) PROVE BusInv'
    BY <2>17 DEF CheckCancelled, Goto, fields, dbus, BusInv, LockExclusive, NoBusLeaked, Pc, Busy
  <2>2. ASSUME NEW t \in Callers, AlreadyUp(t) PROVE BusInv'
    BY <2>2 DEF AlreadyUp, Acquire, Goto, fields, dbus, BusInv, LockExclusive, NoBusLeaked,
       Pc, Busy
  <2>3. ASSUME NEW t \in Callers, NewBus(t) PROVE BusInv'
    <3>1. /\ lock = None /\ lock' = t /\ open' = open \cup {t} /\ bus' = bus
          /\ pc' = [pc EXCEPT ![t] = "connect"]
      BY <2>3 DEF NewBus, Acquire, Goto, fields
    <3>2. LockExclusive'
      BY <3>1 DEF BusInv, LockExclusive, Busy
    <3>3. NoBusLeaked'
      BY <3>1 DEF BusInv, NoBusLeaked
    <3> QED
      BY <3>1, <3>2, <3>3 DEF BusInv, Pc
  <2>4. ASSUME NEW t \in Callers, Connected(t) PROVE BusInv'
    BY <2>4 DEF Connected, Goto, fields, BusInv, LockExclusive, NoBusLeaked, Pc, Busy
  <2>5. ASSUME NEW t \in Callers, AddMatch(t) PROVE BusInv'
    <3>1. After[pc[t]] \in {"removed", "changed", "objects"}
      BY <2>5 DEF AddMatch, After
    <3>2. pc[t] \in Busy /\ pc' = [pc EXCEPT ![t] = After[pc[t]]] /\ UNCHANGED <<lock, bus, open>>
      BY <2>5 DEF AddMatch, Busy, Goto, fields
    <3> QED
      BY <3>1, <3>2 DEF BusInv, LockExclusive, NoBusLeaked, Pc, Busy
  <2>6. ASSUME NEW t \in Callers, LoadObjects(t) PROVE BusInv'
    <3>1. /\ pc[t] = "reply" /\ pc' = [pc EXCEPT ![t] = "done"]
          /\ open' = open \ {bus} /\ bus' = t /\ lock' = None
      BY <2>6 DEF LoadObjects, Goto
    <3>2. lock = t
      BY <3>1 DEF BusInv, LockExclusive, Busy
    <3> QED
      BY <3>1, <3>2 DEF BusInv, LockExclusive, NoBusLeaked, Pc, Busy
  <2>7. ASSUME NEW t \in Callers, InitFails(t) PROVE BusInv'
    <3>1. /\ pc[t] \in Busy /\ pc' = [pc EXCEPT ![t] = "raised"]
          /\ open' = open \ {t} /\ bus' = bus /\ lock' = None
      BY <2>7 DEF InitFails, Goto, fields
    <3>2. lock = t
      BY <3>1 DEF BusInv, LockExclusive
    <3> QED
      BY <3>1, <3>2 DEF BusInv, LockExclusive, NoBusLeaked, Pc, Busy
  <2>8. ASSUME NEW t \in Callers, CancelWaiting(t) PROVE BusInv'
    BY <2>8 DEF CancelWaiting, Goto, fields, dbus, BusInv, LockExclusive, NoBusLeaked, Pc, Busy
  <2>9. ASSUME NEW t \in Callers, ReadReply(t) PROVE BusInv'
    BY <2>9 DEF ReadReply, Goto, fields, BusInv, LockExclusive, NoBusLeaked, Pc, Busy
  <2>10. ASSUME NEW t \in Callers, ServeObjects(t) PROVE BusInv'
    BY <2>10, Elsewhere DEF ServeObjects, fields
  <2>11. CASE InterfacesAdded \/ InterfacesRemoved \/ PropertiesChanged
    BY <2>11, Elsewhere DEF InterfacesAdded, InterfacesRemoved, PropertiesChanged, Handle
  <2>12. ASSUME NEW o \in Objects, ObjectAdded(o) \/ ObjectRemoved(o) \/ ValueChanged(o)
         PROVE BusInv'
    BY <2>12, Elsewhere DEF ObjectAdded, ObjectRemoved, ValueChanged, Change, fields
  <2>13. CASE BusLost
    BY <2>13, Elsewhere DEF BusLost, fields
  <2>14. CASE UNCHANGED vars
    BY <2>14, Elsewhere DEF vars, fields, dbus
  <2> QED
    BY <2>1, <2>2, <2>3, <2>4, <2>5, <2>6, <2>7, <2>8, <2>9, <2>10, <2>11, <2>12, <2>13, <2>14,
       <2>15, <2>16, <2>17
       DEF Next, InitRuns, ParseMsg
<1> QED
  BY <1>1, <1>2, PTL DEF Spec

\* async_init() is exclusive: exactly the call that holds _bus_lock is past its `async with`,
\* and no failure or cancellation leaves the lock behind.
THEOREM InitIsExclusive == Spec => []LockExclusive
<1>1. BusInv => LockExclusive
  BY DEF BusInv
<1> QED
  BY <1>1, BusInvariant, PTL

\* Whichever await of async_init() fails, no bus is left open but the manager's own.
THEOREM BusesAreReleased == Spec => []NoBusLeaked
<1>1. BusInv => NoBusLeaked
  BY DEF BusInv
<1> QED
  BY <1>1, BusInvariant, PTL
-----------------------------------------------------------------------------
\* The copy of BlueZ's tree

Rules  == {"added", "removed", "changed"}
Reply  == {m \in {"reply"} \X (SUBSET Objects) \X (SUBSET Objects) : m[3] \subseteq m[2]}
Signal == Rules \X Objects \X BOOLEAN

\* The types, and that BlueZ's objects are a tree.
TypeInv ==
    /\ pc \in [Callers -> Pc] /\ lock \in Callers \cup {None}
    /\ bus \in Callers \cup {None} /\ alive \in Callers \cup {None}
    /\ known \subseteq Objects /\ seen \subseteq Objects
    /\ children \in [Objects -> SUBSET Mapped]
    /\ \A o \in Objects : \A c \in children[o] : Parent[c] = o
    /\ \A o \in known : KindOf[o] = "adapter" => o \in adapters
    /\ rules \subseteq Rules /\ inbox \in Seq(Reply \cup Signal)
    /\ exists \subseteq Objects /\ now \subseteq exists /\ raced \in BOOLEAN
    /\ \A o \in exists : Parent[o] \in exists \cup {None}

\* The connection is that of the manager or of the call that makes a new one, and has the
\* match rules that call has asked for; the one reply is that call's.
ConnectionInv ==
    /\ alive \in {None, IF lock = None THEN bus ELSE lock}
    /\ bus # None => pc[bus] = "done"
    /\ \A t \in Callers : pc[t] \in Busy <=> lock = t
    /\ lock # None /\ pc[lock] = "connect" => alive = None
    /\ lock # None /\ pc[lock] \in {"removed", "changed"} /\ alive = lock => "added" \in rules
    /\ lock # None /\ pc[lock] = "changed" /\ alive = lock => "removed" \in rules
    /\ alive # None /\ (lock = None \/ pc[lock] \in {"objects", "reply"}) => rules = Rules
    /\ \A i \in 1..Len(inbox) : inbox[i][1] = "reply" =>
          /\ lock # None /\ alive = lock /\ pc[lock] = "objects"
          /\ \A j \in 1..Len(inbox) : inbox[j][1] = "reply" => j = i
    /\ lock # None /\ pc[lock] = "reply" /\ alive = lock => snapshot \in Reply

Adds(m, c)    == m[1] = "added" /\ m[2] = c
Removes(m, c) == m[1] = "removed" /\ m[2] = c

\* The signals that q has after position n lead from the objects K, of which S have the value
\* true, to the objects E and N: the last one about an object says what it is now, and one that
\* says that a value has changed comes when the object is known.
ObjectsFollow(q, n, K, S, E, N) ==
    \A o \in Objects :
        /\ (\A i \in 1..Len(q) : i > n => q[i][2] # o) => (o \in K <=> o \in E) /\ (o \in S <=> o \in N)
        /\ \A i \in 1..Len(q) : i > n /\ q[i][2] = o =>
              /\ (\A j \in 1..Len(q) : j > i => q[j][2] # o) =>
                    /\ o \in E <=> q[i][1] # "removed"
                    /\ q[i][1] # "removed" => (o \in N <=> q[i][3])
              /\ q[i][1] = "changed" =>
                    /\ o \in K \/ \E j \in 1..Len(q) : n < j /\ j < i /\ q[j][2] = o
                    /\ \A j \in 1..Len(q) : n < j /\ j < i /\ Removes(q[j], o) =>
                          \E k \in 1..Len(q) : j < k /\ k < i /\ q[k][2] = o

\* The signals that put c into the map of its parent or take it out.
Moves(m, c) ==
    Adds(m, c) \/ Removes(m, Parent[c]) \/ (Removes(m, c) /\ KindOf[c] = "service")

\* They lead from the child maps C to those of the objects E.
ChildrenFollow(q, n, C, E) ==
    \A c \in Mapped :
        /\ (\A i \in 1..Len(q) : i > n => ~Moves(q[i], c)) => (c \in C[Parent[c]] <=> c \in E)
        /\ \A i \in 1..Len(q) :
              i > n /\ Moves(q[i], c) /\ (\A j \in 1..Len(q) : j > i => ~Moves(q[j], c)) =>
                 (c \in E <=> q[i][1] = "added")

\* A child that is not known any more is to go with its parent, and so is a characteristic or a
\* descriptor that is to be removed, if the parent has not gone before it.
OrphansGo(q, n, K, C) ==
    \A c \in Mapped :
        /\ c \in C[Parent[c]] => c \in K \/ \E i \in 1..Len(q) : i > n /\ Removes(q[i], Parent[c])
        /\ \A i \in 1..Len(q) : i > n /\ Removes(q[i], c) /\ KindOf[c] # "service" =>
              \/ \E j \in 1..Len(q) : j > i /\ Removes(q[j], Parent[c])
              \/ \E j \in 1..Len(q) : /\ n < j /\ j < i /\ Removes(q[j], Parent[c])
                                      /\ \A k \in 1..Len(q) : j < k /\ k < i => ~Adds(q[k], c)
              \/ /\ c \notin C[Parent[c]]
                 /\ \A k \in 1..Len(q) : n < k /\ k < i => ~Adds(q[k], c)

Follows(q, n, K, S, C, E, N) ==
    ObjectsFollow(q, n, K, S, E, N) /\ ChildrenFollow(q, n, C, E) /\ OrphansGo(q, n, K, C)

\* The child maps that async_init() makes of the objects K.
MapsOf(K) == [o \in Objects |-> {c \in K \cap Mapped : Parent[c] = o}]

\* The signals on their way lead to BlueZ's tree from the manager's copy, from the reply that
\* has been read and not used, or from the reply that they come behind.
CopyInv ==
    /\ Ready /\ ~raced => Follows(inbox, 0, known, seen, children, exists, now)
    /\ lock # None /\ pc[lock] = "reply" /\ alive = lock /\ ~raced =>
          Follows(inbox, 0, snapshot[2], snapshot[3], MapsOf(snapshot[2]), exists, now)
    /\ \A i \in 1..Len(inbox) : inbox[i][1] = "reply" =>
          Follows(inbox, i, inbox[i][2], inbox[i][3], MapsOf(inbox[i][2]), exists, now)

TreeInv == TypeInv /\ ConnectionInv /\ CopyInv

-----------------------------------------------------------------------------
\* Sequences of messages, and the tree

\* r is q without its first message.
Shifted(q, r) ==
    /\ Len(q) \in Nat /\ Len(r) \in Nat /\ Len(q) = Len(r) + 1
    /\ \A i \in 1..Len(r) : r[i] = q[i + 1]

\* r is q with messages behind it.
Longer(q, r) ==
    /\ Len(q) \in Nat /\ Len(r) \in Nat /\ Len(r) >= Len(q)
    /\ \A i \in 1..Len(q) : r[i] = q[i]

\* Taking the first message.
LEMMA Taken ==
    ASSUME NEW S, NEW q \in Seq(S), q # <<>>
    PROVE  /\ Tail(q) \in Seq(S) /\ Shifted(q, Tail(q))
           /\ 1 \in 1..Len(q) /\ Head(q) = q[1] /\ q[1] \in S
<1>1. /\ Len(q) \in Nat /\ Len(q) # 0 /\ Head(q) \in S /\ Tail(q) \in Seq(S)
      /\ Len(Tail(q)) = Len(q) - 1 /\ \A i \in 1..Len(Tail(q)) : Tail(q)[i] = q[i + 1]
  BY HeadTailProperties, EmptySeq, LenProperties
<1>2. Head(q) = q[1]
  OBVIOUS
<1> QED
  BY <1>1, <1>2 DEF Shifted

\* Sending messages.
LEMMA Joined ==
    ASSUME NEW S, NEW q \in Seq(S), NEW m \in Seq(S)
    PROVE  /\ q \o m \in Seq(S) /\ Longer(q, q \o m)
           /\ Len(q \o m) = Len(q) + Len(m)
           /\ \A i \in 1..Len(m) : (q \o m)[Len(q) + i] = m[i]
<1>1. /\ q \o m \in Seq(S) /\ Len(q) \in Nat /\ Len(m) \in Nat
      /\ Len(q \o m) = Len(q) + Len(m)
      /\ \A i \in 1..(Len(q) + Len(m)) : (q \o m)[i] = IF i <= Len(q) THEN q[i] ELSE m[i - Len(q)]
  BY ConcatProperties, LenProperties
<1> QED
  BY <1>1 DEF Longer

\* What is below an object: itself, and with an object its children, and no other object
\* without its parent.
LEMMA BelowTree ==
    ASSUME NEW o \in Objects
    PROVE  /\ o \in Below(o) /\ Below(o) \subseteq Objects
           /\ \A x \in Below(o) : x = o \/ Parent[x] \in Below(o)
           /\ \A x \in Objects : Parent[x] \in Below(o) => x \in Below(o)
<1> DEFINE A == WithChildren({o})
           B == WithChildren(A)
           D == WithChildren(B)
<1>1. Below(o) = WithChildren(D)
  BY DEF Below, Descendants
<1>2. /\ o \in A /\ A \subseteq Objects /\ \A x \in A : x = o \/ Parent[x] = o
      /\ \A x \in Objects : Parent[x] = o => x \in A
  BY DEF WithChildren
<1> HIDE DEF A
<1>3. /\ A \subseteq B /\ B \subseteq Objects /\ \A x \in B : x \in A \/ Parent[x] \in A
      /\ \A x \in Objects : Parent[x] \in A => x \in B
  BY <1>2 DEF WithChildren
<1> HIDE DEF B
<1>4. /\ B \subseteq D /\ D \subseteq Objects /\ \A x \in D : x \in B \/ Parent[x] \in B
      /\ \A x \in Objects : Parent[x] \in B => x \in D
  BY <1>3 DEF WithChildren
<1> HIDE DEF D
<1>5. /\ D \subseteq Below(o) /\ Below(o) \subseteq Objects
      /\ \A x \in Below(o) : x \in D \/ Parent[x] \in D
      /\ \A x \in Objects : Parent[x] \in D => x \in Below(o)
  BY <1>1, <1>4 DEF WithChildren
<1>6. ASSUME NEW x \in Objects, Parent[x] \in Below(o) PROVE x \in Below(o)
  <2>1. /\ Parent[x] # None /\ KindOf[x] # "adapter"
        /\ KindOf[Parent[x]] = ParentKind[KindOf[x]] /\ KindOf[x] \in Kinds
    BY <1>5, <1>6, TreeAssumption
  <2>2. KindOf[Parent[x]] # "desc"
    BY <2>1 DEF ParentKind, Kinds
  <2>3. ASSUME NEW y \in Objects, Parent[y] \in Objects
        PROVE  /\ KindOf[Parent[y]] = "adapter" => KindOf[y] = "device"
               /\ KindOf[Parent[y]] = "device" => KindOf[y] = "service"
               /\ KindOf[Parent[y]] = "service" => KindOf[y] = "char"
               /\ KindOf[Parent[y]] = "char" => KindOf[y] = "desc"
               /\ KindOf[y] # "adapter"
    <3>1. KindOf[y] # "adapter" /\ KindOf[Parent[y]] = ParentKind[KindOf[y]] /\ KindOf[y] \in Kinds
      BY <2>3, TreeAssumption
    <3> QED
      BY <3>1 DEF ParentKind, Kinds
  <2>4. ASSUME NEW y \in Below(o), y \notin D PROVE KindOf[y] = "desc"
    <3>1. Parent[y] \in D /\ Parent[y] \notin B
      BY <1>4, <1>5, <2>4
    <3>2. Parent[Parent[y]] \in B /\ Parent[Parent[y]] \notin A
      BY <1>3, <1>4, <3>1
    <3>3. Parent[Parent[Parent[y]]] \in A /\ Parent[Parent[Parent[y]]] # o
      BY <1>2, <1>3, <3>2
    <3>4. Parent[Parent[Parent[Parent[y]]]] = o
      BY <1>2, <3>3
    <3> DEFINE a == Parent[y]
               b == Parent[a]
               c == Parent[b]
    <3>5. a \in Objects /\ b \in Objects /\ c \in Objects /\ y \in Objects /\ Parent[c] \in Objects
      BY <1>2, <1>3, <1>4, <1>5, <3>1, <3>2, <3>3, <3>4
    <3>6. KindOf[c] \in {"device", "service", "char", "desc"}
      BY <3>5, TreeAssumption, <2>3 DEF Kinds
    <3>7. KindOf[b] \in {"service", "char", "desc"}
      <4>1. KindOf[b] \in Kinds /\ KindOf[b] # "adapter" /\ KindOf[Parent[b]] = ParentKind[KindOf[b]]
        BY <3>5, TreeAssumption
      <4> QED
        BY <4>1, <3>6 DEF ParentKind, Kinds
    <3>8. KindOf[a] \in {"char", "desc"}
      <4>1. KindOf[a] \in Kinds /\ KindOf[a] # "adapter" /\ KindOf[Parent[a]] = ParentKind[KindOf[a]]
        BY <3>5, TreeAssumption
      <4> QED
        BY <4>1, <3>7 DEF ParentKind, Kinds
    <3>9. KindOf[y] \in Kinds /\ KindOf[y] # "adapter" /\ KindOf[Parent[y]] = ParentKind[KindOf[y]]
      BY <3>5, TreeAssumption
    <3> QED
      BY <3>9, <3>8 DEF ParentKind, Kinds
  <2>5. Parent[x] \in D
    BY <1>6, <2>2, <2>4
  <2> QED
    BY <1>5, <2>5
<1> QED
  BY <1>2, <1>3, <1>4, <1>5, <1>6

\* What the maps know is not an adapter and has a parent, another object.
LEMMA MappedHaveParents ==
    ASSUME NEW c \in Mapped
    PROVE  /\ c \in Objects /\ Parent[c] \in Objects /\ Parent[c] # c
           /\ KindOf[c] # "service" => KindOf[Parent[c]] \in {"service", "char"}
<1>1. /\ c \in Objects /\ KindOf[c] \in {"service", "char", "desc"}
      /\ Parent[c] \in Objects /\ KindOf[Parent[c]] = ParentKind[KindOf[c]]
  BY TreeAssumption DEF Mapped
<1> QED
  BY <1>1 DEF ParentKind

-----------------------------------------------------------------------------
\* How the messages on their way go on leading to BlueZ's tree

\* The first message is handled, but the copy is to be made of a later reply.
LEMMA DroppedBefore ==
    ASSUME NEW q, NEW r, Shifted(q, r), NEW n \in 1..Len(q),
           NEW K, NEW S, NEW C, NEW E, NEW N, Follows(q, n, K, S, C, E, N)
    PROVE  Follows(r, n - 1, K, S, C, E, N)
<1>1. \A i \in 1..Len(r) : i + 1 \in 1..Len(q) /\ r[i] = q[i + 1]
  BY DEF Shifted
<1>2. \A i \in 1..Len(q) : i > n => i - 1 \in 1..Len(r) /\ r[i - 1] = q[i] /\ i - 1 > n - 1
  BY DEF Shifted
<1>3. ObjectsFollow(r, n - 1, K, S, E, N)
  <2> SUFFICES ASSUME NEW o \in Objects
               PROVE  /\ (\A i \in 1..Len(r) : i > n - 1 => r[i][2] # o) =>
                            (o \in K <=> o \in E) /\ (o \in S <=> o \in N)
                      /\ \A i \in 1..Len(r) : i > n - 1 /\ r[i][2] = o =>
                            /\ (\A j \in 1..Len(r) : j > i => r[j][2] # o) =>
                                  /\ o \in E <=> r[i][1] # "removed"
                                  /\ r[i][1] # "removed" => (o \in N <=> r[i][3])
                            /\ r[i][1] = "changed" =>
                                  /\ \/ o \in K
                                     \/ \E j \in 1..Len(r) : n - 1 < j /\ j < i /\ r[j][2] = o
                                  /\ \A j \in 1..Len(r) : n - 1 < j /\ j < i /\ Removes(r[j], o) =>
                                        \E k \in 1..Len(r) : j < k /\ k < i /\ r[k][2] = o
    BY DEF ObjectsFollow
  <2>1. (\A i \in 1..Len(r) : i > n - 1 => r[i][2] # o) =>
           (o \in K <=> o \in E) /\ (o \in S <=> o \in N)
    BY <1>2 DEF Follows, ObjectsFollow
  <2>2. ASSUME NEW i \in 1..Len(r), i > n - 1, r[i][2] = o,
               \A j \in 1..Len(r) : j > i => r[j][2] # o
        PROVE  /\ o \in E <=> r[i][1] # "removed"
               /\ r[i][1] # "removed" => (o \in N <=> r[i][3])
    <3>1. \A j \in 1..Len(q) : j > i + 1 => q[j][2] # o
      BY <1>2, <2>2
    <3> QED
      BY <1>1, <2>2, <3>1 DEF Follows, ObjectsFollow
  <2>3. ASSUME NEW i \in 1..Len(r), i > n - 1, r[i][2] = o, r[i][1] = "changed"
        PROVE  /\ o \in K \/ \E j \in 1..Len(r) : n - 1 < j /\ j < i /\ r[j][2] = o
               /\ \A j \in 1..Len(r) : n - 1 < j /\ j < i /\ Removes(r[j], o) =>
                     \E k \in 1..Len(r) : j < k /\ k < i /\ r[k][2] = o
    <3>1. /\ i + 1 \in 1..Len(q) /\ i + 1 > n /\ q[i + 1][2] = o /\ q[i + 1][1] = "changed"
          /\ o \in K \/ \E j \in 1..Len(q) : n < j /\ j < i + 1 /\ q[j][2] = o
          /\ \A j \in 1..Len(q) : n < j /\ j < i + 1 /\ Removes(q[j], o) =>
                \E k \in 1..Len(q) : j < k /\ k < i + 1 /\ q[k][2] = o
      BY <1>1, <2>3 DEF Follows, ObjectsFollow
    <3>2. o \in K \/ \E j \in 1..Len(r) : n - 1 < j /\ j < i /\ r[j][2] = o
      <4>1. ASSUME NEW j \in 1..Len(q), n < j, j < i + 1
            PROVE  j - 1 \in 1..Len(r) /\ n - 1 < j - 1 /\ j - 1 < i /\ r[j - 1] = q[j]
        BY <1>2, <4>1 DEF Shifted
      <4> QED
        BY <3>1, <4>1
    <3>3. ASSUME NEW j \in 1..Len(r), n - 1 < j, j < i, Removes(r[j], o)
          PROVE  \E k \in 1..Len(r) : j < k /\ k < i /\ r[k][2] = o
      <4>1. PICK k \in 1..Len(q) : j + 1 < k /\ k < i + 1 /\ q[k][2] = o
        BY <1>1, <3>1, <3>3
      <4>2. k - 1 \in 1..Len(r) /\ j < k - 1 /\ k - 1 < i /\ r[k - 1] = q[k]
        BY <1>2, <3>3, <4>1 DEF Shifted
      <4> QED
        BY <4>1, <4>2
    <3> QED
      BY <3>2, <3>3
  <2> QED
    BY <2>1, <2>2, <2>3
<1>4. ChildrenFollow(r, n - 1, C, E)
  <2>1. ASSUME NEW c \in Mapped, \A i \in 1..Len(r) : i > n - 1 => ~Moves(r[i], c)
        PROVE  c \in C[Parent[c]] <=> c \in E
    <3>1. \A i \in 1..Len(q) : i > n => ~Moves(q[i], c)
      BY <1>2, <2>1
    <3> QED
      BY <3>1 DEF Follows, ChildrenFollow
  <2>2. ASSUME NEW c \in Mapped, NEW i \in 1..Len(r), i > n - 1, Moves(r[i], c),
               \A j \in 1..Len(r) : j > i => ~Moves(r[j], c)
        PROVE  c \in E <=> r[i][1] = "added"
    <3>1. \A j \in 1..Len(q) : j > i + 1 => ~Moves(q[j], c)
      BY <1>2, <2>2
    <3>2. i + 1 \in 1..Len(q) /\ i + 1 > n /\ q[i + 1] = r[i]
      BY <1>1, <2>2
    <3> QED
      BY <2>2, <3>1, <3>2 DEF Follows, ChildrenFollow
  <2> QED
    BY <2>1, <2>2 DEF ChildrenFollow
<1>5. OrphansGo(r, n - 1, K, C)
  <2>1. ASSUME NEW c \in Mapped, c \in C[Parent[c]], c \notin K
        PROVE  \E i \in 1..Len(r) : i > n - 1 /\ Removes(r[i], Parent[c])
    <3>1. PICK i \in 1..Len(q) : i > n /\ Removes(q[i], Parent[c])
      BY <2>1 DEF Follows, OrphansGo
    <3> QED
      BY <1>2, <3>1
  <2>2. ASSUME NEW c \in Mapped, NEW i \in 1..Len(r), i > n - 1, Removes(r[i], c),
               KindOf[c] # "service",
               \A j \in 1..Len(r) : j > i => ~Removes(r[j], Parent[c])
        PROVE  \/ \E j \in 1..Len(r) : /\ n - 1 < j /\ j < i /\ Removes(r[j], Parent[c])
                                       /\ \A k \in 1..Len(r) : j < k /\ k < i => ~Adds(r[k], c)
               \/ /\ c \notin C[Parent[c]]
                  /\ \A k \in 1..Len(r) : n - 1 < k /\ k < i => ~Adds(r[k], c)
    <3>1. i + 1 \in 1..Len(q) /\ i + 1 > n /\ Removes(q[i + 1], c)
      BY <1>1, <2>2
    <3>2. \A j \in 1..Len(q) : j > i + 1 => ~Removes(q[j], Parent[c])
      BY <1>2, <2>2
    <3>3. \/ \E j \in 1..Len(q) : /\ n < j /\ j < i + 1 /\ Removes(q[j], Parent[c])
                                  /\ \A k \in 1..Len(q) : j < k /\ k < i + 1 => ~Adds(q[k], c)
          \/ /\ c \notin C[Parent[c]]
             /\ \A k \in 1..Len(q) : n < k /\ k < i + 1 => ~Adds(q[k], c)
      BY <2>2, <3>1, <3>2 DEF Follows, OrphansGo
    <3>4. ASSUME NEW j \in 1..Len(q), n < j, j < i + 1, Removes(q[j], Parent[c]),
                 \A k \in 1..Len(q) : j < k /\ k < i + 1 => ~Adds(q[k], c)
          PROVE  /\ j - 1 \in 1..Len(r) /\ n - 1 < j - 1 /\ j - 1 < i
                 /\ Removes(r[j - 1], Parent[c])
                 /\ \A k \in 1..Len(r) : j - 1 < k /\ k < i => ~Adds(r[k], c)
      BY <1>1, <1>2, <3>4
    <3>5. ASSUME \A k \in 1..Len(q) : n < k /\ k < i + 1 => ~Adds(q[k], c)
          PROVE  \A k \in 1..Len(r) : n - 1 < k /\ k < i => ~Adds(r[k], c)
      BY <1>1, <3>5
    <3> QED
      BY <3>3, <3>4, <3>5
  <2> QED
    BY <2>1, <2>2 DEF OrphansGo
<1> QED
  BY <1>3, <1>4, <1>5 DEF Follows

\* Messages are sent: each tells of one of the objects that have changed, and the objects that
\* a removal takes along go with their parents.
LEMMA SentBehind ==
    ASSUME NEW q, NEW r, Longer(q, r), NEW n \in 0..Len(q),
           NEW K, NEW S, NEW C, NEW E, NEW N, NEW F, NEW M, Follows(q, n, K, S, C, E, N),
           \A x \in Objects : (\A i \in 1..Len(r) : i > Len(q) => r[i][2] # x) =>
              (x \in F <=> x \in E) /\ (x \in M <=> x \in N),
           \A i \in 1..Len(r) : i > Len(q) =>
              /\ r[i][2] \in F <=> r[i][1] # "removed"
              /\ r[i][1] # "removed" => (r[i][2] \in M <=> r[i][3]) /\ Len(r) = Len(q) + 1
              /\ r[i][1] = "changed" => r[i][2] \in E,
           \A c \in Mapped, i \in 1..Len(r) : i > Len(q) =>
              /\ Moves(r[i], c) => (c \in F <=> r[i][1] = "added")
              /\ Removes(r[i], c) /\ KindOf[c] # "service" =>
                    \E j \in 1..Len(r) : j > Len(q) /\ Removes(r[j], Parent[c]),
           \A c \in Mapped : (\A i \in 1..Len(r) : i > Len(q) => ~Moves(r[i], c)) =>
              (c \in F <=> c \in E)
    PROVE  Follows(r, n, K, S, C, F, M)
<1>1. /\ \A i \in 1..Len(q) : i \in 1..Len(r) /\ r[i] = q[i] /\ i <= Len(q)
      /\ \A i \in 1..Len(r) : i <= Len(q) => i \in 1..Len(q)
      /\ Len(q) \in Nat /\ Len(r) \in Nat /\ n \in Nat
  BY DEF Longer
<1>2. ObjectsFollow(r, n, K, S, F, M)
  <2>1. ASSUME NEW o \in Objects, \A i \in 1..Len(r) : i > n => r[i][2] # o
        PROVE  (o \in K <=> o \in F) /\ (o \in S <=> o \in M)
    <3>1. \A i \in 1..Len(q) : i > n => q[i][2] # o
      BY <1>1, <2>1
    <3>2. \A i \in 1..Len(r) : i > Len(q) => r[i][2] # o
      BY <2>1, <1>1
    <3> QED
      BY <3>1, <3>2 DEF Follows, ObjectsFollow
  <2>2. ASSUME NEW o \in Objects, NEW i \in 1..Len(r), i > n, r[i][2] = o,
               \A j \in 1..Len(r) : j > i => r[j][2] # o
        PROVE  /\ o \in F <=> r[i][1] # "removed"
               /\ r[i][1] # "removed" => (o \in M <=> r[i][3])
    <3>1. CASE i > Len(q)
      BY <2>2, <3>1
    <3>2. CASE i <= Len(q)
      <4>1. i \in 1..Len(q) /\ r[i] = q[i]
        BY <1>1, <3>2
      <4>2. \A j \in 1..Len(q) : j > i => q[j][2] # o
        BY <1>1, <2>2
      <4>3. \A j \in 1..Len(r) : j > Len(q) => r[j][2] # o
        BY <1>1, <2>2, <3>2
      <4>4. /\ o \in E <=> q[i][1] # "removed"
            /\ q[i][1] # "removed" => (o \in N <=> q[i][3])
        BY <2>2, <4>1, <4>2 DEF Follows, ObjectsFollow
      <4> QED
        BY <4>1, <4>3, <4>4
    <3> QED
      BY <3>1, <3>2, <1>1
  <2>3. ASSUME NEW o \in Objects, NEW i \in 1..Len(r), i > n, r[i][2] = o, r[i][1] = "changed"
        PROVE  /\ o \in K \/ \E j \in 1..Len(r) : n < j /\ j < i /\ r[j][2] = o
               /\ \A j \in 1..Len(r) : n < j /\ j < i /\ Removes(r[j], o) =>
                     \E k \in 1..Len(r) : j < k /\ k < i /\ r[k][2] = o
    <3>1. CASE i > Len(q)
      <4>1. i = Len(q) + 1 /\ o \in E
        BY <1>1, <2>3, <3>1
      <4>2. o \in K \/ \E j \in 1..Len(q) : n < j /\ q[j][2] = o
        BY <4>1 DEF Follows, ObjectsFollow
      <4>3. ASSUME NEW j \in 1..Len(q), n < j, Removes(q[j], o)
            PROVE  \E k \in 1..Len(q) : j < k /\ q[k][2] = o
        BY <4>1, <4>3 DEF Follows, ObjectsFollow, Removes
      <4>4. \A j \in 1..Len(r) : j < i => j \in 1..Len(q) /\ r[j] = q[j]
        BY <1>1, <4>1
      <4>5. \A j \in 1..Len(q) : j \in 1..Len(r) /\ j < i /\ r[j] = q[j]
        BY <1>1, <4>1
      <4>6. o \in K \/ \E j \in 1..Len(r) : n < j /\ j < i /\ r[j][2] = o
        BY <4>2, <4>5
      <4>7. ASSUME NEW j \in 1..Len(r), n < j, j < i, Removes(r[j], o)
            PROVE  \E k \in 1..Len(r) : j < k /\ k < i /\ r[k][2] = o
        <5>1. PICK k \in 1..Len(q) : j < k /\ q[k][2] = o
          BY <4>3, <4>4, <4>7
        <5> QED
          BY <4>5, <5>1
      <4> QED
        BY <4>6, <4>7
    <3>2. CASE i <= Len(q)
      <4>1. i \in 1..Len(q) /\ r[i] = q[i]
        BY <1>1, <3>2
      <4>2. /\ o \in K \/ \E j \in 1..Len(q) : n < j /\ j < i /\ q[j][2] = o
            /\ \A j \in 1..Len(q) : n < j /\ j < i /\ Removes(q[j], o) =>
                  \E k \in 1..Len(q) : j < k /\ k < i /\ q[k][2] = o
        BY <2>3, <4>1 DEF Follows, ObjectsFollow
      <4>3. \A j \in 1..Len(r) : j < i => j \in 1..Len(q) /\ r[j] = q[j]
        BY <1>1, <4>1
      <4> QED
        BY <1>1, <4>2, <4>3
    <3> QED
      BY <3>1, <3>2, <1>1
  <2> QED
    BY <2>1, <2>2, <2>3 DEF ObjectsFollow
<1>3. ChildrenFollow(r, n, C, F)
  <2>1. ASSUME NEW c \in Mapped, \A i \in 1..Len(r) : i > n => ~Moves(r[i], c)
        PROVE  c \in C[Parent[c]] <=> c \in F
    <3>1. \A i \in 1..Len(q) : i > n => ~Moves(q[i], c)
      BY <1>1, <2>1
    <3>2. \A i \in 1..Len(r) : i > Len(q) => ~Moves(r[i], c)
      BY <1>1, <2>1
    <3> QED
      BY <3>1, <3>2 DEF Follows, ChildrenFollow
  <2>2. ASSUME NEW c \in Mapped, NEW i \in 1..Len(r), i > n, Moves(r[i], c),
               \A j \in 1..Len(r) : j > i => ~Moves(r[j], c)
        PROVE  c \in F <=> r[i][1] = "added"
    <3>1. CASE i > Len(q)
      BY <2>2, <3>1
    <3>2. CASE i <= Len(q)
      <4>1. i \in 1..Len(q) /\ r[i] = q[i]
        BY <1>1, <3>2
      <4>2. \A j \in 1..Len(q) : j > i => ~Moves(q[j], c)
        BY <1>1, <2>2
      <4>3. \A j \in 1..Len(r) : j > Len(q) => ~Moves(r[j], c)
        BY <1>1, <2>2, <3>2
      <4>4. c \in E <=> q[i][1] = "added"
        BY <2>2, <4>1, <4>2 DEF Follows, ChildrenFollow
      <4> QED
        BY <4>1, <4>3, <4>4
    <3> QED
      BY <3>1, <3>2, <1>1
  <2> QED
    BY <2>1, <2>2 DEF ChildrenFollow
<1>4. OrphansGo(r, n, K, C)
  <2>1. ASSUME NEW c \in Mapped, c \in C[Parent[c]], c \notin K
        PROVE  \E i \in 1..Len(r) : i > n /\ Removes(r[i], Parent[c])
    <3>1. PICK i \in 1..Len(q) : i > n /\ Removes(q[i], Parent[c])
      BY <2>1 DEF Follows, OrphansGo
    <3> QED
      BY <1>1, <3>1
  <2>2. ASSUME NEW c \in Mapped, NEW i \in 1..Len(r), i > n, Removes(r[i], c),
               KindOf[c] # "service",
               \A j \in 1..Len(r) : j > i => ~Removes(r[j], Parent[c])
        PROVE  \/ \E j \in 1..Len(r) : /\ n < j /\ j < i /\ Removes(r[j], Parent[c])
                                       /\ \A k \in 1..Len(r) : j < k /\ k < i => ~Adds(r[k], c)
               \/ /\ c \notin C[Parent[c]]
                  /\ \A k \in 1..Len(r) : n < k /\ k < i => ~Adds(r[k], c)
    <3>1. CASE i > Len(q)
      <4>1. PICK j \in 1..Len(r) : j > Len(q) /\ Removes(r[j], Parent[c])
        BY <2>2, <3>1
      <4>2. j # i
        BY <2>2, <4>1, MappedHaveParents DEF Removes
      <4>3. n < j /\ j < i
        BY <1>1, <2>2, <4>1, <4>2
      <4>4. ASSUME NEW k \in 1..Len(r), j < k, Adds(r[k], c) PROVE FALSE
        <5>1. k > Len(q) /\ r[k][1] # "removed"
          BY <1>1, <4>1, <4>4 DEF Adds
        <5>2. Len(r) = Len(q) + 1
          BY <5>1
        <5> QED
          BY <5>2, <4>1, <4>4, <1>1
      <4> QED
        BY <4>1, <4>3, <4>4
    <3>2. CASE i <= Len(q)
      <4>1. i \in 1..Len(q) /\ r[i] = q[i]
        BY <1>1, <3>2
      <4>2. \A j \in 1..Len(q) : j > i => ~Removes(q[j], Parent[c])
        BY <1>1, <2>2
      <4>3. \A k \in 1..Len(r) : k < i => k \in 1..Len(q) /\ r[k] = q[k]
        BY <1>1, <4>1
      <4>4. \/ \E j \in 1..Len(q) : /\ n < j /\ j < i /\ Removes(q[j], Parent[c])
                                    /\ \A k \in 1..Len(q) : j < k /\ k < i => ~Adds(q[k], c)
            \/ /\ c \notin C[Parent[c]]
               /\ \A k \in 1..Len(q) : n < k /\ k < i => ~Adds(q[k], c)
        BY <2>2, <4>1, <4>2 DEF Follows, OrphansGo
      <4> QED
        BY <1>1, <4>3, <4>4
    <3> QED
      BY <3>1, <3>2, <1>1
  <2> QED
    BY <2>1, <2>2 DEF OrphansGo
<1> QED
  BY <1>2, <1>3, <1>4 DEF Follows

\* The first message is handled: of the objects L and the child maps D, those that have the
\* value true being T, the messages behind it lead to the same.
LEMMA HandledFirst ==
    ASSUME NEW q, NEW r, Shifted(q, r), NEW K, NEW S, NEW C, NEW E, NEW N, N \subseteq E,
           Follows(q, 0, K, S, C, E, N), q[1] \in Signal,
           NEW L, NEW T, NEW D,
           \A x \in Objects : x # q[1][2] => (x \in L <=> x \in K) /\ (x \in T <=> x \in S),
           q[1][1] = "added" => q[1][2] \in L /\ (q[1][2] \in T <=> q[1][3]),
           q[1][1] = "removed" => q[1][2] \notin L /\ q[1][2] \notin T,
           q[1][1] = "changed" /\ q[1][2] \in K => q[1][2] \in L /\ (q[1][2] \in T <=> q[1][3]),
           \A c \in Mapped :
              c \in D[Parent[c]] <=> Adds(q[1], c) \/ (c \in C[Parent[c]] /\ ~Moves(q[1], c))
    PROVE  Follows(r, 0, L, T, D, E, N)
<1>1. /\ 1 \in 1..Len(q) /\ Len(q) \in Nat /\ Len(r) \in Nat
      /\ \A i \in 1..Len(r) : i + 1 \in 1..Len(q) /\ r[i] = q[i + 1] /\ i + 1 > 1 /\ i > 0
      /\ \A i \in 1..Len(q) : i > 1 => i - 1 \in 1..Len(r) /\ r[i - 1] = q[i] /\ i - 1 > 0
      /\ \A i \in 1..Len(q) : i = 1 \/ i > 1
  BY DEF Shifted
<1>2. q[1][1] \in Rules
  BY DEF Signal
<1>3. ASSUME NEW o \in Objects, q[1][2] = o, q[1][1] = "changed" PROVE o \in K
  BY <1>1, <1>3 DEF Follows, ObjectsFollow
<1>4. ObjectsFollow(r, 0, L, T, E, N)
  <2>1. ASSUME NEW o \in Objects, \A i \in 1..Len(r) : r[i][2] # o
        PROVE  (o \in L <=> o \in E) /\ (o \in T <=> o \in N)
    <3>1. \A i \in 1..Len(q) : i > 1 => q[i][2] # o
      BY <1>1, <2>1
    <3>2. CASE q[1][2] = o
      <4>1. /\ o \in E <=> q[1][1] # "removed"
            /\ q[1][1] # "removed" => (o \in N <=> q[1][3])
        BY <1>1, <3>1, <3>2 DEF Follows, ObjectsFollow
      <4> QED
        BY <1>2, <1>3, <3>2, <4>1 DEF Rules
    <3>3. CASE q[1][2] # o
      <4>1. (o \in K <=> o \in E) /\ (o \in S <=> o \in N)
        BY <1>1, <3>1, <3>3 DEF Follows, ObjectsFollow
      <4> QED
        BY <3>3, <4>1
    <3> QED
      BY <3>2, <3>3
  <2>2. ASSUME NEW o \in Objects, NEW i \in 1..Len(r), r[i][2] = o,
               \A j \in 1..Len(r) : j > i => r[j][2] # o
        PROVE  /\ o \in E <=> r[i][1] # "removed"
               /\ r[i][1] # "removed" => (o \in N <=> r[i][3])
    <3>1. \A j \in 1..Len(q) : j > i + 1 => q[j][2] # o
      BY <1>1, <2>2
    <3> QED
      BY <1>1, <2>2, <3>1 DEF Follows, ObjectsFollow
  <2>3. ASSUME NEW o \in Objects, NEW i \in 1..Len(r), r[i][2] = o, r[i][1] = "changed"
        PROVE  /\ o \in L \/ \E j \in 1..Len(r) : 0 < j /\ j < i /\ r[j][2] = o
               /\ \A j \in 1..Len(r) : 0 < j /\ j < i /\ Removes(r[j], o) =>
                     \E k \in 1..Len(r) : j < k /\ k < i /\ r[k][2] = o
    <3>1. /\ o \in K \/ \E j \in 1..Len(q) : 0 < j /\ j < i + 1 /\ q[j][2] = o
          /\ \A j \in 1..Len(q) : 0 < j /\ j < i + 1 /\ Removes(q[j], o) =>
                \E k \in 1..Len(q) : j < k /\ k < i + 1 /\ q[k][2] = o
      BY <1>1, <2>3 DEF Follows, ObjectsFollow
    <3>2. ASSUME NEW k \in 1..Len(q), k > 1, k < i + 1
          PROVE  k - 1 \in 1..Len(r) /\ 0 < k - 1 /\ k - 1 < i /\ r[k - 1] = q[k]
      BY <1>1, <3>2
    <3>3. o \in L \/ \E j \in 1..Len(r) : 0 < j /\ j < i /\ r[j][2] = o
      <4>1. CASE \E j \in 1..Len(q) : j > 1 /\ j < i + 1 /\ q[j][2] = o
        BY <3>2, <4>1
      <4>2. CASE q[1][2] = o /\ ~\E j \in 1..Len(q) : j > 1 /\ j < i + 1 /\ q[j][2] = o
        <5>1. 0 < 1 /\ 1 < i + 1
          BY <1>1
        <5>2. q[1][1] # "removed"
          BY <1>1, <3>1, <4>2, <5>1 DEF Removes
        <5> QED
          BY <1>2, <1>3, <4>2, <5>2 DEF Rules
      <4>3. CASE q[1][2] # o /\ o \in K
        BY <4>3
      <4> QED
        BY <1>1, <3>1, <4>1, <4>2, <4>3
    <3>4. ASSUME NEW j \in 1..Len(r), 0 < j, j < i, Removes(r[j], o)
          PROVE  \E k \in 1..Len(r) : j < k /\ k < i /\ r[k][2] = o
      <4>1. PICK k \in 1..Len(q) : j + 1 < k /\ k < i + 1 /\ q[k][2] = o
        BY <1>1, <3>1, <3>4
      <4>2. k > 1 /\ j < k - 1
        BY <3>4, <4>1, <1>1
      <4> QED
        BY <3>2, <4>1, <4>2
    <3> QED
      BY <3>3, <3>4
  <2> QED
    BY <2>1, <2>2, <2>3, <1>1 DEF ObjectsFollow
<1>5. ChildrenFollow(r, 0, D, E)
  <2>1. ASSUME NEW c \in Mapped, \A i \in 1..Len(r) : ~Moves(r[i], c)
        PROVE  c \in D[Parent[c]] <=> c \in E
    <3>1. \A i \in 1..Len(q) : i > 1 => ~Moves(q[i], c)
      BY <1>1, <2>1
    <3>2. CASE Moves(q[1], c)
      <4>1. c \in E <=> q[1][1] = "added"
        BY <1>1, <3>1, <3>2 DEF Follows, ChildrenFollow
      <4>2. q[1][1] = "added" <=> Adds(q[1], c)
        BY <3>2 DEF Moves, Adds, Removes
      <4> QED
        BY <3>2, <4>1, <4>2
    <3>3. CASE ~Moves(q[1], c)
      <4>1. c \in C[Parent[c]] <=> c \in E
        BY <1>1, <3>1, <3>3 DEF Follows, ChildrenFollow
      <4> QED
        BY <3>3, <4>1 DEF Moves
    <3> QED
      BY <3>2, <3>3
  <2>2. ASSUME NEW c \in Mapped, NEW i \in 1..Len(r), Moves(r[i], c),
               \A j \in 1..Len(r) : j > i => ~Moves(r[j], c)
        PROVE  c \in E <=> r[i][1] = "added"
    <3>1. \A j \in 1..Len(q) : j > i + 1 => ~Moves(q[j], c)
      BY <1>1, <2>2
    <3> QED
      BY <1>1, <2>2, <3>1 DEF Follows, ChildrenFollow
  <2> QED
    BY <2>1, <2>2, <1>1 DEF ChildrenFollow
<1>6. OrphansGo(r, 0, L, D)
  <2>1. ASSUME NEW c \in Mapped, c \in D[Parent[c]], c \notin L
        PROVE  \E i \in 1..Len(r) : i > 0 /\ Removes(r[i], Parent[c])
    <3>1. ~Adds(q[1], c) /\ c \in C[Parent[c]] /\ ~Moves(q[1], c)
      BY <2>1 DEF Adds
    <3>2. \E i \in 1..Len(q) : i > 1 /\ Removes(q[i], Parent[c])
      <4>1. CASE c \notin K
        <5>1. PICK i \in 1..Len(q) : Removes(q[i], Parent[c])
          BY <3>1, <4>1 DEF Follows, OrphansGo
        <5> QED
          BY <1>1, <3>1, <5>1 DEF Moves
      <4>2. CASE c \in K
        <5>1. Removes(q[1], c) /\ KindOf[c] # "service"
          BY <1>2, <2>1, <3>1, <4>2 DEF Moves, Adds, Removes, Mapped, Rules
        <5>2. \/ \E j \in 1..Len(q) : j > 1 /\ Removes(q[j], Parent[c])
              \/ \E j \in 1..Len(q) : 0 < j /\ j < 1
              \/ c \notin C[Parent[c]]
          BY <1>1, <5>1 DEF Follows, OrphansGo
        <5> QED
          BY <1>1, <3>1, <5>2
      <4> QED
        BY <4>1, <4>2
    <3> QED
      BY <1>1, <3>2
  <2>2. ASSUME NEW c \in Mapped, NEW i \in 1..Len(r), Removes(r[i], c),
               KindOf[c] # "service",
               \A j \in 1..Len(r) : j > i => ~Removes(r[j], Parent[c])
        PROVE  \/ \E j \in 1..Len(r) : /\ 0 < j /\ j < i /\ Removes(r[j], Parent[c])
                                       /\ \A k \in 1..Len(r) : j < k /\ k < i => ~Adds(r[k], c)
               \/ /\ c \notin D[Parent[c]]
                  /\ \A k \in 1..Len(r) : 0 < k /\ k < i => ~Adds(r[k], c)
    <3>1. i + 1 \in 1..Len(q) /\ i + 1 > 0 /\ Removes(q[i + 1], c)
      BY <1>1, <2>2
    <3>2. \A j \in 1..Len(q) : j > i + 1 => ~Removes(q[j], Parent[c])
      BY <1>1, <2>2
    <3>3. \/ \E j \in 1..Len(q) : /\ 0 < j /\ j < i + 1 /\ Removes(q[j], Parent[c])
                                  /\ \A k \in 1..Len(q) : j < k /\ k < i + 1 => ~Adds(q[k], c)
          \/ /\ c \notin C[Parent[c]]
             /\ \A k \in 1..Len(q) : 0 < k /\ k < i + 1 => ~Adds(q[k], c)
      BY <2>2, <3>1, <3>2 DEF Follows, OrphansGo
    <3>4. ASSUME NEW j \in 1..Len(q), j < i + 1, Removes(q[j], Parent[c]), j > 1,
                 \A k \in 1..Len(q) : j < k /\ k < i + 1 => ~Adds(q[k], c)
          PROVE  /\ j - 1 \in 1..Len(r) /\ 0 < j - 1 /\ j - 1 < i
                 /\ Removes(r[j - 1], Parent[c])
                 /\ \A k \in 1..Len(r) : j - 1 < k /\ k < i => ~Adds(r[k], c)
      BY <1>1, <3>4
    <3>5. ASSUME \A k \in 1..Len(q) : 1 < k /\ k < i + 1 => ~Adds(q[k], c)
          PROVE  \A k \in 1..Len(r) : 0 < k /\ k < i => ~Adds(r[k], c)
      BY <1>1, <3>5
    <3>6. CASE /\ Removes(q[1], Parent[c])
               /\ \A k \in 1..Len(q) : 1 < k /\ k < i + 1 => ~Adds(q[k], c)
      <4>1. c \notin D[Parent[c]]
        BY <3>6 DEF Moves, Adds, Removes
      <4> QED
        BY <3>5, <3>6, <4>1
    <3>7. CASE /\ c \notin C[Parent[c]]
               /\ \A k \in 1..Len(q) : 0 < k /\ k < i + 1 => ~Adds(q[k], c)
      <4>1. 0 < 1 /\ 1 < i + 1 /\ \A k \in 1..Len(q) : 1 < k => 0 < k
        BY <1>1
      <4>2. ~Adds(q[1], c)
        BY <1>1, <3>7, <4>1
      <4> QED
        BY <3>5, <3>7, <4>1, <4>2
    <3>8. ASSUME NEW j \in 1..Len(q), j < i + 1, Removes(q[j], Parent[c]),
                 \A k \in 1..Len(q) : j < k /\ k < i + 1 => ~Adds(q[k], c)
          PROVE  \/ \E x \in 1..Len(r) : /\ 0 < x /\ x < i /\ Removes(r[x], Parent[c])
                                         /\ \A k \in 1..Len(r) : x < k /\ k < i => ~Adds(r[k], c)
                 \/ /\ c \notin D[Parent[c]]
                    /\ \A k \in 1..Len(r) : 0 < k /\ k < i => ~Adds(r[k], c)
      <4>1. CASE j > 1
        BY <3>4, <3>8, <4>1
      <4>2. CASE j = 1
        BY <3>6, <3>8, <4>2
      <4> QED
        BY <1>1, <4>1, <4>2
    <3> QED
      BY <3>3, <3>7, <3>8
  <2> QED
    BY <2>1, <2>2, <1>1 DEF OrphansGo
<1> QED
  BY <1>4, <1>5, <1>6 DEF Follows

-----------------------------------------------------------------------------
\* The steps

\* A function on 1..n is a sequence.
LEMMA IsASequence ==
    ASSUME NEW S, NEW n \in Nat, NEW m \in [1..n -> S] PROVE m \in Seq(S) /\ Len(m) = n
  OBVIOUS

\* One message is sent.
LEMMA OneSent ==
    ASSUME NEW S, NEW q \in Seq(S), NEW x \in S
    PROVE  /\ q \o <<x>> \in Seq(S) /\ Longer(q, q \o <<x>>)
           /\ Len(q \o <<x>>) = Len(q) + 1 /\ Len(q) + 1 \in 1..Len(q \o <<x>>)
           /\ \A i \in 1..Len(q \o <<x>>) : i > Len(q) => (q \o <<x>>)[i] = x
<1>1. <<x>> \in Seq(S) /\ Len(<<x>>) = 1 /\ <<x>>[1] = x
  OBVIOUS
<1> DEFINE m == <<x>>
<1> HIDE DEF m
<1>2. /\ q \o m \in Seq(S) /\ Longer(q, q \o m) /\ Len(q \o m) = Len(q) + 1
      /\ (q \o m)[Len(q) + 1] = m[1]
  <2>1. m \in Seq(S) /\ Len(m) = 1 /\ 1 \in 1..Len(m)
    BY <1>1 DEF m
  <2>2. /\ q \o m \in Seq(S) /\ Longer(q, q \o m) /\ Len(q \o m) = Len(q) + Len(m)
        /\ \A i \in 1..Len(m) : (q \o m)[Len(q) + i] = m[i]
    BY <2>1, Joined
  <2> QED
    BY <2>1, <2>2
<1>3. /\ Len(q) + 1 \in 1..Len(q \o m)
      /\ \A i \in 1..Len(q \o m) : i > Len(q) => (q \o m)[i] = x
  BY <1>1, <1>2 DEF Longer, m
<1> QED
  BY <1>2, <1>3 DEF m

\* A change of BlueZ's tree keeps it a tree, sends no reply, and what is sent to a connection
\* that has all match rules goes on leading to the tree.
LEMMA ChangesFollow ==
    ASSUME TypeInv, NEW o \in Objects, ObjectAdded(o) \/ ObjectRemoved(o) \/ ValueChanged(o)
    PROVE  /\ exists' \subseteq Objects /\ now' \subseteq exists'
           /\ \A x \in exists' : Parent[x] \in exists' \cup {None}
           /\ inbox' \in Seq(Reply \cup Signal) /\ Longer(inbox, inbox')
           /\ \A i \in 1..Len(inbox') : i > Len(inbox) => inbox'[i][1] # "reply"
           /\ alive # None /\ rules = Rules =>
                \A n \in 0..Len(inbox) : \A K, S, C :
                   Follows(inbox, n, K, S, C, exists, now) =>
                      Follows(inbox', n, K, S, C, exists', now')
<1> DEFINE Messages == Seq(Reply \cup Signal)
           sent == alive # None /\ rules = Rules
<1>0. inbox \in Messages /\ Len(inbox) \in Nat /\ Longer(inbox, inbox)
      /\ exists \subseteq Objects /\ now \subseteq exists
      /\ \A x \in exists : Parent[x] \in exists \cup {None}
  BY LenProperties DEF TypeInv, Longer
<1>1. CASE ObjectAdded(o)
  <2> DEFINE m == <<"added", o, FALSE>>
  <2>1. /\ o \notin exists /\ Parent[o] \in exists \cup {None}
        /\ exists' = exists \cup {o} /\ now' = now
        /\ inbox' = IF alive # None /\ "added" \in rules THEN inbox \o <<m>> ELSE inbox
    BY <1>1 DEF ObjectAdded, Send
  <2>2. CASE ~(alive # None /\ "added" \in rules)
    <3>1. inbox' = inbox /\ ~sent
      BY <2>1, <2>2 DEF Rules
    <3> QED
      BY <1>0, <2>1, <3>1
  <2>3. CASE alive # None /\ "added" \in rules
    <3>1. m \in Reply \cup Signal /\ inbox' = inbox \o <<m>>
      BY <2>1, <2>3 DEF Signal, Rules
    <3>2. m[1] = "added" /\ m[2] = o /\ m[3] = FALSE
      OBVIOUS
    <3> HIDE DEF m
    <3>3. /\ inbox' \in Messages /\ Longer(inbox, inbox') /\ Len(inbox') = Len(inbox) + 1
          /\ \A i \in 1..Len(inbox') : i > Len(inbox) => inbox'[i] = m
          /\ Len(inbox) + 1 \in 1..Len(inbox') /\ Len(inbox) + 1 > Len(inbox)
      BY <1>0, <3>1, OneSent
    <3>4. inbox'[Len(inbox) + 1] = m
      BY <3>3
    <3>5. \A x \in Objects : (\A i \in 1..Len(inbox') : i > Len(inbox) => inbox'[i][2] # x) =>
              (x \in exists' <=> x \in exists) /\ (x \in now' <=> x \in now)
      BY <2>1, <3>2, <3>3, <3>4
    <3>6. \A i \in 1..Len(inbox') : i > Len(inbox) =>
              /\ inbox'[i][2] \in exists' <=> inbox'[i][1] # "removed"
              /\ inbox'[i][1] # "removed" => /\ inbox'[i][2] \in now' <=> inbox'[i][3]
                                             /\ Len(inbox') = Len(inbox) + 1
              /\ inbox'[i][1] = "changed" => inbox'[i][2] \in exists
      BY <1>0, <2>1, <3>2, <3>3
    <3>7. \A c \in Mapped, i \in 1..Len(inbox') : i > Len(inbox) =>
              /\ Moves(inbox'[i], c) => (c \in exists' <=> inbox'[i][1] = "added")
              /\ Removes(inbox'[i], c) /\ KindOf[c] # "service" =>
                    \E j \in 1..Len(inbox') : j > Len(inbox) /\ Removes(inbox'[j], Parent[c])
      BY <2>1, <3>2, <3>3 DEF Moves, Adds, Removes
    <3>8. \A c \in Mapped : (\A i \in 1..Len(inbox') : i > Len(inbox) => ~Moves(inbox'[i], c)) =>
              (c \in exists' <=> c \in exists)
      BY <2>1, <3>2, <3>3, <3>4 DEF Moves, Adds
    <3>9. \A n \in 0..Len(inbox) : \A K, S, C :
             Follows(inbox, n, K, S, C, exists, now) =>
                Follows(inbox', n, K, S, C, exists', now')
      BY <3>3, <3>5, <3>6, <3>7, <3>8, SentBehind
    <3> QED
      BY <1>0, <2>1, <3>2, <3>3, <3>9
  <2> QED
    BY <2>2, <2>3
<1>2. CASE ValueChanged(o)
  <2> DEFINE m == <<"changed", o, o \notin now>>
  <2>1. /\ o \in exists /\ exists' = exists
        /\ now' = IF o \in now THEN now \ {o} ELSE now \cup {o}
        /\ inbox' = IF alive # None /\ "changed" \in rules THEN inbox \o <<m>> ELSE inbox
    BY <1>2 DEF ValueChanged, Send
  <2>2. CASE ~(alive # None /\ "changed" \in rules)
    <3>1. inbox' = inbox /\ ~sent
      BY <2>1, <2>2 DEF Rules
    <3> QED
      BY <1>0, <2>1, <3>1
  <2>3. CASE alive # None /\ "changed" \in rules
    <3>1. m \in Reply \cup Signal /\ inbox' = inbox \o <<m>>
      BY <2>1, <2>3 DEF Signal, Rules
    <3>2. m[1] = "changed" /\ m[2] = o /\ m[3] = (o \notin now)
      OBVIOUS
    <3> HIDE DEF m
    <3>3. /\ inbox' \in Messages /\ Longer(inbox, inbox') /\ Len(inbox') = Len(inbox) + 1
          /\ \A i \in 1..Len(inbox') : i > Len(inbox) => inbox'[i] = m
          /\ Len(inbox) + 1 \in 1..Len(inbox') /\ Len(inbox) + 1 > Len(inbox)
      BY <1>0, <3>1, OneSent
    <3>4. inbox'[Len(inbox) + 1] = m
      BY <3>3
    <3>5. \A x \in Objects : (\A i \in 1..Len(inbox') : i > Len(inbox) => inbox'[i][2] # x) =>
              (x \in exists' <=> x \in exists) /\ (x \in now' <=> x \in now)
      BY <2>1, <3>2, <3>3, <3>4
    <3>6. \A i \in 1..Len(inbox') : i > Len(inbox) =>
              /\ inbox'[i][2] \in exists' <=> inbox'[i][1] # "removed"
              /\ inbox'[i][1] # "removed" => /\ inbox'[i][2] \in now' <=> inbox'[i][3]
                                             /\ Len(inbox') = Len(inbox) + 1
              /\ inbox'[i][1] = "changed" => inbox'[i][2] \in exists
      BY <1>0, <2>1, <3>2, <3>3
    <3>7. \A c \in Mapped, i \in 1..Len(inbox') : i > Len(inbox) =>
              /\ Moves(inbox'[i], c) => (c \in exists' <=> inbox'[i][1] = "added")
              /\ Removes(inbox'[i], c) /\ KindOf[c] # "service" =>
                    \E j \in 1..Len(inbox') : j > Len(inbox) /\ Removes(inbox'[j], Parent[c])
      BY <2>1, <3>2, <3>3 DEF Moves, Adds, Removes
    <3>8. \A c \in Mapped : (\A i \in 1..Len(inbox') : i > Len(inbox) => ~Moves(inbox'[i], c)) =>
              (c \in exists' <=> c \in exists)
      BY <2>1
    <3>9. \A n \in 0..Len(inbox) : \A K, S, C :
             Follows(inbox, n, K, S, C, exists, now) =>
                Follows(inbox', n, K, S, C, exists', now')
      BY <3>3, <3>5, <3>6, <3>7, <3>8, SentBehind
    <3> QED
      BY <1>0, <2>1, <3>2, <3>3, <3>9
  <2> QED
    BY <2>2, <2>3
<1>3. CASE ObjectRemoved(o)
  <2> DEFINE gone == Below(o) \cap exists
  <2>1. PICK order \in [1..Cardinality(gone) -> gone] :
          /\ \A x \in gone : \E i \in DOMAIN order : order[i] = x
          /\ Send("removed", [i \in DOMAIN order |-> <<"removed", order[i], FALSE>>])
    BY <1>3 DEF ObjectRemoved
  <2> DEFINE m == [i \in 1..Cardinality(gone) |-> <<"removed", order[i], FALSE>>]
  <2>2. /\ KindOf[o] \in {"adapter", "device", "service"}
        /\ exists' = exists \ gone /\ now' = now \ gone
        /\ inbox' = IF alive # None /\ "removed" \in rules THEN inbox \o m ELSE inbox
    BY <1>3, <2>1 DEF ObjectRemoved, Send
  <2>3. /\ gone \subseteq exists
        /\ \A x \in Objects : Parent[x] \in gone => x \notin exists'
        /\ \A x \in exists' : Parent[x] \in exists' \cup {None}
    <3>1. \A x \in Objects : Parent[x] \in gone => x \in Below(o)
      BY BelowTree
    <3> QED
      BY <1>0, <2>2, <3>1
  <2>4. ASSUME NEW c \in Mapped, c \in gone, KindOf[c] # "service" PROVE Parent[c] \in gone
    <3>1. c # o /\ c \in Objects /\ Parent[c] \in Objects
      BY <2>2, <2>4, MappedHaveParents DEF Mapped
    <3>2. Parent[c] \in Below(o)
      BY <2>4, <3>1, BelowTree
    <3> QED
      BY <1>0, <2>4, <3>1, <3>2, TreeAssumption
  <2>5. CASE ~(alive # None /\ "removed" \in rules)
    <3>1. inbox' = inbox /\ ~sent
      BY <2>2, <2>5 DEF Rules
    <3>2. exists' \subseteq exists /\ now' \subseteq exists'
      BY <1>0, <2>2
    <3> QED
      BY <1>0, <2>3, <3>1, <3>2
  <2>6. CASE alive # None /\ "removed" \in rules
    <3>0. Cardinality(gone) \in Nat
      BY <1>0, TreeAssumption, FS_Subset, FS_CardinalityType
    <3>1. inbox' = inbox \o m /\ m \in Messages /\ Len(m) = Cardinality(gone)
      <4>1. m \in [1..Cardinality(gone) -> Reply \cup Signal]
        BY <1>0, <2>1, <2>3 DEF Signal, Rules
      <4> HIDE DEF m
      <4>2. m \in Messages /\ Len(m) = Cardinality(gone)
        BY <3>0, <4>1, IsASequence
      <4> QED
        BY <2>2, <2>6, <4>2
    <3>2. /\ inbox' \in Messages /\ Longer(inbox, inbox')
          /\ Len(inbox') = Len(inbox) + Cardinality(gone)
          /\ \A i \in 1..Cardinality(gone) :
                inbox'[Len(inbox) + i] = <<"removed", order[i], FALSE>>
      <4> HIDE DEF m
      <4>1. /\ inbox' \in Messages /\ Longer(inbox, inbox') /\ Len(inbox') = Len(inbox) + Len(m)
            /\ \A i \in 1..Len(m) : inbox'[Len(inbox) + i] = m[i]
        BY <1>0, <3>1, Joined
      <4> QED
        BY <3>1, <4>1 DEF m
    <3>3. ASSUME NEW i \in 1..Len(inbox'), i > Len(inbox)
          PROVE  inbox'[i][1] = "removed" /\ inbox'[i][2] \in gone
      <4>1. i - Len(inbox) \in 1..Cardinality(gone) /\ i = Len(inbox) + (i - Len(inbox))
        BY <1>0, <3>0, <3>2, <3>3
      <4>2. inbox'[i] = <<"removed", order[i - Len(inbox)], FALSE>>
        BY <3>2, <4>1
      <4>3. order[i - Len(inbox)] \in gone
        BY <2>1, <4>1
      <4> QED
        BY <4>2, <4>3
    <3>4. ASSUME NEW x \in gone
          PROVE  \E i \in 1..Len(inbox') : i > Len(inbox) /\ Removes(inbox'[i], x)
      <4>1. PICK i \in 1..Cardinality(gone) : order[i] = x
        BY <2>1
      <4>2. Len(inbox) + i \in 1..Len(inbox') /\ Len(inbox) + i > Len(inbox)
        BY <1>0, <3>0, <3>2
      <4>3. inbox'[Len(inbox) + i] = <<"removed", x, FALSE>>
        BY <3>2, <4>1
      <4> QED
        BY <4>2, <4>3 DEF Removes
    <3>5. \A x \in Objects : (\A i \in 1..Len(inbox') : i > Len(inbox) => inbox'[i][2] # x) =>
              (x \in exists' <=> x \in exists) /\ (x \in now' <=> x \in now)
      BY <2>2, <3>4 DEF Removes
    <3>6. \A i \in 1..Len(inbox') : i > Len(inbox) =>
              /\ inbox'[i][2] \in exists' <=> inbox'[i][1] # "removed"
              /\ inbox'[i][1] # "removed" => /\ inbox'[i][2] \in now' <=> inbox'[i][3]
                                             /\ Len(inbox') = Len(inbox) + 1
              /\ inbox'[i][1] = "changed" => inbox'[i][2] \in exists
      BY <2>2, <3>3
    <3>7. \A c \in Mapped, i \in 1..Len(inbox') : i > Len(inbox) =>
              /\ Moves(inbox'[i], c) => (c \in exists' <=> inbox'[i][1] = "added")
              /\ Removes(inbox'[i], c) /\ KindOf[c] # "service" =>
                    \E j \in 1..Len(inbox') : j > Len(inbox) /\ Removes(inbox'[j], Parent[c])
      <4> SUFFICES ASSUME NEW c \in Mapped, NEW i \in 1..Len(inbox'), i > Len(inbox)
                   PROVE  /\ Moves(inbox'[i], c) => c \notin exists'
                          /\ Removes(inbox'[i], c) /\ KindOf[c] # "service" =>
                               \E j \in 1..Len(inbox') : j > Len(inbox) /\ Removes(inbox'[j], Parent[c])
        BY <3>3
      <4>1. inbox'[i][1] = "removed" /\ inbox'[i][2] \in gone
        BY <3>3
      <4>2. Moves(inbox'[i], c) => c \notin exists'
        BY <2>2, <2>3, <4>1, MappedHaveParents DEF Moves, Adds, Removes
      <4>3. Removes(inbox'[i], c) /\ KindOf[c] # "service" => Parent[c] \in gone
        BY <2>4, <4>1 DEF Removes
      <4> QED
        BY <3>4, <4>2, <4>3
    <3>8. ASSUME NEW c \in Mapped,
                 \A i \in 1..Len(inbox') : i > Len(inbox) => ~Moves(inbox'[i], c)
          PROVE  c \in exists' <=> c \in exists
      <4>1. c \notin gone
        BY <2>4, <3>4, <3>8 DEF Moves
      <4> QED
        BY <2>2, <4>1
    <3>9. \A n \in 0..Len(inbox) : \A K, S, C :
             Follows(inbox, n, K, S, C, exists, now) =>
                Follows(inbox', n, K, S, C, exists', now')
      <4> HIDE DEF gone
      <4> QED
        BY <3>2, <3>5, <3>6, <3>7, <3>8, SentBehind
    <3> QED
      BY <1>0, <2>2, <2>3, <3>2, <3>3, <3>9
  <2> QED
    BY <2>5, <2>6
<1> QED
  BY <1>1, <1>2, <1>3

\* A signal is taken from the queue.
LEMMA SignalTaken ==
    ASSUME TypeInv, NEW k \in Rules, Handle(k)
    PROVE  /\ inbox # <<>> /\ inbox' \in Seq(Reply \cup Signal) /\ Shifted(inbox, inbox')
           /\ 1 \in 1..Len(inbox) /\ inbox[1] \in Signal /\ inbox[1][1] = k
           /\ inbox[1][2] \in Objects /\ Object = inbox[1][2] /\ Value = inbox[1][3]
<1>1. /\ inbox # <<>> /\ Head(inbox)[1] = k /\ inbox' = Tail(inbox)
      /\ inbox \in Seq(Reply \cup Signal)
  BY DEF Handle, TypeInv
<1>2. /\ Tail(inbox) \in Seq(Reply \cup Signal) /\ Shifted(inbox, Tail(inbox))
      /\ 1 \in 1..Len(inbox) /\ Head(inbox) = inbox[1] /\ inbox[1] \in Reply \cup Signal
  BY <1>1, Taken
<1>3. inbox[1] \in Signal
  BY <1>1, <1>2 DEF Reply, Rules
<1> QED
  BY <1>1, <1>2, <1>3 DEF Signal, Object, Value

\* The handlers do to the copy what the signal says.
LEMMA HandlersFollow ==
    ASSUME TypeInv, InterfacesAdded \/ InterfacesRemoved \/ PropertiesChanged,
           Follows(inbox, 0, known, seen, children, exists, now)
    PROVE  Follows(inbox', 0, known', seen', children', exists, now)
<1> DEFINE m == inbox[1]
<1>1. CASE InterfacesAdded
  <2>1. /\ Shifted(inbox, inbox') /\ m \in Signal /\ m[1] = "added" /\ m[2] \in Objects
        /\ Object = m[2] /\ Value = m[3]
    BY <1>1, SignalTaken DEF InterfacesAdded, Rules
  <2>2. /\ known' = known \cup {m[2]} /\ seen' = IF m[3] THEN seen \cup {m[2]} ELSE seen \ {m[2]}
        /\ children' = IF m[2] \in Mapped THEN [children EXCEPT ![Parent[m[2]]] = @ \cup {m[2]}]
                       ELSE children
    BY <1>1, <2>1 DEF InterfacesAdded, SetValue
  <2>3. \A c \in Mapped : c \in children'[Parent[c]] <=>
           Adds(m, c) \/ (c \in children[Parent[c]] /\ ~Moves(m, c))
    <3>1. \A c \in Mapped : (Adds(m, c) <=> m[2] = c) /\ (Moves(m, c) <=> m[2] = c)
      BY <2>1 DEF Adds, Moves, Removes
    <3>2. \A c \in Mapped : Parent[c] \in Objects
      BY MappedHaveParents
    <3> QED
      BY <2>2, <3>1, <3>2 DEF TypeInv
  <2> HIDE DEF m
  <2>4. /\ \A x \in Objects : x # m[2] => (x \in known' <=> x \in known) /\ (x \in seen' <=> x \in seen)
        /\ m[2] \in known' /\ (m[2] \in seen' <=> m[3])
    BY <2>1, <2>2 DEF Signal
  <2> QED
    BY <2>1, <2>3, <2>4, HandledFirst DEF TypeInv, m
<1>2. CASE InterfacesRemoved
  <2>1. /\ Shifted(inbox, inbox') /\ m \in Signal /\ m[1] = "removed" /\ m[2] \in Objects
        /\ Object = m[2] /\ Value = m[3]
    BY <1>2, SignalTaken DEF InterfacesRemoved, Rules
  <2>2. /\ known' = known \ {m[2]} /\ seen' = seen \ {m[2]}
        /\ children' = [o \in Objects |->
              IF o = m[2] THEN {}
              ELSE IF KindOf[m[2]] = "service" THEN children[o] \ {m[2]} ELSE children[o]]
    BY <1>2, <2>1 DEF InterfacesRemoved
  <2>3. \A c \in Mapped : c \in children'[Parent[c]] <=>
           Adds(m, c) \/ (c \in children[Parent[c]] /\ ~Moves(m, c))
    <3>1. \A c \in Mapped : /\ ~Adds(m, c)
                            /\ Moves(m, c) <=> m[2] = Parent[c] \/ (m[2] = c /\ KindOf[c] = "service")
      BY <2>1 DEF Adds, Moves, Removes
    <3>2. \A c \in Mapped : Parent[c] \in Objects
      BY MappedHaveParents
    <3> QED
      BY <2>2, <3>1, <3>2 DEF TypeInv
  <2> HIDE DEF m
  <2> QED
    BY <2>1, <2>2, <2>3, HandledFirst DEF TypeInv, m
<1>3. CASE PropertiesChanged
  <2>1. /\ Shifted(inbox, inbox') /\ m \in Signal /\ m[1] = "changed" /\ m[2] \in Objects
        /\ Object = m[2] /\ Value = m[3]
    BY <1>3, SignalTaken DEF PropertiesChanged, Rules
  <2>2. /\ known' = known /\ children' = children
        /\ seen' = IF m[2] \in known THEN IF m[3] THEN seen \cup {m[2]} ELSE seen \ {m[2]} ELSE seen
    BY <1>3, <2>1 DEF PropertiesChanged, SetValue
  <2>3. \A c \in Mapped : c \in children'[Parent[c]] <=>
           Adds(m, c) \/ (c \in children[Parent[c]] /\ ~Moves(m, c))
    BY <2>1, <2>2 DEF Adds, Moves, Removes
  <2> HIDE DEF m
  <2> QED
    BY <2>1, <2>2, <2>3, HandledFirst DEF TypeInv, m
<1> QED
  BY <1>1, <1>2, <1>3

\* What BlueZ answers to GetManagedObjects is its tree: nothing has to follow.
LEMMA ReplyFollows ==
    ASSUME NEW q, NEW n, \A i \in 1..Len(q) : ~(i > n), NEW E, NEW N
    PROVE  Follows(q, n, E, N, MapsOf(E), E, N)
<1>1. ASSUME NEW c \in Mapped PROVE c \in MapsOf(E)[Parent[c]] <=> c \in E
  BY MappedHaveParents DEF MapsOf
<1>2. ObjectsFollow(q, n, E, N, E, N)
  BY DEF ObjectsFollow
<1>3. ChildrenFollow(q, n, MapsOf(E), E)
  BY <1>1 DEF ChildrenFollow
<1>4. OrphansGo(q, n, E, MapsOf(E))
  BY <1>1 DEF OrphansGo
<1> QED
  BY <1>2, <1>3, <1>4 DEF Follows

\* A call that is not at work on a new bus goes on or ends.
LEMMA Moved ==
    ASSUME TreeInv, NEW t \in Callers, NEW l \in Pc \ Busy, pc[t] \notin Busy \cup {"done"},
           Goto(t, l), UNCHANGED <<lock, fields, dbus, bluez, raced>>
    PROVE  TreeInv'
<1>1. /\ UNCHANGED <<lock, bus, adapters, known, seen, children, alive, rules, inbox, snapshot,
                     exists, now, raced>>
      /\ pc' = [pc EXCEPT ![t] = l]
  BY DEF fields, dbus, bluez, Goto
<1>2. /\ \A u \in Callers : pc'[u] \in Busy <=> pc[u] \in Busy
      /\ lock # None => pc'[lock] = pc[lock]
      /\ bus # None => pc'[bus] = pc[bus]
      /\ pc' \in [Callers -> Pc]
  BY <1>1 DEF TreeInv, TypeInv, ConnectionInv
<1>3. TypeInv'
  BY <1>1, <1>2 DEF TreeInv, TypeInv
<1>4. ConnectionInv'
  BY <1>1, <1>2 DEF TreeInv, ConnectionInv
<1>5. CopyInv'
  BY <1>1, <1>2 DEF TreeInv, CopyInv, Ready
<1> QED
  BY <1>3, <1>4, <1>5 DEF TreeInv

\* The call that has the lock is the one at work on a bus, which is not the manager's yet.
LEMMA AtWork ==
    ASSUME TreeInv, NEW t \in Callers, pc[t] \in Busy
    PROVE  /\ lock = t /\ t # None /\ bus # t /\ alive \in {None, t} /\ ~Ready
           /\ pc[t] # "objects" => \A i \in 1..Len(inbox) : inbox[i][1] # "reply"
  BY TreeAssumption DEF TreeInv, TypeInv, ConnectionInv, Ready, Busy

\* The lock is taken for a new bus.
LEMMA NewBusStep == ASSUME TreeInv, NEW t \in Callers, NewBus(t) PROVE TreeInv'
<1>1. /\ pc[t] = "lock" /\ lock = None /\ lock' = t /\ pc' = [pc EXCEPT ![t] = "connect"]
      /\ bus = None \/ bus # alive
      /\ UNCHANGED <<bus, adapters, known, seen, children, alive, rules, inbox, snapshot,
                     exists, now, raced>>
  BY DEF NewBus, Acquire, Goto, fields, bluez
<1>2. /\ alive = None /\ t # None /\ pc'[t] = "connect" /\ pc' \in [Callers -> Pc]
      /\ \A i \in 1..Len(inbox) : inbox[i][1] # "reply"
  BY <1>1, TreeAssumption DEF TreeInv, TypeInv, ConnectionInv, Pc
<1>3. TypeInv'
  BY <1>1, <1>2 DEF TreeInv, TypeInv
<1>4. ConnectionInv'
  <2>1. \A u \in Callers : pc'[u] \in Busy <=> u = t
    BY <1>1, TreeAssumption DEF TreeInv, TypeInv, ConnectionInv, Busy
  <2>2. bus # None => bus # t /\ pc'[bus] = "done"
    BY <1>1 DEF TreeInv, TypeInv, ConnectionInv
  <2> QED
    BY <1>1, <1>2, <2>1, <2>2 DEF ConnectionInv
<1>5. CopyInv'
  BY <1>1, <1>2 DEF CopyInv, Ready
<1> QED
  BY <1>3, <1>4, <1>5 DEF TreeInv

\* The new bus is connected: nothing is on its way to it.
LEMMA ConnectedStep == ASSUME TreeInv, NEW t \in Callers, Connected(t) PROVE TreeInv'
<1>1. /\ pc[t] = "connect" /\ pc' = [pc EXCEPT ![t] = "added"]
      /\ alive' = t /\ rules' = {} /\ inbox' = <<>>
      /\ UNCHANGED <<lock, bus, adapters, known, seen, children, snapshot, exists, now, raced>>
  BY DEF Connected, Goto, fields, bluez
<1>2. /\ lock = t /\ t # None /\ bus # t /\ pc'[t] = "added" /\ pc' \in [Callers -> Pc]
      /\ \A i \in 1..Len(inbox') : FALSE
  BY <1>1, AtWork DEF TreeInv, TypeInv, Pc, Busy
<1>3. TypeInv'
  BY <1>1, <1>2 DEF TreeInv, TypeInv
<1>4. ConnectionInv'
  <2>1. \A u \in Callers : pc'[u] \in Busy <=> u = t
    BY <1>1, <1>2 DEF TreeInv, TypeInv, ConnectionInv, Busy
  <2>2. bus # None => pc'[bus] = "done"
    BY <1>1, <1>2 DEF TreeInv, TypeInv, ConnectionInv
  <2> QED
    BY <1>1, <1>2, <2>1, <2>2 DEF ConnectionInv
<1>5. CopyInv'
  BY <1>1, <1>2 DEF CopyInv, Ready
<1> QED
  BY <1>3, <1>4, <1>5 DEF TreeInv

\* One more match rule: all are there when the objects are asked for.
LEMMA AddMatchStep == ASSUME TreeInv, NEW t \in Callers, AddMatch(t) PROVE TreeInv'
<1>1. /\ pc[t] \in {"added", "removed", "changed"} /\ pc' = [pc EXCEPT ![t] = After[pc[t]]]
      /\ alive = t /\ rules' = rules \cup {pc[t]}
      /\ UNCHANGED <<lock, bus, adapters, known, seen, children, alive, inbox, snapshot,
                     exists, now, raced>>
  BY DEF AddMatch, Goto, fields, bluez
<1>2. /\ pc[t] = "added" => After[pc[t]] = "removed"
      /\ pc[t] = "removed" => After[pc[t]] = "changed"
      /\ pc[t] = "changed" => After[pc[t]] = "objects"
  BY DEF After
<1>3. /\ lock = t /\ t # None /\ bus # t /\ pc' \in [Callers -> Pc] /\ pc'[t] = After[pc[t]]
      /\ \A i \in 1..Len(inbox) : inbox[i][1] # "reply"
  BY <1>1, <1>2, AtWork DEF TreeInv, TypeInv, Pc, Busy
<1>4. TypeInv'
  BY <1>1, <1>3 DEF TreeInv, TypeInv, Rules
<1>5. ConnectionInv'
  <2>1. \A u \in Callers : pc'[u] \in Busy <=> u = t
    BY <1>1, <1>2, <1>3 DEF TreeInv, TypeInv, ConnectionInv, Busy
  <2>2. bus # None => pc'[bus] = "done"
    BY <1>1, <1>3 DEF TreeInv, TypeInv, ConnectionInv
  <2>3. /\ pc'[t] = "removed" => "added" \in rules'
        /\ pc'[t] = "changed" => "added" \in rules' /\ "removed" \in rules'
        /\ pc'[t] = "objects" => rules' = Rules
        /\ pc'[t] \notin {"connect", "reply"}
    BY <1>1, <1>2, <1>3 DEF TreeInv, TypeInv, ConnectionInv, Rules
  <2> QED
    BY <1>1, <1>3, <2>1, <2>2, <2>3 DEF ConnectionInv
<1>6. CopyInv'
  BY <1>1, <1>2, <1>3 DEF CopyInv, Ready
<1> QED
  BY <1>4, <1>5, <1>6 DEF TreeInv

\* The manager's copy is made of the reply.
LEMMA LoadObjectsStep == ASSUME TreeInv, NEW t \in Callers, LoadObjects(t) PROVE TreeInv'
<1>1. /\ pc[t] = "reply" /\ pc' = [pc EXCEPT ![t] = "done"] /\ alive = t
      /\ known' = snapshot[2] /\ seen' = snapshot[3]
      /\ adapters' = adapters \cup {o \in snapshot[2] : KindOf[o] = "adapter"}
      /\ children' = MapsOf(snapshot[2])
      /\ bus' = t /\ lock' = None
      /\ UNCHANGED <<alive, rules, inbox, exists, now, raced>>
  BY DEF LoadObjects, Goto, bluez, MapsOf
<1>2. /\ lock = t /\ t # None /\ pc' \in [Callers -> Pc] /\ pc'[t] = "done"
      /\ \A i \in 1..Len(inbox) : inbox[i][1] # "reply"
  BY <1>1, AtWork DEF TreeInv, TypeInv, Pc, Busy
<1>3. /\ snapshot \in Reply /\ rules = Rules
      /\ snapshot[2] \subseteq Objects /\ snapshot[3] \subseteq Objects
  BY <1>1, <1>2 DEF TreeInv, ConnectionInv, Reply
<1>4. TypeInv'
  <2>1. /\ MapsOf(snapshot[2]) \in [Objects -> SUBSET Mapped]
        /\ \A o \in Objects : \A c \in MapsOf(snapshot[2])[o] : Parent[c] = o
    BY DEF MapsOf
  <2> QED
    BY <1>1, <1>2, <1>3, <2>1 DEF TreeInv, TypeInv
<1>5. ConnectionInv'
  <2>1. \A u \in Callers : pc'[u] \notin Busy
    BY <1>1, <1>2 DEF TreeInv, TypeInv, ConnectionInv, Busy
  <2>2. \A u \in Callers : u # None
    BY TreeAssumption
  <2> QED
    BY <1>1, <1>2, <1>3, <2>1, <2>2 DEF ConnectionInv
<1>6. CopyInv'
  BY <1>1, <1>2 DEF TreeInv, CopyInv
<1> QED
  BY <1>4, <1>5, <1>6 DEF TreeInv

\* A call at work on a new bus fails.
LEMMA InitFailsStep == ASSUME TreeInv, NEW t \in Callers, InitFails(t) PROVE TreeInv'
<1>1. /\ pc[t] \in Busy /\ pc' = [pc EXCEPT ![t] = "raised"]
      /\ alive' = None /\ rules' = {} /\ inbox' = <<>> /\ lock' = None
      /\ UNCHANGED <<bus, adapters, known, seen, children, exists, now, raced>>
  BY DEF InitFails, Goto, fields, bluez
<1>2. /\ lock = t /\ t # None /\ bus # t /\ pc' \in [Callers -> Pc] /\ pc'[t] = "raised"
      /\ \A i \in 1..Len(inbox') : FALSE
  BY <1>1, AtWork DEF TreeInv, TypeInv, Pc
<1>3. TypeInv'
  BY <1>1, <1>2 DEF TreeInv, TypeInv
<1>4. ConnectionInv'
  <2>1. \A u \in Callers : pc'[u] \notin Busy /\ u # None
    BY <1>1, <1>2, TreeAssumption DEF TreeInv, TypeInv, ConnectionInv, Busy
  <2>2. bus # None => pc'[bus] = "done"
    BY <1>1, <1>2 DEF TreeInv, TypeInv, ConnectionInv
  <2> QED
    BY <1>1, <1>2, <2>1, <2>2 DEF ConnectionInv
<1>5. CopyInv'
  BY <1>1, <1>2 DEF CopyInv, Ready
<1> QED
  BY <1>3, <1>4, <1>5 DEF TreeInv

\* The reply is read: the signals behind it follow it.
LEMMA ReadReplyStep == ASSUME TreeInv, NEW t \in Callers, ReadReply(t) PROVE TreeInv'
<1>1. /\ pc[t] = "objects" /\ pc' = [pc EXCEPT ![t] = "reply"]
      /\ inbox # <<>> /\ Head(inbox)[1] = "reply" /\ snapshot' = Head(inbox)
      /\ inbox' = Tail(inbox) /\ raced' = FALSE
      /\ UNCHANGED <<lock, bus, adapters, known, seen, children, alive, rules, exists, now>>
  BY DEF ReadReply, Goto, fields, bluez
<1>2. /\ inbox' \in Seq(Reply \cup Signal) /\ Shifted(inbox, inbox') /\ 1 \in 1..Len(inbox)
      /\ snapshot' = inbox[1] /\ inbox[1][1] = "reply" /\ inbox[1] \in Reply
  <2>1. /\ Tail(inbox) \in Seq(Reply \cup Signal) /\ Shifted(inbox, Tail(inbox))
        /\ 1 \in 1..Len(inbox) /\ Head(inbox) = inbox[1] /\ inbox[1] \in Reply \cup Signal
    BY <1>1, Taken DEF TreeInv, TypeInv
  <2> QED
    BY <1>1, <2>1 DEF Signal, Rules
<1>3. /\ lock = t /\ t # None /\ ~Ready /\ pc' \in [Callers -> Pc] /\ pc'[t] = "reply"
  BY <1>1, AtWork DEF TreeInv, TypeInv, Pc, Busy
<1>4. /\ alive = t /\ \A i \in 1..Len(inbox) : inbox[i][1] = "reply" => i = 1
  BY <1>2, <1>3 DEF TreeInv, ConnectionInv
<1>5. \A i \in 1..Len(inbox') : inbox'[i][1] # "reply"
  <2>1. \A i \in 1..Len(inbox') : i + 1 \in 1..Len(inbox) /\ i + 1 # 1 /\ inbox'[i] = inbox[i + 1]
    BY <1>2 DEF Shifted
  <2> QED
    BY <1>4, <2>1
<1>6. TypeInv'
  BY <1>1, <1>2, <1>3 DEF TreeInv, TypeInv
<1>7. ConnectionInv'
  <2>1. \A u \in Callers : pc'[u] \in Busy <=> u = t
    BY <1>1, <1>3 DEF TreeInv, TypeInv, ConnectionInv, Busy
  <2>2. bus # None => pc'[bus] = "done"
    BY <1>1, <1>3 DEF TreeInv, TypeInv, ConnectionInv
  <2>3. rules = Rules
    BY <1>1, <1>3, <1>4 DEF TreeInv, ConnectionInv
  <2> QED
    BY <1>1, <1>2, <1>3, <1>4, <1>5, <2>1, <2>2, <2>3 DEF ConnectionInv
<1>8. CopyInv'
  <2>1. Follows(inbox, 1, inbox[1][2], inbox[1][3], MapsOf(inbox[1][2]), exists, now)
    BY <1>2 DEF TreeInv, CopyInv
  <2>2. Follows(inbox', 1 - 1, inbox[1][2], inbox[1][3], MapsOf(inbox[1][2]), exists, now)
    BY <1>2, <2>1, DroppedBefore
  <2>3. Follows(inbox', 0, snapshot'[2], snapshot'[3], MapsOf(snapshot'[2]), exists, now)
    BY <1>2, <2>2
  <2> QED
    BY <1>1, <1>3, <1>5, <2>3 DEF CopyInv, Ready
<1> QED
  BY <1>6, <1>7, <1>8 DEF TreeInv

\* GetManagedObjects is served: the reply comes behind the signals that have been sent.
LEMMA ServeObjectsStep == ASSUME TreeInv, NEW t \in Callers, ServeObjects(t) PROVE TreeInv'
<1> DEFINE m == <<"reply", exists, now>>
<1>1. /\ pc[t] = "objects" /\ alive = t /\ inbox' = Append(inbox, m)
      /\ \A i \in DOMAIN inbox : inbox[i][1] # "reply"
      /\ UNCHANGED <<pc, lock, bus, adapters, known, seen, children, alive, rules, snapshot,
                     exists, now, raced>>
  BY DEF ServeObjects, fields, bluez
<1>2. m \in Reply \cup Signal /\ m[1] = "reply" /\ m[2] = exists /\ m[3] = now
  BY DEF TreeInv, TypeInv, Reply
<1> HIDE DEF m
<1>3. /\ inbox' \in Seq(Reply \cup Signal) /\ Len(inbox') = Len(inbox) + 1 /\ Len(inbox) \in Nat
      /\ \A i \in 1..Len(inbox) : inbox'[i] = inbox[i]
      /\ inbox'[Len(inbox) + 1] = m
  BY <1>1, <1>2, AppendProperties, LenProperties DEF TreeInv, TypeInv
<1>4. \A i \in 1..Len(inbox') : inbox'[i][1] = "reply" => i = Len(inbox')
  BY <1>1, <1>3
<1>5. lock = t /\ t # None /\ ~Ready
  BY <1>1, AtWork DEF Busy
<1>6. TypeInv'
  BY <1>1, <1>3 DEF TreeInv, TypeInv
<1>7. ConnectionInv'
  BY <1>1, <1>4, <1>5 DEF TreeInv, ConnectionInv
<1>8. CopyInv'
  <2>1. \A i \in 1..Len(inbox') : ~(i > Len(inbox'))
    BY <1>3
  <2>2. Follows(inbox', Len(inbox'), exists, now, MapsOf(exists), exists, now)
    BY <2>1, ReplyFollows
  <2>3. ASSUME NEW i \in 1..Len(inbox'), inbox'[i][1] = "reply"
        PROVE  Follows(inbox', i, inbox'[i][2], inbox'[i][3], MapsOf(inbox'[i][2]), exists, now)
    <3>1. i = Len(inbox') /\ inbox'[i] = m
      BY <1>3, <1>4, <2>3
    <3> QED
      BY <1>2, <2>2, <3>1
  <2> QED
    BY <1>1, <1>5, <2>3 DEF CopyInv, Ready
<1> QED
  BY <1>6, <1>7, <1>8 DEF TreeInv

\* A signal is handled.
LEMMA HandlersStep ==
    ASSUME TreeInv, InterfacesAdded \/ InterfacesRemoved \/ PropertiesChanged PROVE TreeInv'
<1>1. PICK k \in Rules : Handle(k)
  BY DEF InterfacesAdded, InterfacesRemoved, PropertiesChanged, Rules
<1>2. /\ inbox' \in Seq(Reply \cup Signal) /\ Shifted(inbox, inbox') /\ 1 \in 1..Len(inbox)
      /\ inbox[1] \in Signal /\ Object \in Objects /\ inbox[1][1] = k
  BY <1>1, SignalTaken DEF TreeInv
<1>3. /\ UNCHANGED <<pc, lock, bus, alive, rules, snapshot, exists, now>>
      /\ raced' = (raced \/ \E t \in Callers : pc[t] = "reply")
  BY <1>1 DEF Handle, bluez
<1>4. \A i \in 1..Len(inbox') : i + 1 \in 1..Len(inbox) /\ inbox'[i] = inbox[i + 1]
  BY <1>2 DEF Shifted
<1>5. TypeInv'
  <2>1. /\ known' \subseteq Objects /\ seen' \subseteq Objects
        /\ \A o \in known' : KindOf[o] = "adapter" => o \in adapters'
    BY <1>2 DEF TreeInv, TypeInv, InterfacesAdded, InterfacesRemoved, PropertiesChanged, SetValue
  <2>2. /\ children' \in [Objects -> SUBSET Mapped]
        /\ \A o \in Objects : \A c \in children'[o] : Parent[c] = o
    <3>1. CASE InterfacesAdded
      BY <1>2, <3>1, MappedHaveParents DEF TreeInv, TypeInv, InterfacesAdded
    <3>2. CASE InterfacesRemoved
      BY <1>2, <3>2 DEF TreeInv, TypeInv, InterfacesRemoved
    <3>3. CASE PropertiesChanged
      BY <3>3 DEF TreeInv, TypeInv, PropertiesChanged
    <3> QED
      BY <3>1, <3>2, <3>3
  <2> QED
    BY <1>2, <1>3, <2>1, <2>2 DEF TreeInv, TypeInv
<1>6. ConnectionInv'
  <2>1. ASSUME NEW i \in 1..Len(inbox'), inbox'[i][1] = "reply"
        PROVE  /\ lock # None /\ alive = lock /\ pc[lock] = "objects"
               /\ \A j \in 1..Len(inbox') : inbox'[j][1] = "reply" => j = i
    <3>1. /\ lock # None /\ alive = lock /\ pc[lock] = "objects"
          /\ \A j \in 1..Len(inbox) : inbox[j][1] = "reply" => j = i + 1
      BY <1>4, <2>1 DEF TreeInv, ConnectionInv
    <3> QED
      BY <1>4, <3>1
  <2> QED
    BY <1>3, <2>1 DEF TreeInv, ConnectionInv
<1>7. CopyInv'
  <2>1. ASSUME Ready, ~raced PROVE Follows(inbox', 0, known', seen', children', exists, now)
    BY <2>1, HandlersFollow DEF TreeInv, CopyInv
  <2>2. lock # None /\ pc[lock] = "reply" => raced'
    BY <1>3 DEF TreeInv, TypeInv
  <2>3. ASSUME NEW i \in 1..Len(inbox'), inbox'[i][1] = "reply"
        PROVE  Follows(inbox', i, inbox'[i][2], inbox'[i][3], MapsOf(inbox'[i][2]), exists, now)
    <3>1. Follows(inbox, i + 1, inbox'[i][2], inbox'[i][3], MapsOf(inbox'[i][2]), exists, now)
      BY <1>4, <2>3 DEF TreeInv, CopyInv
    <3>2. Follows(inbox', (i + 1) - 1, inbox'[i][2], inbox'[i][3], MapsOf(inbox'[i][2]), exists, now)
      BY <1>2, <1>4, <3>1, DroppedBefore
    <3> QED
      BY <3>2
  <2> QED
    BY <1>3, <2>1, <2>2, <2>3 DEF CopyInv, Ready
<1> QED
  BY <1>5, <1>6, <1>7 DEF TreeInv

\* BlueZ's tree changes.
LEMMA ChangesStep ==
    ASSUME TreeInv, NEW o \in Objects, ObjectAdded(o) \/ ObjectRemoved(o) \/ ValueChanged(o)
    PROVE  TreeInv'
<1>1. UNCHANGED <<pc, lock, bus, adapters, known, seen, children, alive, rules, snapshot, raced>>
  BY DEF ObjectAdded, ObjectRemoved, ValueChanged, Change, fields
<1>2. /\ exists' \subseteq Objects /\ now' \subseteq exists'
      /\ \A x \in exists' : Parent[x] \in exists' \cup {None}
      /\ inbox' \in Seq(Reply \cup Signal) /\ Longer(inbox, inbox')
      /\ \A i \in 1..Len(inbox') : i > Len(inbox) => inbox'[i][1] # "reply"
      /\ alive # None /\ rules = Rules =>
           \A n \in 0..Len(inbox) : \A K, S, C :
              Follows(inbox, n, K, S, C, exists, now) =>
                 Follows(inbox', n, K, S, C, exists', now')
  BY ChangesFollow DEF TreeInv
<1>3. TypeInv'
  BY <1>1, <1>2 DEF TreeInv, TypeInv
<1>4. \A i \in 1..Len(inbox') : inbox'[i][1] = "reply" =>
         i \in 1..Len(inbox) /\ i \in 0..Len(inbox) /\ inbox'[i] = inbox[i]
  BY <1>2 DEF Longer
<1>5. ConnectionInv'
  BY <1>1, <1>4 DEF TreeInv, ConnectionInv
<1>6. CopyInv'
  <2>1. 0 \in 0..Len(inbox)
    BY <1>2 DEF Longer
  <2>2. ASSUME Ready, ~raced PROVE Follows(inbox', 0, known, seen, children, exists', now')
    <3>1. alive # None /\ rules = Rules
      BY <2>2 DEF TreeInv, TypeInv, ConnectionInv, Ready, Busy
    <3>2. Follows(inbox, 0, known, seen, children, exists, now)
      BY <2>2 DEF TreeInv, CopyInv
    <3> QED
      BY <1>2, <2>1, <3>1, <3>2
  <2>3. ASSUME lock # None, pc[lock] = "reply", alive = lock, ~raced
        PROVE  Follows(inbox', 0, snapshot[2], snapshot[3], MapsOf(snapshot[2]), exists', now')
    <3>1. alive # None /\ rules = Rules
      BY <2>3 DEF TreeInv, ConnectionInv
    <3>2. Follows(inbox, 0, snapshot[2], snapshot[3], MapsOf(snapshot[2]), exists, now)
      BY <2>3 DEF TreeInv, CopyInv
    <3> QED
      BY <1>2, <2>1, <3>1, <3>2
  <2>4. ASSUME NEW i \in 1..Len(inbox'), inbox'[i][1] = "reply"
        PROVE  Follows(inbox', i, inbox'[i][2], inbox'[i][3], MapsOf(inbox'[i][2]), exists', now')
    <3>1. i \in 1..Len(inbox) /\ i \in 0..Len(inbox) /\ inbox'[i] = inbox[i]
      BY <1>4, <2>4
    <3>2. alive # None /\ rules = Rules
      BY <2>4, <3>1 DEF TreeInv, ConnectionInv
    <3>3. Follows(inbox, i, inbox[i][2], inbox[i][3], MapsOf(inbox[i][2]), exists, now)
      BY <2>4, <3>1 DEF TreeInv, CopyInv
    <3>4. Follows(inbox', i, inbox[i][2], inbox[i][3], MapsOf(inbox[i][2]), exists', now')
      BY <1>2, <3>1, <3>2, <3>3
    <3> QED
      BY <3>1, <3>4
  <2> QED
    BY <1>1, <2>2, <2>3, <2>4 DEF CopyInv, Ready
<1> QED
  BY <1>3, <1>5, <1>6 DEF TreeInv

\* The connection breaks: there is nothing to follow.
LEMMA BusLostStep == ASSUME TreeInv, BusLost PROVE TreeInv'
<1>1. /\ alive' = None /\ rules' = {} /\ inbox' = <<>> /\ (\A i \in 1..Len(inbox') : FALSE)
      /\ UNCHANGED <<pc, lock, bus, adapters, known, seen, children, snapshot, exists, now, raced>>
  BY DEF BusLost, fields
<1>2. TypeInv'
  BY <1>1 DEF TreeInv, TypeInv
<1>3. ConnectionInv'
  BY <1>1 DEF TreeInv, ConnectionInv
<1>4. CopyInv'
  BY <1>1 DEF CopyInv, Ready
<1> QED
  BY <1>2, <1>3, <1>4 DEF TreeInv

-----------------------------------------------------------------------------
\* The theorems

\* The manager's copy and the signals on their way to it together are BlueZ's tree, unless a
\* signal was handled between the reply to GetManagedObjects and its use.
THEOREM TreeInvariant == Spec => []TreeInv
<1>1. Init => TreeInv
  <2> SUFFICES ASSUME Init PROVE TreeInv
    OBVIOUS
  <2>1. /\ pc = [t \in Callers |-> "idle"] /\ lock = None /\ bus = None /\ adapters = {}
        /\ known = {} /\ seen = {} /\ children = [o \in Objects |-> {}]
        /\ alive = None /\ rules = {} /\ inbox = <<>> /\ raced = FALSE
        /\ exists \subseteq Objects /\ \A o \in exists : Parent[o] \in exists \cup {None}
        /\ now \subseteq exists
    BY DEF Init
  <2>2. TypeInv
    <3>1. pc \in [Callers -> Pc] /\ children \in [Objects -> SUBSET Mapped]
      BY <2>1 DEF Pc
    <3>2. \A o \in Objects : children[o] = {}
      BY <2>1
    <3>3. inbox \in Seq(Reply \cup Signal)
      BY <2>1
    <3> QED
      BY <2>1, <3>1, <3>2, <3>3 DEF TypeInv
  <2>3. ConnectionInv
    BY <2>1, TreeAssumption DEF ConnectionInv, Busy
  <2>4. CopyInv
    BY <2>1 DEF CopyInv, Ready
  <2> QED
    BY <2>2, <2>3, <2>4 DEF TreeInv
<1>2. TreeInv /\ [Next]_vars => TreeInv'
  <2> SUFFICES ASSUME TreeInv, [Next]_vars PROVE TreeInv'
    OBVIOUS
  <2>1. ASSUME NEW t \in Callers, CheckVersion(t) \/ VersionFound(t) \/ VersionSeen(t)
        PROVE  TreeInv'
    <3>1. PICK l \in {"asking", "waiting", "lock", "raised"} : Goto(t, l)
      BY <2>1 DEF CheckVersion, VersionFound, VersionSeen, Proceed
    <3>2. pc[t] \in {"idle", "asking", "waiting"} /\ UNCHANGED <<lock, fields, dbus, bluez, raced>>
      BY <2>1 DEF CheckVersion, VersionFound, VersionSeen, Proceed
    <3> QED
      BY <3>1, <3>2, Moved DEF Pc, Busy
  <2>2. ASSUME NEW t \in Callers, CheckCancelled(t) \/ StartInit(t) \/ CancelWaiting(t)
        PROVE  TreeInv'
    BY <2>2, Moved DEF CheckCancelled, StartInit, CancelWaiting, Pc, Busy
  <2>3. ASSUME NEW t \in Callers, AlreadyUp(t) PROVE TreeInv'
    BY <2>3, Moved DEF AlreadyUp, Acquire, Pc, Busy
  <2>4. ASSUME NEW t \in Callers, InitRuns(t) PROVE TreeInv'
    BY <2>1, <2>3, <2>4, NewBusStep, ConnectedStep, AddMatchStep, LoadObjectsStep, InitFailsStep
       DEF InitRuns
  <2>5. ASSUME ParseMsg PROVE TreeInv'
    BY <2>5, HandlersStep, ReadReplyStep DEF ParseMsg
  <2>6. CASE UNCHANGED vars
    <3>1. UNCHANGED <<pc, lock, bus, adapters, known, seen, children, alive, rules, inbox, snapshot,
                      exists, now, raced>>
      BY <2>6 DEF vars, fields, dbus, bluez
    <3>2. TypeInv' /\ ConnectionInv'
      BY <3>1 DEF TreeInv, TypeInv, ConnectionInv
    <3>3. CopyInv'
      BY <3>1 DEF TreeInv, CopyInv, Ready
    <3> QED
      BY <3>2, <3>3 DEF TreeInv
  <2> QED
    BY <2>1, <2>2, <2>4, <2>5, <2>6, InitFailsStep, ServeObjectsStep, ChangesStep, BusLostStep
       DEF Next
<1> QED
  BY <1>1, <1>2, PTL DEF Spec

\* Once all messages are handled the manager has BlueZ's objects, their state, and the maps
\* from each to its children (_service_map, _characteristic_map, _descriptor_map).
THEOREM ViewsAgree == Spec => []ViewAgrees
<1>1. TreeInv => ViewAgrees
  <2> SUFFICES ASSUME TreeInv, Ready, inbox = <<>>, ~raced PROVE Agrees
    BY DEF ViewAgrees
  <2>1. Follows(inbox, 0, known, seen, children, exists, now) /\ \A i \in 1..Len(inbox) : FALSE
    BY DEF TreeInv, CopyInv
  <2>2. known = exists /\ seen = now
    <3>1. \A o \in Objects : (o \in known <=> o \in exists) /\ (o \in seen <=> o \in now)
      BY <2>1 DEF Follows, ObjectsFollow
    <3>2. known \subseteq Objects /\ exists \subseteq Objects /\ seen \subseteq Objects /\ now \subseteq exists
      BY DEF TreeInv, TypeInv
    <3> QED
      BY <3>1, <3>2
  <2>3. ASSUME NEW o \in Objects PROVE children[o] = {c \in exists \cap Mapped : Parent[c] = o}
    <3>1. \A c \in Mapped : c \in children[Parent[c]] <=> c \in exists
      BY <2>1 DEF Follows, ChildrenFollow
    <3>2. children[o] \subseteq Mapped /\ \A c \in children[o] : Parent[c] = o
      BY DEF TreeInv, TypeInv
    <3> QED
      BY <3>1, <3>2
  <2>4. {o \in exists : KindOf[o] = "adapter"} \subseteq adapters
    BY <2>2 DEF TreeInv, TypeInv
  <2> QED
    BY <2>2, <2>3, <2>4 DEF Agrees
<1> QED
  BY <1>1, TreeInvariant, PTL

\* A path that a child map has and _properties has not, on which get_services() raises
\* KeyError, is one whose service is about to be removed.
THEOREM DanglingsAreTransient == Spec => []DanglingIsTransient
<1>1. TreeInv => DanglingIsTransient
  <2> SUFFICES ASSUME TreeInv, Ready, ~raced, NEW o \in known, NEW c \in children[o] \ known
               PROVE  \E i \in DOMAIN inbox : inbox[i][1] = "removed" /\ o \in Below(inbox[i][2])
    BY DEF DanglingIsTransient
  <2>1. OrphansGo(inbox, 0, known, children)
    BY DEF TreeInv, CopyInv, Follows
  <2>2. o \in Objects /\ c \in Mapped /\ Parent[c] = o
    BY DEF TreeInv, TypeInv
  <2>3. PICK i \in 1..Len(inbox) : Removes(inbox[i], o)
    BY <2>1, <2>2 DEF OrphansGo
  <2>4. i \in DOMAIN inbox
    BY <2>3 DEF TreeInv, TypeInv
  <2> QED
    BY <2>2, <2>3, <2>4, BelowTree DEF Removes
<1> QED
  BY <1>1, TreeInvariant, PTL

-----------------------------------------------------------------------------
\* The queue of _bus_lock

\* The queue q of the lock has each of the waiters W once, and nobody else.
Queues(q, W) ==
    /\ q \in Seq(W)
    /\ \A w \in W : \E i \in 1..Len(q) : q[i] = w
    /\ \A i, j \in 1..Len(q) : q[i] = q[j] => i = j

\* One more waits, at the end of the queue.
LEMMA QueueJoined ==
  ASSUME NEW W, NEW q, Queues(q, W), NEW w, w \notin W
  PROVE  Queues(Append(q, w), W \cup {w})
<1> DEFINE r == Append(q, w)
<1>1. q \in Seq(W \cup {w})
  BY DEF Queues
<1>2. /\ r \in Seq(W \cup {w}) /\ Len(q) \in Nat /\ Len(r) = Len(q) + 1
      /\ \A i \in 1..Len(q) : r[i] = q[i] /\ r[i] \in W
      /\ r[Len(q) + 1] = w
  BY <1>1, AppendProperties DEF Queues
<1> HIDE DEF r
<1>3. \A x \in W \cup {w} : \E i \in 1..Len(r) : r[i] = x
  <2> SUFFICES ASSUME NEW x \in W \cup {w} PROVE \E i \in 1..Len(r) : r[i] = x
    OBVIOUS
  <2>1. CASE x = w
    <3>1. Len(q) + 1 \in 1..Len(r)
      BY <1>2
    <3> QED
      BY <1>2, <2>1, <3>1
  <2>2. CASE x \in W
    <3>1. PICK i \in 1..Len(q) : q[i] = x
      BY <2>2 DEF Queues
    <3>2. i \in 1..Len(r)
      BY <1>2, <3>1
    <3> QED
      BY <1>2, <3>1, <3>2
  <2> QED
    BY <2>1, <2>2
<1>4. \A i, j \in 1..Len(r) : r[i] = r[j] => i = j
  <2> SUFFICES ASSUME NEW i \in 1..Len(r), NEW j \in 1..Len(r), r[i] = r[j] PROVE i = j
    OBVIOUS
  <2>1. (i \in 1..Len(q) \/ i = Len(q) + 1) /\ (j \in 1..Len(q) \/ j = Len(q) + 1)
    BY <1>2
  <2> QED
    BY <1>2, <2>1 DEF Queues
<1> QED
  BY <1>2, <1>3, <1>4 DEF Queues, r

\* One of them leaves: its place is closed.
LEMMA QueueLeft ==
  ASSUME NEW W, NEW q, Queues(q, W), NEW k \in 1..Len(q)
  PROVE  q[k] \in W /\ Queues(RemoveAt(q, k), W \ {q[k]})
<1> DEFINE r == RemoveAt(q, k)
           V == W \ {q[k]}
<1>1. q \in Seq(W) /\ Len(q) \in Nat /\ q[k] \in W
  BY DEF Queues
<1>2. /\ r \in Seq(W) /\ Len(r) = Len(q) - 1
      /\ \A i \in 1..Len(r) : r[i] = IF i < k THEN q[i] ELSE q[i + 1]
  <2> DEFINE a == SubSeq(q, 1, k - 1)
             b == SubSeq(q, k + 1, Len(q))
  <2>1. a \in Seq(W) /\ Len(a) = k - 1 /\ \A i \in 1..(k - 1) : a[i] = q[i]
    BY <1>1, SubSeqProperties
  <2>2. b \in Seq(W) /\ Len(b) = Len(q) - k /\ \A i \in 1..(Len(q) - k) : b[i] = q[k + i]
    BY <1>1, SubSeqProperties
  <2>3. r = a \o b
    BY DEF RemoveAt
  <2> HIDE DEF a, b, r
  <2>4. /\ r \in Seq(W) /\ Len(r) = Len(q) - 1
        /\ \A i \in 1..Len(r) : r[i] = IF i <= k - 1 THEN a[i] ELSE b[i - (k - 1)]
    <3>1. /\ r \in Seq(W) /\ Len(r) = Len(a) + Len(b)
          /\ \A i \in 1..Len(a) + Len(b) : r[i] = IF i <= Len(a) THEN a[i] ELSE b[i - Len(a)]
      <4>1. a \in Seq(W) /\ b \in Seq(W)
        BY <2>1, <2>2
      <4> QED
        BY <2>3, <4>1, ConcatProperties
    <3> QED
      BY <1>1, <2>1, <2>2, <3>1
  <2>5. \A i \in 1..Len(r) : i < k => r[i] = q[i]
    BY <1>1, <2>1, <2>4
  <2>6. ASSUME NEW i \in 1..Len(r), ~(i < k) PROVE r[i] = q[i + 1]
    <3>1. /\ ~(i <= k - 1) /\ i - (k - 1) \in 1..(Len(q) - k)
          /\ k + (i - (k - 1)) = i + 1
      BY <1>1, <2>4, <2>6
    <3>2. r[i] = b[i - (k - 1)]
      BY <2>4, <3>1
    <3> QED
      BY <2>2, <3>1, <3>2
  <2> QED
    BY <2>4, <2>5, <2>6
<1> HIDE DEF r
<1>3. \A i \in 1..Len(r) : r[i] \in V
  <2> SUFFICES ASSUME NEW i \in 1..Len(r) PROVE r[i] \in V
    OBVIOUS
  <2>1. PICK j \in 1..Len(q) : r[i] = q[j] /\ j # k
    BY <1>1, <1>2
  <2>2. q[j] # q[k]
    BY <2>1 DEF Queues
  <2>3. q[j] \in W
    BY <1>1
  <2> QED
    BY <2>1, <2>2, <2>3
<1>4. r \in Seq(V)
  BY <1>2, <1>3
<1>5. \A x \in V : \E i \in 1..Len(r) : r[i] = x
  <2> SUFFICES ASSUME NEW x \in V PROVE \E i \in 1..Len(r) : r[i] = x
    OBVIOUS
  <2>1. PICK j \in 1..Len(q) : q[j] = x
    BY DEF Queues
  <2>2. j < k \/ j > k
    BY <2>1
  <2>3. CASE j < k
    BY <1>1, <1>2, <2>1, <2>3
  <2>4. CASE j > k
    <3>1. j - 1 \in 1..Len(r) /\ ~(j - 1 < k) /\ (j - 1) + 1 = j
      BY <1>1, <1>2, <2>4
    <3> QED
      BY <1>2, <2>1, <3>1
  <2> QED
    BY <2>2, <2>3, <2>4
<1>6. \A i, j \in 1..Len(r) : r[i] = r[j] => i = j
  <2> SUFFICES ASSUME NEW i \in 1..Len(r), NEW j \in 1..Len(r), r[i] = r[j] PROVE i = j
    OBVIOUS
  <2> DEFINE m == IF i < k THEN i ELSE i + 1
             n == IF j < k THEN j ELSE j + 1
  <2>1. m \in 1..Len(q) /\ n \in 1..Len(q) /\ r[i] = q[m] /\ r[j] = q[n]
    BY <1>1, <1>2
  <2>2. m = n
    BY <2>1 DEF Queues
  <2> QED
    BY <1>1, <2>2
<1> QED
  BY <1>1, <1>4, <1>5, <1>6 DEF Queues, r

\* The first of them gets the lock.
LEMMA QueueTaken ==
  ASSUME NEW W, NEW q, Queues(q, W), q # <<>>
  PROVE  Head(q) \in W /\ Queues(Tail(q), W \ {Head(q)})
<1>1. q \in Seq(W) /\ Len(q) \in Nat /\ 1 \in 1..Len(q) /\ Head(q) = q[1]
  BY DEF Queues
<1>2. Tail(q) = RemoveAt(q, 1)
  BY <1>1 DEF RemoveAt
<1>3. q[1] \in W /\ Queues(RemoveAt(q, 1), W \ {q[1]})
  BY <1>1, QueueLeft
<1> QED
  BY <1>1, <1>2, <1>3

\* The calls that wait for _bus_lock.
Waiters == {t \in Callers : pc[t] = "lock"}

WaitersQueue == Queues(queue, Waiters)

\* Nobody joins or leaves the queue when a call goes from one of its other awaits to another.
LEMMA QueueStays ==
    ASSUME WaitersQueue, queue' = queue, Waiters' = Waiters PROVE WaitersQueue'
  BY DEF WaitersQueue

\* Whoever waits for _bus_lock is in its queue, once, and nobody else is: no call that is
\* cancelled or that has had the lock keeps the others waiting.
THEOREM WaitersAreQueued == Spec => []WaitersQueue
<1> USE TreeAssumption
<1>1. Init => WaitersQueue
  <2> SUFFICES ASSUME Init PROVE WaitersQueue
    OBVIOUS
  <2>1. Waiters = {} /\ queue = <<>>
    BY DEF Init, Waiters
  <2> QED
    BY <2>1 DEF WaitersQueue, Queues
<1>2. BusInv /\ WaitersQueue /\ [Next]_vars => WaitersQueue'
  <2> SUFFICES ASSUME BusInv, WaitersQueue, [Next]_vars PROVE WaitersQueue'
    OBVIOUS
  <2> USE DEF Goto
  <2>1. ASSUME NEW t \in Callers, pc[t] # "lock", queue' = Append(queue, t), Goto(t, "lock")
        PROVE  WaitersQueue'
    <3>1. Waiters' = Waiters \cup {t} /\ t \notin Waiters
      BY <2>1 DEF Waiters, BusInv, Pc
    <3> QED
      BY <2>1, <3>1, QueueJoined DEF WaitersQueue
  <2>2. ASSUME NEW t \in Callers, NEW l, pc[t] # "lock", l # "lock", Goto(t, l), queue' = queue
        PROVE  WaitersQueue'
    <3>1. Waiters' = Waiters
      BY <2>2 DEF Waiters, BusInv
    <3> QED
      BY <2>2, <3>1, QueueStays
  <2>3. ASSUME NEW t \in Callers, NEW l, l # "lock", Acquire(t), Goto(t, l)
        PROVE  WaitersQueue'
    <3>1. Waiters' = Waiters \ {t} /\ t \in Waiters
      BY <2>3 DEF Waiters, BusInv, Acquire
    <3>2. queue # <<>>
      BY <3>1 DEF WaitersQueue, Queues
    <3> QED
      BY <2>3, <3>1, <3>2, QueueTaken DEF WaitersQueue, Acquire
  <2>4. ASSUME NEW t \in Callers, StartInit(t) PROVE WaitersQueue'
    BY <2>1, <2>4 DEF StartInit
  <2>5. ASSUME NEW t \in Callers, CheckVersion(t) \/ VersionFound(t) \/ VersionSeen(t)
        PROVE  WaitersQueue'
    BY <2>1, <2>2, <2>5 DEF CheckVersion, VersionFound, VersionSeen, Proceed
  <2>6. ASSUME NEW t \in Callers, CheckCancelled(t) \/ Connected(t) \/ LoadObjects(t) \/ ReadReply(t)
        PROVE  WaitersQueue'
    BY <2>2, <2>6 DEF CheckCancelled, Connected, LoadObjects, ReadReply
  <2>7. ASSUME NEW t \in Callers, InitFails(t) PROVE WaitersQueue'
    BY <2>2, <2>7 DEF InitFails, Busy
  <2>8. ASSUME NEW t \in Callers, AddMatch(t) PROVE WaitersQueue'
    <3>1. pc[t] # "lock" /\ After[pc[t]] # "lock" /\ Goto(t, After[pc[t]]) /\ queue' = queue
      BY <2>8 DEF AddMatch, After
    <3> QED
      BY <2>2, <3>1
  <2>9. ASSUME NEW t \in Callers, AlreadyUp(t) PROVE WaitersQueue'
    BY <2>3, <2>9 DEF AlreadyUp
  <2>10. ASSUME NEW t \in Callers, NewBus(t) PROVE WaitersQueue'
    BY <2>3, <2>10 DEF NewBus
  <2>11. ASSUME NEW t \in Callers, CancelWaiting(t) PROVE WaitersQueue'
    <3>1. PICK i \in 1..Len(queue) : queue[i] = t /\ queue' = RemoveAt(queue, i)
      BY <2>11 DEF CancelWaiting, WaitersQueue, Queues
    <3>2. Waiters' = Waiters \ {t}
      BY <2>11 DEF CancelWaiting, Waiters, BusInv
    <3> QED
      BY <3>1, <3>2, QueueLeft DEF WaitersQueue
  <2>12. CASE queue' = queue /\ pc' = pc
    BY <2>12, QueueStays DEF Waiters
  <2> QED
    BY <2>4, <2>5, <2>6, <2>7, <2>8, <2>9, <2>10, <2>11, <2>12
       DEF Next, InitRuns, ParseMsg, ServeObjects, InterfacesAdded, InterfacesRemoved,
           PropertiesChanged, Handle, ObjectAdded, ObjectRemoved, ValueChanged, Change, BusLost,
           vars
<1> QED
  BY <1>1, <1>2, BusInvariant, PTL DEF Spec

-----------------------------------------------------------------------------
\* The types

\* Those that TreeInv leaves out: the version, the list of adapters, and that the manager keeps
\* the properties of what it knows only.
KnownInv ==
    /\ version \in {"unknown", "checking", "supported", "unsupported"}
    /\ adapters \subseteq {o \in Objects : KindOf[o] = "adapter"}
    /\ seen \subseteq known

\* Every variable holds what the code could put there, for any tree, callers and losses.
THEOREM TypeInvariant == Spec => []TypeOK
<1>1. Init => KnownInv
  BY DEF Init, KnownInv
<1>2. TreeInv /\ KnownInv /\ [Next]_vars => KnownInv'
  <2> SUFFICES ASSUME TreeInv, KnownInv, [Next]_vars PROVE KnownInv'
    OBVIOUS
  <2> USE DEF KnownInv
  <2>1. CASE UNCHANGED <<adapters, known, seen>> /\ version' \in {"supported", "unsupported", "checking", version}
    BY <2>1
  <2>2. ASSUME NEW t \in Callers, LoadObjects(t) PROVE KnownInv'
    <3>1. /\ known' = snapshot[2] /\ seen' = snapshot[3] /\ version' = version
          /\ adapters' = adapters \cup {o \in snapshot[2] : KindOf[o] = "adapter"}
          /\ pc[t] = "reply" /\ alive = t
      BY <2>2 DEF LoadObjects
    <3>2. lock = t /\ t # None
      BY <3>1, AtWork DEF Busy
    <3>3. snapshot \in Reply
      BY <3>1, <3>2 DEF TreeInv, ConnectionInv
    <3> QED
      BY <3>1, <3>3 DEF Reply
  <2>3. CASE InterfacesAdded \/ InterfacesRemoved \/ PropertiesChanged
    <3>1. version' = version
      BY <2>3 DEF InterfacesAdded, InterfacesRemoved, PropertiesChanged, Handle
    <3>2. PICK k \in Rules : Handle(k)
      BY <2>3 DEF InterfacesAdded, InterfacesRemoved, PropertiesChanged, Rules
    <3>3. Object \in Objects
      BY <3>2, SignalTaken DEF TreeInv
    <3> QED
      BY <2>3, <3>1, <3>3 DEF InterfacesAdded, InterfacesRemoved, PropertiesChanged, SetValue
  <2>4. ASSUME NEW t \in Callers,
               \/ CheckVersion(t) \/ CheckCancelled(t) \/ VersionFound(t) \/ VersionSeen(t)
               \/ StartInit(t) \/ AlreadyUp(t) \/ NewBus(t) \/ Connected(t) \/ AddMatch(t)
               \/ InitFails(t) \/ CancelWaiting(t) \/ ServeObjects(t) \/ ReadReply(t)
        PROVE  KnownInv'
    BY <2>1, <2>4
       DEF CheckVersion, CheckCancelled, VersionFound, VersionSeen, Proceed, StartInit, AlreadyUp,
           NewBus, Acquire, Connected, AddMatch, InitFails, CancelWaiting, ServeObjects,
           ReadReply, fields
  <2>5. ASSUME NEW o \in Objects, ObjectAdded(o) \/ ObjectRemoved(o) \/ ValueChanged(o)
        PROVE  KnownInv'
    BY <2>1, <2>5 DEF ObjectAdded, ObjectRemoved, ValueChanged, Change, fields
  <2>6. CASE BusLost \/ UNCHANGED vars
    BY <2>1, <2>6 DEF BusLost, vars, fields
  <2> QED
    BY <2>2, <2>3, <2>4, <2>5, <2>6 DEF Next, InitRuns, ParseMsg
<1>3. BusInv /\ TreeInv /\ WaitersQueue /\ KnownInv => TypeOK
  <2> SUFFICES ASSUME BusInv, TreeInv, WaitersQueue, KnownInv PROVE TypeOK
    OBVIOUS
  <2>1. queue \in Seq(Callers)
    <3>1. queue \in Seq(Waiters) /\ Waiters \subseteq Callers
      BY DEF WaitersQueue, Queues, Waiters
    <3> QED
      BY <3>1
  <2> QED
    BY <2>1 DEF BusInv, TreeInv, TypeInv, KnownInv, TypeOK, Rules
<1> QED
  BY <1>1, <1>2, <1>3, BusInvariant, TreeInvariant, WaitersAreQueued, PTL DEF Spec
=============================================================================
