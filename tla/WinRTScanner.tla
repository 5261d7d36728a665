----------------------------- MODULE WinRTScanner -----------------------------
(***************************************************************************)
(* BleakScannerWinRT (src/bleak/backends/winrt/scanner.py) under the front  *)
(* end of BleakScanner.  Windows raises Received and Stopped in its own     *)
(* threads; their handlers, the answers to the awaits and the tasks that an *)
(* event wakes all go through the queue of the event loop, in order.        *)
(***************************************************************************)
EXTENDS BleakScanner

CONSTANTS
    Starters,         \* users that call start()
    Stoppers,         \* users that call stop()
    CancellableUsers, \* users whose call may be cancelled
    MaxPackets,       \* bound on the advertisements received
    MaxAborts         \* bound on the scans Windows gives up

ASSUME WinRTScannerAssumption ==
    /\ Users = Starters \cup Stoppers \cup WithScanner
    /\ Starters \cap Stoppers = {} /\ WithScanner \cap (Starters \cup Stoppers) = {}
    /\ CancellableUsers \subseteq Users /\ IsFiniteSet(Users)
    /\ MaxPackets \in Nat /\ MaxAborts \in Nat

\* A watcher is named after the user whose start() makes it.
Watchers == Starters \cup WithScanner

VARIABLES
    at,       \* where each user's call is
    watcher,  \* self.watcher, with its two tokens
    event,    \* the watcher whose start() made self._stopped_event
    isSet,    \* the watchers whose _stopped_event is set
    waits,    \* the event each stop() waits for
    pairs,    \* _advertisement_pairs: the watcher each part is from
    loop,     \* callbacks queued in the event loop
    status,   \* Windows: the watchers' status
    hooked,   \* Windows: watchers with the handlers of Received and Stopped
    owed,     \* Windows: watchers that have still to raise Stopped
    count,    \* packets received and scans given up, for the bounds
    overlap   \* history: a start() met another start(), or a stop() another stop()

windows  == <<status, hooked, owed, count>>
scanVars == <<scanner, at, watcher, event, isSet, waits, pairs, loop, windows, overlap>>

StartPC == {"adapter", "radio", "polling"}
EndPC   == {"done", "raised", "cancelled"}

ScanInit ==
    /\ InitScanner
    /\ at = [u \in Users |-> "idle"]
    /\ watcher = None /\ event = None /\ isSet = {}
    /\ waits = [u \in Users |-> None]
    /\ pairs = [d \in Devices |-> [p \in Parts |-> None]]
    /\ loop = <<>>
    /\ status = [w \in Watchers |-> "none"]
    /\ hooked = {} /\ owed = {}
    /\ count = [packets |-> 0, aborts |-> 0]
    /\ overlap = FALSE

Goto(u, l) == at' = [at EXCEPT ![u] = l]

\* call_soon_threadsafe(), or the wake-up of a task.
Callback(kind, who, d, part) == [kind |-> kind, who |-> who, device |-> d, part |-> part]
Soon(kind, who) == Append(loop, Callback(kind, who, None, None))
Ready(kind, who) ==
    /\ loop # <<>> /\ Head(loop).kind = kind /\ Head(loop).who = who
    /\ loop' = Tail(loop)

-----------------------------------------------------------------------------
\* start()

Start(u) ==
    /\ u \in Watchers /\ at[u] = "idle"
    /\ Goto(u, IF watcher = None THEN "adapter" ELSE "raised")
    /\ overlap' = (overlap \/ (watcher = None /\ \E x \in Users : at[x] \in StartPC))
    /\ UNCHANGED <<scanner, watcher, event, isSet, waits, pairs, loop, windows>>

\* Windows answers get_default_async() and get_radio_async().
Answer(u) ==
    /\ at[u] \in {"adapter", "radio"}
    /\ ~\E i \in DOMAIN loop : loop[i].kind = "answer" /\ loop[i].who = u
    /\ loop' = Soon("answer", u)
    /\ UNCHANGED <<scanner, at, watcher, event, isSet, waits, pairs, windows, overlap>>

GotAdapter(u) ==
    /\ at[u] = "adapter" /\ Ready("answer", u)
    /\ Goto(u, "radio")
    /\ UNCHANGED <<scanner, watcher, event, isSet, waits, pairs, windows, overlap>>

\* No adapter, no central role, or the radio is off.
NotAvailable(u) ==
    /\ at[u] \in {"adapter", "radio"} /\ Ready("answer", u)
    /\ Goto(u, "raised")
    /\ UNCHANGED <<scanner, watcher, event, isSet, waits, pairs, windows, overlap>>

\* The end of start(), or the next sleep, according to a watcher's status.
Check(u, st) ==
    CASE st = "created" -> Goto(u, "polling") /\ UNCHANGED <<listeners, packets>>
      [] st = "started" -> /\ Goto(u, IF u \in WithScanner THEN "body" ELSE "done")
                           /\ BeginBody(u)
      [] OTHER          -> Goto(u, "raised") /\ UNCHANGED <<listeners, packets>>

\* Mutant: the old advertisements are kept.
CreateKeepsPairs(u) ==
    /\ at[u] = "radio" /\ Ready("answer", u)
    /\ seen' = [d \in Devices |-> None] /\ UNCHANGED pairs
    /\ watcher' = u /\ event' = u /\ hooked' = hooked \cup {u}
    /\ \E st \in {"created", "started"} : status' = [status EXCEPT ![u] = st] /\ Check(u, st)
    /\ UNCHANGED <<isSet, waits, owed, count, overlap>>

\* The radio is on: a fresh list, a watcher and its handlers.
Create(u) ==
    /\ at[u] = "radio" /\ Ready("answer", u)
    /\ seen' = [d \in Devices |-> None]
    /\ pairs' = [d \in Devices |-> [p \in Parts |-> None]]
    /\ watcher' = u /\ event' = u /\ hooked' = hooked \cup {u}
    /\ \E st \in {"created", "started"} : status' = [status EXCEPT ![u] = st] /\ Check(u, st)
    /\ UNCHANGED <<isSet, waits, owed, count, overlap>>

\* A sleep of the polling loop ends.  A stop() may have forgotten the watcher.
Polled(u) ==
    /\ at[u] = "polling"
    /\ LET st == IF watcher = None THEN "none" ELSE status[watcher] IN st # "created" /\ Check(u, st)
    /\ UNCHANGED <<seen, watcher, event, isSet, waits, pairs, loop, windows, overlap>>

-----------------------------------------------------------------------------
\* stop()

\* The handlers are removed; without a watcher that raises, which is caught.
Finish(u) ==
    /\ hooked' = hooked \ {watcher}
    /\ watcher' = None
    /\ Goto(u, "done")

\* Mutant: the handlers are removed before the end of the watcher is awaited.
StopWatcherUnhooks(u) ==
    /\ status' = [status EXCEPT ![watcher] = IF @ \in {"created", "started"} THEN "stopping" ELSE @]
    /\ owed' = IF status' # status THEN owed \cup {watcher} ELSE owed
    /\ overlap' = (overlap \/ \E x \in Users : at[x] = "stopping")
    /\ hooked' = hooked \ {watcher}
    /\ IF status'[watcher] = "stopping" /\ event \notin isSet
         THEN /\ Goto(u, "stopping") /\ waits' = [waits EXCEPT ![u] = event]
              /\ UNCHANGED watcher
         ELSE Goto(u, "done") /\ watcher' = None /\ UNCHANGED waits

\* Mutant: the end of the watcher is not awaited.
StopWatcherAtOnce(u) ==
    /\ status' = [status EXCEPT ![watcher] = IF @ \in {"created", "started"} THEN "stopping" ELSE @]
    /\ owed' = IF status' # status THEN owed \cup {watcher} ELSE owed
    /\ overlap' = (overlap \/ \E x \in Users : at[x] = "stopping")
    /\ Finish(u) /\ UNCHANGED waits

\* watcher.stop() leaves a watcher that is not over "stopping"; an event that is set is not
\* waited for.
StopWatcher(u) ==
    /\ status' = [status EXCEPT ![watcher] = IF @ \in {"created", "started"} THEN "stopping" ELSE @]
    /\ owed' = IF status' # status THEN owed \cup {watcher} ELSE owed
    /\ overlap' = (overlap \/ \E x \in Users : at[x] = "stopping")
    /\ IF status'[watcher] = "stopping" /\ event \notin isSet
         THEN /\ Goto(u, "stopping") /\ waits' = [waits EXCEPT ![u] = event]
              /\ UNCHANGED <<hooked, watcher>>
         ELSE Finish(u) /\ UNCHANGED waits

\* What stop() does before its await, after the asserts.
BeginStop(u) ==
    IF watcher = None
      THEN Goto(u, "raised") /\ UNCHANGED <<status, owed, overlap, waits, hooked, watcher>>
      ELSE StopWatcher(u)

Stop(u) ==
    /\ u \in Stoppers /\ at[u] = "idle"
    /\ BeginStop(u)
    /\ UNCHANGED <<scanner, event, isSet, pairs, loop, count>>

\* `await self._stopped_event.wait()` returns.
StopEnds(u) ==
    /\ at[u] = "stopping" /\ Ready("wake", u)
    /\ Finish(u)
    /\ UNCHANGED <<scanner, event, isSet, waits, pairs, status, owed, count, overlap>>

-----------------------------------------------------------------------------
\* The front end's bodies

\* Mutant: the generator is left to itself.
TakeNextForgets(u) ==
    /\ u \in Finders /\ at[u] = "body" /\ packets[u] # <<>>
    /\ packets' = [packets EXCEPT ![u] = Tail(@)]
    /\ IF Head(packets[u]) \in Wanted THEN BeginStop(u) /\ UNCHANGED loop
         ELSE UNCHANGED <<at, status, owed, overlap, waits, hooked, watcher, loop>>
    /\ UNCHANGED <<seen, listeners, event, isSet, pairs, count>>

\* find_device_by_filter() takes a device from the queue.  For the wanted one it
\* returns: the scanner is stopped and the generator, dropped, is closed by a
\* callback of the loop.
TakeNext(u) ==
    /\ u \in Finders /\ at[u] = "body" /\ packets[u] # <<>>
    /\ packets' = [packets EXCEPT ![u] = Tail(@)]
    /\ IF Head(packets[u]) \in Wanted THEN BeginStop(u) /\ loop' = Soon("close", u)
         ELSE UNCHANGED <<at, status, owed, overlap, waits, hooked, watcher, loop>>
    /\ UNCHANGED <<seen, listeners, event, isSet, pairs, count>>

CloseGenerator(u) ==
    /\ Ready("close", u)
    /\ Unregister(u)
    /\ UNCHANGED <<seen, packets, at, watcher, event, isSet, waits, pairs, windows, overlap>>

\* The timeout of find_device_by_filter() or the sleep of discover() is over, or
\* the task is cancelled there: the generator's `finally` runs, then stop().
LeaveBody(u) ==
    /\ at[u] = "body"
    /\ Unregister(u)
    /\ BeginStop(u)
    /\ UNCHANGED <<seen, packets, event, isSet, pairs, loop, count>>

\* Cancellation in start() or stop(): nothing is undone.
Cancel(u) ==
    /\ u \in CancellableUsers /\ at[u] \in StartPC \cup {"stopping"}
    /\ Goto(u, "cancelled")
    /\ UNCHANGED <<scanner, watcher, event, isSet, waits, pairs, loop, windows, overlap>>

\* The callback of a future that was cancelled meanwhile: nothing.
Skip(u) ==
    /\ \/ Ready("answer", u) /\ at[u] \notin {"adapter", "radio"}
       \/ Ready("wake", u) /\ at[u] # "stopping"
    /\ UNCHANGED <<scanner, at, watcher, event, isSet, waits, pairs, windows, overlap>>

-----------------------------------------------------------------------------
\* The handlers, in the event loop

Merge(d, part, w) == [pairs[d] EXCEPT ![part] = w]

\* _received_handler(): the part joins the other one of its device, and the device
\* is reported if a part of the pair passes the filter.
HandleReceived ==
    /\ loop # <<>> /\ Head(loop).kind = "received"
    /\ loop' = Tail(loop)
    /\ LET c == Head(loop)
           pair == Merge(c.device, c.part, c.who)
       IN  /\ pairs' = [pairs EXCEPT ![c.device] = pair]
           /\ IF IsAllowed(c.device, {p \in Parts : pair[p] # None})
                THEN Report(c.device, pair)
                ELSE UNCHANGED <<seen, packets>>
    /\ UNCHANGED <<listeners, at, watcher, event, isSet, waits, windows, overlap>>

\* _stopped_handler() sets the event that is there now: its waiters wake up.
HandleStopped ==
    /\ loop # <<>> /\ Head(loop).kind = "stopped"
    /\ isSet' = isSet \cup {event}
    /\ LET woken == {u \in Users : at[u] = "stopping" /\ waits[u] = event}
       IN  \E order \in [1..Cardinality(woken) -> woken] :
              /\ \A u \in woken : \E i \in DOMAIN order : order[i] = u
              /\ loop' = Tail(loop) \o [i \in DOMAIN order |-> Callback("wake", order[i], None, None)]
    /\ UNCHANGED <<scanner, at, watcher, event, waits, pairs, windows, overlap>>

-----------------------------------------------------------------------------
\* Windows

Become(w, st) ==
    /\ status' = [status EXCEPT ![w] = st]
    /\ UNCHANGED <<scanner, at, watcher, event, isSet, waits, pairs, loop, hooked, overlap>>

WatcherStarts(w) == status[w] = "created" /\ Become(w, "started") /\ UNCHANGED <<owed, count>>

\* The radio is switched off, or the start fails.
WatcherAborts(w) ==
    /\ status[w] \in {"created", "started"} /\ count.aborts < MaxAborts
    /\ Become(w, "aborted")
    /\ owed' = owed \cup {w}
    /\ count' = [count EXCEPT !.aborts = @ + 1]

WatcherStops(w) == status[w] = "stopping" /\ Become(w, "stopped") /\ UNCHANGED <<owed, count>>

Receive(w, d, part) ==
    /\ status[w] \in {"started", "stopping"} /\ w \in hooked /\ count.packets < MaxPackets
    /\ count' = [count EXCEPT !.packets = @ + 1]
    /\ loop' = Append(loop, Callback("received", w, d, part))
    /\ UNCHANGED <<scanner, at, watcher, event, isSet, waits, pairs, status, hooked, owed, overlap>>

\* Stopped is raised once the watcher is over, for whoever still listens.
RaiseStopped(w) ==
    /\ w \in owed /\ status[w] \in {"stopped", "aborted"}
    /\ owed' = owed \ {w}
    /\ loop' = IF w \in hooked THEN Soon("stopped", w) ELSE loop
    /\ UNCHANGED <<scanner, at, watcher, event, isSet, waits, pairs, status, hooked, count, overlap>>

-----------------------------------------------------------------------------
Handle ==
    \/ HandleReceived \/ HandleStopped
    \/ \E u \in Users : \/ GotAdapter(u) \/ NotAvailable(u) \/ Create(u)
                        \/ StopEnds(u) \/ CloseGenerator(u) \/ Skip(u)

Call(u) == Start(u) \/ Stop(u)
Task(u) == Polled(u) \/ TakeNext(u) \/ LeaveBody(u)
Windows ==
    \/ \E u \in Users : Answer(u)
    \/ \E w \in Watchers : WatcherStarts(w) \/ WatcherStops(w) \/ RaiseStopped(w)
Radio ==
    \E w \in Watchers : WatcherAborts(w) \/ \E d \in Devices, p \in Parts : Receive(w, d, p)

ScanNext ==
    \/ Handle \/ Windows \/ Radio
    \/ \E u \in Users : Call(u) \/ Task(u) \/ Cancel(u)

ScanSpec == ScanInit /\ [][ScanNext]_scanVars

\* The event loop runs its callbacks, the tasks run, a timeout and a sleep end, and
\* Windows answers and starts or stops what it was told to.
FairScanSpec ==
    ScanSpec /\ WF_scanVars(Handle) /\ WF_scanVars(Windows) /\ \A u \in Users : WF_scanVars(Task(u))

-----------------------------------------------------------------------------
\* Every variable holds a value the code could put there; a stop() waits for an event that
\* some start() made.
ScanTypeOK ==
    /\ at \in [Users -> StartPC \cup EndPC \cup {"idle", "body", "stopping"}]
    /\ watcher \in Watchers \cup {None} /\ event \in Watchers \cup {None}
    /\ isSet \subseteq Watchers /\ hooked \subseteq Watchers /\ owed \subseteq Watchers
    /\ waits \in [Users -> Watchers \cup {None}]
    /\ \A u \in Users : at[u] = "stopping" => waits[u] # None
    /\ status \in [Watchers -> {"none", "created", "started", "stopping", "stopped", "aborted"}]

\* The new scan's data is its own: everything in seen_devices and in the
\* advertisement pairs came from the watcher whose start() ran last.  Callbacks of
\* the scan before may still be queued when stop() returns, and nothing compares
\* the sender with the watcher: what saves start() is that it clears its data
\* after two awaits whose answers are queued behind them.  Not so once two start() or two
\* stop() calls have overlapped.
FreshData ==
    ~overlap => \A d \in Devices, p \in Parts :
        /\ pairs[d][p] \in {None, event}
        /\ seen[d] # None => seen[d][p] \in {None, event}

\* Nothing scans that cannot be stopped: a watcher that runs is self.watcher.  Two
\* start() calls that overlap both pass the guard and break it; an overlap of two stop() calls
\* is excepted as well.
WatcherReachable ==
    ~overlap => \A w \in Watchers : status[w] \in {"created", "started", "stopping"} => w = watcher

\* Only a find that is still looking, or whose generator is about to be closed, has
\* a callback registered.
ListenersInUse ==
    \A u \in listeners :
        at[u] = "body" \/ \E i \in DOMAIN loop : loop[i].kind = "close" /\ loop[i].who = u

\* Every start(), stop(), find and discover comes to an end, unless two start() or two stop()
\* calls have overlapped: a stop() during another one may take the handler of Stopped away
\* before it is called.
ScanCallsReturn ==
    <>[](overlap \/ \A u \in Users : at[u] \in {"idle"} \cup EndPC)
=============================================================================
