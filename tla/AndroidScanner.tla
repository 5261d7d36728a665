---------------------------- MODULE AndroidScanner ----------------------------
(***************************************************************************)
(* The scanners of an Android program: BleakScannerP4Android                *)
(* (src/bleak/backends/p4android/scanner.py) over AsyncJavaCallbacks        *)
(* (utils.py).  One scanner at a time may scan: a class attribute holds it. *)
(* Android's callbacks run in Java threads and reach the event loop later,  *)
(* in order.                                                                *)
(***************************************************************************)
EXTENDS Naturals, Sequences, PyNone

CONSTANTS
    Scanners,            \* the scanners
    CancellableScanners, \* those whose start() may be cancelled
    MaxStarts,           \* bound on the start() calls of a scanner
    MaxResults,          \* bound on the scan results
    MaxFailures          \* bound on the scans that fail and on the failures of the adapter

ASSUME ScannersAssumption == CancellableScanners \subseteq Scanners /\ None \notin Scanners
ASSUME BoundsAssumption == MaxStarts \in Nat /\ MaxResults \in Nat /\ MaxFailures \in Nat

VARIABLES
    at,          \* where the start() of each scanner is
    starts,      \* start() calls made, those that start() makes itself included
    holder,      \* BleakScannerP4Android.__scanner
    javascanner, \* scanners whose __javascanner is not None
    pending,     \* scanners whose "onScan" future is not done
    onScan,      \* what the future was resolved with
    stated,      \* scanners whose callback has "onScan" in its states
    seen,        \* seen_devices: the start() calls whose scan each entry is from
    events,      \* callbacks the event loop has not run yet
    scan,        \* Android: the scan of each callback
    adapter,     \* Android: the state of the adapter
    heard,       \* what the future a reset waits for was given by the adapter's broadcast
    count,       \* results and failures so far, for the bounds
    overlap      \* history: what two start() calls did together, of "permission" and "reset"

scanner   == <<holder, javascanner, pending, onScan, stated>>
bluetooth == <<adapter, heard>>
platform  == <<scan, bluetooth, count>>
scanVars  == <<at, starts, scanner, seen, events, platform, overlap>>

\* A scan that is started without asking for the permission is "rescan": the local
\* variable `adapter` of that start() has no value.
Waiting == {"permission", "scan", "rescan", "off", "on"}
Scanning == {"scan", "rescan"}
Codes   == {"registration", "other"}

ScanInit ==
    /\ at = [s \in Scanners |-> "idle"] /\ starts = [s \in Scanners |-> 0]
    /\ holder = None /\ javascanner = {} /\ pending = {} /\ stated = {}
    /\ onScan = [s \in Scanners |-> None]
    /\ seen = [s \in Scanners |-> {}] /\ events = <<>>
    /\ scan = [s \in Scanners |-> "off"] /\ adapter = "on"
    /\ heard = [s \in Scanners |-> None]
    /\ count = [results |-> 0, failures |-> 0]
    /\ overlap = {}

Go(s, l) == at' = [at EXCEPT ![s] = l]

Together(s, where, what) ==
    overlap' = IF \E x \in Scanners \ {s} : at[x] \in where THEN overlap \cup {what} ELSE overlap

-----------------------------------------------------------------------------
\* start()

\* perform_and_wait(startScan): the future takes the place of the last one.
StartScan(s, label) ==
    /\ holder' = s /\ javascanner' = javascanner \cup {s}
    /\ pending' = pending \cup {s} /\ onScan' = [onScan EXCEPT ![s] = None]
    /\ scan' = [scan EXCEPT ![s] = "starting"]
    /\ Go(s, label)

\* Another scanner scans, or the permission is asked for.  A scanner that another one
\* has pushed out of the class attribute goes on with the scanner it has.
Enter(s) ==
    /\ starts' = [starts EXCEPT ![s] = @ + 1]
    /\ CASE holder # None -> /\ Go(s, "raised")
                             /\ UNCHANGED <<holder, javascanner, pending, onScan, scan, overlap>>
         [] holder = None /\ s \in javascanner -> StartScan(s, "rescan") /\ UNCHANGED overlap
         [] OTHER -> /\ Go(s, "permission")
                     /\ Together(s, {"permission"}, "permission")
                     /\ UNCHANGED <<holder, javascanner, pending, onScan, scan>>

Start(s) ==
    /\ at[s] \notin Waiting /\ starts[s] < MaxStarts
    /\ Enter(s)
    /\ UNCHANGED <<stated, seen, events, bluetooth, count>>

Permitted(s) ==
    /\ at[s] = "permission"
    /\ IF adapter = "on" THEN StartScan(s, "scan")
       ELSE Go(s, "raised") /\ UNCHANGED <<holder, javascanner, pending, onScan, scan>>
    /\ UNCHANGED <<starts, stated, seen, events, bluetooth, count, overlap>>

Denied(s) ==
    /\ at[s] = "permission"
    /\ Go(s, "raised")
    /\ UNCHANGED <<starts, scanner, seen, events, platform, overlap>>

\* The first result, or the 0.2 seconds without an error.
Confirmed(s) ==
    /\ at[s] \in Scanning /\ onScan[s] \in {"ok", None}
    /\ pending' = pending \ {s}
    /\ Go(s, "done")
    /\ UNCHANGED <<starts, holder, javascanner, onScan, stated, seen, events, platform, overlap>>

\* Mutant: the class attribute is kept.
StopScanHolding(s) ==
    IF s \in javascanner
    THEN javascanner' = javascanner \ {s} /\ scan' = [scan EXCEPT ![s] = "off"] /\ UNCHANGED holder
    ELSE UNCHANGED <<holder, javascanner, scan>>

\* Mutant: Android is not told to stop.
StopScanQuiet(s) ==
    IF s \in javascanner
    THEN holder' = None /\ javascanner' = javascanner \ {s} /\ UNCHANGED scan
    ELSE UNCHANGED <<holder, javascanner, scan>>

\* stop(), which awaits nothing: whoever is in the class attribute leaves it.
StopScan(s) ==
    IF s \in javascanner
    THEN holder' = None /\ javascanner' = javascanner \ {s} /\ scan' = [scan EXCEPT ![s] = "off"]
    ELSE UNCHANGED <<holder, javascanner, scan>>

Stop(s) ==
    /\ StopScan(s)
    /\ UNCHANGED <<at, starts, pending, onScan, stated, seen, events, bluetooth, count, overlap>>

\* The scan failed: it is stopped and the error raised; without `adapter` there is no
\* reset either, and what is raised is UnboundLocalError.
Failed(s) ==
    /\ \/ at[s] = "scan" /\ onScan[s] = "other"
       \/ at[s] = "rescan" /\ onScan[s] \in Codes
    /\ StopScan(s)
    /\ Go(s, "raised")
    /\ UNCHANGED <<starts, pending, onScan, stated, seen, events, bluetooth, count, overlap>>

\* SCAN_FAILED_APPLICATION_REGISTRATION_FAILED: the adapter is switched off, which ends
\* every scan, and on again.  An adapter that is off already has nothing to broadcast.
ResetAdapter(s) ==
    /\ at[s] = "scan" /\ onScan[s] = "registration"
    /\ holder' = IF s \in javascanner THEN None ELSE holder
    /\ javascanner' = javascanner \ {s}
    /\ adapter' = IF adapter = "off" THEN "off" ELSE "disabling"
    /\ scan' = [x \in Scanners |-> "off"]
    /\ Go(s, "off") /\ heard' = [heard EXCEPT ![s] = None]
    /\ Together(s, {"off", "on"}, "reset")
    /\ UNCHANGED <<starts, pending, onScan, stated, seen, events, count>>

\* Mutant: the adapter is not told to switch on.
EnableAdapterUnasked(s) ==
    /\ at[s] = "off" /\ heard[s] = "state"
    /\ Go(s, "on") /\ heard' = [heard EXCEPT ![s] = None]
    /\ UNCHANGED <<starts, scanner, seen, events, scan, adapter, count, overlap>>

\* Nor has one that is on already.
EnableAdapter(s) ==
    /\ at[s] = "off" /\ heard[s] = "state"
    /\ adapter' = IF adapter = "on" THEN "on" ELSE "enabling"
    /\ Go(s, "on") /\ heard' = [heard EXCEPT ![s] = None]
    /\ UNCHANGED <<starts, scanner, seen, events, scan, count, overlap>>

AdapterError(s) ==
    /\ at[s] = "off" /\ heard[s] = "error"
    /\ Go(s, "raised")
    /\ UNCHANGED <<starts, scanner, seen, events, platform, overlap>>

\* `return await self.start()`
Restart(s) ==
    /\ at[s] = "on" /\ heard[s] = "state"
    /\ Enter(s)
    /\ UNCHANGED <<stated, seen, events, bluetooth, count>>

\* Cancellation: the scan that was started goes on.
Cancel(s) ==
    /\ s \in CancellableScanners /\ at[s] \in Waiting
    /\ pending' = pending \ {s}
    /\ Go(s, "raised")
    /\ UNCHANGED <<starts, holder, javascanner, onScan, stated, seen, events, platform, overlap>>

-----------------------------------------------------------------------------
\* The event loop

ScanEvent(kind, s, n) == [kind |-> kind, who |-> s, start |-> n]

\* _handle_scan_result(): the device is created or updated; nothing clears seen_devices.
HandleResult(e) ==
    /\ seen' = [seen EXCEPT ![e.who] = @ \cup {e.start}]
    /\ UNCHANGED <<pending, onScan, stated>>

\* _result_state_unthreadsafe(): an error without a home is only logged by the loop.
HandleState(e) ==
    /\ stated' = stated \cup {e.who}
    /\ onScan' = IF e.who \in pending THEN [onScan EXCEPT ![e.who] = e.kind] ELSE onScan
    /\ pending' = pending \ {e.who}
    /\ UNCHANGED seen

RunCallback ==
    /\ events # <<>> /\ events' = Tail(events)
    /\ LET e == Head(events) IN IF e.kind = "result" THEN HandleResult(e) ELSE HandleState(e)
    /\ UNCHANGED <<at, starts, holder, javascanner, platform, overlap>>

-----------------------------------------------------------------------------
\* Android, as src/ uses it

\* onScanResult(), in a Java thread: the first result is also posted as the state.
ScanResult(s) ==
    /\ scan[s] \in {"starting", "on"} /\ adapter = "on" /\ count.results < MaxResults
    /\ scan' = [scan EXCEPT ![s] = "on"]
    /\ count' = [count EXCEPT !.results = @ + 1]
    /\ events' = events \o <<ScanEvent("result", s, starts[s])>>
                        \o (IF s \in stated THEN <<>> ELSE <<ScanEvent("ok", s, starts[s])>>)
    /\ UNCHANGED <<at, starts, scanner, seen, bluetooth, overlap>>

ScanFailed(s) ==
    /\ scan[s] = "starting" /\ count.failures < MaxFailures
    /\ scan' = [scan EXCEPT ![s] = "off"]
    /\ count' = [count EXCEPT !.failures = @ + 1]
    /\ \E code \in Codes : events' = Append(events, ScanEvent(code, s, starts[s]))
    /\ UNCHANGED <<at, starts, scanner, seen, bluetooth, overlap>>

\* ACTION_STATE_CHANGED: who waits for the new state is told.
AdapterTurns ==
    /\ \/ adapter = "disabling" /\ adapter' = "off"
       \/ adapter = "enabling" /\ adapter' = "on"
    /\ heard' = [s \in Scanners |->
           IF at[s] = adapter' /\ heard[s] = None THEN "state" ELSE heard[s]]
    /\ UNCHANGED <<at, starts, scanner, seen, events, scan, count, overlap>>

\* Both handlers give an error to stateOffFuture, which the wait for the adapter to be on
\* has behind it.  The adapter does as it is told next.
AdapterFails ==
    /\ adapter \in {"disabling", "enabling"} /\ count.failures < MaxFailures
    /\ adapter' = "error"
    /\ heard' = [s \in Scanners |->
           IF at[s] = "off" /\ heard[s] = None THEN "error" ELSE heard[s]]
    /\ count' = [count EXCEPT !.failures = @ + 1]
    /\ UNCHANGED <<at, starts, scanner, seen, events, scan, overlap>>

-----------------------------------------------------------------------------
ResumeStart(s) ==
    \/ Permitted(s) \/ Denied(s) \/ Confirmed(s) \/ Failed(s)
    \/ ResetAdapter(s) \/ EnableAdapter(s) \/ AdapterError(s) \/ Restart(s)

ScanNext ==
    \/ \E s \in Scanners :
          Start(s) \/ Stop(s) \/ Cancel(s) \/ ResumeStart(s) \/ ScanResult(s) \/ ScanFailed(s)
    \/ RunCallback \/ AdapterTurns \/ AdapterFails

ScanSpec == ScanInit /\ [][ScanNext]_scanVars

\* The permission is answered, the timeout and the loop run, the adapter does as told.
FairScanSpec ==
    /\ ScanSpec
    /\ WF_scanVars(RunCallback) /\ WF_scanVars(AdapterTurns \/ AdapterFails)
    /\ \A s \in Scanners : WF_scanVars(ResumeStart(s))

-----------------------------------------------------------------------------
\* Every variable holds a value the code could put there; posted holds the arguments of
\* callbacks.
ScanTypeOK ==
    /\ at \in [Scanners -> Waiting \cup {"idle", "done", "raised"}]
    /\ starts \in [Scanners -> Nat] /\ holder \in Scanners \cup {None}
    /\ javascanner \subseteq Scanners /\ pending \subseteq Scanners /\ stated \subseteq Scanners
    /\ onScan \in [Scanners -> Codes \cup {"ok", None}]
    /\ scan \in [Scanners -> {"off", "starting", "on"}]
    /\ adapter \in {"on", "off", "disabling", "enabling", "error"}
    /\ heard \in [Scanners -> {"state", "error", None}]
    /\ overlap \subseteq {"permission", "reset"}

\* Whatever scans can be stopped, and nothing else may start meanwhile: its scanner is
\* the one in the class attribute and has its __javascanner.  Two start() calls that
\* wait for the permission together both get past the guard and break it.
ScanHeld ==
    "permission" \notin overlap =>
        \A s \in Scanners : scan[s] # "off" => holder = s /\ s \in javascanner

\* The class attribute never shuts the others out for good: a stop() of the scanner in
\* it takes it out, however its start() ended.
HolderCanStop == holder # None => holder \in javascanner

\* A reset that waits for a broadcast that does not come, in three cases: the adapter fails
\* while start() switches it on (the error goes to the future of the switching off); it was
\* off when start() switched it off, because an earlier reset was cancelled before it
\* switched it on again; or two start() calls reset it together, one against the other.
Unheard(s) ==
    \/ at[s] = "on" /\ adapter = "error"
    \/ at[s] = "off" /\ adapter = "off" /\ heard[s] = None
    \/ at[s] \in {"off", "on"} /\ "reset" \in overlap

\* Every start() ends, but for those: the permission, the 0.2 seconds, an error of the
\* adapter while it is switched off and its new state all lead on.
StartReturns == \A s \in Scanners : at[s] \in Waiting ~> at[s] \notin Waiting \/ Unheard(s)

\* "This map must be cleared when scanning starts." (src/bleak/backends/scanner.py:119)
\* What a scanner has seen is from its last start().
SeenIsCurrent == \A s \in Scanners : seen[s] \subseteq {starts[s]}
=============================================================================
