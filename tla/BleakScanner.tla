----------------------------- MODULE BleakScanner -----------------------------
(***************************************************************************)
(* What every scanner has, whatever the backend: the devices seen, and the  *)
(* detection callbacks (BaseBleakScanner, src/bleak/backends/scanner.py),   *)
(* used by advertisement_data(), discover() and find_device_by_filter() of  *)
(* BleakScanner (src/bleak/__init__.py).  A backend EXTENDS this module.    *)
(***************************************************************************)
EXTENDS Naturals, Sequences, FiniteSets, PyNone

CONSTANTS
    Users,       \* the tasks that use the scanner
    Finders,     \* those that run the body of find_device_by_filter()
    Discoverers, \* those that run the body of discover()
    Devices,     \* the devices that advertise
    Wanted,      \* those the finders' filter accepts
    Tagged       \* devices and parts that carry a service UUID of the filter

\* An advertisement and the answer to a scan request.
Parts == {"adv", "scan"}

ASSUME BleakScannerAssumption ==
    /\ Finders \subseteq Users /\ Discoverers \subseteq Users /\ Finders \cap Discoverers = {}
    /\ Wanted \subseteq Devices /\ None \notin Devices \cup Users
    /\ Tagged \subseteq Devices \X Parts

VARIABLES
    seen,      \* seen_devices: what is known of each device, or None
    listeners, \* the users whose callback is in _ad_callbacks
    packets    \* the queue of each advertisement_data()

scanner == <<seen, listeners, packets>>

InitScanner ==
    /\ seen = [d \in Devices |-> None]
    /\ listeners = {}
    /\ packets = [u \in Users |-> <<>>]

\* `async with` starts the scanner, and stops it when its body is left.
WithScanner == Finders \cup Discoverers

\* is_allowed_uuid(): no filter, or a service UUID of it in a part of the data.
IsAllowed(d, parts) == Tagged = {} \/ \E p \in parts : <<d, p>> \in Tagged

\* create_or_update_device() and call_detection_callbacks(): each callback of an
\* advertisement_data() puts the device on its queue.
Report(d, data) ==
    /\ seen' = [seen EXCEPT ![d] = data]
    /\ packets' = [u \in Users |-> IF u \in listeners THEN Append(packets[u], d) ELSE packets[u]]

\* advertisement_data() registers its callback when it is first asked for an item,
\* discover() has none.
BeginBody(u) ==
    /\ listeners' = IF u \in Finders THEN listeners \cup {u} ELSE listeners
    /\ packets' = [packets EXCEPT ![u] = <<>>]

\* The callback is removed in the `finally` of advertisement_data().
Unregister(u) == listeners' = listeners \ {u}
=============================================================================
