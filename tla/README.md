# A TLA+ verification project for bleak

bleak is an asyncio library for Bluetooth Low Energy centrals with one backend
per operating system.  Its difficulty is not in algorithms but in time: a
coroutine reads a field, awaits the operating system, and goes on in a world
that a callback, a second call or a cancellation has changed.  The modules here
model that: one action is what a coroutine or a callback does between two
awaits, everything else may happen in between.

## The system

| Component | State | Operations | Interacts by |
|---|---|---|---|
| BlueZ client, `backends/bluezdbus/client.py` | `_bus`, `_is_connected`, `services`, `_remove_device_watcher`, `_disconnecting_event`, `_disconnect_monitor_event`, notification callbacks and descriptors | `connect`, `disconnect`, `pair`, `unpair`, `read_*`, `write_*`, `start_notify`, `stop_notify` | method calls on its own D-Bus connection, one for each session; callbacks from the manager |
| BlueZ manager, `bluezdbus/manager.py` | `_properties`, child maps, `_adapters`, watchers, wait conditions, `_services_cache`, scan callbacks, `_bus_lock` | `async_init`, `active_scan`, `passive_scan` and their `stop`, `add/remove_device_watcher`, `get_services`, `_parse_msg` | one shared D-Bus connection; callbacks into scanners and clients |
| BlueZ scanner, `bluezdbus/scanner.py` | `_stop`, `seen_devices` | `start`, `stop`, advertisement handling | the manager |
| BlueZ version check, `bluezdbus/version.py` | class-level flags and an event | `check_bluez_version` | a child process |
| Front end, `bleak/__init__.py`, `backends/{scanner,client}.py` | detection callbacks, advertisement queue | `BleakScanner`, `BleakClient`, `find_device_*`, `discover` | a backend object |
| Service collection, `backends/{service,characteristic,descriptor}.py` | maps by handle | `add_*`, `get_*` | filled by the backends |
| CoreBluetooth, `backends/corebluetooth/` | futures by handle and by peripheral, notification callbacks, disconnect callbacks | `connect`, `disconnect`, GATT calls | delegate callbacks from another thread |
| WinRT, `backends/winrt/` | session, requester, event tokens, services | `connect`, `disconnect`, GATT calls | events from another thread |
| Android, `backends/p4android/` | futures and states by API name, scanner guard | as above | Java callbacks from another thread |

What makes each of them correct: a session's resources (bus, watcher, task,
handler, future) are given back on every exit path exactly once; a callback
reaches the session it belongs to; an answer reaches the call that asked;
`is_connected` follows the link; calls return.  `PROJECT.json` lists the places
where this is hard (`hazards`), each with the properties that watch it.

## Modules

| Module | Models |
|---|---|
| `Session` | the abstract promise of a client: what becomes of the session of each `connect()` |
| `BlueZClient`, `MCBlueZClient`, `BlueZClientProofs` | one `BleakClientBlueZDBus`: `connect()`, `disconnect()`, the watcher, the monitor task, the manager's view of one device, BlueZ |
| `BlueZGatt`, `MCBlueZGatt`, `BlueZGattProofs` | the GATT calls of that client over sessions that come and go: reads, writes, notifications, `unpair()` |
| `BlueZScan`, `MCBlueZScan`, `BlueZScanProofs` | the BlueZ scanners of one event loop over `active_scan()` and `passive_scan()`, `_bus_lock`, BlueZ's one discovery per D-Bus connection |
| `BlueZManager`, `MCBlueZManager`, `BlueZManagerProofs` | the manager as a copy of BlueZ's object tree: the version check, `async_init()`, `_parse_msg()`, `get_default_adapter()` |
| `CBCentral`, `MCCBCentral`, `CBCentralProofs` | one `BleakClientCoreBluetooth` and its `CentralManagerDelegate`: `connect()`, its timeout, the discovery of services, `disconnect()` |
| `CBRequests`, `MCCBRequests`, `CBRequestsProofs` | one `PeripheralDelegate`: reads, writes, notifications, descriptors, RSSI |
| `WinRTClient`, `MCWinRTClient`, `WinRTProofs` | one `BleakClientWinRT`: pairing, `connect()`, the enumeration of services, `disconnect()`, notifications, the session events |
| `BleakScanner` | the front end's part of a scan: detection callbacks, `advertisement_data()`, `discover()`, `find_device_by_filter()` |
| `WinRTScanner`, `MCWinRTScanner`, `WinRTProofs` | one `BleakScannerWinRT` under that front end |
| `AndroidClient`, `MCAndroidClient`, `AndroidProofs` | one `BleakClientP4Android` over `AsyncJavaCallbacks` |
| `AndroidScanner`, `MCAndroidScanner`, `AndroidProofs` | the `BleakScannerP4Android` scanners of a program |
| `PyNone` | Python's `None`, one constant for the modules that are proved about side by side |

The modules named `MC...` hold the instances for TLC, those named `...Proofs` the
theorems: `WinRTProofs` and `AndroidProofs` those of a client and of a scanner, both of
which they extend.  That is why the two scanners call their specification `ScanSpec`, their
program counter `at`, and so on: a client and a scanner share no name.  How the modules are
composed:

* `WinRTScanner` EXTENDS `BleakScanner`: the backend's steps call the front end's
  operators (`Report`, `BeginBody`, `Unregister`) where the code calls the methods.
* `BlueZClient`, `WinRTClient` and `AndroidClient` INSTANCE `Session` with a mapping of
  their program counters to the phase of each `connect()`, and TLC checks that every
  behaviour of theirs is one of `Session` (`SessionsInTurn`).
* The modules of BlueZ divide the manager among them: `BlueZClient` holds its view of one
  device (wait conditions, watchers, service cache), `BlueZManager` how that view is
  obtained and kept, `BlueZScan` its scans.  `BlueZGatt` has `connect()` and `disconnect()`
  as one step each, and begins where `BlueZClient` ends, as `CBRequests` does for `CBCentral`.

### Session

`phase[c]` is what has become of the session of `connect()` number `c`: `idle`, `trying`,
`failed`, `open`, `reported`.  A `connect()` may try only if no session is trying or open
(`Try`), so a client that loses a session without calling `disconnected_callback` cannot
begin another one in `Session`, and a session is reported once.  The end may be reported
before `connect()` returns.  The three clients map their own state so: a call that runs is
`trying`, one that has raised `failed`, one that has returned `open` or, if the
callback has been called for it (`fired`, `told`), `reported`.

### BlueZClient

`pc[x]` is the await a call stands at.  For a `connect()`: `prepare` (before the
loop: version check, device search, manager), `bus` (`await self._bus.connect()`),
`call` (Connect or Pair sent), `retry` (waiting for the local monitor event after
`le-connection-abort-by-local`), `manager` (waiting for `_bus_lock` inside
`get_global_bluez_manager()`), `discover` (waiting for `ServicesResolved`),
`resolved` and `lost` (the wait is over, the coroutine has not resumed yet),
`undo` (`disconnect_device` has sent Disconnect while the exit stack unwinds).
For a `disconnect()`: `call`, `event` (waiting for the watcher), `close`
(`wait_for_disconnect`), `join` (waiting for another `disconnect()`);
`assertion` is a `disconnect()` that failed its last assertion.

Each iteration of the connect loop has its own bus, watcher and monitor event.
All three are named by the *attempt* `<<call, iteration>>`, so `_bus`,
`_remove_device_watcher`, `_disconnect_monitor_event` and `services` are
variables that hold an attempt or `None`: that an old session is confused with
a new one is then visible as a wrong attempt.  `FinishUnwind` is the
`AsyncExitStack` in its order; it is whole even when an awaited callback in it
is interrupted.

A reply comes on the client's connection and a signal on the manager's, so
`reply` and `signals` are separate and may be seen in any order; the signals
are in order among themselves.  BlueZ (`ServeConnect`, `ServeDisconnect`,
`LinkLost`, `DeviceRemoved`, `DeviceAdded`) is modelled from what the source
relies on: a `Connect` that is aborted sends `Connected` true and then false; an
object that is removed may or may not say that it has disconnected first
(`manager.py:864`); a `Disconnect` cancels a pending `Connect` of the same call.
The two calls of `_pair()` (Trusted, Pair) are the one call `Connect` here: their
replies are handled alike.

### BlueZGatt

A session is a number: `bus` is that of the connection `_bus` refers to, 0 for `None`.
`callbacks` is `_notification_callbacks`, `fds` `_notification_fds`, and `readers` the
readers of the event loop, by file descriptor *number*: `pipes` is what the kernel has
behind each number, and a number that was closed may be given out again.  A call waits
for its reply or, between an InProgress reply and the retry, sleeps; it then uses
whatever `_bus` there is (`Wake`).  A cancelled call leaves its message with BlueZ; the
messages about the notifications of a characteristic are served in the order in which they
were sent (`InTurn`), and BlueZ gives out a pipe when the loop has seen the end of the last one.  When
the link goes, BlueZ ends its subscriptions, closes its side of the pipes and fails what
it was asked; `on_data` reads the end of file some time later.  `unpair()` forgets the
connection first and asks for RemoveDevice on the manager's bus after that.

### BlueZScan

A task is the `start()` of a scanner or one of its `stop()` calls.  `lock` and
`queue` are `asyncio.Lock`, which is fair.  `registered` stands for the entries of
`_advertisement_callbacks` and `_device_removed_callbacks`, which are always added
and removed together.  A call to BlueZ is put on `wire` and served in order; a
cancelled task leaves its message on the wire, which is what makes cancellation
interesting.  `seen` is `seen_devices`, `known` the devices in the manager's
`_properties`: devices advertise (`Advertised`) and are removed (`Forgotten`) at any time,
and only a registered scanner hears of it.  `Accepted` is the UUID filter.

### BlueZManager

`pc[t]` is the await of one call of `get_global_bluez_manager()`.  A `connect()` comes
through `check_bluez_version()` (`asking` bluetoothctl, or `waiting` for the event of the
call that does), a scanner does not.  Then `lock`, `connect`, the replies to the
three AddMatch calls (`added`, `removed`, `changed`, named by their signal),
`objects` (GetManagedObjects is pending) and `reply` (its reply has been read and
the coroutine has not resumed yet).  A bus is named by the call that made it.
`known` is the set of paths in `_properties`; `seen` those whose `Connected` or
`Powered` the manager believes to be true; `children[o]` is the entry of `o` in
`_service_map`, `_characteristic_map` or `_descriptor_map`, whichever its kind
uses.  `inbox` holds the messages of the connection in their order, and a signal
is put there only if its match rule is installed.  BlueZ's own tree is `exists`
and `now`.  `raced` remembers that a signal was handled while a `reply` was
waiting to be used.  Each object has the one interface of its kind.  `DefaultAdapter` is
the set of results `get_default_adapter()` may have, `"KeyError"` among them and what it raises
when no adapter has the role of a central (`Central`) or power.

### CBCentral

`pc[x]` is the await of a call: `connecting` (the future of `connectPeripheral`),
`cancelling` (the future of the cancellation after a timeout), the three requests of
`_get_services`, and `waiting` for a `disconnect()`.  The dictionaries of the
delegates have one entry for the one peripheral, so `connectSlot`, `disconnSlot`
and `discovery` are the call whose future is there.  `future[x]` is what has
become of the future a call waits for; a call whose future is done resumes in a
step of its own, as the event loop has it, and a timer or a cancellation may get
in before that (`Timeout`, `Cancel`).  `events` are the `call_soon_threadsafe`
callbacks the loop has not run; `state` is `CBPeripheral.state()`, which
CoreBluetooth changes in its own thread, before the event is handled: that
`disconnect()` reads it and not what the client has been told is the point.  A
didDiscover event finds only a future of its kind.  Which of several services or
characteristics is asked for is left out.

The program of this model does not overlap `connect()` with another call, and
connects again only when `disconnected_callback` has run.

### CBRequests

`kind[x]` is what a call is; a run begins with any of its `Programs`.  Each kind of
request has one slot, and `start` and `stop` share theirs, because the
dictionaries are indexed by the attribute.  A value is `"answer"` or
`"notification"`; the code can tell them only by the discriminator.  `callbacks` is
the entry in `_characteristic_notify_callbacks`, which is added and removed
together with that of the discriminator.  `Reconnected` keeps all of it, as the
client keeps its `PeripheralDelegate`.

### WinRTClient

Sessions, requesters and service collections are named by the `connect()` that made them.
`op[x]` is what has become of the WinRT operation a call waits for; it is part of the
state because a cancelled task waits for its operation all the same (`FutureLike`; `asked`
has the calls that wait so).  What an operation brings is open from the moment it ends (`Bring`),
whether or not the task takes it: a cancellation that comes too late for the operation, or after it
has ended, throws the result away (`Interrupt`).  `HandleDisconnect` is `handle_disconnect()`,
which closes whatever session and requester the client has *now*.  `pc` gives the ends of a
`connect()` that leave something open names of their own: `unpaired` (pairing failed before
the `try`), `lostRequester` and `lostSession` (WinRT made it and the cancelled `connect()` did
not take it) and `spilled` (service objects were found and not kept).  The status
handlers run in a thread of WinRT and put their events on `queue`; `SessionClosed` and
`SessionClosedEarly` are the two branches on `is_connect_complete`, and `ignored` remembers
the sessions for which the second was taken.  `token` is the entry of a characteristic in
`_notification_callbacks`, which a `start_notify()` fills without a look at what is there.

### BleakScanner and WinRTScanner

`BleakScanner` has the sets of detection callbacks (`listeners`), the queues of
`advertisement_data()` (`packets`) and `seen_devices`, by the watcher each part of an entry
is from.  `WinRTScanner` adds `BleakScannerWinRT`: a watcher is named by the user whose
`start()` made it, `event` is the one whose `_stopped_event` the scanner has.  Windows has
the status of each watcher, the handlers that are registered (`hooked`) and the watchers that
have still to raise Stopped (`owed`).  Everything reaches the program through `loop`, the
queue of the event loop, in order: the answers of Windows, the events, the wake-ups of
tasks, and the closing of a generator that was dropped.  That order is what `FreshData`
rests on.  The callback of a future that has been cancelled stays there and does nothing
(`Skip`); an event that is already set is not waited for.  `overlap` remembers two overlapping `start()` or `stop()` calls.

### AndroidClient

`futures[c][api]` is the future under the name of a callback in the `AsyncJavaCallbacks`
object of connection `c`, `states` the last state it was told, `posted` the results that
wait for the event loop.  An error whose name nobody waits for is given to every future
that waits, which is how calls end when the link is lost.  The future of an await that is
cancelled is done: `Without` takes it out of `futures`, where only those that are open
are kept.  `busy` is the one operation
Android's `BluetoothGatt` allows at a time.  `told` has the connections whose end was
reported.  `disconnect()` may be called at any moment.  During another one it takes the name of
the future the other waits for, and the other is never resumed; during `connect()` it resets the
fields `connect()` goes on with (`FieldsGone`).  `Hangup` is its part up to the await, which
the `except` clause of `connect()` has as well.  A `connect()` that is cancelled in its first
await, before its `try`, ends in `givenup`, which nothing else does.

### AndroidScanner

`holder` is the class attribute `__scanner`, `javascanner` has the scanners with a `__javascanner`,
`pending` those whose "onScan" future is open.  `start()` checks the class attribute,
waits for the permission, sets the attribute, and waits for the first result, an error or
0.2 s; an error of the registration resets the adapter and starts again, which is
`rescan` when the scanner object is still there.  A reset waits for the broadcast of the
adapter's next state, and `heard` is what its future was given; an adapter that is off already
has nothing to broadcast (`ResetAdapter`), nor has one that is on (`EnableAdapter`).  `overlap` remembers two `start()` calls
that waited for the permission, or reset the adapter, together.

## Runs

Every deadlock check is off: the systems stop when all calls have been made.

| Run | Instance | Shows |
|---|---|---|
| `client_seq` | 2 `connect()`, 2 `disconnect()`, 2 loop iterations, 1 link loss or removal, one call with the service cache; only `disconnect()` calls overlap | the client tracks its session (`SessionInv`), a `disconnect()` that saw the signal finds it torn down (`DisconnectSettled`), each loss is reported (`LossReported`), the sessions are those of `Session` (`SessionsInTurn`) |
| `client_live` | 1 `connect()` and 2 `disconnect()` in any overlap, 2 loop iterations, 1 fault, fair | `_cleanup_all` never asks for a watcher that is gone (`RemoveFindsWatcher`), `RaisedClosesBus`, `CallsReturn` |
| `client_sanity` | violation | the assertion at `client.py:430` fails |
| `gatt` | 3 characteristics, two of them with AcquireNotify; 3 starts, 2 stops, a read or write, `unpair()`, 2 sessions, 1 file descriptor number, 1 InProgress, fair | `ReadersOwned`, `NotifyingHasCallback`, `StopSilences`, `CallsReturn` |
| `scan` | 2 active scanners and a passive one that starts twice, 1 power loss, 1 cancellation, 1 device that goes, fair | `ScansOwned` while the power stays and nothing is cancelled, `CallbacksOwned`, `SeenIsKnown`, `ScanCallsReturn` |
| `manager` | 4 objects, 2 calls, 2 changes of the tree, 1 lost connection, fair | `ViewAgrees`, `DanglingIsTransient`, `NoBusLeaked`, `InitReturns` |
| `cb_central` | 2 `connect()`, cancellable, 2 `disconnect()`, 2 lost links, fair | `LossReported`, `TimeoutReleases`, `DiscoveryResolves`, `DisconnectReturns` |
| `cb_requests` | a read, 2 starts, a stop, and a write, a request of a descriptor or an RSSI request; 2 notifications, 1 lost link, with a discriminator, fair | `ReadsGetAnswers`, `NotifyingHasCallback`, `RequestsReturn` |
| `winrt_client` | 2 `connect()`, one with pairing, 2 `disconnect()`, a `start_notify()` and a read, write or `stop_notify()`; 2 services, 1 retry, 1 lost link | `NothingStranded`, `LossReported`, `NotifyTracked`, `SessionsInTurn` |
| `winrt_scan` | a `find_device_by_filter()`, a `start()` and a `stop()`; 2 devices, 2 advertisements, 1 scan Windows gives up, fair | `FreshData`, `WatcherReachable`, `ListenersInUse`, `ScanCallsReturn` |
| `android` | 2 `connect()`, 2 `disconnect()` in any overlap, a read and a `start_notify()`; one of each of the first two cancellable, 1 lost link, fair | `NoLinkForgotten`, `CallsGoOn`, `SessionsInTurn` |
| `android_scan` | 2 scanners, one cancellable, 2 starts each (its own restarts included), 2 results, 2 failures of scan or adapter, fair | `ScanHeld`, `HolderCanStop`, `StartReturns` |

Bounds.  Two `connect()` calls are a session and the next one, which is what
stale state needs; two iterations of the loop are a retry; one fault is enough
for each race between a loss and a step, and a second one would need a third
session to matter (CoreBluetooth, where a connection costs few states, has two).
Two `disconnect()` calls make a join, or in WinRT the overlap of the sleeps.  Two scanners
contend for the lock and for the discovery, the third is of the other kind, and starts twice
to find what its first stop left.  The run of the manager begins with any tree
BlueZ may have, so two changes are enough to remove an object and to make it again,
or to make one and change it.  `gatt` has one descriptor number for
the two characteristics with AcquireNotify, so that a number `stop_notify()` or `on_data()` has
closed is given out again for the other one while a stop, an answer or an end of file of the
first is still to come; `use_start_notify`, and a second start of one of them, are left to the
proof.  Two `disconnect()` calls on Android are one that waits and one that takes its place, or
the one of a failing `connect()` and another.  `winrt_scan` has no `discover()`: it takes the steps of a find that
has no callback.  Two services tell the loop over them from its end, one retry the retries
from the error.  Two advertisements are the two parts of one, or one that is late
and one that is not.  The `disconnect()` calls are interchangeable, and `client_seq` and
`winrt_client`, where their names matter to no property, use that symmetry; the runs with
liveness use none.

Assumptions of the runs, each a parameter of its module:

* `cb_central`: no `disconnect()` is cancelled (`Cancellable`), and didFailToConnect comes
  with an error (`ErrorGiven`).  Without the first did_disconnect_peripheral may raise
  InvalidStateError before it reaches the disconnect callback; without the second
  `connect()` ignores the `False` in its future and goes on without a link.
* `cb_requests` cancels no call but reads, which time out: a cancelled stop leaves a
  callback, a cancelled start may have none.
* `android`: one `connect()` and one `disconnect()` may be cancelled, each at any
  of its awaits.
* The program calls `connect()` when it is not connected and does not call it twice at once; on
  Android it calls it when no call of the client runs, which after a `disconnect()` that was
  overtaken is never again.  In `BlueZGatt` the notify calls of a characteristic, in `CBRequests` the
  calls that share a slot and in `AndroidClient` the requests with one callback come one at a
  time.  `disconnect()` may be called during another one in the four clients, and during
  `connect()` in `BlueZClient` and `AndroidClient`.

Properties with an exception say in their comment which behaviour of the code is excepted, and
except that and no more:

| Property | Excepted |
|---|---|
| `ScansOwned` | after a loss of power or a cancellation |
| `ViewAgrees`, `DanglingIsTransient` | a signal handled between the GetManagedObjects reply and its use (`raced`) |
| `InitReturns` | calls that wait for a version check that was cancelled (`Abandoned`) |
| `StopSilences` | a StartNotify that a start with `use_start_notify` sent for a characteristic with NotifyAcquired (`ForcedOn`); a descriptor that came for a start that had been cancelled and that nobody reads (`Abandoned`).  The pipes of all starts that returned, and every characteristic without NotifyAcquired, are checked |
| WinRT `NothingStranded` | the requester of a failed pairing, a requester or session that WinRT made for a `connect()` cancelled before it took it, services of an enumeration that ended half-way |
| WinRT `LossReported` | a loss handled before `connect()` has resumed (`ignored`) |
| `NotifyTracked` | a handler whose token another `start_notify()` of the session has overwritten |
| `FreshData`, `WatcherReachable`, WinRT `ScanCallsReturn` | after two `start()` or two `stop()` calls have overlapped |
| `NoLinkForgotten` | a `connect()` that was cancelled in its first await (`givenup`), and no other that raised |
| `CallsGoOn` | while a `disconnect()` waits for the end of the very connection (`EndAwaited`) |
| `ScanHeld` | two `start()` calls that waited for the permission together |
| `StartReturns` | the adapter fails while it is switched on; it was off when the reset began, because an earlier reset was cancelled; two resets at once (`Unheard`) |

Fairness.  Weak fairness of the coroutine steps (the event loop resumes what is
ready), of signal and callback handling, and of the operating system answering.
The timeouts are part of it where the code has one: `async_timeout` ends `connect()`, the
wait for the watcher and the join, so `ConnectRaises`, `DisconnectTimeout`, `JoinTimeout`
and `Timeout` are among the fair actions, and so is the end of a sleep or of the 0.2 s of
the Android scanner.  The `Disconnect` of the exit stack has no
timeout when it is reached by the timeout itself: there the answer of BlueZ is
needed.  `InitReturns` needs an answer to GetManagedObjects, which has no timeout
either.  In CoreBluetooth a cancelled connection ends and a connected device
answers; a device need not accept a connection.  Windows answers, starts and stops
the watcher it was told to.  An Android device that is connected answers, and a link
that is closed is reported.  Nobody has to call or to cancel anything, no link has
to be lost, no device to advertise.

`winrt_client` has safety only.  `WinRTClient` has no fairness: a `connect()` ends by its
timeout, and every other call by the operation it waits for, which WinRT owes it.

## Where the code and its comments part

`client_sanity` is a run and a finding.  The other configurations named here are not runs; each
violates the one property it names, which states what a comment or a document of the repository
says, and TLC prints the behaviour (`tlc -config X.cfg M`):

| Configuration, module | Property | What the source says, and the code does |
|---|---|---|
| `BlueZClientSanity.cfg`, `MCBlueZClient` | `DisconnectSanity` | `client.py:428`: the assertion is a sanity check that `_cleanup_all()` was triggered and completed.  It fails when the link is lost between ServicesResolved and the end of `connect()` |
| `BlueZClientStale.cfg`, `MCBlueZClient` | `IsConnectedRecovers` | `is_connected` stays true for ever after a `connect()` that failed while it read the services: the watcher that would clear it is removed first |
| `BlueZManagerRace.cfg`, `MCBlueZManager` | `NoInitRace` | `manager.py:299`: handlers are added first "to avoid race condition".  A signal handled between the reading of the GetManagedObjects reply and its use is lost |
| `BlueZManagerAdapters.cfg`, `MCBlueZManager` | `AdaptersAvailable` | `manager.py:181`: "set of available adapters".  A reset clears the maps but not `_adapters`; an adapter that has gone meanwhile makes `get_default_adapter()` raise KeyError |
| `BlueZVersionCheck.cfg`, `MCBlueZManager` | `CheckInProgress` | `version.py:42`: "it wins, wait for it instead".  If the `connect()` that asks is cancelled, those that wait, and all later ones, wait for ever |
| `CBRequestsRestart.cfg`, `MCCBRequests` | `NotifyRestarts` | `bleak/__init__.py:925`: "Notifications are stopped automatically on disconnect".  The callbacks outlive the connection, and `start_notify()` on the next one raises ValueError |
| `WinRTClientStale.cfg`, `MCWinRTClient` | `FreshServices` | `CHANGELOG.rst:404`: services of an earlier connection are not to be used again.  They are, after a loss without `disconnect()` |
| `AndroidScannerSeen.cfg`, `MCAndroidScanner` | `SeenIsCurrent` | `backends/scanner.py:119`: "This map must be cleared when scanning starts."  The Android scanner does not |

Met while modelling, and excepted by the properties or outside the instances:

* BlueZ: after the device has left by itself a new `connect()` overwrites `_bus`
  (`client.py:158`) and the old D-Bus connection stays open, against the comment at line
  393.  An `unpair()` whose RemoveDevice fails leaves the link up with a client that says it is
  not connected.  A `stop()` that is cancelled while it waits for the lock leaves the
  discovery on.  `stop_notify()` never calls StopNotify for a characteristic with
  NotifyAcquired, even if `use_start_notify` started it.
* CoreBluetooth: a `connect()` that resumes after the disconnect callback has run asks a
  device for its services that is not connected, and nothing resolves that future.
* WinRT: a loss that is handled before `connect()` has resumed is reported to nobody.  A
  requester stays open if pairing fails, service objects do if the enumeration fails half-way, and
  so does what WinRT brings to a task that was cancelled meanwhile (`winrt/client.py:238`, 335,
  722).
  A second `start_notify()` of a characteristic overwrites the token of the first
  (`winrt/client.py:1031`), whose handler then stays registered.
  Two overlapping `start()` calls of a scanner make two watchers, one of which nothing stops.
* Android: a `connect()` cancelled in its first await leaves its connection behind.  A second
  request with the callback of one that waits takes its place, and the first never returns.
  A `disconnect()` during another one, or while `connect()` waits for the state of its connection,
  takes the name of the future, and the call that had it waits for ever.
  An error while the adapter is switched on goes to the future of switching it off, and
  `start()` waits for ever.  So does a reset of an adapter that an earlier, cancelled reset has
  left off, as nothing is broadcast, and so may two resets that meet.  An error of a scan that comes
  after the 0.2 s, or a cancelled `start()`, leaves the class attribute taken, and with
  the latter the scan on, until somebody calls `stop()`.  Requests that wait when
  `disconnect()` is called keep waiting.

## Proofs

A run checks a property on an instance; the theorems below state it for every set of calls,
scanners, users and devices, every bound, and every interleaving.  Each inductive invariant
was first checked by TLC on the instance of the run and, where that is small, on one with
more calls.

`BlueZClient`.  For every overlap of the calls `TypeInvariant`, `CleanupFindsWatcher`,
`DisconnectIsExclusive` and `RaisingClosesTheBus`.  What follows assumes `NoOverlap`: calls
overlap only where a `disconnect()` joins another.

* `SessionInvariant`, and from it `SessionsAreReleased`.  `WatcherTracked` and
  `MonitorReleased` are not inductive alone: that a signal finds the watcher in
  `_remove_device_watcher` and its event in `_disconnect_monitor_event` depends on who is
  running.  `SessionInv` adds what ties them together: the `connect()` that runs owns the
  watcher, or has lost it to the signal, whose event is then set; a remembered watcher has the
  remembered event, a bus, and either `_is_connected` or a `connect()` on its way; a
  `disconnect()` that saw the signal has no watcher left.
* `LossInvariant` adds the history: an attempt that has been reported is over or still
  unwinding, the tracked session is one that has not been reported, and a session that has
  not been reported is the tracked one.  Hence `LossIsReported`, an action property (only a
  signal handler and `connect()` itself turn `is_connected` off, and the handler reports), and
  `DisconnectsSettle`.
* `SessionsRefine`: under `Phase` every step is a step of `Session` or a stutter.
  The step that needs the invariants is `Try`: when a `connect()` begins, no
  other session is trying or open, because a session that has not been reported is tracked,
  and a client that tracks one is connected or running.

`BlueZScan`.  Always: `BusLockIsExclusive`; `CallbacksAreOwned`, through `CallbacksInv`, which
adds that a started scanner is not starting; `SeenDevicesAreKnown`: `seen` is emptied before
the scanner is registered, grows by known devices only, and shrinks with every removal;
`MessagesInvariant`, what may be on the wire; and `ExportInvariant`: an UnregisterMonitor
that a cancelled `stop()` has left on the wire is served before the RegisterMonitor of
the next scan, so an exported monitor is one BlueZ has.  `QueueInvariant`, also always: the
queue of the lock is those that wait for it, each once, and a `stop()` is in it before the next
`start()` of its scanner, for which no other `stop()` waits; cancelling one that waits closes its
place and overtakes nobody (`GivesUp`).  `TypeInvariant` follows from these and from the bounds
(`BoundInv`).  While the power stays and nothing is
cancelled, `CalmInvariant`: the one call on the wire is that of the holder of the lock
(`AskInv`), and BlueZ has what the started scanners hold and what the task whose call it
has served, or not yet served, is about to hold or let go (`OpenInv`).  With no call
in progress that is `ScansOwned`.

`BlueZManager`.  For any tree, callers and number of lost connections, `BusInvariant` (the
open buses belong to the manager and to the call that holds the lock) gives `InitIsExclusive`
and `BusesAreReleased`.  `TreeInvariant` is what the copy of the tree rests on.  Neither property is
inductive alone: in between, the copy is wrong about every object a signal is on its way for.
`CopyInv` says that the copy and the messages behind it *together* are BlueZ's tree (`Follows`):
the last signal about an object says what it is, and none means that the copy is right
(`ObjectsFollow`); the last signal that puts a child into the map of its parent or takes it out
says if it is there, and this may be the removal of the parent (`ChildrenFollow`); and a child that is
known no more goes with its parent (`OrphansGo`).  The same holds for the reply to GetManagedObjects and the messages
behind it, as long as it waits in the queue or for its call, because all match rules are
installed before it is asked for (`ConnectionInv`): which is why the order of
`async_init()` is right, and why a signal that is handled before the reply is used breaks it
(`raced`).  Three lemmas say how `Follows` is kept when a message is handled (`HandledFirst`), is
dropped before the reply (`DroppedBefore`) or is sent (`SentBehind`).  The theorems are
`ViewsAgree` and `DanglingsAreTransient`, for any tree of at most five levels.
`WaitersAreQueued` is about `_bus_lock`: its queue is those that wait, each once (`Queues`),
whoever is cancelled; with it and `KnownInv` all types are kept (`TypeInvariant`).

`BlueZGatt`.  `GattInvariant`: the notify calls of a characteristic wait one at a time and an
answered StopNotify has no StartNotify behind it (`AskedInv`); the reader of a descriptor and
the entry in `_notification_fds` refer to each other and to one pipe, and the descriptor in an
answer has neither yet (`ReaderInv`); a pipe nobody reads comes from an answer that
waits or a start that was cancelled (`SourceInv`).  It gives `ReadersAreOwned`, `CallbacksAreReady` and
`StopsSilence`.  It is not inductive if BlueZ serves the messages of a characteristic in any
order, or gives out a second pipe before the loop has seen the end of the first: the D-Bus
connection keeps the order, which is why the model has `InTurn`.

`CBCentral`.  For any calls and lost links `TypeInvariant`, which says that every future
in a dictionary is that of a call waiting at the await that put it there, and
`LossesAreReported`: if only `connect()` calls are cancelled and didFailToConnect gives an
error, the end of a connection that `connect()` returned is on its way to the callback of the
client as soon as the link is gone.  `LossInv` rests on the order of the events: a connection
whose news has not been handled is still there, or its end is behind the news in the queue
(`NewsInOrder`); so a call that has been told of its connection is connected, or the
disconnection is on its way (`Linked`), and nothing removes the callback but the disconnection
itself or the timeout of the very `connect()` that registered it.  `TimeoutsRelease` needs none of
these assumptions: while a `connect()` that gave up waits for the end of its connection there is no
callback, no link and nobody who has asked for another (`GivenUp`).

`CBRequests`.  `TypeInvariant`; and, if no start or stop is cancelled, `NotifyInvariant`: a
request on the wire is that of the call that waits and none has been reported meanwhile
(`WireInv`), a disconnection is the last report and a notification in the queue has its
callback (`EventInv`), and when a stop has been answered nothing is behind the answer
(`StopInv`).  It gives `NotificationsHaveACallback` and `ReadsAreAnswered`: a value that
comes while notifications are on or going on or off is sorted by the discriminator, which is
there as long as one can come.

`WinRTClient`.  `Invariant`: whose turn it is; that the session of the client is the one open
at WinRT and its `connect()` is past the await that makes it (`SessionInv`); that what is open
is held by the client, by a `connect()` that runs, or lost in one of the ways
`NothingStranded` names (`ReachInv`); that an event in the queue is of the client's session,
and that a session whose event is set, or that has been returned, is up, or its end is in the
queue, or was `ignored` (`QueueInv`); and the tokens (`NotifyInv`).  It gives
`TypeInvariant`, `NothingIsStranded`, `LossIsReported`, `NotificationsAreTracked` and
`SessionsRefine`, all without an assumption on who is cancelled.  The exception of
`NotifyTracked` was found by this proof, which is about any number of starts: a second
`start_notify()` takes the place of the token of the first.

`WinRTScanner`.  `ScanInvariant`: always the types, what the loop's queue says of the calls
(`LoopInv`) and `ListenInv`, of which `FindersLetGo` is a consequence in every overlap; as
long as no `start()` meets another and no `stop()` another, one watcher at most runs and it is
`self.watcher` (`EndInv`), what is queued is from the last watcher, and the answers that
`start()` waits for are queued behind it (`OrderInv`), so that nothing of an earlier scan is
left when `start()` clears the data (`FreshInv`).  It gives `DataIsFresh` and
`WatchersAreReachable`.  The proof needs the model to say what a cancelled task leaves in the
queue of the loop, hence `Skip`.

`AndroidClient`.  `AlwaysInvariant`: one `connect()` runs at a time, and while it
does the fields are its own or have been reset (`TurnInv`); a future that is not done is that of a call that waits for it, under the name and
in the object where its await put it (`FutureInv`); what the client and its calls
believe of a link is not ahead of Android (`LinkInv`); the posted callbacks are in the
order of the life of a link: nothing before its beginning, nothing after its end
(`EventInv`); an answer that is owed or on its way has its future, unless `connect()` has
failed (`HomeInv`); and a connection that `connect()` has returned is the client's until it ends
(`OpenInv`); and a `disconnect()` that waits beside a `connect()` in its first await has taken its
name, or came after the answer, so that what it is told is the end of the link (`TakenInv`).  `NoLinkForgotten` is not inductive alone, because errors travel: one whose future is
gone ends whatever call waits, so that a `disconnect()` may be told something that was meant for
a read.  `HomeInv` and `OpenInv` say when that can be: an answer to a request finds
its own future, so the error without a home that a `disconnect()` is told of is the end of the link.
It gives `TypesAreKept`, `NoLinkIsForgotten` and, with the mapping of `Phase`,
`SessionsRefine`, whatever is cancelled or lost and however many `disconnect()` calls overlap with
each other and with `connect()`.  `FutureInv` was false of an earlier form
of the model, where a cancelled call kept its future and a later error could still be given to it.

`AndroidScanner`.  `AlwaysScanInvariant`: in every overlap the holder of the class attribute
has a `__javascanner` (`HoldersCanStop`); as long as no two `start()` calls wait for the permission
together, the one that waits finds the class attribute free, who has a `__javascanner` is the
holder, and who scans has one (`HeldInv`), hence `ScansAreHeld`.  `ScanTypesAreKept` has the types.

Assumptions.  The constants' assumptions are in the module that declares them (finite or
disjoint sets, bounds that are numbers, a `None` that is nothing else; in `AndroidClient`
that no request is answered by a callback that `connect()` or `disconnect()` waits for, which
is how `client.py` uses them).  `NoOverlap`, `~Cancellable` (`CBRequests`) and the
two conditions of `CBCentral` are hypotheses of the theorems that need them, and are those of
the runs; the program of each module is the one described above.

Checked and proved: `SessionInv`, `RemoveFindsWatcher`, `RaisedClosesBus`, `DisconnectSettled`;
`LossReported` of all three modules that have it; `SessionsInTurn` of the three clients
that have it; `ScansOwned`, `CallbacksOwned`, `SeenIsKnown`; `NoBusLeaked`, `ViewAgrees`,
`DanglingIsTransient`; `TimeoutReleases`; `ReadersOwned`,
`StopSilences`; `NotifyingHasCallback` of `BlueZGatt` and `CBRequests`; `ReadsGetAnswers`;
`NothingStranded`, `NotifyTracked`; `FreshData`, `WatcherReachable`, `ListenersInUse`;
`NoLinkForgotten`; `ScanHeld`, `HolderCanStop`.  That is every invariant and every action property
of a run, and every refinement.
The type invariant of each of these modules is proved as well.

Only model-checked is liveness: fairness and ENABLED are outside the prover.
The type invariants (`TypeOK`) hold in the instances above, but no listed run spends its time
on what is proved.

## Not modelled, and why

* The tables and types (`uuids.py`, `_manufacturers.py`, `exc.py`, `args/`) have no behaviour.
* The service collection is filled once by a backend and never changed; the modules treat
  it as one value.  The methods of `BleakClient` look up a characteristic and pass the
  call on.
* The CoreBluetooth scanner registers one callback and passes `start()` and `stop()` on.
* WinRT: the enumeration of services starts again on a services-changed event only if
  `_retry_on_services_changed` is set (`winrt/client.py:385`), which nothing in the source
  does.  `unpair()` calls one WinRT operation and `disconnect()`.
* Android: `pair()` and `unpair()` wait for a broadcast of their own.
* BlueZ: a second event loop, and a manager whose D-Bus connection breaks while
  clients are connected (every client operation fails then); the Disconnect the monitor
  task sends when the event loop itself crashes, after which nothing of the program runs.
* Two overlapping `connect()` calls on one client: nothing in the code guards them.

## Plan

The modelling is complete as far as the list above goes, and so are the proofs of safety.  What
remains are the five hazards of `PROJECT.json` that no property covers, when the code repairs
them.
