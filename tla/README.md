# Verification of the GivEVC OCPP portal

TLA+ models of the program in `src/givEVC-ocppv2/app`, the TLC runs that check
them on small instances, and TLAPS proofs for every size.

The program is an OCPP 1.6 central system and web portal for GivEnergy EV
chargers: one Python 3.11 process with one asyncio loop (aiohttp 3.11), a
SQLite database, and a firmware file server in threads of its own.

## 1. The system

### Parts, state and operations

| Part | Where | State | Operations |
|---|---|---|---|
| OCPP sessions | `ocpp/server.py`, `ocpp/coordinator.py` | `_sessions`, `_ocpp_callers`, `_connected_charge_points`, `_charger_states`, the `connected` flag and its snapshot row | handshake, replacement, cleanup, kick, promotion, selection, process restart |
| OCPP calls | `ocpp/charge_point.py` | `_pending_calls` and their futures, `_send_lock` | `async_call`, reading loop, replies, close |
| Charging schedules | `ocpp/coordinator.py` 1443-1692 | `charging_schedule`, `dst_correction_pending` | save, enable, disable, delete, re-push, DST run |
| Charging profiles | `ocpp/coordinator.py` 3058-3194 | none (pure) | windows to periods |
| RFID tags | `ocpp/coordinator.py` 1694-1824 | `rfid_tags`, live and stored; the charger's list and its version | save, rename, enable, delete |
| Transactions, meter, Plug and Go | `ocpp/coordinator.py` 742-1000, 1862-1945; `auth_store.py` 1295-1436 | transaction fields, live and stored; `charging_sessions` rows | start, stop, meter values, status, remote start |
| Firmware update | `ocpp/coordinator.py` 2059-2716 | `firmware_update_state`, target, progress; per-file locks; the cache | download, install, cancel, transfer events, boot |
| Firmware server | `ocpp/firmware_server.py` | active requests, active downloads, cancelled sessions, each under a lock | serve, cancel |
| Accounts | `auth_store.py`, `main.py` | users, sessions, API keys, one-time codes, reset links, TOTP secrets | register, sign in, verify, reset, change password, disable, delete |
| Ownership of chargers | `auth_store.py`, `main.py` | onboarding sessions, chargers, `active_charger_id` | offer, claim, assign, switch, delete |
| Charger configuration | `ocpp/coordinator.py` 1240-1441 | displayed copies of configuration keys | refresh, change, reset |
| Events to browsers | `coordinator.py` 201-222, `main.py` | one queue of 20 wake-ups per client | push, wait |
| HTTP API | `main.py` | none of its own | calls into the above |

### How they interact

- A handshake authenticates against `AuthStore` (where it may claim a charger),
  enters the registry of `OcppServer` and the tables of `OcppCoordinator`, and
  then runs the session until the socket closes. Cleanup undoes both, if the
  entry is still its own.
- HTTP handlers call coordinator methods; these find the session in
  `_ocpp_callers` and `await async_call`. Inbound messages change the same state
  between the steps of such a handler.
- The middleware of the HTTP server looks the user up before the handler awaits
  the request's body: the handler acts with the identity found then.
- Every change of a charger's state is written to its snapshot row in the same
  step; session rows are written by a second transaction after it; the charger
  holds a copy of its own of schedules, tags and firmware.
- Threads of the firmware server post their events to the loop with
  `call_soon_threadsafe`.

On the loop there is no preemption: the hazards are the awaits. A step of a
model is the code between two awaits that can suspend, and an await that cannot
suspend is not a step boundary. Elsewhere the boundaries are two reads of a
thread's socket, and two SQLite transactions between which the process may die.

### What makes each part correct

- *Sessions*: the tables name one running session of a charger; a dead session
  neither stays registered nor removes its successor; the connected flag, in
  memory and in the database, is right; a removed charger is cut off.
- *Calls*: each call ends, once, with the answer the charger gave to that call
  or with an honest failure; no call is forgotten.
- *Schedules*: one active schedule; the portal shows what the charger holds;
  a missed clock change is made up for.
- *Profiles*: the charger may charge inside the windows and nowhere else.
- *RFID*: the charger's list and the portal's agree; no edit is lost.
- *Transactions*: once the charger has been heard, the server knows whether it
  charges and under which id; every stop is recorded; energy is counted once;
  the automatic start does not stay pending.
- *Firmware*: a charger is shown as updating only if it was asked to; a boot
  settles what was asked; the cache has what a charger was told to fetch; what
  is being sent can be cancelled.
- *Accounts*: a session belongs to an account that may use it and does not
  outlive its password; a code or link works once.
- *Ownership*: a charger has one owner, who exists; a user's active charger is
  the user's; an onboarding password brings in one charger.

`PROJECT.json` lists the hazards with their lines, and which property catches
each of them, or which known limit of the code it is.

## 2. Plan and state

In order of importance. Each component has a module, an MC module and a cfg,
and a proof module where TLAPS reaches the argument.

| | Module | State |
|---|---|---|
| 1 | `ChargerSessions` | checked; safety proved |
| 2 | `OcppCalls` over `CommandPromise` | checked; safety and refinement proved |
| 3 | `ChargingSchedules` | checked; proved |
| 4 | `SchedulePeriods` (pure) | checked; proved |
| 5 | `Transactions` | checked; proved |
| 6 | `LocalAuthList` | checked and proved |
| 7 | `FirmwareServer`, composed with `FirmwareUpdate` | checked; proved |
| 8 | `PortalUsers` under `Accounts` and `ChargerOwnership` | checked and proved |

Who uses whom: `OcppCalls` implements `CommandPromise`, and
`ChargingSchedules`, `LocalAuthList`, `Transactions` and `FirmwareUpdate` take a
command to be what `CommandPromise` says; `FirmwareUpdate` extends
`FirmwareServer`, each step of a thread handing its events to the coordinator;
`Accounts` and `ChargerOwnership` extend `PortalUsers`, the users table both
depend on. `ChargerSessions` has claims, deletions and adoptions as the open
sessions see them.

Every invariant and every action property of the passing runs is a theorem. What
could come next: abstract specifications of `Transactions` and `LocalAuthList`
(a ledger, a replicated list) for them to implement.

## 3. Modules

### ChargerSessions

One record per connection attempt (`handler`: idle, replacing, preparing,
running, done) next to the tables of the server and the coordinator.

- `Connect` / `ConnectReplacing` are `_handle_websocket` up to its first await,
  authorisation included; `ReplacementClosed` continues after
  `existing.async_close`, `PrepareDone` after `websocket.prepare`; `Open` is the
  synchronous end of the handshake. `RunEnds` is the return of `run()` with the
  whole `finally` block.
- Awaiting the close: aiohttp wakes the old handler first, and its cleanup does
  not suspend, so the new handshake normally continues after it; only when the
  old task is suspended in a write does the close end (peer's frame, or its
  10 s limit) before it. `stalled` says so.
- `websocket.prepare` suspends only when the write buffer is full.
  `PrepareMaySuspend` switches that on, as `sessions` does, so that its
  properties hold even then.
- `DeleteCharger`, `DeleteOwner`, `Kick`, `SwitchActive`, `AssignUnadopted` and
  `PurgeOrphaned` are the portal's and the administrator's requests.
- `Crash` is the death of the process between two steps (SIGTERM is not
  handled) and `load()`.
- `overlap` is a history variable: two sessions of the charger have coexisted
  since it last had none. `SoleSessionIsConnected` and `SnapshotAgrees` are about
  the other histories; that they can is what
  `DuplicatesReplaced` shows.

Left out: refused handshakes (they change nothing), the unmanaged branches
(dead when an `AuthStore` is configured), `OcppServer.stop`, the primary
selection, display fields. A connection identity is used once.

### OcppCalls and CommandPromise

`OcppCalls` has the coroutine of each call (`phase`), its future, the table of
pending calls, the send lock with its waiters as one FIFO queue, the reading
task and the two directions of the socket. `CommandPromise` is what a caller may
rely on: one ending per call, an answer only if the charger gave it to this
call, and nothing about execution otherwise. `PromisedOutcome` maps the phases
to "open".

- `wait_for` of Python 3.11: an answer that arrived first wins over the timeout.
- The timeout runs only once the frame is written: a call queued behind a
  suspended write is bounded by the 15 s heartbeat that fails the write.
- The charger answers in any order, repeatedly or never.

### ChargingSchedules

One charger. `content` and `enabled` are the stored list; `op` keeps what a
request read before its await; `EnabledAfter` and `ContentAfter` are what it
does to the list found after it. `wire` and `replies` keep the order of the
socket, `CommandPromise` being the contract. A change that sends no command
(`SaveLocal`, `DeleteLocal`, `DisableLocal`) is one step.

- `dstFlag` is in the database only: `Persist`, part of every step that saves
  the state, drops it; `DstPending` is what `async_record_boot` reads.
- `believed` is `_is_charge_point_online`: a restart keeps it from the snapshot.
- `doubt` and `stale` are history, each the circumstance it names: a request has
  ended without an answer and none has been accepted since; what the last
  accepted one had read before its await (`StillHolds`) no longer held when its
  answer was applied. Requests may overlap as they like otherwise. `owed`: a
  transition found the charger offline.
- An id may be any id: the client may name one, and the next free one is one.

Left out: the semaphore that limits concurrent pushes, names of schedules, the
computation of the transition date. The charger keeps its profile while off.

### SchedulePeriods

`_build_charging_schedule_payload` and both helpers as operators, checked
against `Asked`, which says in local time what the user meant. Days have
`DayLength` ticks; the code's arithmetic is the same for any length. The loops
are folds; Python's `sorted` is `Sorted`, which inserts each pair at its `Rank`.
The computation is one step, `Build`, from any request.

### Transactions

One charger: `car` and `outbox` are the charger (external), `mem`, `disk`,
`counter`, `tasks` and `rows` the server. Readings are register readings.

- The charger sends its messages in order and sends one again when the
  connection ended before the reply: `Replied` is that choice. A new connection
  has the transaction messages that are left, and its status afresh (`Resent`).
- `RecordStatus`, `StartTransaction`, `StopTransaction` and `MeterValues` are
  the handlers with the snapshot they write; `OnStatus`, `OnStart`, `OnStop`,
  `Restored` and `Measured` what they make of the state. `StartInterrupted` and
  `StopInterrupted` are a process death between the snapshot and the row.
- `Snapshot` is the part of the state that is stored: without the reading a
  session started at. `OpenedSnapshot` is what a reconnection writes.
- `LastOpened` and `CloseRow` are `record_session_stop`: the open row that
  started last is closed, whatever id the stop carries.
- `PlugEdge` starts Plug and Go, `PlugAndGoEnds` is the end of its task.
- `Toggle` is the portal's one button for start and stop.
- `heard`, `restopped` and `orphan` are history, for properties that hold only
  until a stop was handled twice, or until a pending flag was read from disk.

Left out: unit conversion, measurands other than the register, the other fields
of the display.

### LocalAuthList

One charger's tags. A change (`job`) reads the list version, sends the
differential update and stores its result, with an await at each call:
`SaveTag`, `SetEnabled`, `DeleteTag`, then `ReadVersion`, `ReceiveUpdate`
(accepted or refused), `ReceiveAnswer`, or `CallFails` at any of them, which
discards an answer that was on its way.

- A save stores the list it built before its calls (`list` of the job), the
  others change the list found after them: `Result`.
- The list a save has built shares the tags' records with the portal's: what an
  enabling changes meanwhile it changes in both (`ListAfter`), until something
  replaces the records by copies (`view`).
- A deletion that finds as many tags as it had read stores nothing.
- `lost` and `muddled` are history: an accepted update whose answer never came,
  and a change stored after another had overtaken it (`Overtaken`): a save after
  any other list was stored, an enabling of a tag that is gone, a deletion that
  finds more tags than it had read.

A tag is its case-folded id; alias and expiry are data no property is about.

### FirmwareServer and FirmwareUpdate

`FirmwareServer` has a thread per connection (`thread`, `peer`, `file`), the
three tables and the cache. A step is what a thread does between two reads of
its socket; its parameter is the batch of events it posts. `CancelDownload` is
called from the loop.

`FirmwareUpdate` extends it with the update fields of each charger (`upd`), the
installations under way (`task`), and the chargers (`want`, `running`).

- `StartInstall`, `CheckCache`, `Unlink`, `Fetched`, `Ask` and what follows it
  are `async_install_firmware_file` and `async_update_firmware`, cut at their
  awaits; `LockFree` is the lock of a file.
- `Owner` attributes an event to a charger and `After` is
  `record_firmware_transfer_event` for it: `Dropped` and `Late` are its guards.
- `Posts` lets the loop handle a batch in the step that posts it, before other
  coroutines run. `call_soon_threadsafe` keeps the order of a thread's events, and
  to the coordinator an event handled later is one of a thread that took its
  step later; only a cancellation looks at both.
- `Reboot` is the restart of a charger, with the session that opens afterwards:
  `Observed` compares the version reported with the target.
- `AfterCancel` is what a cancellation and the events it causes do.
- `asked`, `misled` and `overlapped` are history: what a charger was last told
  to fetch, whether it was given another one's events, and whether two
  installations ran for it at once.

A file stands for the version in its name; the names of the files in
`Unversioned` carry none (`_derive_firmware_version_from_filename`). A file is
one chunk; a charger has an address of its own.

### PortalUsers, Accounts and ChargerOwnership

`PortalUsers` is the users table: who exists, who is disabled, who is an
administrator. A user deleted does not come back (ids are random).

`Accounts` has what hangs on it: sessions, keys, unconsumed codes and links,
TOTP. `Arrive` is the middleware; the request then waits for its body and
`Handled` is the handler that runs afterwards with the identity found then.
Handlers without a body are one step. A process death between two transactions
of a handler is part of its action. `older` and `changer` are history: sessions
older than their user's password, and who set it.

`ChargerOwnership` has onboarding sessions, charger rows and active chargers.
`Claim` is `claim_charger_by_password`: the session is consumed in one
transaction and the row inserted in the next, which may refuse or never happen.
`EnsureActive` is `_ensure_active_charger` after each change of the table.

Left out: the demo account, the theme, migrations. Passwords and codes are not
compared: a request either has the right one or changes nothing.

## 4. Runs

The runs that pass:

| Run | Instance | Shows |
|---|---|---|
| `sessions` | 3 connections of 1 charger, 1 process death | the tables, the connected flag and the snapshot agree; a stale cleanup harms nobody; handshakes end; kicks work |
| `calls` | 2 calls, 2 frames in flight | pending table exact, futures settle once, calls end, `CommandPromise` holds |
| `schedules` | 2 requests, 2 ids, 2 contents | one active schedule, portal and charger agree, changes only on acceptance |
| `periods` | 4 days of 4 ticks, 3 zones, every schedule | no window lost; closed outside unless a window ends with the cycle |
| `transactions` | 2 transactions, readings 0-2, 3 messages held, 2 faults, 1 change of the setting | the open transaction and its id, the rows, the energy and the pending start stay right through lost replies and restarts |
| `firmware` | 2 chargers, 2 files, one of them without a version, 2 installations, 1 connection, 3 incidents: reboots, notifications, cancellations, page views | leftovers start nothing, what has ended stays so, a boot settles, the file is in the cache, what is sent can be cancelled |
| `rfid` | 3 changes of 2 tags, 1 restart | the three lists agree, however changes overlap that do not overtake one another |
| `accounts` | 2 users, 2 sessions, 1 key, 2 waiting requests | sessions of open accounts only; no session outlives its password |
| `ownership` | 3 users, 2 charge points, 3 rows, 3 onboarding sessions | one owner, one active charger, one charger per password |

Three runs end in a violation. Each checks one sentence of the repository,
without any proviso, and TLC finds the code breaking it; `PROJECT.json` has a
finding for each, with the line of the code and the sentence:

| Run | Instance | The sentence | What happens |
|---|---|---|---|
| `offline_gets_correction` | as `schedules` | `README.md:271` | the flag of the correction is lost on reconnect |
| `windows_honoured` | as `periods` | `README.md:261` | a window ending at the end of the cycle opens the rest of it |
| `tags_synchronised` | 2 changes of 2 tags, no restart | `README.md:283` | of two tags saved at once the portal loses one |

Ten more properties say what the repository promises somewhere and the code does
not keep. They are known limits, not runs of the project. Each has a configuration
of its own name with which TLC shows the counterexample, for instance
`tlc -config DuplicatesReplaced.cfg MCChargerSessions`:

| Property and configuration | Module | Instance | The sentence | What happens |
|---|---|---|---|---|
| `DuplicatesReplaced` | `MCChargerSessions` | 3 connections of 1 charger | `docs/MULTI_USER_API_PLAN.md:142` | two handshakes wait for one session to close, and both stay open |
| `DeletedIsDisconnected` | `MCChargerSessions` | 2 connections of 1 charger | `README.md:307` | a handshake already authorised opens after the kick |
| `OfflineIsFlagged` | `MCChargingSchedules` | as `schedules` | `README.md:396` | after a process death the charger counts as online and is not flagged |
| `EnabledIsSent` | `MCChargingSchedules` | as `schedules` | `docs/MULTI_USER_API_PLAN.md:294` | a schedule edited while it is being enabled becomes active unsent |
| `PlugInStarts` | `MCTransactions` | 1 transaction, 1 fault | `README.md:251` | a process death during an automatic start disables the next ones |
| `OneRowPerSession` | `MCTransactions` | 1 transaction, 2 faults | `README.md:40` | a start and a stop sent twice give two closed rows |
| `DeletedForGood` | `MCLocalAuthList` | 2 changes of 2 tags, 1 restart | `README.md:281` | a deletion overtaken by a save is not stored, and the tag comes back |
| `BootSettles` | `MCFirmwareUpdate` | 1 charger, a file without a version | `docs/MULTI_USER_API_PLAN.md:174` | a boot leaves the update under way for good |
| `BootChecksRequested` | `MCFirmwareUpdate` | 1 charger, 2 installations | `docs/MULTI_USER_API_PLAN.md:490` | a boot is compared with a file the charger was not told to fetch |
| `UpdatesAreOwn` | `MCFirmwareUpdate` | 2 chargers, 2 files | `docs/MULTI_USER_API_PLAN.md:475` | a charger that only looked at the page is shown as updating |

Bounds. Every bound is a constant of its module.

- Three connections are the fewest for two handshakes replacing one session;
  restarts are bounded because a connection is used once anyway.
- Two calls contend for the lock, and one can take the other's answer.
- Two requests are the fewest that overlap; the one that runs alone after an
  unanswered one is covered too. Three changes of tags let one run alone before
  or after two that overlap.
- A day of four ticks has windows inside a day, across midnight and of a whole
  day.
- Two transactions are the fewest for rows to overlap or a stop to close the
  wrong one. Three messages hold a transaction's start and stop with a reading
  between them. Two faults are a lost reply followed by a process death.
- In `firmware` the two chargers may be updated with one file or with two, and
  the two installations may be of one charger. One connection is
  enough for its leftovers to meet a cancelled, settled or renewed update, and
  each further one multiplies the states by the positions of its thread; what
  only several could break, the table of downloads, is proved for any number.
- Two users are an administrator and another; three owners with three rows let
  a charger change hands.

The deadlock check is off where the system really may stop: in `calls`,
`firmware`, `rfid`, `accounts` and `ownership` the calls, installations,
changes, tokens and rows to be used are finite, and `periods` is a computation.
Symmetry is used in `schedules`, `rfid`, `accounts`, `ownership` and the
counterexamples on `ChargingSchedules` and `LocalAuthList`: these modules treat
requests, contents and tags alike, and none of the runs has a liveness property.

Fairness. `sessions`: a ready task runs, a socket that is closed ends its
session, a write that is suspended ends; nothing is assumed of users or
chargers. `calls`: ready coroutines run, timers fire, a suspended write ends
(drained, or failed by the heartbeat). `transactions`: the task of Plug and Go
ends, because its one call is answered or times out (`CallEnds`). The loop is
FIFO, so weak fairness is what it gives. The other modules claim no liveness.

### Findings and provisos

Most counterexamples are the other side of a proviso: the property of a passing
run says what the code does guarantee, the counterexample that it guarantees no
more. A hazard whose outcome a proviso excludes does not name the property; its
note names the counterexample.

| Proviso | in | and without it |
|---|---|---|
| no two sessions coexisted (`overlap`) | `SoleSessionIsConnected`, `SnapshotAgrees` | `DuplicatesReplaced` |
| the session registered when the kick runs | `KickEndsSession` | `DeletedIsDisconnected` |
| no process death | `NoPhantomConnected` | `OfflineIsFlagged` |
| what the last accepted request had read still held (`stale`) | `ProfileMatchesPortal` | `EnabledIsSent` |
| no window ends with the cycle | `ClosedOutsideWindows` | `WindowsHonoured` |
| no stop was handled twice (`restopped`) | `EnergyCountedOnce` | `OneRowPerSession` |
| the mark was set by a task that runs (`orphan`) | `PendingSettles` | `PlugInStarts` |
| no change was overtaken (`muddled`) | `TagsAgree` | `TagsSynchronised`, `DeletedForGood` |
| the file carries a version (`Unversioned`) | `InProgressWasAsked`, `BootSettlesAsked` | `BootSettles` |
| no other charger's events (`misled`) | `InProgressWasAsked` | `UpdatesAreOwn` |
| one installation at once (`overlapped`) | `InProgressWasAsked` | `BootChecksRequested` |

Two provisos have no counterexample, because nothing in the repository promises more:
a call that ends without an answer leaves open what the charger did (`doubt` in
`ProfileMatchesPortal`, `lost` in `TagsAgree`), and a call whose write raises
leaves its entry in the table until the session closes (`TableMatchesCalls`).

### Known limits of the code

Seen in the models, and promised otherwise nowhere.

- A charger that reboots before it has fetched the file is shown as failed: the
  verdict is by version alone.
- A cancellation that comes before the download is registered stops nothing but
  what is shown: `SettledStaysSettled`.
- A session restarted in the middle counts its energy from the first reading
  heard afterwards: `SessionNeverOverstated` is one-sided for that reason.
- The cap on the energy of a session (`README.md:252`) is a stored setting that
  no code enforces.

## 5. Proofs

| Module | Theorems |
|---|---|
| `ChargerSessions_proofs` | `TypeCorrect`, `TablesAgree`, `NoPhantoms`, `SoleSessionShown`, `SnapshotIsLive`, `RegistrationLost`, `Superseded` |
| `OcppCalls_proofs` | `CallsTypeCorrect`, `PendingTable`, `FuturesSettleOnce`, `Implements` |
| `ChargingSchedules_proofs` | `SchedulesTypeCorrect`, `AtMostOneEnabled`, `ActiveChanges`, `PortalShowsProfile`; of `SchedulePeriods`: `WindowsAreKept`, `NothingOutsideWindows`, `PeriodsAreInOrder` |
| `Transactions_proofs` | `Invariance`, `TypeCorrect`, `OpenIsRight`, `StopsAreRecorded`, `EnergyIsCountedOnce`, `SessionIsNotOverstated` |
| `LocalAuthList_proofs` | `ListsAgree`, `ListTypeCorrect` |
| `FirmwareUpdate_proofs` | `WantedFileIsThere`, `SenderIsCancellable`, `UpdateInvariance`, `UpdateTypeCorrect`, `InProgressIsAsked`, `SettledUpdatesStay`, `RebootsSettle` |
| `Accounts_proofs` | `AccountsTypeCorrect`, `SessionsAreOfOpenAccounts`, `CodesAreSingle`, `PasswordEndsSessions` |
| `ChargerOwnership_proofs` | `OwnershipTypeCorrect`, `OwnershipIsConsistent`, `PasswordsAreSingleUse` |

They hold for any sets of connections, chargers, calls, requests, tags, files,
users and rows, any number of transactions, readings, faults and messages, and
any length of the day and the week. They assume only the named assumptions of
the modules on their constants: types, that a "none" value is not a member, that
the tags are finite, that the chargers, connections and installations of
`FirmwareUpdate` are numbered, that a zone is less than a day from UTC and a
charging current is not zero.

- *Sessions*: the invariant adds to the checked ones that the connected list
  names running sessions (`RegisteredAreRunning`), that a running session's
  charger has a live state (`RunningIsLive`), that until a restart only live
  chargers have a snapshot (`SnapshotOnlyOfLive`), and that without overlap one
  session at most is running (`SoleIsAlone`). The last is what makes a
  cleanup's write of connected = False harmless.
- *Calls*: the inductive invariant ties the send queue to the phases (every
  queued or sending call stands in it, and a suspended writer is its head)
  and each answer in flight or in a future to an answer the charger gave. The
  refinement maps each step to a step of `CommandPromise` or a stutter.
- *Schedules*: the type invariant needs that a command on the wire belongs to a
  request that was made; `OneEnabled` is then inductive, and the action property
  follows from the shape of the active schedule before and after each step.
  `ProfileMatchesPortal` needs a second invariant, `AgreeInv`: a request is on
  its way once (`Distinct`); as long as an acceptance is on its way the charger
  holds what the last of them asked for (`LastAccepted`), so the one that is
  applied last makes portal and charger equal if what it had read still holds;
  and without doubt everything under way is still waited for (`NoneStale`), so
  they stay equal until something else is accepted (`AgreeUntilAccepted`).
- *Profiles*: one fact per stage of the computation, and `In`, the ticks a list of
  intervals covers, from one to the next. The intervals of a window hold the
  ticks less than its duration ahead of its start on the circle
  (`CircularTells`), and a tick was asked for when it is one of them, for some
  day (`AskedTells`: the arithmetic of midnight, week and zone). Sorting returns
  the same pairs in order; merging keeps what is covered and leaves a gap after
  each interval (`Merged`); the edges are the starts and ends of those, in which
  the last one begun gives the limit inside them and nothing outside, unless an
  interval is empty (`EdgesTell`: the proviso of `ClosedOutsideWindows`, and
  what `WindowsHonoured` trips over); dropping periods changes no limit (`Deduped`). A fold is a
  recursive function on sets of indices: that there is one (`LoopExists`), and
  that it runs through the rounds of the loop (`LoopRounds`), is proved from the
  existence of least elements, with sets where an induction would have operators.
- *Transactions*: the charger's queue is the link between what it has done and what
  the server has recorded. In the queue transactions follow one another, each
  starts before it stops and readings never go back (`Ordered`), nothing of a
  transaction is missing behind its first message (`Complete`), and the register
  stands still between a stop and the next start (`Still`). Against it stand the
  last transaction heard (`Heard`), the rows (`Recorded`) and the state in
  memory and on disk (`Remembers`); their conjunction is `Ledger`. Each part is an
  operator of the values it relates, so an action is proved one effect at a time:
  the handler with the message still in the queue, then its departure
  (`TailLedger`), or the reports a new connection leaves out (`ResentLedger`).
- *Tags*: `TagsAgree` speaks of moments with nothing under way, so the invariant
  must describe the others: the answers under way are those of running changes,
  in the order the charger gave them (`Answered`); the charger has for each tag
  what the last accepted update among them made of it, and otherwise what the
  portal has (`ListFollows`); and a save that still shares the portal's tags has
  them as they are now, with its own entry (`ReadsHold`). So the oldest answer,
  applied to a list that has not overtaken it, brings the portal one step nearer.
  The count a deletion compares needs the lemmas on sizes. All of it is lost for
  good once `lost` or `muddled`; the types are not, and have an invariant of
  their own.
- *Firmware*: an installation inside the lock of a file has found it missing,
  and is alone there (`LockIsExclusive`), so what another one has checked is not
  unlinked; a registered download stays in the table until its thread has left
  the sending phase (`Tabled`). Both leave the coordinator's state out: the
  events change neither. `UpdateInv` adds it: which file a connection's events
  can be about (`Reached`), that what is shown was asked for and the target is
  the one asked for (`Shown`), that an installation alone on its charger finds
  its own file selected (`Chosen`). Events are handled in batches: an event moves
  an update only forward (`Follows`), a batch or a cancellation is a chain of
  such steps (`Lead`, `RecordLeads`, `CancelLeads`), and only then is each
  action looked at. That a settled update stays so is the same fact, for every
  step but a request and a notification (`OnlyAskRevives`).
- *Accounts*: verified users exist, which with the checked properties is
  inductive. The waiting requests need no invariant: every handler checks the
  row it changes, and that is what the theorem shows.
- *Ownership*: a session that has brought in a charger is consumed
  (`ClaimsConsume`), and what `_ensure_active_charger` leaves
  (`EnsureActiveRepairs`).

`CodesAreSingle` is proved and not model-checked: every method that issues a code
retires the earlier ones in the same transaction (`OneCodeEach`), and the other
invariants of `Accounts` need no more of it.

Model-checked only: liveness (`HandshakeEnds`, `KickEndsSession`, `CallEnds`,
`PendingSettles`), out of the prover's reach. Every other property of the passing
runs is stated by a theorem.

## 6. Not modelled

- Charger configuration: each operation is one call whose result is applied to
  the state found after it; nothing is decided on what was read before, so what
  can go wrong is in `OcppCalls`.
- Events to browsers: the wake-ups are identical and each makes the client read
  the whole state, so one dropped at a full queue changes nothing.
- Energy statistics: SQL aggregation over stored rows. That rows do not overlap
  is `EnergyCountedOnce`.
- Frame history and action log: bounded logs for display.
- The manifest of firmware files: a fixed set, its retrieval is I/O. Attribution
  of an event to the only connected or the primary charger.
- Unmanaged sessions (dead when an `AuthStore` is configured), refused
  handshakes, `OcppServer.stop`, the choice of a primary charger.
- Templates and rendering, request parsing, e-mail delivery, the demo simulator
  and account, the update check, OpenAPI, schema migrations, start-up scripts.
