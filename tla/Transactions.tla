---------------------------- MODULE Transactions ----------------------------
(***************************************************************************)
(* One charger's transactions: what the server remembers of them, what it  *)
(* persists, the rows it keeps of charging sessions, and Plug and Go.      *)
(*                                                                         *)
(* The charger is external: it sends its messages in order, one at a time, *)
(* and sends a message again when the connection ends before the reply.    *)
(* The handlers have no await between their steps, so each is one action;  *)
(* the process may still die between the snapshot and the session row.     *)
(* Energies are register readings; a transaction is named by its number n, *)
(* which also orders the start times the charger reports.                  *)
(***************************************************************************)
EXTENDS Integers, Sequences, FiniteSets, SequencesExt, FiniteSetsExt

CONSTANTS None,       \* no value
          MaxTx,      \* transactions the charger makes
          MaxMeter,   \* highest register reading
          MaxOutbox,  \* messages the charger holds
          MaxFaults,  \* lost replies, lost connections and process deaths
          MaxToggles  \* times the owner changes the Plug and Go setting

ASSUME BoundsAssumption ==
  /\ {MaxTx, MaxMeter, MaxOutbox, MaxFaults, MaxToggles} \subseteq Nat
  /\ None \notin Nat /\ None \notin BOOLEAN

VARIABLES
  car,        \* charger: [plugged, status, n, charging, meter]
  ids,        \* charger: transaction n -> the id the server answered with
  outbox,     \* charger: messages not yet answered, oldest first
  up,         \* the WebSocket is open
  mem,        \* server: the live ChargerState
  disk,       \* server: the persisted snapshot
  counter,    \* server: next value of _tx_counter
  tasks,      \* server: running _async_handle_plug_and_go_start tasks
  rows,       \* database: charging_sessions
  faults, toggles,    \* bounds
  heard,      \* history: the transaction of the last StartTransaction handled
  restopped,  \* history: some StopTransaction was handled twice
  orphan      \* history: the pending flag was read back from disk

vars == <<car, ids, outbox, up, mem, disk, counter, tasks, rows, faults,
          toggles, heard, restopped, orphan>>
charger == <<car, ids>>
history == <<heard, restopped, orphan>>

Status == {"Available", "Preparing", "Charging", "SuspendedEV", "Finishing"}
Tx == 1 .. MaxTx
Reading == 0 .. MaxMeter
OrNone(S) == S \union {None}

Message == [type : {"status"}, status : Status]
     \union [type : {"start", "stop", "meter"}, n : OrNone(Tx), meter : Reading]
State == [status : OrNone(Status), plugged : OrNone(BOOLEAN), txId : OrNone(Nat),
          active : BOOLEAN, ended : BOOLEAN, meterStart : OrNone(Reading),
          session : OrNone(Int), total : OrNone(Reading), png : BOOLEAN, pending : BOOLEAN]
Row == [n : Tx, from : Reading, to : OrNone(Reading)]

TypeOK ==
  /\ car \in [plugged : BOOLEAN, status : Status, n : 0 .. MaxTx,
              charging : BOOLEAN, meter : Reading]
  /\ ids \in [Tx -> OrNone(Nat)]
  /\ outbox \in Seq(Message)
  /\ up \in BOOLEAN
  /\ mem \in State /\ disk \in State
  /\ counter \in Nat /\ tasks \in Nat /\ faults \in Nat /\ toggles \in Nat
  /\ rows \in Seq(Row)
  /\ heard \in [n : 0 .. MaxTx, from : Reading, to : OrNone(Reading)]
  /\ restopped \in BOOLEAN /\ orphan \in BOOLEAN

Plugged(status) ==
  IF status = None THEN None
  ELSE status \in {"Preparing", "Charging", "SuspendedEV", "Finishing"}
Charging(status) == status = "Charging"

\* The part of the state the snapshot keeps; meterStart is not in it, and
\* transaction_active is recomputed from the status when it is read.
Snapshot(m) == [m EXCEPT !.meterStart = None, !.active = Charging(m.status)]

\* async_connection_opened saves the live state with the status of the registry
\* entry it has just made, which has none yet.
OpenedSnapshot(d) == [d EXCEPT !.status = None, !.plugged = None, !.active = FALSE]

New == [status |-> None, plugged |-> None, txId |-> None, active |-> FALSE,
        ended |-> FALSE, meterStart |-> None, session |-> None, total |-> None,
        png |-> FALSE, pending |-> FALSE]

Init ==
  /\ car = [plugged |-> FALSE, status |-> "Available", n |-> 0,
            charging |-> FALSE, meter |-> 0]
  /\ ids = [n \in Tx |-> None]
  /\ outbox = << >> /\ up = FALSE
  /\ mem = New /\ disk = New /\ counter = 1 /\ tasks = 0 /\ rows = << >>
  /\ faults = 0 /\ toggles = 0
  /\ heard = [n |-> 0, from |-> 0, to |-> 0] /\ restopped = FALSE /\ orphan = FALSE

-----------------------------------------------------------------------------
(* The charger *)

StatusMsg(s) == [type |-> "status", status |-> s]
Posted(msgs) == /\ Len(outbox) + Len(msgs) <= MaxOutbox
                /\ outbox' = outbox \o msgs

server == <<mem, disk, counter, tasks, rows>>

CarStatus(s, plugged) ==
  /\ car' = [car EXCEPT !.status = s, !.plugged = plugged]
  /\ Posted(<<StatusMsg(s)>>)
  /\ UNCHANGED <<ids, up, server, faults, toggles, history>>

PlugIn == ~car.plugged /\ CarStatus("Preparing", TRUE)
Unplug == car.plugged /\ ~car.charging /\ CarStatus("Available", FALSE)
Suspend == car.charging /\ car.status = "Charging" /\ CarStatus("SuspendedEV", TRUE)
Resume == car.charging /\ car.status = "SuspendedEV" /\ CarStatus("Charging", TRUE)

\* A driver, the portal or Plug and Go starts it; chargers differ in which of
\* the two messages they send first.
BeginCharging ==
  /\ car.status = "Preparing" /\ car.n < MaxTx
  /\ car' = [car EXCEPT !.status = "Charging", !.charging = TRUE, !.n = @ + 1]
  /\ LET start == [type |-> "start", n |-> car.n + 1, meter |-> car.meter]
     IN  \/ Posted(<<start, StatusMsg("Charging")>>)
         \/ Posted(<<StatusMsg("Charging"), start>>)
  /\ UNCHANGED <<ids, up, server, faults, toggles, history>>

EndCharging ==
  /\ car.charging
  /\ car' = [car EXCEPT !.status = "Finishing", !.charging = FALSE]
  /\ LET stop == [type |-> "stop", n |-> car.n, meter |-> car.meter]
     IN  \/ Posted(<<stop, StatusMsg("Finishing")>>)
         \/ Posted(<<StatusMsg("Finishing"), stop>>)
  /\ UNCHANGED <<ids, up, server, faults, toggles, history>>

\* The register advances only while energy flows; the periodic MeterValues
\* carry the transaction id inside a transaction.
Consume ==
  /\ car.charging /\ car.status = "Charging" /\ car.meter < MaxMeter
  /\ car' = [car EXCEPT !.meter = @ + 1]
  /\ Posted(<<[type |-> "meter", n |-> car.n, meter |-> car.meter + 1]>>)
  /\ UNCHANGED <<ids, up, server, faults, toggles, history>>

IdleReading ==
  /\ ~car.charging
  /\ Posted(<<[type |-> "meter", n |-> None, meter |-> car.meter]>>)
  /\ UNCHANGED <<charger, up, server, faults, toggles, history>>

-----------------------------------------------------------------------------
(* The connection and the process *)

\* What is left of the messages q without the status notifications, in order.
Kept(q) == {i \in DOMAIN q : q[i].type # "status"}
Place(q, i) == Cardinality({j \in Kept(q) : j <= i})
Nth(q, k) == CHOOSE i \in Kept(q) : Place(q, i) = k
Resent(q) == [k \in 1 .. Cardinality(Kept(q)) |-> q[Nth(q, k)]]

\* A reconnecting charger keeps its transaction messages and reports its
\* status afresh.
ConnectionOpened ==
  /\ ~up /\ up' = TRUE
  /\ outbox' = Append(Resent(outbox), StatusMsg(car.status))
  /\ disk' = OpenedSnapshot(Snapshot(mem))
  /\ UNCHANGED <<charger, mem, counter, tasks, rows, faults, toggles, history>>

ConnectionClosed ==
  /\ up /\ faults < MaxFaults
  /\ up' = FALSE /\ faults' = faults + 1
  /\ disk' = Snapshot(mem)
  /\ UNCHANGED <<charger, outbox, mem, counter, tasks, rows, toggles, history>>

Heartbeat ==
  /\ up /\ disk' = Snapshot(mem)
  /\ UNCHANGED <<charger, outbox, up, mem, counter, tasks, rows, faults, toggles, history>>

\* The process dies and starts again, having persisted d.
Restart(d) ==
  /\ faults < MaxFaults /\ faults' = faults + 1
  /\ disk' = d /\ mem' = d
  /\ up' = FALSE /\ counter' = 1 /\ tasks' = 0
  /\ orphan' = d.pending

Crash ==
  /\ Restart(disk)
  /\ UNCHANGED <<charger, outbox, rows, toggles, heard, restopped>>

\* The reply to the first message arrives, or the connection ends first.
Replied ==
  \/ /\ outbox' = Tail(outbox)
     /\ UNCHANGED <<up, faults>>
  \/ /\ faults < MaxFaults /\ faults' = faults + 1
     /\ up' = FALSE /\ UNCHANGED outbox

Receives(type) == up /\ outbox # << >> /\ Head(outbox).type = type
Msg == Head(outbox)
Answered == outbox' # outbox

-----------------------------------------------------------------------------
(* The handlers *)

\* Only a change from known-unplugged to plugged counts as plugging in.
PlugEdge(m, status) ==
  m.png /\ m.plugged = FALSE /\ Plugged(status) = TRUE /\ ~Charging(status) /\ ~m.pending

OnStatus(m, status) ==
  [m EXCEPT !.status = status, !.plugged = Plugged(status), !.active = Charging(status),
            !.pending = @ \/ PlugEdge(m, status)]

RecordStatus ==
  /\ Receives("status")
  /\ mem' = OnStatus(mem, Msg.status)
  /\ disk' = Snapshot(mem')
  /\ tasks' = IF PlugEdge(mem, Msg.status) THEN tasks + 1 ELSE tasks
  /\ orphan' = (orphan /\ mem'.pending)
  /\ Replied
  /\ UNCHANGED <<charger, counter, rows, toggles, heard, restopped>>

\* Mutant: the energy of the previous session is kept.
OnStart_KeepsSession(m, id, meter) ==
  [m EXCEPT !.txId = id, !.ended = FALSE, !.active = Charging(m.status), !.pending = FALSE,
            !.meterStart = meter]

\* Mutant: an id already known is kept.
OnStart_KeepsId(m, id, meter) ==
  [m EXCEPT !.txId = IF m.txId = None THEN id ELSE @, !.ended = FALSE,
            !.active = Charging(m.status), !.pending = FALSE,
            !.meterStart = meter, !.session = None]

OnStart(m, id, meter) ==
  [m EXCEPT !.txId = id, !.ended = FALSE, !.active = Charging(m.status), !.pending = FALSE,
            !.meterStart = meter, !.session = None]

\* The part of async_start_transaction_from_charger up to the snapshot.
StartPersisted == OnStart(mem, counter, Msg.meter)

\* One more row for every StartTransaction handled, a repeated one too.
Inserted == Append(rows, [n |-> Msg.n, from |-> Msg.meter, to |-> None])

StartTransaction ==
  /\ Receives("start")
  /\ mem' = StartPersisted /\ disk' = Snapshot(mem')
  /\ counter' = counter + 1
  /\ rows' = Inserted
  /\ heard' = [n |-> Msg.n, from |-> Msg.meter, to |-> None]
  /\ orphan' = FALSE
  /\ Replied
  /\ ids' = IF Answered THEN [ids EXCEPT ![Msg.n] = counter] ELSE ids
  /\ UNCHANGED <<car, tasks, toggles, restopped>>

StartInterrupted ==
  /\ Receives("start")
  /\ Restart(Snapshot(StartPersisted))
  /\ heard' = [n |-> Msg.n, from |-> Msg.meter, to |-> None]
  /\ UNCHANGED <<charger, outbox, rows, toggles, restopped>>

OnStop(m, id, meter) ==
  [m EXCEPT !.total = meter,
            !.session = IF m.meterStart = None THEN @ ELSE meter - m.meterStart,
            !.active = FALSE, !.txId = id, !.pending = FALSE, !.ended = TRUE]

\* The open row that started last is closed, whatever transaction the message
\* names: any one of them when several started then.
OpenRows == {i \in DOMAIN rows : rows[i].to = None}
\* Mutant: the open row that started first is closed.
LastOpened_Mutant == {i \in OpenRows : \A j \in OpenRows : rows[i].n <= rows[j].n}

LastOpened == {i \in OpenRows : \A j \in OpenRows : rows[j].n <= rows[i].n}

\* Mutant: nothing is closed when the open row is not unique.
CloseRow_Mutant(meter) ==
  IF Cardinality(LastOpened) # 1 THEN UNCHANGED rows
  ELSE \E i \in LastOpened : rows' = [rows EXCEPT ![i].to = meter]

CloseRow(meter) ==
  IF LastOpened = {} THEN UNCHANGED rows
  ELSE \E i \in LastOpened : rows' = [rows EXCEPT ![i].to = meter]

StopPersisted == OnStop(mem, ids[Msg.n], Msg.meter)

StopTransaction ==
  /\ Receives("stop")
  /\ mem' = StopPersisted /\ disk' = Snapshot(mem')
  /\ CloseRow(Msg.meter)
  /\ heard' = [heard EXCEPT !.to = Msg.meter]
  /\ restopped' = (restopped \/ \E i \in DOMAIN rows : rows[i].n = Msg.n /\ rows[i].to # None)
  /\ orphan' = FALSE
  /\ Replied
  /\ UNCHANGED <<charger, counter, tasks, toggles>>

StopInterrupted ==
  /\ Receives("stop")
  /\ Restart(Snapshot(StopPersisted))
  /\ heard' = [heard EXCEPT !.to = Msg.meter]
  /\ UNCHANGED <<charger, outbox, rows, toggles, restopped>>

\* MeterValues inside a transaction restore it after a restart.
Restored(m, id) ==
  IF id = None THEN m
  ELSE [m EXCEPT !.txId = id, !.ended = FALSE, !.active = Charging(m.status)]

\* Mutant: a reading in kWh is converted to Wh twice.
Measured_Mutant(m, meter) ==
  [m EXCEPT !.total = meter * 1000,
            !.meterStart = IF m.active /\ @ = None /\ meter > 0 THEN meter ELSE @]

Measured(m, meter) ==
  [m EXCEPT !.total = meter,
            !.meterStart = IF m.active /\ @ = None /\ meter > 0 THEN meter ELSE @,
            !.session = IF m.meterStart # None
                        THEN IF meter >= m.meterStart THEN meter - m.meterStart ELSE @
                        ELSE IF m.active /\ meter > 0 THEN 0 ELSE @]

MeterValues ==
  /\ Receives("meter")
  /\ LET id == IF Msg.n = None THEN None ELSE ids[Msg.n]
     IN  mem' = Measured(Restored(mem, id), Msg.meter)
  /\ disk' = IF mem'.total # mem.total THEN Snapshot(mem') ELSE disk
  /\ Replied
  /\ UNCHANGED <<charger, counter, tasks, rows, toggles, history>>

-----------------------------------------------------------------------------
(* Plug and Go *)

\* Mutant: an error leaves the flag set.
PlugAndGoEnds_Mutant ==
  /\ tasks > 0 /\ tasks' = tasks - 1
  /\ mem' \in {mem, [mem EXCEPT !.pending = FALSE]} /\ disk' = Snapshot(mem')
  /\ orphan' = FALSE
  /\ UNCHANGED <<charger, outbox, up, counter, rows, faults, toggles, heard, restopped>>

\* The remote start was answered, refused, or failed: the flag is cleared.
PlugAndGoEnds ==
  /\ tasks > 0 /\ tasks' = tasks - 1
  /\ mem' = [mem EXCEPT !.pending = FALSE] /\ disk' = Snapshot(mem')
  /\ orphan' = FALSE
  /\ UNCHANGED <<charger, outbox, up, counter, rows, faults, toggles, heard, restopped>>

SetPlugAndGo(enabled) ==
  /\ toggles < MaxToggles /\ toggles' = toggles + 1
  /\ mem' = [mem EXCEPT !.png = enabled, !.pending = @ /\ enabled]
  /\ disk' = Snapshot(mem')
  /\ orphan' = (orphan /\ enabled)
  /\ UNCHANGED <<charger, outbox, up, counter, tasks, rows, faults, heard, restopped>>

Next ==
  \/ PlugIn \/ Unplug \/ Suspend \/ Resume \/ BeginCharging \/ EndCharging
  \/ Consume \/ IdleReading
  \/ ConnectionOpened \/ ConnectionClosed \/ Heartbeat \/ Crash
  \/ RecordStatus \/ StartTransaction \/ StartInterrupted
  \/ StopTransaction \/ StopInterrupted \/ MeterValues
  \/ PlugAndGoEnds \/ \E enabled \in BOOLEAN : SetPlugAndGo(enabled)

\* Every call of the server to a charger is answered or times out.
Spec == Init /\ [][Next]_vars /\ WF_vars(PlugAndGoEnds)

-----------------------------------------------------------------------------
(* What the portal does with this state *)

\* has_open_transaction
Open == mem.txId # None /\ ~mem.ended

\* api_toggle_charging: stop, start or refuse.
Toggle ==
  IF mem.status \in {"Available", "Preparing"} THEN "start"
  ELSE IF mem.status \in {"Charging", "SuspendedEV"} \/ Open THEN "stop"
  ELSE "refuse"

-----------------------------------------------------------------------------
(* Properties *)

\* The server has answered everything the charger had to say.
Quiet == up /\ outbox = << >>

\* "Whether a StartTransaction has been seen without a matching StopTransaction":
\* once the charger's messages are answered, has_open_transaction is right, and
\* the id a remote stop would name is the one the charger was given, whatever
\* replies were lost and however often the server restarted and counted its ids
\* from one again, and the portal's one button stops what runs and nothing else
\* (coordinator.has_open_transaction, async_stop_charging, main.api_toggle_charging).
OpenAgrees ==
  Quiet /\ car.n > 0 =>
    /\ Open <=> car.charging
    /\ car.charging => mem.txId = ids[car.n]
    /\ Toggle = "stop" <=> car.charging

\* A transaction whose stop was answered has a closed row, with its energy
\* (auth_store.record_session_stop), though the stop names no row.
EveryStopRecorded ==
  Quiet => \A n \in 1 .. car.n :
    (n = car.n /\ car.charging) \/ \E i \in DOMAIN rows : rows[i].n = n /\ rows[i].to # None

\* Unless a stop was handled twice, no transaction's energy is in two closed
\* rows, and the rows' intervals do not overlap: the energy statistics count
\* every unit once, also when starts were repeated.
EnergyCountedOnce ==
  restopped \/
  \A i, j \in DOMAIN rows :
    i # j /\ rows[i].to # None /\ rows[j].to # None =>
      rows[i].n # rows[j].n /\ (rows[i].n < rows[j].n => rows[i].to <= rows[j].from)

\* "Session history - per-session kWh, meter start/stop" (README.md:40): one
\* session is not two closed rows, however often its messages were sent.
\* Not kept by the code: counterexample by OneRowPerSession.cfg.
OneRowPerSession ==
  \A i, j \in DOMAIN rows :
    i # j /\ rows[i].to # None /\ rows[j].to # None => rows[i].n # rows[j].n

\* The session energy shown never exceeds what the transaction consumed, though
\* its first reading is forgotten by a restart and guessed from a later one.
SessionNeverOverstated ==
  mem.session # None =>
    /\ mem.session >= 0
    /\ mem.session <= (IF heard.to = None THEN car.meter ELSE heard.to) - heard.from

\* "Start charging after a real unplugged -> plugged status edge": whenever a car
\* is plugged in under Plug and Go, a start is under way afterwards.
\* Not kept by the code: counterexample by PlugInStarts.cfg.
PlugInStarts == [][
  RecordStatus /\ mem.png /\ mem.plugged = FALSE /\ Plugged(Msg.status) = TRUE /\ ~Charging(Msg.status)
    => tasks' > 0]_vars

\* The flag a running task set is cleared again.
PendingSettles == (mem.pending /\ ~orphan) ~> (~mem.pending \/ orphan)
=============================================================================
