-------------------------- MODULE ChargingSchedules --------------------------
(***************************************************************************)
(* The charging schedules of one charger: OcppCoordinator.async_save_,     *)
(* _set_.._enabled and _delete_charging_schedule, and the re-push at a     *)
(* daylight saving transition.  The portal keeps any number of schedules   *)
(* and enables at most one; the charger holds at most one charging profile.*)
(*                                                                         *)
(* A handler reads the schedules, awaits SetChargingProfile or             *)
(* ClearChargingProfile, then changes and persists the schedules as they   *)
(* are by then: two steps, with anything in between.  A change that needs  *)
(* no command is one step.  Every change is persisted in the step that     *)
(* makes it, so memory and database differ in one thing only: the flag     *)
(* dst_correction_pending, which is in the database alone.                 *)
(*                                                                         *)
(* Commands travel as CommandPromise says; the send lock and the socket    *)
(* keep their order, and the answers wake their callers in order.          *)
(* A refused call changes nothing and has no action.                       *)
(***************************************************************************)
EXTENDS Naturals, Sequences

CONSTANTS
  Task,     \* requests that wait for the charger, each made once
  Id,       \* schedule ids
  Content,  \* times, days and current of a schedule: what a profile is made of
  None      \* no schedule under an id, no profile

ASSUME ScheduleAssumption == None \notin Content

VARIABLES
  content,   \* charging_schedule: the schedule stored under each id
  enabled,   \* the ids whose schedule has enabled = True
  phase,     \* where each request stands
  op,        \* what it was asked, with the values it read before its await
  wire,      \* requests whose command is on its way to the charger
  replies,   \* <<request, answer>> on the way back
  profile,   \* the profile installed in the charger
  online,    \* the charger has a caller in _ocpp_callers
  believed,  \* _is_charge_point_online
  booted,    \* BootNotification seen on this connection
  dstFlag,   \* dst_correction_pending in the database
  repushDue, \* a re-push has been scheduled
  doubt,     \* history: a request has ended without an answer, and none has been
             \* accepted since with nothing left of it under way
  stale,     \* history: when the last acceptance was applied, what its request
             \* had read before the await no longer held
  owed       \* history: a transition found the charger offline, and no
             \* profile has been accepted since

schedVars == <<content, enabled>>
taskVars  == <<phase, op>>
netVars   == <<wire, replies, profile>>
connVars  == <<online, believed, booted>>
dstVars   == <<dstFlag, repushDue, owed>>
vars == <<content, enabled, phase, op, wire, replies, profile, online,
          believed, booted, dstFlag, repushDue, doubt, stale,
          owed>>

SetKind   == {"saveOn", "enable", "repush"}    \* send SetChargingProfile
ClearKind == {"saveOff", "disable", "delete"}  \* send ClearChargingProfile
Op == [kind : SetKind \union ClearKind, id : Id, content : Content]

TypeOK ==
  /\ content \in [Id -> Content \union {None}]
  /\ enabled \in SUBSET Id
  /\ phase \in [Task -> {"idle", "waiting", "done"}]
  /\ op \in [Task -> Op \union {None}]
  /\ \A t \in Task : phase[t] # "idle" => op[t] \in Op
  /\ wire \in Seq(Task)
  /\ replies \in Seq(Task \X BOOLEAN)
  /\ profile \in Content \union {None}
  /\ online \in BOOLEAN
  /\ believed \in BOOLEAN
  /\ booted \in BOOLEAN
  /\ dstFlag \in BOOLEAN
  /\ repushDue \in BOOLEAN
  /\ doubt \in BOOLEAN
  /\ stale \in BOOLEAN
  /\ owed \in BOOLEAN

-----------------------------------------------------------------------------
Stored  == {i \in Id : content[i] # None}
Waiting == {t \in Task : phase[t] = "waiting"}

\* _active_schedule_for_charge_point
IsActive(i) == i \in enabled /\ i \in Stored

\* What the portal shows as the charger's profile.
Shown == IF enabled = {} THEN None ELSE content[CHOOSE i \in enabled : TRUE]

\* _get_dst_correction_pending: a connected charger's state is in memory, and
\* _state_to_dict does not write the flag.
DstPending == ~online /\ dstFlag

\* The portal starts with any saved list the charger agrees with.
Init ==
  /\ content \in [Id -> Content \union {None}]
  /\ enabled \in {{}} \union {{i} : i \in Stored}
  /\ phase = [t \in Task |-> "idle"]
  /\ op = [t \in Task |-> None]
  /\ wire = <<>>
  /\ replies = <<>>
  /\ profile = Shown
  /\ online = FALSE
  /\ believed = FALSE
  /\ booted = FALSE
  /\ dstFlag = FALSE
  /\ repushDue = FALSE
  /\ doubt = FALSE
  /\ stale = FALSE
  /\ owed = FALSE

-----------------------------------------------------------------------------
(* Requests                                                                *)

\* Persisting a state rewrites its snapshot without the flag.
Persist == dstFlag' = FALSE

\* The request has read the schedules; its command goes out.
Send(t, kind, i, x) ==
  /\ phase[t] = "idle" /\ online
  /\ phase' = [phase EXCEPT ![t] = "waiting"]
  /\ op' = [op EXCEPT ![t] = [kind |-> kind, id |-> i, content |-> x]]
  /\ wire' = Append(wire, t)
  /\ UNCHANGED <<schedVars, replies, profile, connVars, doubt, stale>>

\* Save a schedule, new or under an existing id, as the active one.
SaveOn(t, i, x) ==
  /\ Send(t, "saveOn", i, x)
  /\ UNCHANGED dstVars

\* Save the active schedule as a disabled one.
SaveOff(t, i, x) ==
  /\ IsActive(i)
  /\ Send(t, "saveOff", i, x)
  /\ UNCHANGED dstVars

Enable(t, i) ==
  /\ i \in Stored
  /\ Send(t, "enable", i, content[i])
  /\ UNCHANGED dstVars

Disable(t, i) ==
  /\ IsActive(i)
  /\ Send(t, "disable", i, content[i])
  /\ UNCHANGED dstVars

Delete(t, i) ==
  /\ IsActive(i)
  /\ Send(t, "delete", i, content[i])
  /\ UNCHANGED dstVars

\* Mutant: a re-push does not look for an enabled schedule first.
RepushUnchecked(t) ==
  /\ repushDue
  /\ repushDue' = FALSE
  /\ \E i \in Id : Send(t, "repush", i, content[i])
  /\ UNCHANGED <<dstFlag, owed>>

\* _async_repush_schedule of the schedule enabled by then
Repush(t) ==
  /\ repushDue
  /\ repushDue' = FALSE
  /\ \E i \in enabled : IsActive(i) /\ Send(t, "repush", i, content[i])
  /\ UNCHANGED <<dstFlag, owed>>

\* Nothing to re-push, or nobody to push to.
RepushSkipped ==
  /\ repushDue
  /\ enabled = {} \/ ~online
  /\ repushDue' = FALSE
  /\ dstFlag' = (dstFlag /\ enabled # {})
  /\ UNCHANGED <<schedVars, taskVars, netVars, connVars, doubt, stale, owed>>

\* A change the charger need not know of: no command, no await.
Local ==
  /\ Persist
  /\ UNCHANGED <<taskVars, netVars, connVars, repushDue, owed, doubt, stale>>

SaveLocal(i, x) ==
  /\ i \notin enabled
  /\ content' = [content EXCEPT ![i] = x]
  /\ UNCHANGED enabled
  /\ Local

\* Mutant: an enabled schedule is deleted without telling the charger.
DeleteLocalAny(i) ==
  /\ i \in Stored
  /\ content' = [content EXCEPT ![i] = None]
  /\ enabled' = enabled \ {i}
  /\ Local

DeleteLocal(i) ==
  /\ i \in Stored /\ i \notin enabled
  /\ content' = [content EXCEPT ![i] = None]
  /\ UNCHANGED enabled
  /\ Local

\* Disabling what is not enabled only persists.
DisableLocal(i) ==
  /\ i \in Stored /\ i \notin enabled
  /\ UNCHANGED schedVars
  /\ Local

\* Mutant: a schedule is enabled beside the ones that already are.
EnabledAfterKeepsOthers(o) ==
  IF o.kind = "saveOn" THEN enabled \union {o.id}
  ELSE IF o.kind = "enable" THEN enabled \union ({o.id} \intersect Stored)
  ELSE IF o.kind \in ClearKind THEN enabled \ {o.id}
  ELSE enabled

\* Enabling a schedule disables the others; one deleted meanwhile is not there
\* to be enabled.
EnabledAfter(o) ==
  IF o.kind = "saveOn" THEN {o.id}
  ELSE IF o.kind = "enable" THEN {o.id} \intersect Stored
  ELSE IF o.kind \in ClearKind THEN enabled \ {o.id}
  ELSE enabled

ContentAfter(o) ==
  IF o.kind \in {"saveOn", "saveOff"}
  THEN [content EXCEPT ![o.id] = o.content]
  ELSE IF o.kind = "delete" THEN [content EXCEPT ![o.id] = None]
  ELSE content

\* What a handler does to the schedules once its command is accepted.
Apply(o) == content' = ContentAfter(o) /\ enabled' = EnabledAfter(o)

\* What a request read before its await still holds: a schedule it sends is the
\* one that is stored, the one it re-pushes is enabled, and the one it takes off
\* is the only one that may be.
StillHolds(o) ==
  /\ o.kind \in {"enable", "repush"} => content[o.id] = o.content
  /\ o.kind = "repush" => enabled = {o.id}
  /\ o.kind \in ClearKind => enabled \subseteq {o.id}

\* A command or an answer of a request that waits no more is under way.
Abandoned ==
  \/ \E n \in DOMAIN wire : wire[n] \notin Waiting
  \/ \E n \in DOMAIN replies : replies[n][1] \notin Waiting

\* The answer reaches its request.  A rejection, like every other failure,
\* raises before anything is changed.
Answered(t, ok) ==
  /\ phase[t] = "waiting"
  /\ replies # <<>> /\ Head(replies) = <<t, ok>>
  /\ replies' = Tail(replies)
  /\ phase' = [phase EXCEPT ![t] = "done"]
  /\ \/ /\ ok /\ Apply(op[t]) /\ Persist
        /\ doubt' = (doubt /\ Abandoned)
        /\ stale' = ~StillHolds(op[t])
     \/ ~ok /\ UNCHANGED <<schedVars, dstFlag, doubt, stale>>
  /\ UNCHANGED <<op, wire, profile, connVars, repushDue, owed>>

\* Mutant: a request that got no answer changes the schedules all the same.
FailsApplies(t) ==
  /\ phase[t] = "waiting"
  /\ Apply(op[t])
  /\ phase' = [phase EXCEPT ![t] = "done"]
  /\ doubt' = TRUE /\ UNCHANGED stale
  /\ UNCHANGED <<op, netVars, connVars, dstVars>>

\* Timeout, or the session ends: nobody knows what the charger did.
Fails(t) ==
  /\ phase[t] = "waiting"
  /\ phase' = [phase EXCEPT ![t] = "done"]
  /\ doubt' = TRUE /\ UNCHANGED stale
  /\ UNCHANGED <<schedVars, op, netVars, connVars, dstVars>>

\* An answer nobody waits for any more.
LateReply ==
  /\ replies # <<>> /\ phase[Head(replies)[1]] # "waiting"
  /\ replies' = Tail(replies)
  /\ UNCHANGED <<schedVars, taskVars, wire, profile, connVars,
                 dstVars, doubt, stale>>

-----------------------------------------------------------------------------
(* The charger and its connection                                          *)

ChargerHandles(ok) ==
  /\ wire # <<>>
  /\ LET o == op[Head(wire)]
     IN /\ profile' = IF ~ok THEN profile
                      ELSE IF o.kind \in SetKind THEN o.content ELSE None
        /\ owed' = (owed /\ ~(ok /\ o.kind \in SetKind))
  /\ replies' = Append(replies, <<Head(wire), ok>>)
  /\ wire' = Tail(wire)
  /\ UNCHANGED <<schedVars, taskVars, connVars, dstFlag, repushDue, doubt,
                 stale>>

\* async_connection_opened persists the state.
Open ==
  /\ ~online
  /\ online' = TRUE /\ believed' = TRUE /\ booted' = FALSE
  /\ Persist
  /\ UNCHANGED <<schedVars, taskVars, netVars, repushDue, owed, doubt,
                 stale>>

\* async_record_boot persists the state, then looks for a pending correction.
Boot ==
  /\ online
  /\ booted' = TRUE
  /\ Persist
  /\ repushDue' = (repushDue \/ DstPending)
  /\ UNCHANGED <<schedVars, taskVars, netVars, online, believed, owed,
                 doubt, stale>>

Disconnect ==
  /\ online
  /\ online' = FALSE /\ believed' = FALSE /\ booted' = FALSE
  /\ wire' = <<>> /\ replies' = <<>>
  /\ Persist
  /\ UNCHANGED <<schedVars, taskVars, profile, repushDue, owed,
                 doubt, stale>>

\* The process dies; the snapshot still says what it said.
Crash ==
  /\ phase' = [t \in Task |-> IF phase[t] = "waiting" THEN "done" ELSE phase[t]]
  /\ wire' = <<>> /\ replies' = <<>>
  /\ online' = FALSE /\ booted' = FALSE
  /\ repushDue' = FALSE
  /\ doubt' = (doubt \/ Waiting # {})
  /\ UNCHANGED <<schedVars, op, profile, believed, dstFlag, stale, owed>>

\* async_dst_correction and async_force_repush_all_schedules, for this charger
DstCorrection ==
  /\ enabled # {}
  /\ \/ believed /\ repushDue' = TRUE /\ UNCHANGED dstFlag
     \/ ~believed /\ dstFlag' = TRUE /\ UNCHANGED repushDue
  /\ owed' = (owed \/ ~online)
  /\ UNCHANGED <<schedVars, taskVars, netVars, connVars, doubt, stale>>

-----------------------------------------------------------------------------
RequestNext(t) ==
  \/ \E i \in Id, x \in Content : SaveOn(t, i, x) \/ SaveOff(t, i, x)
  \/ \E i \in Id : Enable(t, i) \/ Disable(t, i) \/ Delete(t, i)
  \/ Repush(t)
  \/ \E ok \in BOOLEAN : Answered(t, ok)
  \/ Fails(t)

Next ==
  \/ \E t \in Task : RequestNext(t)
  \/ \E i \in Id, x \in Content : SaveLocal(i, x)
  \/ \E i \in Id : DeleteLocal(i) \/ DisableLocal(i)
  \/ LateReply \/ RepushSkipped
  \/ \E ok \in BOOLEAN : ChargerHandles(ok)
  \/ Open \/ Boot \/ Disconnect \/ Crash \/ DstCorrection

Spec == Init /\ [][Next]_vars

-----------------------------------------------------------------------------
(* Properties                                                              *)

\* At most one schedule is enabled, and it exists, however requests overlap.
OneEnabled ==
  \A i \in enabled : i \in Stored /\ enabled = {i}

\* When nothing is under way, the charger holds exactly the profile the portal
\* shows, however requests overlapped: provided that what the last accepted one
\* had read still held when it was applied, and that none has gone unanswered
\* since the last acceptance.
ProfileMatchesPortal ==
  Waiting = {} /\ ~doubt /\ ~stale => profile = Shown

\* "Charging windows sent to the charger": the same whatever a request had read,
\* as long as every request was answered.
\* Not kept by the code: counterexample by EnabledIsSent.cfg.
EnabledIsSent ==
  Waiting = {} /\ ~doubt => profile = Shown

\* What is shown as active changes only in a step that ends a request the
\* charger has just accepted: no failure, timeout, crash or restart, and no
\* change made without a command, alters it.
ActiveChangesOnAccept ==
  [][Shown' # Shown =>
       \E t \in Task : /\ phase[t] = "waiting" /\ phase'[t] = "done"
                       /\ replies # <<>> /\ Head(replies) = <<t, TRUE>>]_vars

\* "Chargers that are offline at the transition receive the correction on next
\* reconnect" (README.md:271): a boot after such a transition schedules it.
OfflineGetsCorrection ==
  [][owed /\ enabled # {} /\ ~booted /\ booted' => repushDue']_vars

\* "Offline chargers are flagged": a correction that finds no charger connected
\* leaves the flag.
\* Not kept by the code: counterexample by OfflineIsFlagged.cfg.
OfflineIsFlagged ==
  [][DstCorrection /\ ~online => dstFlag']_vars
=============================================================================
