----------------------- MODULE ChargingSchedules_proofs -----------------------
(***************************************************************************)
(* Proofs about ChargingSchedules, for any tasks, ids and contents, and,   *)
(* from the section on loops on, about the profile SchedulePeriods makes of*)
(* a schedule, for any week, any length of the day, any zone and any limit.*)
(* A profile is computed by loops (FoldLeft), so that part goes loop by    *)
(* loop: what one round does, then what all rounds have done.              *)
(***************************************************************************)
EXTENDS ChargingSchedules, SchedulePeriods, FiniteSets, FiniteSetTheorems,
        WellFoundedInduction, TLAPS

\* Queues of requests and of answers keep their type.
LEMMA QueueTypes ==
  ASSUME NEW S, NEW q \in Seq(S)
  PROVE  /\ <<>> \in Seq(S)
         /\ \A e \in S : Append(q, e) \in Seq(S)
         /\ q # <<>> => (Head(q) \in S /\ Tail(q) \in Seq(S))
  OBVIOUS

\* A command on the wire belongs to a request that has been made.
WireStarted == \A n \in 1..Len(wire) : phase[wire[n]] # "idle"

IInv == TypeOK /\ OneEnabled /\ WireStarted

LEMMA Initial == Init => IInv
<1> SUFFICES ASSUME Init PROVE IInv
  OBVIOUS
<1>1. OneEnabled
  BY DEF Init, OneEnabled, Stored
<1>2. enabled \in SUBSET Id
  BY DEF Init, Stored
<1>3. profile \in Content \union {None}
  <2>1. CASE enabled = {}
    BY <2>1 DEF Init, Shown
  <2>2. CASE enabled # {}
    <3>1. (CHOOSE i \in enabled : TRUE) \in Id
      BY <1>2, <2>2
    <3> QED BY <2>2, <3>1 DEF Init, Shown
  <2> QED BY <2>1, <2>2
<1>4. wire \in Seq(Task) /\ replies \in Seq(Task \X BOOLEAN)
  BY QueueTypes DEF Init
<1>5. op \in [Task -> Op \union {None}]
  BY DEF Init
<1>6. TypeOK
  BY <1>2, <1>3, <1>4, <1>5 DEF Init, TypeOK
<1>7. WireStarted
  BY DEF Init, WireStarted
<1> QED BY <1>1, <1>6, <1>7 DEF IInv

\* An accepted command leaves the schedules well typed, at most one enabled.
LEMMA ApplySafe ==
  ASSUME IInv, NEW o \in Op, Apply(o)
  PROVE  /\ content' \in [Id -> Content \union {None}]
         /\ enabled' \in SUBSET Id
         /\ OneEnabled'
<1> USE ScheduleAssumption DEF IInv, TypeOK, OneEnabled, Apply, ContentAfter,
        EnabledAfter, Stored, Op
<1>1. CASE o.kind = "saveOn"
  BY <1>1
<1>2. CASE o.kind = "saveOff"
  BY <1>2 DEF ClearKind
<1>3. CASE o.kind = "enable"
  BY <1>3
<1>4. CASE o.kind = "disable"
  BY <1>4 DEF ClearKind
<1>5. CASE o.kind = "delete"
  BY <1>5 DEF ClearKind
<1>6. CASE o.kind = "repush"
  BY <1>6
<1> QED BY <1>1, <1>2, <1>3, <1>4, <1>5, <1>6 DEF SetKind, ClearKind

LEMMA SendSafe ==
  ASSUME IInv, NEW t \in Task, NEW kind \in SetKind \union ClearKind,
         NEW i \in Id, NEW x \in Content, Send(t, kind, i, x),
         repushDue' \in BOOLEAN, UNCHANGED <<dstFlag, owed>>
  PROVE  IInv'
<1> USE DEF IInv, TypeOK, Send, connVars, schedVars
<1>1. wire' \in Seq(Task)
  BY QueueTypes
<1>2. \A u \in Task : phase'[u] # "idle" => op'[u] \in Op
  <2> SUFFICES ASSUME NEW u \in Task, phase'[u] # "idle" PROVE op'[u] \in Op
    OBVIOUS
  <2>1. [kind |-> kind, id |-> i, content |-> x] \in Op
    BY DEF Op
  <2>2. CASE u = t
    <3> QED BY <2>1, <2>2
  <2> QED BY <2>2
<1>3. OneEnabled'
  BY DEF OneEnabled, Stored
<1>4. WireStarted'
  <2> SUFFICES ASSUME NEW n \in 1..Len(wire') PROVE phase'[wire'[n]] # "idle"
    BY DEF WireStarted
  <2>1. CASE n = Len(wire) + 1
    BY <2>1
  <2>2. CASE n \in 1..Len(wire)
    BY <2>2 DEF WireStarted
  <2> QED BY <2>1, <2>2
<1> QED BY <1>1, <1>2, <1>3, <1>4

\* Steps of one request.
LEMMA RequestStep ==
  ASSUME IInv, NEW t \in Task, RequestNext(t)
  PROVE  IInv'
<1>1. ASSUME NEW i \in Id, NEW x \in Content, SaveOn(t, i, x) PROVE IInv'
  BY <1>1, SendSafe DEF SaveOn, dstVars, SetKind, IInv, TypeOK
<1>2. ASSUME NEW i \in Id, NEW x \in Content, SaveOff(t, i, x) PROVE IInv'
  BY <1>2, SendSafe DEF SaveOff, dstVars, ClearKind, IInv, TypeOK
<1>3. ASSUME NEW i \in Id, Enable(t, i) PROVE IInv'
  <2>1. content[i] \in Content
    BY <1>3 DEF Enable, Stored, IInv, TypeOK
  <2> QED BY <1>3, <2>1, SendSafe DEF Enable, dstVars, SetKind, IInv, TypeOK
<1>4. ASSUME NEW i \in Id, Disable(t, i) PROVE IInv'
  <2>1. content[i] \in Content
    BY <1>4 DEF Disable, IsActive, Stored, IInv, TypeOK
  <2> QED BY <1>4, <2>1, SendSafe DEF Disable, dstVars, ClearKind, IInv, TypeOK
<1>5. ASSUME NEW i \in Id, Delete(t, i) PROVE IInv'
  <2>1. content[i] \in Content
    BY <1>5 DEF Delete, IsActive, Stored, IInv, TypeOK
  <2> QED BY <1>5, <2>1, SendSafe DEF Delete, dstVars, ClearKind, IInv, TypeOK
<1>6. CASE Repush(t)
  <2>1. PICK i \in enabled : IsActive(i) /\ Send(t, "repush", i, content[i])
    BY <1>6 DEF Repush
  <2>2. i \in Id /\ content[i] \in Content
    BY <2>1 DEF IsActive, Stored, IInv, TypeOK
  <2> QED BY <1>6, <2>1, <2>2, SendSafe DEF Repush, SetKind
<1>7. ASSUME NEW ok \in BOOLEAN, Answered(t, ok) PROVE IInv'
  <2> USE <1>7 DEF Answered
  <2>1. op[t] \in Op
    BY DEF IInv, TypeOK
  <2>2. /\ content' \in [Id -> Content \union {None}]
        /\ enabled' \in SUBSET Id
        /\ OneEnabled'
        /\ dstFlag' \in BOOLEAN
        /\ doubt' \in BOOLEAN
        /\ stale' \in BOOLEAN
    <3>1. CASE ok
      <4>1. Apply(op[t]) /\ dstFlag' = FALSE
        BY <3>1 DEF Persist
      <4>2. (doubt /\ Abandoned) \in BOOLEAN /\ (~StillHolds(op[t])) \in BOOLEAN
        BY Zenon
      <4>3. doubt' = (doubt /\ Abandoned) /\ stale' = ~StillHolds(op[t])
        BY <3>1
      <4> QED BY <2>1, <4>1, <4>2, <4>3, ApplySafe
    <3>2. CASE ~ok
      BY <3>2 DEF IInv, TypeOK, OneEnabled, Stored, schedVars
    <3> QED BY <3>1, <3>2
  <2>3. replies' \in Seq(Task \X BOOLEAN)
    BY QueueTypes DEF IInv, TypeOK
  <2>4. phase' \in [Task -> {"idle", "waiting", "done"}]
    BY DEF IInv, TypeOK
  <2>5. \A u \in Task : phase'[u] # "idle" => op'[u] \in Op
    BY DEF IInv, TypeOK
  <2>6. WireStarted'
    BY DEF IInv, TypeOK, WireStarted
  <2> QED BY <2>2, <2>3, <2>4, <2>5, <2>6 DEF IInv, TypeOK, connVars
<1>8. CASE Fails(t)
  <2>1. OneEnabled'
    BY <1>8 DEF Fails, IInv, OneEnabled, Stored, schedVars
  <2>2. WireStarted'
    BY <1>8 DEF Fails, IInv, TypeOK, WireStarted, netVars
  <2> QED BY <1>8, <2>1, <2>2
          DEF Fails, IInv, TypeOK, schedVars, netVars, connVars, dstVars
<1> QED BY <1>1, <1>2, <1>3, <1>4, <1>5, <1>6, <1>7, <1>8 DEF RequestNext

\* Changes that send no command.
LEMMA LocalStep ==
  ASSUME IInv, NEW i \in Id,
         \/ \E x \in Content : SaveLocal(i, x)
         \/ DeleteLocal(i)
         \/ DisableLocal(i)
  PROVE  IInv'
<1> USE DEF IInv, TypeOK, Local, Persist, taskVars, netVars, connVars
<1>1. ASSUME NEW x \in Content, SaveLocal(i, x) PROVE IInv'
  <2>1. OneEnabled'
    BY <1>1, ScheduleAssumption DEF SaveLocal, OneEnabled, Stored
  <2>2. WireStarted'
    BY <1>1 DEF SaveLocal, WireStarted
  <2> QED BY <1>1, <2>1, <2>2 DEF SaveLocal
<1>2. CASE DeleteLocal(i)
  <2>1. OneEnabled'
    BY <1>2 DEF DeleteLocal, OneEnabled, Stored
  <2>2. WireStarted'
    BY <1>2 DEF DeleteLocal, WireStarted
  <2> QED BY <1>2, <2>1, <2>2 DEF DeleteLocal
<1>3. CASE DisableLocal(i)
  <2>1. OneEnabled'
    BY <1>3 DEF DisableLocal, OneEnabled, Stored, schedVars
  <2>2. WireStarted'
    BY <1>3 DEF DisableLocal, WireStarted
  <2> QED BY <1>3, <2>1, <2>2 DEF DisableLocal, schedVars
<1> QED BY <1>1, <1>2, <1>3

\* The charger, its connection and the clock.  None of them touches the list
\* of schedules.
LEMMA OutsideStep ==
  ASSUME IInv,
         \/ LateReply \/ RepushSkipped
         \/ \E ok \in BOOLEAN : ChargerHandles(ok)
         \/ Open \/ Boot \/ Disconnect \/ Crash \/ DstCorrection
  PROVE  IInv'
<1> USE DEF IInv, TypeOK, schedVars, taskVars, netVars, connVars, dstVars,
            Persist
<1>0. UNCHANGED schedVars
  BY DEF LateReply, RepushSkipped, ChargerHandles, Open, Boot, Disconnect,
         Crash, DstCorrection
<1>1. OneEnabled'
  BY <1>0 DEF OneEnabled, Stored
<1>2. CASE LateReply
  <2>1. replies' \in Seq(Task \X BOOLEAN)
    BY <1>2, QueueTypes DEF LateReply
  <2>2. WireStarted'
    BY <1>2 DEF LateReply, WireStarted
  <2> QED BY <1>1, <1>2, <2>1, <2>2 DEF LateReply
<1>3. CASE RepushSkipped
  <2>1. WireStarted'
    BY <1>3 DEF RepushSkipped, WireStarted
  <2> QED BY <1>1, <1>3, <2>1 DEF RepushSkipped
<1>4. ASSUME NEW ok \in BOOLEAN, ChargerHandles(ok) PROVE IInv'
  <2> USE <1>4 DEF ChargerHandles
  <2> DEFINE u == Head(wire)
  <2>1. u \in Task /\ wire' \in Seq(Task)
    BY QueueTypes
  <2>2. u = wire[1] /\ 1 \in 1..Len(wire)
    OBVIOUS
  <2>3. op[u] \in Op
    BY <2>1, <2>2 DEF WireStarted
  <2>4. op[u].content \in Content
    BY <2>3 DEF Op
  <2>5. /\ profile' \in Content \union {None}
        /\ owed' \in BOOLEAN
    BY <2>4
  <2>6. <<u, ok>> \in Task \X BOOLEAN
    BY <2>1
  <2>7. replies' \in Seq(Task \X BOOLEAN)
    BY <2>6, QueueTypes
  <2>8. WireStarted'
    <3> SUFFICES ASSUME NEW n \in 1..Len(wire') PROVE phase'[wire'[n]] # "idle"
      BY DEF WireStarted
    <3>1. wire'[n] = wire[n + 1] /\ n + 1 \in 1..Len(wire)
      OBVIOUS
    <3> QED BY <3>1 DEF WireStarted
  <2> QED BY <1>1, <2>1, <2>5, <2>7, <2>8
<1>5. CASE Open \/ Boot
  <2>1. WireStarted'
    BY <1>5 DEF Open, Boot, WireStarted
  <2> QED BY <1>1, <1>5, <2>1 DEF Open, Boot, DstPending
<1>6. CASE Disconnect
  <2>1. wire' \in Seq(Task) /\ replies' \in Seq(Task \X BOOLEAN)
    BY <1>6, QueueTypes DEF Disconnect
  <2>2. WireStarted'
    BY <1>6 DEF Disconnect, WireStarted
  <2> QED BY <1>1, <1>6, <2>1, <2>2 DEF Disconnect
<1>7. CASE Crash
  <2>1. wire' \in Seq(Task) /\ replies' \in Seq(Task \X BOOLEAN)
    BY <1>7, QueueTypes DEF Crash
  <2>2. WireStarted'
    BY <1>7 DEF Crash, WireStarted
  <2>3. phase' \in [Task -> {"idle", "waiting", "done"}]
    BY <1>7 DEF Crash
  <2>4. \A u \in Task : phase'[u] # "idle" => op'[u] \in Op
    BY <1>7 DEF Crash
  <2> QED BY <1>1, <1>7, <2>1, <2>2, <2>3, <2>4 DEF Crash
<1>8. CASE DstCorrection
  <2>1. WireStarted'
    BY <1>8 DEF DstCorrection, WireStarted
  <2> QED BY <1>1, <1>8, <2>1 DEF DstCorrection
<1> QED BY <1>2, <1>3, <1>4, <1>5, <1>6, <1>7, <1>8

LEMMA Stutter == IInv /\ UNCHANGED vars => IInv'
  BY DEF vars, IInv, TypeOK, OneEnabled, Stored, WireStarted

LEMMA Inductive == IInv /\ [Next]_vars => IInv'
  BY RequestStep, LocalStep, OutsideStep, Stutter DEF Next

LEMMA Invariance == Spec => []IInv
  BY Initial, Inductive, PTL DEF Spec

\* Every variable keeps its type.
THEOREM SchedulesTypeCorrect == Spec => []TypeOK
<1>1. IInv => TypeOK
  BY DEF IInv
<1> QED BY <1>1, Invariance, PTL

\* Whatever overlaps, fails or is lost, no two schedules are enabled and the
\* enabled one has not been deleted.
THEOREM AtMostOneEnabled == Spec => []OneEnabled
<1>1. IInv => OneEnabled
  BY DEF IInv
<1> QED BY <1>1, Invariance, PTL

\* The active schedule changes only when a request ends with the charger's
\* acceptance.
THEOREM ActiveChanges == Spec => ActiveChangesOnAccept
<1> DEFINE Acknowledged ==
      \E t \in Task : /\ phase[t] = "waiting" /\ phase'[t] = "done"
                      /\ replies # <<>> /\ Head(replies) = <<t, TRUE>>
<1>1. ASSUME IInv, Next, ~Acknowledged PROVE Shown' = Shown
  <2>1. ASSUME NEW i \in Id,
               \/ \E x \in Content : SaveLocal(i, x)
               \/ DeleteLocal(i)
               \/ DisableLocal(i)
        PROVE  Shown' = Shown
    <3>1. enabled' = enabled /\ i \notin enabled
      BY <2>1 DEF SaveLocal, DeleteLocal, DisableLocal, schedVars
    <3>2. \A j \in Id : j # i => content'[j] = content[j]
      BY <2>1, <1>1 DEF SaveLocal, DeleteLocal, DisableLocal, schedVars, IInv,
                       TypeOK
    <3> DEFINE active == CHOOSE j \in enabled : TRUE
    <3>3. CASE enabled = {}
      BY <3>1, <3>3 DEF Shown
    <3>4. CASE enabled # {}
      <4>1. active \in enabled
        BY <3>4
      <4>2. active \in Id /\ active # i
        BY <4>1, <3>1, <1>1 DEF IInv, TypeOK
      <4>3. content'[active] = content[active]
        BY <4>2, <3>2
      <4>4. Shown = content[active]
        BY <3>4 DEF Shown
      <4>5. Shown' = content'[active]
        BY <3>4, <3>1 DEF Shown
      <4> QED BY <4>3, <4>4, <4>5
    <3> QED BY <3>3, <3>4
  <2>2. ASSUME NEW t \in Task, NEW ok \in BOOLEAN, Answered(t, ok)
        PROVE  Shown' = Shown
    <3>1. phase[t] = "waiting" /\ phase'[t] = "done"
      BY <2>2, <1>1 DEF Answered, IInv, TypeOK
    <3>2. ~ok
      BY <3>1, <2>2, <1>1 DEF Answered
    <3>3. UNCHANGED schedVars
      BY <3>2, <2>2 DEF Answered
    <3> QED BY <3>3 DEF Shown, schedVars
  <2>3. ASSUME NEW t \in Task, RequestNext(t), UNCHANGED schedVars
        PROVE  Shown' = Shown
    BY <2>3 DEF Shown, schedVars
  <2>4. ASSUME NEW t \in Task, RequestNext(t),
               ~\E ok \in BOOLEAN : Answered(t, ok)
        PROVE  UNCHANGED schedVars
    BY <2>4 DEF RequestNext, SaveOn, SaveOff, Enable, Disable, Delete, Repush,
                Send, Fails
  <2>5. ASSUME \/ LateReply \/ RepushSkipped
               \/ \E ok \in BOOLEAN : ChargerHandles(ok)
               \/ Open \/ Boot \/ Disconnect \/ Crash \/ DstCorrection
        PROVE  Shown' = Shown
    <3>1. UNCHANGED schedVars
      BY <2>5 DEF LateReply, RepushSkipped, ChargerHandles, Open, Boot,
                  Disconnect, Crash, DstCorrection, schedVars
    <3> QED BY <3>1 DEF Shown, schedVars
  <2> QED BY <1>1, <2>1, <2>2, <2>3, <2>4, <2>5 DEF Next
<1>2. UNCHANGED vars => Shown' = Shown
  BY DEF vars, Shown
<1>3. IInv /\ [Next]_vars => [Shown' # Shown => Acknowledged]_vars
  BY <1>1, <1>2
<1> QED BY <1>3, Invariance, PTL DEF Spec, ActiveChangesOnAccept

-----------------------------------------------------------------------------
(* Portal and charger *)

\* Each request's command is under way at most once, and was sent.
Distinct ==
  /\ \A m, n \in 1..Len(wire) : wire[m] = wire[n] => m = n
  /\ \A m, n \in 1..Len(replies) : replies[m][1] = replies[n][1] => m = n
  /\ \A m \in 1..Len(wire), n \in 1..Len(replies) : wire[m] # replies[n][1]

RepliesStarted == \A n \in 1..Len(replies) : phase[replies[n][1]] # "idle"

\* Without doubt, everything under way is still waited for.
NoneStale ==
  doubt \/ /\ \A n \in 1..Len(wire) : wire[n] \in Waiting
           /\ \A n \in 1..Len(replies) : replies[n][1] \in Waiting

\* What the charger holds once it has accepted a command.
Wanted(o) == IF o.kind \in SetKind THEN o.content ELSE None

\* The charger holds what the last command it accepted asked for, as long as
\* that acceptance is on its way.
LastAccepted ==
  \/ \A n \in 1..Len(replies) : ~replies[n][2]
  \/ \E n \in 1..Len(replies) :
       /\ replies[n][2]
       /\ \A m \in 1..Len(replies) : m > n => ~replies[m][2]
       /\ profile = Wanted(op[replies[n][1]])

InQueue(t) == (\E n \in 1..Len(wire) : wire[n] = t) \/ \E n \in 1..Len(replies) : replies[n][1] = t

\* Portal and charger agree as long as no acceptance is on its way.
AgreeUntilAccepted ==
  \/ doubt
  \/ stale
  \/ \E t \in Waiting : ~InQueue(t)
  \/ \E n \in 1..Len(replies) : replies[n][2]
  \/ profile = Shown

AgreeInv ==
  /\ Distinct
  /\ RepliesStarted
  /\ NoneStale
  /\ LastAccepted
  /\ AgreeUntilAccepted

\* What appending to a queue and taking its head do, element by element.
LEMMA QueueElements ==
  ASSUME NEW S, NEW q \in Seq(S), NEW e \in S
  PROVE  /\ Len(Append(q, e)) = Len(q) + 1
         /\ Append(q, e)[Len(q) + 1] = e
         /\ \A n \in 1..Len(q) : Append(q, e)[n] = q[n]
         /\ Len(q) \in Nat
         /\ q # <<>> => /\ Len(q) >= 1 /\ Head(q) = q[1]
                        /\ Len(Tail(q)) = Len(q) - 1
                        /\ \A n \in 1..Len(Tail(q)) : Tail(q)[n] = q[n + 1]
  OBVIOUS

LEMMA AgreeInitial == Init => AgreeInv
  BY DEF Init, AgreeInv, Distinct, RepliesStarted, NoneStale, LastAccepted,
     AgreeUntilAccepted

\* A new request takes the last place.
LEMMA SendAgrees ==
  ASSUME IInv, AgreeInv, NEW t \in Task, NEW kind, NEW i \in Id, NEW x,
         Send(t, kind, i, x)
  PROVE  AgreeInv'
<1> USE DEF Send, schedVars
<1>1. /\ wire \in Seq(Task) /\ replies \in Seq(Task \X BOOLEAN)
      /\ phase \in [Task -> {"idle", "waiting", "done"}]
      /\ op \in [Task -> Op \union {None}]
  BY DEF IInv, TypeOK
<1>2. /\ Len(wire') = Len(wire) + 1 /\ Len(wire) \in Nat
      /\ wire'[Len(wire) + 1] = t
      /\ \A n \in 1..Len(wire) : wire'[n] = wire[n]
  BY <1>1, QueueElements
<1>3. /\ \A n \in 1..Len(wire) : wire[n] # t
      /\ \A n \in 1..Len(replies) : replies[n][1] # t
  BY DEF IInv, WireStarted, AgreeInv, RepliesStarted
<1>4. Waiting' = Waiting \union {t}
  BY <1>1 DEF Waiting
<1>5. Distinct'
  BY <1>2, <1>3 DEF AgreeInv, Distinct
<1>6. RepliesStarted'
  BY <1>1 DEF AgreeInv, RepliesStarted
<1>7. NoneStale'
  BY <1>2, <1>4 DEF AgreeInv, NoneStale
<1>8. LastAccepted'
  <2>1. \A n \in 1..Len(replies) : op'[replies[n][1]] = op[replies[n][1]]
    BY <1>1, <1>3
  <2>2. \A n \in 1..Len(replies) : Wanted(op[replies[n][1]])' = Wanted(op[replies[n][1]])
    BY <2>1 DEF Wanted
  <2>3. replies' = replies /\ profile' = profile
    OBVIOUS
  <2> QED BY <2>2, <2>3 DEF AgreeInv, LastAccepted
<1>9. AgreeUntilAccepted'
  <2>1. \A u \in Waiting : ~InQueue(u) => u \in Waiting' /\ ~InQueue(u)'
    BY <1>2, <1>3, <1>4 DEF InQueue, Waiting
  <2> QED BY <2>1 DEF AgreeInv, AgreeUntilAccepted, Shown
<1> QED BY <1>5, <1>6, <1>7, <1>8, <1>9 DEF AgreeInv

\* The steps that make a request.
LEMMA MadeAgrees ==
  ASSUME IInv, AgreeInv, NEW t \in Task,
         \/ \E i \in Id, x \in Content : SaveOn(t, i, x) \/ SaveOff(t, i, x)
         \/ \E i \in Id : Enable(t, i) \/ Disable(t, i) \/ Delete(t, i)
         \/ Repush(t)
  PROVE  AgreeInv'
<1>1. ASSUME NEW i \in Id, NEW x \in Content, SaveOn(t, i, x) \/ SaveOff(t, i, x)
      PROVE  AgreeInv'
  BY <1>1, SendAgrees DEF SaveOn, SaveOff
<1>2. ASSUME NEW i \in Id, Enable(t, i) \/ Disable(t, i) \/ Delete(t, i)
      PROVE  AgreeInv'
  BY <1>2, SendAgrees DEF Enable, Disable, Delete
<1>3. CASE Repush(t)
  <2>1. PICK i \in enabled : Send(t, "repush", i, content[i])
    BY <1>3 DEF Repush
  <2>2. i \in Id
    BY DEF IInv, TypeOK
  <2> QED BY <2>1, <2>2, SendAgrees
<1> QED BY <1>1, <1>2, <1>3

\* A request whose reads still hold and that is accepted makes the portal show
\* what it asked for.
LEMMA AppliedIsShown ==
  ASSUME IInv, NEW o \in Op, Apply(o), StillHolds(o)
  PROVE  Shown' = Wanted(o)
<1> USE DEF IInv, TypeOK, StillHolds, Apply, ContentAfter, EnabledAfter, Stored, Op, Wanted
<1>1. content \in [Id -> Content \union {None}] /\ o.id \in Id /\ o.content \in Content
  OBVIOUS
<1>2. ASSUME o.kind \in SetKind
      PROVE  enabled' = {o.id} /\ content'[o.id] = o.content
  BY <1>1, <1>2, ScheduleAssumption DEF SetKind, ClearKind
<1>3. ASSUME o.kind \in ClearKind PROVE enabled' = {}
  BY <1>3 DEF ClearKind
<1>4. CASE o.kind \in SetKind
  <2>1. Shown' = content'[CHOOSE i \in enabled' : TRUE]
    BY <1>2, <1>4 DEF Shown
  <2>2. (CHOOSE i \in enabled' : TRUE) = o.id
    BY <1>2, <1>4
  <2> QED BY <1>2, <1>4, <2>1, <2>2
<1>5. CASE o.kind \in ClearKind
  BY <1>3, <1>5 DEF Shown, SetKind, ClearKind
<1> QED BY <1>4, <1>5

\* Taking the first answer leaves the last acceptance the last.
LEMMA TakenAccepted ==
  ASSUME IInv, LastAccepted, replies # <<>>, replies' = Tail(replies),
         op' = op, profile' = profile
  PROVE  LastAccepted'
<1>1. replies \in Seq(Task \X BOOLEAN)
  BY DEF IInv, TypeOK
<1>2. /\ Len(replies) \in Nat /\ Len(replies) >= 1 /\ Len(replies') = Len(replies) - 1
      /\ \A n \in 1..Len(replies') : replies'[n] = replies[n + 1]
  <2>1. PICK e \in Task \X BOOLEAN : TRUE
    BY <1>1
  <2> QED BY <1>1, <2>1, QueueElements
<1>3. \A n \in 1..Len(replies') : n + 1 \in 1..Len(replies)
  BY <1>2
<1>4. CASE \A n \in 1..Len(replies) : ~replies[n][2]
  BY <1>2, <1>3, <1>4 DEF LastAccepted
<1>5. CASE \E n \in 1..Len(replies) : replies[n][2]
  <2>1. PICK n \in 1..Len(replies) :
          /\ replies[n][2]
          /\ \A m \in 1..Len(replies) : m > n => ~replies[m][2]
          /\ profile = Wanted(op[replies[n][1]])
    BY <1>5 DEF LastAccepted
  <2>2. \A m \in 1..Len(replies') : m + 1 > n => ~replies'[m][2]
    BY <1>2, <1>3, <2>1
  <2>3. CASE n = 1
    <3>1. \A m \in 1..Len(replies') : m + 1 > n
      BY <2>3
    <3> QED BY <2>2, <3>1 DEF LastAccepted
  <2>4. CASE n # 1
    <3>1. n - 1 \in 1..Len(replies') /\ (n - 1) + 1 = n
      BY <1>2, <2>4
    <3>2. replies'[n - 1] = replies[n]
      BY <1>2, <3>1
    <3>3. \A m \in 1..Len(replies') : m > n - 1 => ~replies'[m][2]
      <4>1. \A m \in 1..Len(replies') : m > n - 1 => m + 1 > n
        OBVIOUS
      <4> QED BY <2>2, <4>1
    <3>4. profile' = Wanted(op'[replies'[n - 1][1]])
      BY <2>1, <3>2 DEF Wanted
    <3>5. replies'[n - 1][2]
      BY <2>1, <3>2
    <3> QED BY <3>1, <3>3, <3>4, <3>5 DEF LastAccepted, Wanted
  <2> QED BY <2>3, <2>4
<1> QED BY <1>4, <1>5

LEMMA AnswerAgrees ==
  ASSUME IInv, AgreeInv, NEW t \in Task, NEW ok \in BOOLEAN, Answered(t, ok)
  PROVE  AgreeInv'
<1> USE DEF Answered
<1>1. /\ wire \in Seq(Task) /\ replies \in Seq(Task \X BOOLEAN)
      /\ phase \in [Task -> {"idle", "waiting", "done"}]
      /\ op[t] \in Op
  BY DEF IInv, TypeOK
<1>2. /\ Len(replies) \in Nat /\ Len(replies) >= 1 /\ replies[1] = <<t, ok>>
      /\ Len(replies') = Len(replies) - 1
      /\ \A n \in 1..Len(replies') : replies'[n] = replies[n + 1] /\ n + 1 \in 1..Len(replies)
  <2>1. \A n \in 1..Len(replies') : replies'[n] = replies[n + 1]
    BY <1>1, QueueElements
  <2>2. /\ Len(replies) \in Nat /\ Len(replies) >= 1 /\ replies[1] = <<t, ok>>
        /\ Len(replies') = Len(replies) - 1
    BY <1>1, QueueElements
  <2> QED BY <2>1, <2>2
<1>3. Waiting' = Waiting \ {t} /\ t \in Waiting
  BY <1>1 DEF Waiting
<1>4. wire' = wire /\ op' = op /\ profile' = profile
  OBVIOUS
<1>5. /\ \A n \in 1..Len(wire) : wire[n] # t
      /\ \A n \in 1..Len(replies') : replies'[n][1] # t
  <2>1. 1 \in 1..Len(replies) /\ replies[1][1] = t
    BY <1>2
  <2> QED BY <1>2, <2>1 DEF AgreeInv, Distinct
<1>6. Distinct'
  BY <1>2, <1>4 DEF AgreeInv, Distinct
<1>7. RepliesStarted'
  BY <1>1, <1>2 DEF AgreeInv, RepliesStarted
<1>8. LastAccepted'
  BY <1>4, TakenAccepted DEF AgreeInv
<1>9. (doubt' => doubt) /\ (~doubt' /\ doubt => ~Abandoned)
  <2>1. CASE ok
    <3>1. doubt' = (doubt /\ Abandoned)
      BY <2>1
    <3> QED BY <3>1, Zenon
  <2>2. CASE ~ok
    BY <2>2
  <2> QED BY <2>1, <2>2
<1>10. NoneStale'
  <2> SUFFICES ASSUME ~doubt'
               PROVE  /\ \A n \in 1..Len(wire) : wire[n] \in Waiting'
                      /\ \A n \in 1..Len(replies') : replies'[n][1] \in Waiting'
    BY <1>4 DEF NoneStale
  <2>1. /\ \A n \in 1..Len(wire) : wire[n] \in Waiting
        /\ \A n \in 1..Len(replies) : replies[n][1] \in Waiting
    <3>1. CASE doubt
      BY <1>1, <1>9, <3>1 DEF Abandoned
    <3>2. CASE ~doubt
      BY <3>2 DEF AgreeInv, NoneStale
    <3> QED BY <3>1, <3>2
  <2> QED BY <1>2, <1>3, <1>5, <2>1
<1>11. AgreeUntilAccepted'
  <2>1. CASE ok
    <3> SUFFICES ASSUME ~stale', \A n \in 1..Len(replies') : ~replies'[n][2]
                 PROVE  profile' = Shown'
      BY DEF AgreeUntilAccepted
    <3>1. Apply(op[t]) /\ stale' = ~StillHolds(op[t])
      BY <2>1
    <3>2. StillHolds(op[t])
      BY <3>1, Zenon
    <3>3. Shown' = Wanted(op[t])
      BY <1>1, <3>1, <3>2, AppliedIsShown
    <3>4. \A n \in 1..Len(replies) : replies[n][2] => n = 1
      <4> SUFFICES ASSUME NEW n \in 1..Len(replies), replies[n][2], n # 1 PROVE FALSE
        OBVIOUS
      <4>1. n - 1 \in 1..Len(replies') /\ (n - 1) + 1 = n
        BY <1>2
      <4>2. replies'[n - 1] = replies[n]
        BY <1>2, <4>1
      <4> QED BY <4>1, <4>2
    <3>5. 1 \in 1..Len(replies) /\ replies[1][1] = t /\ replies[1][2]
      BY <1>2, <2>1
    <3>6. profile = Wanted(op[t])
      BY <3>4, <3>5 DEF AgreeInv, LastAccepted
    <3> QED BY <1>4, <3>3, <3>6
  <2>2. CASE ~ok
    <3>1. doubt' = doubt /\ stale' = stale /\ UNCHANGED schedVars
      BY <2>2
    <3>2. Shown' = Shown
      BY <3>1 DEF schedVars, Shown
    <3>3. \A u \in Waiting : ~InQueue(u) => u \in Waiting' /\ ~InQueue(u)'
      <4> SUFFICES ASSUME NEW u \in Waiting, ~InQueue(u) PROVE u # t /\ ~InQueue(u)'
        BY <1>3
      <4>1. 1 \in 1..Len(replies) /\ replies[1][1] = t
        BY <1>2
      <4> QED BY <1>2, <1>4, <4>1 DEF InQueue
    <3>4. (\E n \in 1..Len(replies) : replies[n][2]) => \E n \in 1..Len(replies') : replies'[n][2]
      <4> SUFFICES ASSUME NEW n \in 1..Len(replies), replies[n][2]
                   PROVE  \E m \in 1..Len(replies') : replies'[m][2]
        OBVIOUS
      <4>1. n # 1
        BY <1>2, <2>2
      <4>2. n - 1 \in 1..Len(replies') /\ replies'[n - 1] = replies[n]
        BY <1>2, <4>1
      <4> QED BY <4>2
    <3> QED BY <1>4, <3>1, <3>2, <3>3, <3>4 DEF AgreeInv, AgreeUntilAccepted
  <2> QED BY <2>1, <2>2
<1> QED BY <1>6, <1>7, <1>8, <1>10, <1>11 DEF AgreeInv

LEMMA FailsAgrees ==
  ASSUME IInv, AgreeInv, NEW t \in Task, Fails(t)
  PROVE  AgreeInv'
<1> USE DEF Fails, netVars, schedVars
<1>1. phase \in [Task -> {"idle", "waiting", "done"}] /\ replies \in Seq(Task \X BOOLEAN)
  BY DEF IInv, TypeOK
<1>2. Distinct'
  BY DEF AgreeInv, Distinct
<1>3. RepliesStarted'
  BY <1>1 DEF AgreeInv, RepliesStarted
<1>4. LastAccepted'
  BY DEF AgreeInv, LastAccepted, Wanted
<1> QED BY <1>2, <1>3, <1>4 DEF AgreeInv, NoneStale, AgreeUntilAccepted

\* A change the charger need not know of does not alter what is shown.
LEMMA LocalAgrees ==
  ASSUME IInv, AgreeInv, NEW i \in Id,
         \/ \E x \in Content : SaveLocal(i, x)
         \/ DeleteLocal(i)
         \/ DisableLocal(i)
  PROVE  AgreeInv'
<1>1. Local /\ enabled' = enabled /\ i \notin enabled /\ \A j \in Id : j # i => content'[j] = content[j]
  BY DEF SaveLocal, DeleteLocal, DisableLocal, schedVars, IInv, TypeOK
<1>2. Shown' = Shown
  <2>1. CASE enabled = {}
    BY <1>1, <2>1 DEF Shown
  <2>2. CASE enabled # {}
    <3>1. (CHOOSE j \in enabled : TRUE) \in enabled
      BY <2>2
    <3>2. (CHOOSE j \in enabled : TRUE) \in Id \ {i}
      BY <1>1, <3>1 DEF IInv, TypeOK
    <3> QED BY <1>1, <2>2, <3>2 DEF Shown
  <2> QED BY <2>1, <2>2
<1>3. UNCHANGED <<phase, op, wire, replies, profile, doubt, stale>>
  BY <1>1 DEF Local, taskVars, netVars
<1> QED BY <1>2, <1>3 DEF AgreeInv, Distinct, RepliesStarted, NoneStale, LastAccepted,
        AgreeUntilAccepted, Waiting, InQueue, Wanted

LEMMA HandlesAgrees ==
  ASSUME IInv, AgreeInv, NEW ok \in BOOLEAN, ChargerHandles(ok)
  PROVE  AgreeInv'
<1> DEFINE u == Head(wire)
<1>0. /\ wire # <<>> /\ wire' = Tail(wire) /\ replies' = Append(replies, <<u, ok>>)
      /\ profile' = IF ok THEN Wanted(op[u]) ELSE profile
      /\ UNCHANGED <<content, enabled, phase, op, doubt, stale>>
  BY DEF ChargerHandles, taskVars, schedVars, Wanted
<1>1. wire \in Seq(Task) /\ replies \in Seq(Task \X BOOLEAN) /\ <<u, ok>> \in Task \X BOOLEAN
  <2>1. wire \in Seq(Task) /\ replies \in Seq(Task \X BOOLEAN)
    BY DEF IInv, TypeOK
  <2> QED BY <1>0, <2>1, QueueTypes
<1>2. /\ Len(wire) \in Nat /\ Len(wire) >= 1 /\ wire[1] = u
      /\ Len(wire') = Len(wire) - 1
      /\ \A n \in 1..Len(wire') : wire'[n] = wire[n + 1]
  <2>1. PICK e \in Task : TRUE
    BY <1>1
  <2> QED BY <1>0, <1>1, <2>1, QueueElements
<1>3. /\ Len(replies) \in Nat /\ Len(replies') = Len(replies) + 1
      /\ replies'[Len(replies) + 1] = <<u, ok>>
      /\ \A n \in 1..Len(replies) : replies'[n] = replies[n]
  BY <1>0, <1>1, QueueElements
<1>4. 1 \in 1..Len(wire) /\ \A n \in 1..Len(wire') : n + 1 \in 1..Len(wire)
  BY <1>2
<1>5. wire # <<>> /\ Waiting' = Waiting /\ doubt' = doubt /\ stale' = stale /\ Shown' = Shown
      /\ op' = op
  BY <1>0 DEF Waiting, Shown
<1>6. Distinct'
  <2>1. \A m, n \in 1..Len(wire') : wire'[m] = wire'[n] => m = n
    BY <1>2, <1>4 DEF AgreeInv, Distinct
  <2>2. \A n \in 1..Len(replies) : replies[n][1] # u
    BY <1>2, <1>4 DEF AgreeInv, Distinct
  <2>3. \A n \in 1..Len(wire') : wire'[n] # u
    BY <1>2, <1>4 DEF AgreeInv, Distinct
  <2>4. \A m, n \in 1..Len(replies') : replies'[m][1] = replies'[n][1] => m = n
    BY <1>3, <2>2 DEF AgreeInv, Distinct
  <2>5. \A m \in 1..Len(wire'), n \in 1..Len(replies') : wire'[m] # replies'[n][1]
    BY <1>2, <1>3, <1>4, <2>3 DEF AgreeInv, Distinct
  <2> QED BY <2>1, <2>4, <2>5 DEF Distinct
<1>7. RepliesStarted'
  BY <1>0, <1>2, <1>3, <1>4 DEF IInv, WireStarted, AgreeInv, RepliesStarted
<1>8. NoneStale'
  <2> SUFFICES ASSUME ~doubt
               PROVE  /\ \A n \in 1..Len(wire') : wire'[n] \in Waiting
                      /\ \A n \in 1..Len(replies') : replies'[n][1] \in Waiting
    BY <1>5 DEF NoneStale
  <2>1. /\ \A n \in 1..Len(wire) : wire[n] \in Waiting
        /\ \A n \in 1..Len(replies) : replies[n][1] \in Waiting
    BY DEF AgreeInv, NoneStale
  <2>2. \A n \in 1..Len(wire') : wire'[n] \in Waiting
    BY <1>2, <1>4, <2>1
  <2>3. u \in Waiting
    BY <1>2, <1>4, <2>1
  <2> QED BY <1>3, <2>1, <2>2, <2>3
<1>9. LastAccepted'
  <2>0. \A n \in 1..Len(replies) : Wanted(op'[replies'[n][1]]) = Wanted(op[replies[n][1]])
    BY <1>3, <1>5
  <2>1. CASE ok
    <3>1. /\ Len(replies) + 1 \in 1..Len(replies')
          /\ replies'[Len(replies) + 1][2] /\ replies'[Len(replies) + 1][1] = u
      BY <1>3, <2>1
    <3>2. \A m \in 1..Len(replies') : ~(m > Len(replies) + 1)
      BY <1>3
    <3>3. profile' = Wanted(op'[replies'[Len(replies) + 1][1]])
      BY <1>0, <1>5, <2>1, <3>1
    <3> HIDE DEF u
    <3> QED BY <3>1, <3>2, <3>3 DEF LastAccepted, Wanted
  <2>2. CASE ~ok
    <3>1. \A n \in 1..Len(replies') : n \in 1..Len(replies) \/ ~replies'[n][2]
      BY <1>3, <2>2
    <3>2. profile' = profile
      BY <1>0, <2>2
    <3>3. CASE \A n \in 1..Len(replies) : ~replies[n][2]
      BY <1>3, <3>1, <3>3 DEF LastAccepted
    <3>4. CASE \E n \in 1..Len(replies) : replies[n][2]
      <4>1. PICK n \in 1..Len(replies) :
              /\ replies[n][2]
              /\ \A m \in 1..Len(replies) : m > n => ~replies[m][2]
              /\ profile = Wanted(op[replies[n][1]])
        BY <3>4 DEF AgreeInv, LastAccepted
      <4>2. n \in 1..Len(replies') /\ replies'[n][2]
        BY <1>3, <4>1
      <4>3. \A m \in 1..Len(replies') : m > n => ~replies'[m][2]
        BY <1>3, <3>1, <4>1
      <4>4. profile' = Wanted(op'[replies'[n][1]])
        BY <2>0, <3>2, <4>1
      <4> QED BY <4>2, <4>3, <4>4 DEF LastAccepted, Wanted
    <3> QED BY <3>3, <3>4
  <2> QED BY <2>1, <2>2
<1>10. AgreeUntilAccepted'
  <2>1. CASE ok
    <3>1. Len(replies) + 1 \in 1..Len(replies') /\ replies'[Len(replies) + 1][2]
      BY <1>3, <2>1
    <3> QED BY <3>1 DEF AgreeUntilAccepted
  <2>2. CASE ~ok
    <3>1. \A v \in Waiting : ~InQueue(v) => ~InQueue(v)'
      <4> SUFFICES ASSUME NEW v \in Waiting, ~InQueue(v) PROVE ~InQueue(v)'
        OBVIOUS
      <4>1. \A n \in 1..Len(wire') : wire'[n] # v
        BY <1>2, <1>4 DEF InQueue
      <4>2. u # v
        BY <1>2, <1>4 DEF InQueue
      <4>3. \A n \in 1..Len(replies') : replies'[n][1] # v
        BY <1>3, <4>2 DEF InQueue
      <4> QED BY <4>1, <4>3 DEF InQueue
    <3>2. profile' = profile
      BY <1>0, <2>2
    <3> QED BY <1>3, <1>5, <3>1, <3>2 DEF AgreeInv, AgreeUntilAccepted
  <2> QED BY <2>1, <2>2
<1> QED BY <1>6, <1>7, <1>8, <1>9, <1>10 DEF AgreeInv

LEMMA LateAgrees ==
  ASSUME IInv, AgreeInv, LateReply
  PROVE  AgreeInv'
<1> USE DEF LateReply, schedVars, taskVars
<1>1. replies \in Seq(Task \X BOOLEAN)
  BY DEF IInv, TypeOK
<1>2. /\ Len(replies) \in Nat /\ Len(replies) >= 1
      /\ Len(replies') = Len(replies) - 1
      /\ \A n \in 1..Len(replies') : replies'[n] = replies[n + 1]
      /\ Head(replies) = replies[1]
  <2>1. PICK e \in Task \X BOOLEAN : TRUE
    BY <1>1
  <2> QED BY <1>1, <2>1, QueueElements
<1>3. \A n \in 1..Len(replies') : n + 1 \in 1..Len(replies)
  BY <1>2
<1>4. doubt
  BY <1>2 DEF AgreeInv, NoneStale, Waiting
<1>5. Distinct' /\ RepliesStarted'
  BY <1>2, <1>3 DEF AgreeInv, Distinct, RepliesStarted
<1>6. LastAccepted'
  BY TakenAccepted DEF AgreeInv
<1> QED BY <1>4, <1>5, <1>6 DEF AgreeInv, NoneStale, AgreeUntilAccepted

\* The connection ends, or the process: nothing is under way any more.
LEMMA LossAgrees ==
  ASSUME IInv, AgreeInv, Disconnect \/ Crash
  PROVE  AgreeInv'
<1>1. /\ wire' = <<>> /\ replies' = <<>> /\ profile' = profile /\ Shown' = Shown
      /\ content' = content /\ enabled' = enabled /\ op' = op
  <2>1. wire' = <<>> /\ replies' = <<>> /\ profile' = profile /\ UNCHANGED schedVars /\ op' = op
    BY DEF Disconnect, Crash, taskVars
  <2> QED BY <2>1 DEF schedVars, Shown
<1>2. Distinct' /\ RepliesStarted' /\ NoneStale' /\ LastAccepted'
  BY <1>1 DEF Distinct, RepliesStarted, NoneStale, LastAccepted
<1>3. AgreeUntilAccepted'
  <2> SUFFICES ASSUME ~doubt', ~stale', \A t \in Waiting' : InQueue(t)' PROVE profile = Shown
    BY <1>1 DEF AgreeUntilAccepted
  <2>1. ~doubt /\ ~stale /\ Waiting = {}
    <3>1. CASE Disconnect
      <4>1. \A t \in Task : ~InQueue(t)'
        BY <1>1 DEF InQueue
      <4>2. Waiting' = Waiting /\ doubt' = doubt /\ stale' = stale
        BY <3>1 DEF Disconnect, taskVars, Waiting
      <4> QED BY <4>1, <4>2 DEF Waiting
    <3>2. CASE Crash
      BY <3>2 DEF Crash, IInv, TypeOK
    <3> QED BY <3>1, <3>2
  <2> QED BY <2>1 DEF AgreeInv, NoneStale, AgreeUntilAccepted
<1> QED BY <1>2, <1>3 DEF AgreeInv

LEMMA RestAgrees ==
  ASSUME IInv, AgreeInv, RepushSkipped \/ Open \/ Boot \/ DstCorrection \/ UNCHANGED vars
  PROVE  AgreeInv'
<1>1. UNCHANGED <<content, enabled, phase, op, wire, replies, profile, doubt, stale>>
  BY DEF RepushSkipped, Open, Boot, DstCorrection, vars, schedVars, taskVars, netVars
<1> QED BY <1>1 DEF AgreeInv, Distinct, RepliesStarted, NoneStale, LastAccepted,
        AgreeUntilAccepted, Waiting, InQueue, Shown, Wanted

LEMMA AgreeInductive == IInv /\ AgreeInv /\ [Next]_vars => AgreeInv'
  BY MadeAgrees, AnswerAgrees, FailsAgrees, LocalAgrees, HandlesAgrees, LateAgrees, LossAgrees, RestAgrees
  DEF Next, RequestNext

\* With nothing under way the charger holds the profile the portal shows, unless
\* what the last accepted request had read no longer held when it was applied,
\* or a request has gone unanswered since.
THEOREM PortalShowsProfile == Spec => []ProfileMatchesPortal
<1>1. AgreeInv => ProfileMatchesPortal
  BY DEF AgreeInv, ProfileMatchesPortal, NoneStale, AgreeUntilAccepted
<1> QED BY <1>1, AgreeInitial, AgreeInductive, Invariance, PTL DEF Spec

-----------------------------------------------------------------------------
(* Loops.  FoldLeft is a recursive function on the sets of indices; the values *)
(* it takes on 1..k are those of the loop's accumulator after k rounds.        *)

\* A set of naturals has a least element; by the well-foundedness of 0..k under
\* inclusion, since induction over the naturals takes an operator.
LEMMA LeastIndex ==
  ASSUME NEW S \in SUBSET Nat, S # {}
  PROVE  \E x \in S : \A y \in S : x <= y
<1> DEFINE T == {0 .. k : k \in S}
<1>1. T \subseteq FiniteSubsetsOf(Nat) /\ T # {}
  <2>1. \A k \in S : IsFiniteSet(0 .. k) /\ 0 .. k \in SUBSET Nat
    BY FS_Interval
  <2> QED BY <2>1 DEF FiniteSubsetsOf
<1>2. PICK x \in T : \A y \in T : <<y, x>> \notin StrictSubsetOrdering(Nat)
  BY <1>1, FS_StrictSubsetOrderingWellFounded, WFMin
<1>3. PICK k \in S : x = 0 .. k
  BY <1>2
<1>4. ASSUME NEW m \in S, m < k PROVE FALSE
  <2>1. 0 .. m \subseteq 0 .. k /\ 0 .. m # 0 .. k
    <3>1. k \in 0 .. k /\ k \notin 0 .. m /\ m \in Nat /\ k \in Nat
      BY <1>4
    <3> QED BY <1>4, <3>1
  <2>2. <<0 .. m, 0 .. k>> \in StrictSubsetOrdering(Nat)
    BY <2>1 DEF StrictSubsetOrdering
  <2> QED BY <1>2, <1>3, <2>2
<1>5. \A y \in S : k <= y
  BY <1>4
<1> QED BY <1>5

\* Induction over the rounds of a loop, for a set in the place of a predicate.
LEMMA Rounds ==
  ASSUME NEW n \in Nat, NEW S, 0 \in S, \A k \in 0 .. n - 1 : k \in S => k + 1 \in S
  PROVE  0 .. n \subseteq S
<1> DEFINE Missing == 0 .. n \ S
<1>1. SUFFICES ASSUME Missing # {} PROVE FALSE
  OBVIOUS
<1>2. PICK x \in Missing : \A y \in Missing : x <= y
  <2>1. Missing \in SUBSET Nat
    OBVIOUS
  <2> HIDE DEF Missing
  <2> QED BY <1>1, <2>1, LeastIndex
<1>3. x \in 1 .. n /\ x - 1 \in 0 .. n - 1
  BY <1>2
<1>4. x - 1 \in S
  BY <1>2, <1>3
<1>5. (x - 1) + 1 = x
  BY <1>3
<1> QED BY <1>2, <1>3, <1>4, <1>5

\* Max of a set of rounds.
LEMMA LastIndex ==
  ASSUME NEW n \in Nat, NEW S \in SUBSET (1 .. n), S # {}
  PROVE  Max(S) \in S /\ \A y \in S : y <= Max(S)
<1> DEFINE U == {n - k : k \in S}
<1>1. PICK x \in U : \A y \in U : x <= y
  <2>1. \A k \in S : n - k \in Nat
    OBVIOUS
  <2>2. U \in SUBSET Nat /\ U # {}
    BY <2>1
  <2> HIDE DEF U
  <2> QED BY <2>2, LeastIndex
<1>2. PICK k \in S : x = n - k
  BY <1>1
<1>3. \A y \in S : k >= y
  <2>1. ASSUME NEW y \in S PROVE k >= y
    <3>1. n - k <= n - y
      BY <1>1, <1>2
    <3> QED BY <3>1
  <2> QED BY <2>1
<1>4. Max(S) \in S /\ \A y \in S : Max(S) >= y
  <2>1. \E m \in S : \A y \in S : m >= y
    BY <1>3
  <2> QED BY <2>1, Zenon DEF Max
<1> QED BY <1>4

\* The rounds 1..k without the last.
LEMMA LastOfFirst ==
  ASSUME NEW n \in Nat, NEW k \in 1 .. n
  PROVE  /\ 1 .. k \in SUBSET (1 .. n) /\ 1 .. k # {}
         /\ Max(1 .. k) = k /\ (1 .. k) \ {k} = 1 .. (k - 1)
<1>1. 1 .. k \in SUBSET (1 .. n) /\ k \in 1 .. k
  OBVIOUS
<1>2. Max(1 .. k) \in 1 .. k /\ k <= Max(1 .. k)
  BY <1>1, LastIndex
<1> QED BY <1>1, <1>2

\* A loop of n rounds: in round k the accumulator becomes step[<<accumulator, k>>].
Loop(A, base, n, step) == base \in A /\ n \in Nat /\ step \in [A \X (1 .. n) -> A]

\* h is the function FoldLeft defines by recursion on the sets of rounds.
Recursion(h, A, base, n, step) ==
  /\ h \in [SUBSET (1 .. n) -> A]
  /\ \A t \in SUBSET (1 .. n) :
       h[t] = IF t = {} THEN base ELSE step[<<h[t \ {Max(t)}], Max(t)>>]

\* FoldLeft chooses a function that satisfies a recursion: there is one.
LEMMA LoopExists ==
  ASSUME NEW A, NEW base, NEW n, NEW step, Loop(A, base, n, step)
  PROVE  \E h : Recursion(h, A, base, n, step)
<1> USE DEF Loop
<1> DEFINE Recurs(h, k) == \A t \in SUBSET (1 .. k) :
             h[t] = IF t = {} THEN base ELSE step[<<h[t \ {Max(t)}], Max(t)>>]
           Done == {k \in 0 .. n : \E h \in [SUBSET (1 .. k) -> A] : Recurs(h, k)}
<1>1. 0 \in Done
  <2> DEFINE h == [t \in SUBSET (1 .. 0) |-> base]
  <2>1. \A t \in SUBSET (1 .. 0) : t = {}
    OBVIOUS
  <2>2. h \in [SUBSET (1 .. 0) -> A] /\ Recurs(h, 0)
    BY <2>1
  <2>3. 0 \in 0 .. n
    OBVIOUS
  <2> HIDE DEF h, Recurs
  <2> QED BY <2>2, <2>3
<1>2. ASSUME NEW k \in 0 .. n - 1, k \in Done PROVE k + 1 \in Done
  <2>1. PICK h \in [SUBSET (1 .. k) -> A] : Recurs(h, k)
    BY <1>2
  <2> DEFINE B == SUBSET (1 .. (k + 1))
             g == [t \in B |-> IF k + 1 \in t THEN step[<<h[t \ {k + 1}], k + 1>>] ELSE h[t]]
  <2>2. k + 1 \in 1 .. n /\ \A t \in B : t \ {k + 1} \in SUBSET (1 .. k)
    OBVIOUS
  <2>3. \A t \in B : k + 1 \notin t => t \in SUBSET (1 .. k)
    OBVIOUS
  <2>4. g \in [B -> A]
    <3>1. ASSUME NEW t \in B PROVE g[t] \in A
      <4>1. CASE k + 1 \in t
        <5>1. h[t \ {k + 1}] \in A
          BY <2>2
        <5>2. <<h[t \ {k + 1}], k + 1>> \in A \X (1 .. n)
          BY <2>2, <5>1
        <5> QED BY <4>1, <5>2
      <4>2. CASE k + 1 \notin t
        BY <2>3, <4>2
      <4> QED BY <4>1, <4>2
    <3> QED BY <3>1
  <2>5. ASSUME NEW t \in B
        PROVE  g[t] = IF t = {} THEN base ELSE step[<<g[t \ {Max(t)}], Max(t)>>]
    <3>1. CASE k + 1 \in t
      <4>1. Max(t) = k + 1
        <5>1. t \in SUBSET (1 .. (k + 1)) /\ t # {} /\ k + 1 \in Nat
          BY <3>1
        <5>2. Max(t) \in t /\ k + 1 <= Max(t)
          BY <3>1, <5>1, LastIndex
        <5>3. Max(t) \in 1 .. (k + 1)
          BY <5>1, <5>2
        <5> QED BY <5>2, <5>3
      <4>2. t \ {k + 1} \in B /\ k + 1 \notin t \ {k + 1}
        OBVIOUS
      <4>3. g[t \ {k + 1}] = h[t \ {k + 1}]
        BY <4>2
      <4> QED BY <3>1, <4>1, <4>3
    <3>2. CASE k + 1 \notin t
      <4>1. t \in SUBSET (1 .. k) /\ g[t] = h[t]
        BY <2>3, <3>2
      <4>2. t \ {Max(t)} \in B /\ k + 1 \notin t \ {Max(t)}
        BY <3>2
      <4>3. g[t \ {Max(t)}] = h[t \ {Max(t)}]
        BY <4>2
      <4> QED BY <2>1, <4>1, <4>3
    <3> QED BY <3>1, <3>2
  <2> HIDE DEF g
  <2>6. Recurs(g, k + 1)
    BY <2>5
  <2> HIDE DEF Recurs
  <2>7. k + 1 \in 0 .. n
    OBVIOUS
  <2> QED BY <2>4, <2>6, <2>7
<1> HIDE DEF Recurs
<1>3. n \in Done
  <2> HIDE DEF Done
  <2>1. 0 .. n \subseteq Done
    BY <1>1, <1>2, Rounds
  <2> QED BY <2>1
<1> QED BY <1>3 DEF Recurs, Recursion

\* g satisfies it as long as the accumulator is in A.
Follows(g, A, base, n, step) ==
  /\ g[{}] = base
  /\ \A t \in SUBSET (1 .. n) : t # {} /\ g[t \ {Max(t)}] \in A
       => g[t] = step[<<g[t \ {Max(t)}], Max(t)>>]

\* m[k] is the accumulator after k rounds.
RunsTo(m, A, base, n, step) ==
  /\ m \in [0 .. n -> A] /\ m[0] = base
  /\ \A k \in 1 .. n : m[k] = step[<<m[k - 1], k>>]

\* Whatever satisfies the recursion runs through the rounds.
LEMMA LoopRounds ==
  ASSUME NEW A, NEW base, NEW n, NEW step, Loop(A, base, n, step), NEW g,
         Follows(g, A, base, n, step)
  PROVE  \E m : RunsTo(m, A, base, n, step) /\ m[n] = g[1 .. n]
<1> USE DEF Loop, Follows
<1> DEFINE Done == {k \in 0 .. n : g[1 .. k] \in A}
<1>1. ASSUME NEW k \in 1 .. n, g[1 .. (k - 1)] \in A
      PROVE  g[1 .. k] = step[<<g[1 .. (k - 1)], k>>] /\ g[1 .. k] \in A
  <2>1. g[1 .. k] = step[<<g[1 .. (k - 1)], k>>]
    BY <1>1, LastOfFirst
  <2>2. <<g[1 .. (k - 1)], k>> \in A \X (1 .. n)
    BY <1>1
  <2> QED BY <2>1, <2>2
<1>2. 1 .. 0 = {}
  OBVIOUS
<1>3. 0 \in Done
  BY <1>2
<1>4. ASSUME NEW k \in 0 .. n - 1, k \in Done PROVE k + 1 \in Done
  <2>1. k + 1 \in 1 .. n /\ (k + 1) - 1 = k /\ k + 1 \in 0 .. n
    OBVIOUS
  <2>2. g[1 .. ((k + 1) - 1)] \in A
    BY <1>4, <2>1
  <2>3. g[1 .. (k + 1)] \in A
    BY <1>1, <2>1, <2>2
  <2> QED BY <2>1, <2>3
<1>5. 0 .. n \subseteq Done
  <2> HIDE DEF Done
  <2> QED BY <1>3, <1>4, Rounds
<1> DEFINE m == [k \in 0 .. n |-> g[1 .. k]]
<1>6. m \in [0 .. n -> A]
  BY <1>5
<1>7. m[0] = base /\ m[n] = g[1 .. n]
  BY <1>2
<1>8. ASSUME NEW k \in 1 .. n PROVE m[k] = step[<<m[k - 1], k>>]
  <2>1. k - 1 \in 0 .. n
    OBVIOUS
  <2> QED BY <1>1, <1>5, <2>1
<1> QED BY <1>6, <1>7, <1>8 DEF RunsTo

-----------------------------------------------------------------------------
(* Sorting *)

Pair == Nat \X Nat
Elements(q) == {q[i] : i \in 1 .. Len(q)}
Ordered(q) == \A i, j \in 1 .. Len(q) : i < j => ~Before(q[j], q[i])
OrderedSeq == {q \in Seq(Pair) : Ordered(q)}

\* x in its place after the first r elements of q.
Placed(q, r, x) == [i \in 1 .. Len(q) + 1 |-> IF i <= r THEN q[i] ELSE IF i = r + 1 THEN x ELSE q[i - 1]]

\* Not before is a total preorder of the pairs.
LEMMA PairOrder ==
  ASSUME NEW x \in Pair, NEW y \in Pair, NEW z \in Pair
  PROVE  /\ ~Before(x, x)
         /\ ~Before(y, x) /\ ~Before(z, y) => ~Before(z, x)
         /\ Before(x, y) => ~Before(y, x)
  BY DEF Pair, Before

\* The place of x in an ordered sequence exists, so that Rank finds it.
LEMMA RankFound ==
  ASSUME NEW q \in OrderedSeq, NEW x \in Pair
  PROVE  /\ Rank(q, x) \in 0 .. Len(q)
         /\ \A i \in 1 .. Rank(q, x) : ~Before(x, q[i])
         /\ \A i \in Rank(q, x) + 1 .. Len(q) : ~Before(q[i], x)
<1> DEFINE Fits(k) == /\ k > 0 => ~Before(x, q[k])
                      /\ k < Len(q) => ~Before(q[k + 1], x)
           After == {k \in 1 .. Len(q) : ~Before(q[k], x)}
<1>1. \A i \in 1 .. Len(q) : q[i] \in Pair
  BY DEF OrderedSeq
<1>2. \E k \in 0 .. Len(q) : Fits(k)
  <2>1. CASE After = {}
    <3>1. \A k \in 1 .. Len(q) : ~Before(x, q[k])
      BY <1>1, <2>1, PairOrder
    <3>2. Fits(Len(q)) /\ Len(q) \in 0 .. Len(q)
      BY <3>1 DEF OrderedSeq
    <3> QED BY <3>2
  <2>2. CASE After # {}
    <3>1. PICK k \in After : \A j \in After : k <= j
      <4>1. After \in SUBSET Nat
        OBVIOUS
      <4> HIDE DEF After
      <4> QED BY <2>2, <4>1, LeastIndex
    <3>2. k \in 1 .. Len(q) /\ ~Before(q[k], x) /\ k - 1 \in 0 .. Len(q) /\ (k - 1) + 1 = k
      OBVIOUS
    <3>3. k - 1 > 0 => Before(q[k - 1], x)
      <4>1. SUFFICES ASSUME k - 1 > 0, ~Before(q[k - 1], x) PROVE FALSE
        OBVIOUS
      <4>2. k - 1 \in After
        BY <3>2, <4>1
      <4> QED BY <3>1, <3>2, <4>2
    <3>4. k - 1 > 0 => ~Before(x, q[k - 1])
      <4>1. k - 1 > 0 => k - 1 \in 1 .. Len(q)
        BY <3>2
      <4> QED BY <1>1, <3>3, <4>1, PairOrder
    <3>5. Fits(k - 1)
      BY <3>2, <3>4
    <3> QED BY <3>2, <3>5
  <2> QED BY <2>1, <2>2
<1>3. Rank(q, x) \in 0 .. Len(q) /\ Fits(Rank(q, x))
  <2>1. Rank(q, x) = CHOOSE k \in 0 .. Len(q) : Fits(k)
    BY DEF Rank
  <2> HIDE DEF Fits
  <2> QED BY <1>2, <2>1
<1> DEFINE r == Rank(q, x)
<1>4. ASSUME NEW i \in 1 .. r PROVE ~Before(x, q[i])
  <2>1. r > 0 /\ r \in 1 .. Len(q) /\ i \in 1 .. Len(q) /\ ~Before(x, q[r])
    BY <1>3
  <2>2. i = r \/ ~Before(q[r], q[i])
    BY <2>1 DEF OrderedSeq, Ordered
  <2> QED BY <1>1, <2>1, <2>2, PairOrder
<1>5. ASSUME NEW i \in r + 1 .. Len(q) PROVE ~Before(q[i], x)
  <2>1. r < Len(q) /\ r + 1 \in 1 .. Len(q) /\ i \in 1 .. Len(q) /\ ~Before(q[r + 1], x)
    BY <1>3 DEF OrderedSeq
  <2>2. i = r + 1 \/ ~Before(q[i], q[r + 1])
    BY <2>1 DEF OrderedSeq, Ordered
  <2> QED BY <1>1, <2>1, <2>2, PairOrder
<1> QED BY <1>3, <1>4, <1>5

\* Concatenation of sequences of pairs.
LEMMA ConcatType ==
  ASSUME NEW a \in Seq(Pair), NEW b \in Seq(Pair)
  PROVE  /\ a \o b \in Seq(Pair) /\ Len(a \o b) = Len(a) + Len(b)
         /\ \A i \in 1 .. Len(a) + Len(b) : (a \o b)[i] = IF i <= Len(a) THEN a[i] ELSE b[i - Len(a)]
  OBVIOUS

\* InsertAt as a function of the index.
LEMMA InsertPlaces ==
  ASSUME NEW q \in Seq(Pair), NEW x \in Pair, NEW r \in 0 .. Len(q)
  PROVE  /\ InsertAt(q, r + 1, x) = Placed(q, r, x)
         /\ Placed(q, r, x) \in Seq(Pair)
         /\ Elements(Placed(q, r, x)) = Elements(q) \union {x}
<1> DEFINE p == Placed(q, r, x)
<1>1. \A i \in 1 .. Len(q) : q[i] \in Pair
  OBVIOUS
<1>2. p \in Seq(Pair) /\ Len(p) = Len(q) + 1
  <2>1. \A i \in 1 .. Len(q) + 1 : p[i] \in Pair
    BY <1>1 DEF Placed
  <2>2. p \in [1 .. Len(q) + 1 -> Pair] /\ Len(q) + 1 \in Nat
    BY <2>1 DEF Placed
  <2> HIDE DEF p
  <2> QED BY <2>2
<1>3. InsertAt(q, r + 1, x) = p
  <2> DEFINE a == SubSeq(q, 1, r)
             b == SubSeq(q, r + 1, Len(q))
  <2>1. a \in Seq(Pair) /\ Len(a) = r /\ \A i \in 1 .. r : a[i] = q[i]
    OBVIOUS
  <2>2. b \in Seq(Pair) /\ Len(b) = Len(q) - r /\ \A i \in 1 .. Len(b) : b[i] = q[r + i]
    OBVIOUS
  <2>3. InsertAt(q, r + 1, x) = a \o <<x>> \o b
    <3>1. (r + 1) - 1 = r
      OBVIOUS
    <3> QED BY <3>1, Zenon DEF InsertAt
  <2> HIDE DEF a, b
  <2> DEFINE c == a \o <<x>>
  <2>4. c \in Seq(Pair) /\ Len(c) = r + 1 /\ \A i \in 1 .. r + 1 : c[i] = IF i <= r THEN q[i] ELSE x
    BY <2>1
  <2> HIDE DEF c
  <2> DEFINE d == c \o b
  <2>5. /\ d \in Seq(Pair) /\ Len(d) = Len(q) + 1
        /\ \A i \in 1 .. Len(q) + 1 : d[i] = IF i <= r + 1 THEN c[i] ELSE b[i - (r + 1)]
    <3>1. d \in Seq(Pair) /\ Len(d) = Len(c) + Len(b)
      BY <2>2, <2>4, ConcatType
    <3>2. \A i \in 1 .. Len(c) + Len(b) : d[i] = IF i <= Len(c) THEN c[i] ELSE b[i - Len(c)]
      BY <2>2, <2>4, ConcatType
    <3>3. Len(c) = r + 1 /\ Len(c) + Len(b) = Len(q) + 1
      BY <2>2, <2>4
    <3> HIDE DEF d
    <3> QED BY <3>1, <3>2, <3>3
  <2> HIDE DEF d
  <2>6. ASSUME NEW i \in 1 .. Len(q) + 1 PROVE d[i] = p[i]
    <3>1. CASE i <= r + 1
      BY <2>4, <2>5, <3>1 DEF Placed
    <3>2. CASE i > r + 1
      <4>1. i - (r + 1) \in 1 .. Len(b) /\ r + (i - (r + 1)) = i - 1
        BY <2>2, <3>2
      <4>2. b[i - (r + 1)] = q[i - 1]
        BY <2>2, <4>1
      <4> QED BY <2>5, <3>2, <4>2 DEF Placed
    <3> QED BY <3>1, <3>2
  <2>7. d = p
    BY <1>2, <2>5, <2>6
  <2> QED BY <2>3, <2>7 DEF c, d
<1>4. Elements(p) = Elements(q) \union {x}
  <2>1. ASSUME NEW i \in 1 .. Len(p) PROVE p[i] \in Elements(q) \union {x}
    <3>1. \/ i \in 1 .. Len(q) /\ p[i] = q[i]
          \/ p[i] = x
          \/ i - 1 \in 1 .. Len(q) /\ p[i] = q[i - 1]
      BY <1>2 DEF Placed
    <3> QED BY <3>1 DEF Elements
  <2>2. x \in Elements(p)
    <3>1. r + 1 \in 1 .. Len(p) /\ p[r + 1] = x
      BY <1>2 DEF Placed
    <3> QED BY <3>1 DEF Elements
  <2>3. ASSUME NEW i \in 1 .. Len(q) PROVE q[i] \in Elements(p)
    <3>1. CASE i <= r
      <4>1. i \in 1 .. Len(p) /\ p[i] = q[i]
        BY <1>2, <3>1 DEF Placed
      <4> QED BY <4>1 DEF Elements
    <3>2. CASE i > r
      <4>1. i + 1 \in 1 .. Len(p) /\ p[i + 1] = q[i]
        BY <1>2, <3>2 DEF Placed
      <4> QED BY <4>1 DEF Elements
    <3> QED BY <3>1, <3>2
  <2> QED BY <2>1, <2>2, <2>3 DEF Elements
<1> QED BY <1>2, <1>3, <1>4

\* A round of the sort.
LEMMA InsertOrders ==
  ASSUME NEW q \in OrderedSeq, NEW x \in Pair
  PROVE  /\ InsertAt(q, Rank(q, x) + 1, x) \in OrderedSeq
         /\ Elements(InsertAt(q, Rank(q, x) + 1, x)) = Elements(q) \union {x}
<1> DEFINE r == Rank(q, x)
           p == Placed(q, r, x)
<1>1. /\ r \in 0 .. Len(q)
      /\ \A i \in 1 .. r : ~Before(x, q[i])
      /\ \A i \in r + 1 .. Len(q) : ~Before(q[i], x)
  BY RankFound
<1>2. q \in Seq(Pair) /\ Ordered(q)
  BY DEF OrderedSeq
<1> HIDE DEF r
<1>3. /\ InsertAt(q, r + 1, x) = p /\ p \in Seq(Pair)
      /\ Elements(p) = Elements(q) \union {x}
  BY <1>1, <1>2, InsertPlaces
<1>4. ASSUME NEW i \in 1 .. Len(p), NEW j \in 1 .. Len(p), i < j PROVE ~Before(p[j], p[i])
  <2>1. Len(p) = Len(q) + 1 /\ i \in 1 .. Len(q) + 1 /\ j \in 1 .. Len(q) + 1
    BY <1>2, <1>4 DEF Placed
  <2>2. CASE j <= r
    BY <1>1, <1>2, <1>4, <2>1, <2>2 DEF Placed, Ordered
  <2>3. CASE j = r + 1
    BY <1>1, <1>2, <1>4, <2>1, <2>3 DEF Placed, Ordered
  <2>4. CASE j > r + 1 /\ i = r + 1
    <3>1. j - 1 \in r + 1 .. Len(q) /\ p[j] = q[j - 1] /\ p[i] = x
      BY <1>1, <1>2, <2>1, <2>4 DEF Placed
    <3> QED BY <1>1, <3>1
  <2>5. CASE j > r + 1 /\ i > r + 1
    <3>1. j - 1 \in 1 .. Len(q) /\ i - 1 \in 1 .. Len(q) /\ i - 1 < j - 1
          /\ p[j] = q[j - 1] /\ p[i] = q[i - 1]
      BY <1>1, <1>2, <1>4, <2>1, <2>5 DEF Placed
    <3> QED BY <1>2, <3>1 DEF Ordered
  <2>6. CASE j > r + 1 /\ i <= r
    <3>1. j - 1 \in 1 .. Len(q) /\ i \in 1 .. Len(q) /\ i < j - 1
          /\ p[j] = q[j - 1] /\ p[i] = q[i]
      BY <1>1, <1>2, <1>4, <2>1, <2>6 DEF Placed
    <3> QED BY <1>2, <3>1 DEF Ordered
  <2> QED BY <1>1, <1>2, <2>1, <2>2, <2>3, <2>4, <2>5, <2>6
<1> QED BY <1>3, <1>4 DEF r, OrderedSeq, Ordered

\* The loop that sorts, and what it returns.
LEMMA SortLoop ==
  ASSUME NEW s \in Seq(Pair)
  PROVE  \E m \in [0 .. Len(s) -> OrderedSeq] :
           /\ m[0] = <<>> /\ m[Len(s)] = Sorted(s)
           /\ \A k \in 1 .. Len(s) : m[k] = InsertAt(m[k - 1], Rank(m[k - 1], s[k]) + 1, s[k])
<1> DEFINE n == Len(s)
           Put(q, x) == InsertAt(q, Rank(q, x) + 1, x)
           step == [z \in OrderedSeq \X (1 .. n) |-> Put(z[1], s[z[2]])]
           Recurs(h) == h = [t \in SUBSET (1 .. n) |->
                               IF t = {} THEN <<>> ELSE Put(h[t \ {Max(t)}], s[Max(t)])]
           g == CHOOSE h : Recurs(h)
<1>1. Sorted(s) = g[1 .. n]
  <2>1. DOMAIN s = 1 .. n
    OBVIOUS
  <2> QED BY <2>1, Zenon DEF Sorted, FoldLeft, MapThenFoldSet
<1>2. <<>> \in OrderedSeq /\ n \in Nat /\ \A k \in 1 .. n : s[k] \in Pair
  BY DEF OrderedSeq, Ordered
<1>3. \A q \in OrderedSeq, k \in 1 .. n : Put(q, s[k]) \in OrderedSeq
  BY <1>2, InsertOrders
<1> HIDE DEF Put, n
<1>4. step \in [OrderedSeq \X (1 .. n) -> OrderedSeq]
      /\ \A q \in OrderedSeq, k \in 1 .. n : step[<<q, k>>] = Put(q, s[k])
  BY <1>3
<1>0. Loop(OrderedSeq, <<>>, n, step)
  BY <1>2, <1>4 DEF Loop
<1> HIDE DEF step
<1>5. PICK h : Recursion(h, OrderedSeq, <<>>, n, step)
  BY <1>0, LoopExists
<1>6. \A t \in SUBSET (1 .. n) : t # {} => t \ {Max(t)} \in SUBSET (1 .. n) /\ Max(t) \in 1 .. n
  BY <1>2, LastIndex
<1>7. Recurs(h)
  <2>1. ASSUME NEW t \in SUBSET (1 .. n), t # {} PROVE h[t] = Put(h[t \ {Max(t)}], s[Max(t)])
    BY <1>4, <1>5, <1>6, <2>1 DEF Recursion
  <2> QED BY <1>5, <2>1 DEF Recursion
<1>8. Recurs(g)
  <2> HIDE DEF Recurs
  <2> QED BY <1>7
<1>9. g[{}] = <<>>
  BY <1>8
<1>10. ASSUME NEW t \in SUBSET (1 .. n), t # {}, g[t \ {Max(t)}] \in OrderedSeq
       PROVE  g[t] = step[<<g[t \ {Max(t)}], Max(t)>>]
  <2>1. g[t] = Put(g[t \ {Max(t)}], s[Max(t)])
    BY <1>8, <1>10
  <2> QED BY <1>4, <1>6, <1>10, <2>1
<1> HIDE DEF g
<1>13. Follows(g, OrderedSeq, <<>>, n, step)
  BY <1>9, <1>10 DEF Follows
<1>11. PICK m : RunsTo(m, OrderedSeq, <<>>, n, step) /\ m[n] = g[1 .. n]
  BY <1>0, <1>13, LoopRounds
<1>12. \A k \in 1 .. n : m[k] = Put(m[k - 1], s[k])
  <2>1. \A k \in 1 .. n : k - 1 \in 0 .. n
    BY <1>2
  <2> QED BY <1>4, <1>11, <2>1 DEF RunsTo
<1> QED BY <1>1, <1>11, <1>12 DEF RunsTo, Put, n

\* Sorted returns the same pairs in order.
LEMMA SortedSorts ==
  ASSUME NEW s \in Seq(Pair)
  PROVE  Sorted(s) \in OrderedSeq /\ Elements(Sorted(s)) = Elements(s)
<1> DEFINE n == Len(s)
           First(k) == {s[i] : i \in 1 .. k}
<1>1. PICK m \in [0 .. n -> OrderedSeq] :
        /\ m[0] = <<>> /\ m[n] = Sorted(s)
        /\ \A k \in 1 .. n : m[k] = InsertAt(m[k - 1], Rank(m[k - 1], s[k]) + 1, s[k])
  BY SortLoop
<1>2. n \in Nat /\ \A k \in 1 .. n : s[k] \in Pair
  OBVIOUS
<1> DEFINE Done == {k \in 0 .. n : Elements(m[k]) = First(k)}
<1>3. 0 \in Done
  BY <1>1 DEF Elements
<1>4. ASSUME NEW k \in 0 .. n - 1, k \in Done PROVE k + 1 \in Done
  <2>1. k + 1 \in 1 .. n /\ (k + 1) - 1 = k /\ k + 1 \in 0 .. n
    BY <1>2
  <2>2. m[k + 1] = InsertAt(m[k], Rank(m[k], s[k + 1]) + 1, s[k + 1])
    BY <1>1, <2>1
  <2>3. Elements(m[k + 1]) = Elements(m[k]) \union {s[k + 1]}
    <3>1. m[k] \in OrderedSeq /\ s[k + 1] \in Pair
      BY <1>1, <1>2, <2>1
    <3> QED BY <2>2, <3>1, InsertOrders
  <2>4. 1 .. (k + 1) = (1 .. k) \union {k + 1}
    BY <2>1
  <2> QED BY <1>4, <2>1, <2>3, <2>4
<1>5. n \in Done
  <2>1. 0 .. n \subseteq Done
    <3> HIDE DEF Done, n
    <3> QED BY <1>2, <1>3, <1>4, Rounds
  <2> QED BY <1>2, <2>1
<1> QED BY <1>1, <1>2, <1>5 DEF Elements

-----------------------------------------------------------------------------
(* The other loops *)

\* Sequences of pairs stay so in every round.
LEMMA AppendType ==
  ASSUME NEW q \in Seq(Pair), NEW x \in Pair
  PROVE  /\ Append(q, x) \in Seq(Pair)
         /\ q # <<>> => Append(Front(q), x) \in Seq(Pair) /\ Last(q) \in Pair
<1>1. q # <<>> => SubSeq(q, 1, Len(q) - 1) \in Seq(Pair)
  OBVIOUS
<1>2. q # <<>> => q[Len(q)] \in Pair
  OBVIOUS
<1> QED BY <1>1, <1>2 DEF Front, Last

LEMMA MergeType ==
  ASSUME NEW q \in Seq(Pair), NEW x \in Pair
  PROVE  Merge(q, x) \in Seq(Pair)
<1>1. CASE q = <<>> \/ x[1] > Last(q)[2]
  BY <1>1, AppendType DEF Merge
<1>2. CASE q # <<>> /\ ~(x[1] > Last(q)[2])
  <2>1. Last(q) \in Pair
    BY <1>2, AppendType
  <2>2. <<Last(q)[1], IF x[2] > Last(q)[2] THEN x[2] ELSE Last(q)[2]>> \in Pair
    BY <2>1 DEF Pair
  <2> QED BY <1>2, <2>2, AppendType DEF Merge
<1> QED BY <1>1, <1>2

LEMMA EdgesType ==
  ASSUME NEW q \in Seq(Pair), NEW x \in Pair, NEW cycle \in Nat
  PROVE  Edges(q, x, cycle) \in Seq(Pair)
<1> DEFINE a == IF x[1] > 0 \/ q = <<>> THEN << <<x[1], Limit>> >> ELSE <<>>
           b == IF x[2] < cycle THEN << <<x[2], 0>> >> ELSE <<>>
<1>1. <<x[1], Limit>> \in Pair /\ <<x[2], 0>> \in Pair
  BY PeriodAssumption DEF Pair
<1>2. a \in Seq(Pair) /\ b \in Seq(Pair)
  BY <1>1
<1>3. Edges(q, x, cycle) = q \o a \o b
  BY DEF Edges
<1> HIDE DEF a, b
<1> QED BY <1>2, <1>3

LEMMA DedupeType ==
  ASSUME NEW q \in Seq(Pair), NEW x \in Pair
  PROVE  Dedupe(q, x) \in Seq(Pair)
  BY AppendType DEF Dedupe

\* The rounds of Merge, of Edges and of Dedupe.
LEMMA MergeLoop ==
  ASSUME NEW s \in Seq(Pair)
  PROVE  \E m \in [0 .. Len(s) -> Seq(Pair)] :
           /\ m[0] = <<>> /\ m[Len(s)] = FoldLeft(Merge, <<>>, s)
           /\ \A k \in 1 .. Len(s) : m[k] = Merge(m[k - 1], s[k])
<1> DEFINE n == Len(s)
           Turn(q, x) == Merge(q, x)
           step == [z \in Seq(Pair) \X (1 .. n) |-> Turn(z[1], s[z[2]])]
           Recurs(h) == h = [t \in SUBSET (1 .. n) |->
                               IF t = {} THEN <<>> ELSE Turn(h[t \ {Max(t)}], s[Max(t)])]
           g == CHOOSE h : Recurs(h)
<1>1. FoldLeft(Merge, <<>>, s) = g[1 .. n]
  <2>1. DOMAIN s = 1 .. n
    OBVIOUS
  <2> QED BY <2>1, Zenon DEF FoldLeft, MapThenFoldSet
<1>2. <<>> \in Seq(Pair) /\ n \in Nat /\ \A k \in 1 .. n : s[k] \in Pair
  OBVIOUS
<1>3. \A q \in Seq(Pair), k \in 1 .. n : Turn(q, s[k]) \in Seq(Pair)
  BY <1>2, MergeType
<1> HIDE DEF Turn, n
<1>4. step \in [Seq(Pair) \X (1 .. n) -> Seq(Pair)]
      /\ \A q \in Seq(Pair), k \in 1 .. n : step[<<q, k>>] = Turn(q, s[k])
  BY <1>3
<1>5. Loop(Seq(Pair), <<>>, n, step)
  BY <1>2, <1>4 DEF Loop
<1> HIDE DEF step
<1>6. PICK h : Recursion(h, Seq(Pair), <<>>, n, step)
  BY <1>5, LoopExists
<1>7. \A t \in SUBSET (1 .. n) : t # {} => t \ {Max(t)} \in SUBSET (1 .. n) /\ Max(t) \in 1 .. n
  BY <1>2, LastIndex
<1>8. Recurs(g)
  <2>1. ASSUME NEW t \in SUBSET (1 .. n), t # {} PROVE h[t] = Turn(h[t \ {Max(t)}], s[Max(t)])
    BY <1>4, <1>6, <1>7, <2>1 DEF Recursion
  <2>2. Recurs(h)
    BY <1>6, <2>1 DEF Recursion
  <2> HIDE DEF Recurs
  <2> QED BY <2>2
<1>9. Follows(g, Seq(Pair), <<>>, n, step)
  <2>1. g[{}] = <<>>
    BY <1>8
  <2>2. ASSUME NEW t \in SUBSET (1 .. n), t # {}, g[t \ {Max(t)}] \in Seq(Pair)
        PROVE  g[t] = step[<<g[t \ {Max(t)}], Max(t)>>]
    <3>1. g[t] = Turn(g[t \ {Max(t)}], s[Max(t)])
      BY <1>8, <2>2
    <3> QED BY <1>4, <1>7, <2>2, <3>1
  <2> HIDE DEF g
  <2> QED BY <2>1, <2>2 DEF Follows
<1> HIDE DEF g
<1>10. PICK m : RunsTo(m, Seq(Pair), <<>>, n, step) /\ m[n] = g[1 .. n]
  BY <1>5, <1>9, LoopRounds
<1>11. \A k \in 1 .. n : m[k] = Turn(m[k - 1], s[k])
  <2>1. \A k \in 1 .. n : k - 1 \in 0 .. n
    BY <1>2
  <2> QED BY <1>4, <1>10, <2>1 DEF RunsTo
<1> QED BY <1>1, <1>10, <1>11 DEF RunsTo, Turn, n

EdgesOf(initial, s, cycle) == FoldLeft(LAMBDA acc, i : Edges(acc, i, cycle), initial, s)

EdgesRun(m, initial, s, cycle) ==
  /\ m \in [0 .. Len(s) -> Seq(Pair)]
  /\ m[0] = initial /\ m[Len(s)] = EdgesOf(initial, s, cycle)
  /\ \A k \in 1 .. Len(s) : m[k] = Edges(m[k - 1], s[k], cycle)

LEMMA EdgesLoop ==
  ASSUME NEW s \in Seq(Pair), NEW cycle \in Nat, NEW initial \in Seq(Pair)
  PROVE  \E m : EdgesRun(m, initial, s, cycle)
<1> DEFINE n == Len(s)
           Turn(q, x) == Edges(q, x, cycle)
           step == [z \in Seq(Pair) \X (1 .. n) |-> Turn(z[1], s[z[2]])]
           Recurs(h) == h = [t \in SUBSET (1 .. n) |->
                               IF t = {} THEN initial ELSE Turn(h[t \ {Max(t)}], s[Max(t)])]
           g == CHOOSE h : Recurs(h)
<1>1. EdgesOf(initial, s, cycle) = g[1 .. n]
  <2>1. DOMAIN s = 1 .. n
    OBVIOUS
  <2> QED BY <2>1, Zenon DEF EdgesOf, FoldLeft, MapThenFoldSet
<1>2. initial \in Seq(Pair) /\ n \in Nat /\ \A k \in 1 .. n : s[k] \in Pair
  OBVIOUS
<1>3. \A q \in Seq(Pair), k \in 1 .. n : Turn(q, s[k]) \in Seq(Pair)
  BY <1>2, EdgesType
<1> HIDE DEF Turn, n
<1>4. step \in [Seq(Pair) \X (1 .. n) -> Seq(Pair)]
      /\ \A q \in Seq(Pair), k \in 1 .. n : step[<<q, k>>] = Turn(q, s[k])
  BY <1>3
<1>5. Loop(Seq(Pair), initial, n, step)
  BY <1>2, <1>4 DEF Loop
<1> HIDE DEF step
<1>6. PICK h : Recursion(h, Seq(Pair), initial, n, step)
  BY <1>5, LoopExists
<1>7. \A t \in SUBSET (1 .. n) : t # {} => t \ {Max(t)} \in SUBSET (1 .. n) /\ Max(t) \in 1 .. n
  BY <1>2, LastIndex
<1>8. Recurs(g)
  <2>1. ASSUME NEW t \in SUBSET (1 .. n), t # {} PROVE h[t] = Turn(h[t \ {Max(t)}], s[Max(t)])
    BY <1>4, <1>6, <1>7, <2>1 DEF Recursion
  <2>2. Recurs(h)
    BY <1>6, <2>1 DEF Recursion
  <2> HIDE DEF Recurs
  <2> QED BY <2>2
<1>9. Follows(g, Seq(Pair), initial, n, step)
  <2>1. g[{}] = initial
    BY <1>8
  <2>2. ASSUME NEW t \in SUBSET (1 .. n), t # {}, g[t \ {Max(t)}] \in Seq(Pair)
        PROVE  g[t] = step[<<g[t \ {Max(t)}], Max(t)>>]
    <3>1. g[t] = Turn(g[t \ {Max(t)}], s[Max(t)])
      BY <1>8, <2>2
    <3> QED BY <1>4, <1>7, <2>2, <3>1
  <2> HIDE DEF g
  <2> QED BY <2>1, <2>2 DEF Follows
<1> HIDE DEF g
<1>10. PICK m : RunsTo(m, Seq(Pair), initial, n, step) /\ m[n] = g[1 .. n]
  BY <1>5, <1>9, LoopRounds
<1>11. \A k \in 1 .. n : m[k] = Turn(m[k - 1], s[k])
  <2>1. \A k \in 1 .. n : k - 1 \in 0 .. n
    BY <1>2
  <2> QED BY <1>4, <1>10, <2>1 DEF RunsTo
<1> QED BY <1>1, <1>10, <1>11 DEF RunsTo, Turn, n, EdgesRun

LEMMA DedupeLoop ==
  ASSUME NEW s \in Seq(Pair)
  PROVE  \E m \in [0 .. Len(s) -> Seq(Pair)] :
           /\ m[0] = <<>> /\ m[Len(s)] = FoldLeft(Dedupe, <<>>, s)
           /\ \A k \in 1 .. Len(s) : m[k] = Dedupe(m[k - 1], s[k])
<1> DEFINE n == Len(s)
           Turn(q, x) == Dedupe(q, x)
           step == [z \in Seq(Pair) \X (1 .. n) |-> Turn(z[1], s[z[2]])]
           Recurs(h) == h = [t \in SUBSET (1 .. n) |->
                               IF t = {} THEN <<>> ELSE Turn(h[t \ {Max(t)}], s[Max(t)])]
           g == CHOOSE h : Recurs(h)
<1>1. FoldLeft(Dedupe, <<>>, s) = g[1 .. n]
  <2>1. DOMAIN s = 1 .. n
    OBVIOUS
  <2> QED BY <2>1, Zenon DEF FoldLeft, MapThenFoldSet
<1>2. <<>> \in Seq(Pair) /\ n \in Nat /\ \A k \in 1 .. n : s[k] \in Pair
  OBVIOUS
<1>3. \A q \in Seq(Pair), k \in 1 .. n : Turn(q, s[k]) \in Seq(Pair)
  BY <1>2, DedupeType
<1> HIDE DEF Turn, n
<1>4. step \in [Seq(Pair) \X (1 .. n) -> Seq(Pair)]
      /\ \A q \in Seq(Pair), k \in 1 .. n : step[<<q, k>>] = Turn(q, s[k])
  BY <1>3
<1>5. Loop(Seq(Pair), <<>>, n, step)
  BY <1>2, <1>4 DEF Loop
<1> HIDE DEF step
<1>6. PICK h : Recursion(h, Seq(Pair), <<>>, n, step)
  BY <1>5, LoopExists
<1>7. \A t \in SUBSET (1 .. n) : t # {} => t \ {Max(t)} \in SUBSET (1 .. n) /\ Max(t) \in 1 .. n
  BY <1>2, LastIndex
<1>8. Recurs(g)
  <2>1. ASSUME NEW t \in SUBSET (1 .. n), t # {} PROVE h[t] = Turn(h[t \ {Max(t)}], s[Max(t)])
    BY <1>4, <1>6, <1>7, <2>1 DEF Recursion
  <2>2. Recurs(h)
    BY <1>6, <2>1 DEF Recursion
  <2> HIDE DEF Recurs
  <2> QED BY <2>2
<1>9. Follows(g, Seq(Pair), <<>>, n, step)
  <2>1. g[{}] = <<>>
    BY <1>8
  <2>2. ASSUME NEW t \in SUBSET (1 .. n), t # {}, g[t \ {Max(t)}] \in Seq(Pair)
        PROVE  g[t] = step[<<g[t \ {Max(t)}], Max(t)>>]
    <3>1. g[t] = Turn(g[t \ {Max(t)}], s[Max(t)])
      BY <1>8, <2>2
    <3> QED BY <1>4, <1>7, <2>2, <3>1
  <2> HIDE DEF g
  <2> QED BY <2>1, <2>2 DEF Follows
<1> HIDE DEF g
<1>10. PICK m : RunsTo(m, Seq(Pair), <<>>, n, step) /\ m[n] = g[1 .. n]
  BY <1>5, <1>9, LoopRounds
<1>11. \A k \in 1 .. n : m[k] = Turn(m[k - 1], s[k])
  <2>1. \A k \in 1 .. n : k - 1 \in 0 .. n
    BY <1>2
  <2> QED BY <1>4, <1>10, <2>1 DEF RunsTo
<1> QED BY <1>1, <1>10, <1>11 DEF RunsTo, Turn, n

-----------------------------------------------------------------------------
(* Merging *)

In(q, t) == \E i \in 1 .. Len(q) : q[i][1] <= t /\ t < q[i][2]

\* Intervals from left to right, with a gap after each.
Apart(q) ==
  /\ \A i \in 1 .. Len(q) : q[i][1] <= q[i][2]
  /\ \A i, j \in 1 .. Len(q) : i < j => q[i][2] < q[j][1]

Proper(q) == \A i \in 1 .. Len(q) : q[i][1] < q[i][2]
Within(q, c) == \A i \in 1 .. Len(q) : q[i][1] <= q[i][2] /\ q[i][2] <= c

\* A sequence without its last pair.
LEMMA FrontElements ==
  ASSUME NEW q \in Seq(Pair), q # <<>>
  PROVE  /\ Front(q) \in Seq(Pair) /\ Len(Front(q)) = Len(q) - 1
         /\ \A i \in 1 .. Len(q) - 1 : Front(q)[i] = q[i]
<1> DEFINE n == Len(q) - 1
<1>1. n \in 0 .. Len(q)
  OBVIOUS
<1> HIDE DEF n
<1>2. SubSeq(q, 1, n) \in Seq(Pair) /\ Len(SubSeq(q, 1, n)) = n
      /\ \A i \in 1 .. n : SubSeq(q, 1, n)[i] = q[i]
  BY <1>1
<1> QED BY <1>2 DEF Front, n

\* A round of Merge adds what the interval covers.
LEMMA MergeStep ==
  ASSUME NEW q \in Seq(Pair), Apart(q), NEW x \in Pair, x[1] <= x[2],
         q # <<>> => Last(q)[1] <= x[1]
  PROVE  /\ Merge(q, x) # <<>> /\ Last(Merge(q, x))[1] <= x[1]
         /\ Apart(Merge(q, x))
         /\ \A t \in Nat : In(Merge(q, x), t) <=> In(q, t) \/ (x[1] <= t /\ t < x[2])
         /\ Proper(q) /\ x[1] < x[2] => Proper(Merge(q, x))
         /\ \A c \in Nat : Within(q, c) /\ x[2] <= c => Within(Merge(q, x), c)
<1> DEFINE n == Len(q)
<1>1. \A i \in 1 .. n : q[i] \in Pair /\ q[i][1] \in Nat /\ q[i][2] \in Nat
  BY DEF Pair
<1>2. x[1] \in Nat /\ x[2] \in Nat /\ n \in Nat
  BY DEF Pair
<1>3. CASE q = <<>> \/ x[1] > Last(q)[2]
  <2> DEFINE p == Append(q, x)
  <2>1. Merge(q, x) = p
    BY <1>3 DEF Merge
  <2>2. /\ Len(p) = n + 1 /\ p[n + 1] = x
        /\ \A i \in 1 .. n : p[i] = q[i]
    OBVIOUS
  <2>3. p # <<>> /\ Last(p) = x
    BY <2>2 DEF Last
  <2> HIDE DEF p
  <2>4. \A i \in 1 .. n : q[i][2] < x[1]
    <3>1. CASE n = 0
      BY <3>1
    <3>2. CASE n > 0
      <4>1. q # <<>> /\ q[n][2] < x[1] /\ n \in 1 .. n
        BY <1>1, <1>2, <1>3, <3>2 DEF Last
      <4>2. \A i \in 1 .. n : i # n => q[i][2] < q[n][1] /\ q[n][1] <= q[n][2]
        BY <3>2 DEF Apart
      <4> QED BY <1>1, <1>2, <4>1, <4>2
    <3> QED BY <1>2, <3>1, <3>2
  <2>5. Apart(p)
    <3>1. \A i \in 1 .. n + 1 : i \in 1 .. n \/ i = n + 1
      BY <1>2
    <3>2. \A i \in 1 .. n + 1 : p[i][1] <= p[i][2]
      BY <2>2, <3>1 DEF Apart
    <3>3. \A i, j \in 1 .. n : i < j => p[i][2] < p[j][1]
      BY <2>2 DEF Apart
    <3>4. \A i \in 1 .. n : p[i][2] < p[n + 1][1]
      BY <2>2, <2>4
    <3>5. \A i, j \in 1 .. n + 1 : i < j => i \in 1 .. n /\ (j \in 1 .. n \/ j = n + 1)
      BY <1>2
    <3> QED BY <2>2, <3>2, <3>3, <3>4, <3>5 DEF Apart
  <2>6. \A t \in Nat : In(p, t) <=> In(q, t) \/ (x[1] <= t /\ t < x[2])
    <3>1. \A i \in 1 .. n + 1 : i \in 1 .. n \/ i = n + 1
      BY <1>2
    <3>2. n + 1 \in 1 .. n + 1 /\ \A i \in 1 .. n : i \in 1 .. n + 1
      BY <1>2
    <3> QED BY <2>2, <3>1, <3>2 DEF In
  <2>7. Proper(q) /\ x[1] < x[2] => Proper(p)
    BY <1>2, <2>2 DEF Proper
  <2>8. \A c \in Nat : Within(q, c) /\ x[2] <= c => Within(p, c)
    BY <1>2, <2>2 DEF Within
  <2> QED BY <1>2, <2>1, <2>3, <2>5, <2>6, <2>7, <2>8
<1>4. CASE q # <<>> /\ ~(x[1] > Last(q)[2])
  <2> DEFINE l == q[n]
             y == <<l[1], IF x[2] > l[2] THEN x[2] ELSE l[2]>>
             p == Append(Front(q), y)
  <2>1. Merge(q, x) = p
    BY <1>4 DEF Merge, Last
  <2>2. n \in 1 .. n /\ l[1] <= x[1] /\ x[1] <= l[2] /\ l[1] \in Nat /\ l[2] \in Nat
    <3>1. n \in 1 .. n
      BY <1>2, <1>4
    <3> QED BY <1>1, <1>2, <1>4, <3>1 DEF Last
  <2>3. y[1] = l[1] /\ y[2] \in Nat /\ y[2] >= x[2] /\ y[2] >= l[2] /\ (y[2] = x[2] \/ y[2] = l[2])
    BY <1>2, <2>2
  <2>4. /\ Len(p) = n /\ p[n] = y
        /\ \A i \in 1 .. n - 1 : p[i] = q[i]
    <3>1. Front(q) \in Seq(Pair) /\ Len(Front(q)) = n - 1 /\ \A i \in 1 .. n - 1 : Front(q)[i] = q[i]
      BY <1>4, FrontElements
    <3> HIDE DEF y
    <3> QED BY <2>2, <3>1
  <2>5. p # <<>> /\ Last(p) = y
    BY <2>2, <2>4 DEF Last
  <2> HIDE DEF p, y
  <2>6. \A i \in 1 .. n : p[i][1] = q[i][1] /\ (i # n => p[i] = q[i])
    BY <2>2, <2>3, <2>4
  <2>7. Apart(p)
    <3>1. ASSUME NEW i \in 1 .. n PROVE p[i][1] <= p[i][2]
      BY <1>1, <2>2, <2>3, <2>4, <2>6, <3>1 DEF Apart
    <3>2. ASSUME NEW i \in 1 .. n, NEW j \in 1 .. n, i < j PROVE p[i][2] < p[j][1]
      <4>1. i # n
        BY <1>2, <3>2
      <4> QED BY <2>6, <3>2, <4>1 DEF Apart
    <3> QED BY <2>4, <3>1, <3>2 DEF Apart
  <2>8. ASSUME NEW t \in Nat PROVE In(p, t) <=> In(q, t) \/ (x[1] <= t /\ t < x[2])
    <3>1. y[1] <= t /\ t < y[2] <=> (l[1] <= t /\ t < l[2]) \/ (x[1] <= t /\ t < x[2])
      BY <1>2, <2>2, <2>3
    <3>2. In(p, t) <=> (y[1] <= t /\ t < y[2]) \/ \E i \in 1 .. n - 1 : q[i][1] <= t /\ t < q[i][2]
      <4>1. \A i \in 1 .. n : i = n \/ i \in 1 .. n - 1
        BY <1>2
      <4>2. \A i \in 1 .. n - 1 : i \in 1 .. n
        BY <1>2
      <4> QED BY <2>2, <2>4, <4>1, <4>2 DEF In
    <3>3. In(q, t) <=> (l[1] <= t /\ t < l[2]) \/ \E i \in 1 .. n - 1 : q[i][1] <= t /\ t < q[i][2]
      <4>1. \A i \in 1 .. n : i = n \/ i \in 1 .. n - 1
        BY <1>2
      <4>2. \A i \in 1 .. n - 1 : i \in 1 .. n
        BY <1>2
      <4> QED BY <2>2, <4>1, <4>2 DEF In
    <3> QED BY <3>1, <3>2, <3>3
  <2>9. Proper(q) /\ x[1] < x[2] => Proper(p)
    <3>1. Proper(q) => l[1] < y[2]
      BY <2>2, <2>3 DEF Proper
    <3> QED BY <2>2, <2>3, <2>4, <2>6, <3>1 DEF Proper
  <2>10. ASSUME NEW c \in Nat, Within(q, c), x[2] <= c PROVE Within(p, c)
    <3>1. \A i \in 1 .. n : p[i][2] <= c
      BY <2>2, <2>3, <2>4, <2>6, <2>10 DEF Within
    <3> QED BY <2>4, <2>7, <3>1 DEF Within, Apart
  <2> QED BY <2>1, <2>2, <2>3, <2>5, <2>7, <2>8, <2>9, <2>10
<1> QED BY <1>3, <1>4

\* Merging keeps what is covered, and separates the intervals.
LEMMA Merged ==
  ASSUME NEW s \in OrderedSeq, s # <<>>, NEW c \in Nat, Within(s, c)
  PROVE  LET q == FoldLeft(Merge, <<>>, s)
         IN  /\ q \in Seq(Pair) /\ q # <<>> /\ Apart(q) /\ Within(q, c)
             /\ Proper(s) => Proper(q)
             /\ \A t \in Nat : In(q, t) <=> In(s, t)
<1> DEFINE n == Len(s)
           Covers(q, k) == \A t \in Nat : In(q, t) <=> \E i \in 1 .. k : s[i][1] <= t /\ t < s[i][2]
           Good(q, k) == /\ Apart(q) /\ Within(q, c) /\ Covers(q, k)
                         /\ Proper(s) => Proper(q)
                         /\ k > 0 => q # <<>> /\ Last(q)[1] <= s[k][1]
                         /\ k = 0 => q = <<>>
<1>1. s \in Seq(Pair) /\ Ordered(s) /\ n \in Nat /\ n > 0
  BY DEF OrderedSeq
<1>2. PICK m \in [0 .. n -> Seq(Pair)] :
        /\ m[0] = <<>> /\ m[n] = FoldLeft(Merge, <<>>, s)
        /\ \A k \in 1 .. n : m[k] = Merge(m[k - 1], s[k])
  BY <1>1, MergeLoop
<1>3. \A k \in 1 .. n : s[k] \in Pair /\ s[k][1] \in Nat /\ s[k][2] \in Nat /\ s[k][1] <= s[k][2] /\ s[k][2] <= c
  BY <1>1 DEF Pair, Within
<1> DEFINE Done == {k \in 0 .. n : Good(m[k], k)}
<1>4. 0 \in Done
  <2>1. Good(<<>>, 0)
    BY DEF Apart, Within, In, Proper
  <2> QED BY <1>1, <1>2, <2>1
<1>5. ASSUME NEW k \in 0 .. n - 1, k \in Done PROVE k + 1 \in Done
  <2> DEFINE q == m[k]
             x == s[k + 1]
  <2>1. k + 1 \in 1 .. n /\ (k + 1) - 1 = k /\ k + 1 \in 0 .. n /\ k \in 0 .. n /\ k + 1 > 0
    BY <1>1
  <2>2. m[k + 1] = Merge(q, x) /\ q \in Seq(Pair)
    BY <1>2, <2>1
  <2>3. Good(q, k)
    BY <1>5
  <2>4. x \in Pair /\ x[1] <= x[2] /\ x[2] <= c
    BY <1>3, <2>1
  <2>5. q # <<>> => Last(q)[1] <= x[1]
    <3>1. SUFFICES ASSUME k > 0 PROVE Last(q)[1] <= x[1]
      BY <2>1, <2>3
    <3>2. k \in 1 .. n /\ s[k][1] <= x[1]
      <4>1. k \in 1 .. n /\ k < k + 1
        BY <2>1, <3>1
      <4>2. ~Before(x, s[k])
        BY <1>1, <2>1, <4>1 DEF Ordered
      <4> QED BY <1>3, <2>1, <4>1, <4>2 DEF Before
    <3>3. q # <<>> /\ Last(q) \in Pair /\ Last(q)[1] <= s[k][1]
      BY <2>2, <2>3, <3>1, AppendType
    <3>4. Last(q)[1] \in Nat /\ s[k][1] \in Nat /\ x[1] \in Nat
      BY <1>3, <2>4, <3>2, <3>3 DEF Pair
    <3> QED BY <3>2, <3>3, <3>4
  <2>6. /\ Merge(q, x) # <<>> /\ Last(Merge(q, x))[1] <= x[1] /\ Apart(Merge(q, x))
        /\ \A t \in Nat : In(Merge(q, x), t) <=> In(q, t) \/ (x[1] <= t /\ t < x[2])
        /\ Proper(q) /\ x[1] < x[2] => Proper(Merge(q, x))
        /\ Within(Merge(q, x), c)
    <3> HIDE DEF q, x
    <3> QED BY <2>2, <2>3, <2>4, <2>5, MergeStep
  <2>7. Covers(Merge(q, x), k + 1)
    <3>1. \A i \in 1 .. (k + 1) : i \in 1 .. k \/ i = k + 1
      BY <2>1
    <3>2. k + 1 \in 1 .. (k + 1) /\ \A i \in 1 .. k : i \in 1 .. (k + 1)
      BY <2>1
    <3>3. Covers(q, k)
      BY <2>3
    <3> QED BY <2>6, <3>1, <3>2, <3>3
  <2>8. Proper(s) => Proper(Merge(q, x))
    BY <2>1, <2>3, <2>6 DEF Proper
  <2>9. Good(Merge(q, x), k + 1)
    <3> HIDE DEF q, Covers
    <3> QED BY <2>1, <2>6, <2>7, <2>8
  <2> HIDE DEF q, Good
  <2> QED BY <2>1, <2>2, <2>9
<1>6. n \in Done
  <2>1. 0 .. n \subseteq Done
    <3> HIDE DEF Done, n
    <3> QED BY <1>1, <1>4, <1>5, Rounds
  <2> QED BY <1>1, <2>1
<1>7. Good(m[n], n) /\ m[n] \in Seq(Pair)
  BY <1>1, <1>2, <1>6
<1> QED BY <1>1, <1>2, <1>7 DEF In

-----------------------------------------------------------------------------
(* Edges *)

\* The pairs of two sequences in a row.
LEMMA ElementsOfConcat ==
  ASSUME NEW a \in Seq(Pair), NEW b \in Seq(Pair)
  PROVE  Elements(a \o b) = Elements(a) \union Elements(b)
<1>1. a \o b \in Seq(Pair) /\ Len(a \o b) = Len(a) + Len(b) /\ Len(a) \in Nat /\ Len(b) \in Nat
  OBVIOUS
<1>2. \A i \in 1 .. Len(a) + Len(b) : (a \o b)[i] = IF i <= Len(a) THEN a[i] ELSE b[i - Len(a)]
  OBVIOUS
<1> DEFINE c == a \o b
<1> HIDE DEF c
<1>3. ASSUME NEW i \in 1 .. Len(c) PROVE c[i] \in Elements(a) \union Elements(b)
  <2>1. CASE i <= Len(a)
    BY <1>1, <1>2, <2>1 DEF Elements, c
  <2>2. CASE i > Len(a)
    <3>1. i - Len(a) \in 1 .. Len(b) /\ c[i] = b[i - Len(a)]
      BY <1>1, <1>2, <2>2 DEF c
    <3> QED BY <3>1 DEF Elements
  <2> QED BY <1>1, <2>1, <2>2
<1>4. ASSUME NEW i \in 1 .. Len(a) PROVE a[i] \in Elements(c)
  <2>1. i \in 1 .. Len(c) /\ c[i] = a[i]
    BY <1>1, <1>2 DEF c
  <2> QED BY <2>1 DEF Elements
<1>5. ASSUME NEW i \in 1 .. Len(b) PROVE b[i] \in Elements(c)
  <2>1. i + Len(a) \in 1 .. Len(c) /\ (i + Len(a)) - Len(a) = i /\ ~(i + Len(a) <= Len(a))
    BY <1>1 DEF c
  <2>2. c[i + Len(a)] = b[i]
    BY <1>1, <1>2, <2>1 DEF c
  <2> QED BY <2>1, <2>2 DEF Elements
<1>6. Elements(c) = Elements(a) \union Elements(b)
  BY <1>3, <1>4, <1>5 DEF Elements
<1> QED BY <1>6 DEF c

\* A round of Edges adds the start of the interval, and its end if that is inside
\* the cycle.
LEMMA EdgesStep ==
  ASSUME NEW q \in Seq(Pair), NEW x \in Pair, NEW c \in Nat, x[1] > 0 \/ q = <<>>
  PROVE  Elements(Edges(q, x, c)) =
           Elements(q) \union {<<x[1], Limit>>} \union (IF x[2] < c THEN {<<x[2], 0>>} ELSE {})
<1> DEFINE a == << <<x[1], Limit>> >>
           b == IF x[2] < c THEN << <<x[2], 0>> >> ELSE <<>>
<1>1. <<x[1], Limit>> \in Pair /\ <<x[2], 0>> \in Pair
  BY PeriodAssumption DEF Pair
<1>2. a \in Seq(Pair) /\ b \in Seq(Pair)
  BY <1>1
<1>3. Edges(q, x, c) = (q \o a) \o b
  BY DEF Edges
<1>4. Elements(a) = {<<x[1], Limit>>}
  BY DEF Elements
<1>5. Elements(b) = IF x[2] < c THEN {<<x[2], 0>>} ELSE {}
  BY DEF Elements
<1> HIDE DEF a, b
<1>6. q \o a \in Seq(Pair)
  BY <1>2
<1>7. Elements(q \o a) = Elements(q) \union Elements(a)
  BY <1>2, ElementsOfConcat
<1>8. Elements((q \o a) \o b) = Elements(q \o a) \union Elements(b)
  BY <1>2, <1>6, ElementsOfConcat
<1> QED BY <1>3, <1>4, <1>5, <1>7, <1>8

\* The charger starts and stops where the intervals do, and where the cycle
\* begins unless an interval does.
Edge(q, c, z) ==
  \/ q[1][1] > 0 /\ z = <<0, 0>>
  \/ \E i \in 1 .. Len(q) : z = <<q[i][1], Limit>> \/ (q[i][2] < c /\ z = <<q[i][2], 0>>)

\* What the loop over the edges begins with.
Opening(q) == IF q[1][1] > 0 THEN << <<0, 0>> >> ELSE <<>>

\* All edges, and nothing else.
LEMMA EdgesFound ==
  ASSUME NEW q \in Seq(Pair), q # <<>>, Apart(q), NEW c \in Nat
  PROVE  LET e == EdgesOf(Opening(q), q, c)
         IN  e \in Seq(Pair) /\ \A z : z \in Elements(e) <=> Edge(q, c, z)
<1> DEFINE n == Len(q)
           EdgeOf(k, z) ==
             \/ q[1][1] > 0 /\ z = <<0, 0>>
             \/ \E i \in 1 .. k : z = <<q[i][1], Limit>> \/ (q[i][2] < c /\ z = <<q[i][2], 0>>)
           initial == Opening(q)
           e == EdgesOf(initial, q, c)
<1>1. /\ n \in Nat /\ n > 0 /\ initial \in Seq(Pair)
      /\ \A z : z \in Elements(initial) <=> EdgeOf(0, z)
  <2>1. <<0, 0>> \in Pair
    BY DEF Pair
  <2>2. n \in Nat /\ n > 0
    OBVIOUS
  <2>3. \A z : ~\E i \in 1 .. 0 : z = <<q[i][1], Limit>> \/ (q[i][2] < c /\ z = <<q[i][2], 0>>)
    OBVIOUS
  <2>4. CASE q[1][1] > 0
    <3> DEFINE o == <<0, 0>>
    <3>1. initial = <<o>> /\ o \in Pair
      BY <2>1, <2>4 DEF Opening
    <3> HIDE DEF o, initial
    <3>2. <<o>> \in Seq(Pair) /\ Len(<<o>>) = 1 /\ <<o>>[1] = o
      BY <3>1
    <3>3. initial \in Seq(Pair) /\ Len(initial) = 1 /\ initial[1] = o
      BY <3>1, <3>2, Zenon
    <3>4. Elements(initial) = {o}
      BY <3>3 DEF Elements
    <3>5. o = <<0, 0>>
      BY DEF o
    <3> QED BY <2>2, <2>3, <2>4, <3>5, <3>3, <3>4
  <2>5. CASE ~(q[1][1] > 0)
    <3>1. initial = <<>>
      BY <2>5 DEF Opening
    <3>2. initial \in Seq(Pair) /\ Elements(initial) = {}
      BY <3>1 DEF Elements
    <3> QED BY <2>2, <2>3, <2>5, <3>2
  <2> QED BY <2>4, <2>5
<1>2. PICK m \in [0 .. n -> Seq(Pair)] :
        /\ m[0] = initial /\ m[n] = e
        /\ \A k \in 1 .. n : m[k] = Edges(m[k - 1], q[k], c)
  <2>1. initial \in Seq(Pair)
    BY <1>1
  <2> HIDE DEF EdgeOf, initial
  <2>2. PICK m : EdgesRun(m, initial, q, c)
    BY <2>1, EdgesLoop
  <2> QED BY <2>2 DEF EdgesRun
<1> HIDE DEF initial, e
<1>3. \A k \in 1 .. n : q[k] \in Pair /\ q[k][1] \in Nat /\ q[k][2] \in Nat
  BY DEF Pair
<1> DEFINE Done == {k \in 0 .. n : \A z : z \in Elements(m[k]) <=> EdgeOf(k, z)}
<1>4. 0 \in Done
  <2> HIDE DEF EdgeOf
  <2>1. Elements(m[0]) = Elements(initial) /\ 0 \in 0 .. n
    BY <1>1, <1>2
  <2> QED BY <1>1, <2>1
<1>5. ASSUME NEW k \in 0 .. n - 1, k \in Done PROVE k + 1 \in Done
  <2> DEFINE x == q[k + 1]
  <2>1. k + 1 \in 1 .. n /\ (k + 1) - 1 = k /\ k + 1 \in 0 .. n /\ k \in 0 .. n
    BY <1>1
  <2>2. m[k + 1] = Edges(m[k], x, c) /\ m[k] \in Seq(Pair) /\ x \in Pair
    BY <1>2, <1>3, <2>1
  <2>3. x[1] > 0 \/ m[k] = <<>>
    <3>1. CASE k = 0
      <4>1. x = q[1] /\ m[k] = initial
        BY <1>2, <3>1
      <4>2. 1 \in 1 .. n
        BY <1>1
      <4>3. q[1][1] \in Nat
        BY <1>3, <4>2
      <4> QED BY <4>1, <4>3 DEF initial, Opening
    <3>2. CASE k > 0
      <4>1. 1 \in 1 .. n /\ 1 < k + 1
        BY <1>1, <3>2
      <4>2. q[1][2] < x[1]
        BY <2>1, <4>1 DEF Apart
      <4> QED BY <1>3, <2>1, <4>1, <4>2
    <3> QED BY <3>1, <3>2
  <2>4. Elements(m[k + 1]) =
          Elements(m[k]) \union {<<x[1], Limit>>} \union (IF x[2] < c THEN {<<x[2], 0>>} ELSE {})
    <3> HIDE DEF x
    <3> QED BY <2>2, <2>3, EdgesStep
  <2>5. \A i \in 1 .. (k + 1) : i \in 1 .. k \/ i = k + 1
    BY <2>1
  <2>6. k + 1 \in 1 .. (k + 1) /\ \A i \in 1 .. k : i \in 1 .. (k + 1)
    BY <2>1
  <2>7. ASSUME NEW z PROVE z \in Elements(m[k + 1]) <=> EdgeOf(k + 1, z)
    <3>1. z \in Elements(m[k]) <=> EdgeOf(k, z)
      BY <1>5
    <3>2. z \in Elements(m[k + 1]) <=>
            z \in Elements(m[k]) \/ z = <<x[1], Limit>> \/ (x[2] < c /\ z = <<x[2], 0>>)
      BY <2>4
    <3>3. EdgeOf(k + 1, z) <=> EdgeOf(k, z) \/ z = <<x[1], Limit>> \/ (x[2] < c /\ z = <<x[2], 0>>)
      BY <2>5, <2>6
    <3> HIDE DEF EdgeOf, x
    <3> QED BY <3>1, <3>2, <3>3
  <2> HIDE DEF EdgeOf
  <2> QED BY <2>1, <2>7
<1>6. n \in Done
  <2>1. 0 .. n \subseteq Done
    <3> HIDE DEF Done, n
    <3> QED BY <1>1, <1>4, <1>5, Rounds
  <2>2. n \in 0 .. n
    BY <1>1
  <2> HIDE DEF Done
  <2> QED BY <2>1, <2>2
<1>7. m[n] \in Seq(Pair) /\ \A z : z \in Elements(m[n]) <=> EdgeOf(n, z)
  <2> HIDE DEF EdgeOf
  <2> QED BY <1>1, <1>2, <1>6
<1> QED BY <1>2, <1>7 DEF Edge, e, initial

-----------------------------------------------------------------------------
(* Periods *)

Rising(q) == \A i, j \in 1 .. Len(q) : i < j => q[i][1] < q[j][1]

\* v is the limit of the last of the pairs of q that have begun at t.
InForce(q, t, v) == \E i \in 1 .. Len(q) :
  /\ q[i][1] <= t /\ q[i][2] = v
  /\ \A j \in 1 .. Len(q) : i < j => t < q[j][1]

\* Dropping and replacing periods changes no limit.
LEMMA DedupeStep ==
  ASSUME NEW q \in Seq(Pair), Rising(q), NEW x \in Pair, q # <<>> => Last(q)[1] <= x[1]
  PROVE  /\ Dedupe(q, x) # <<>> /\ Rising(Dedupe(q, x))
         /\ Last(Dedupe(q, x))[1] <= x[1] /\ Last(Dedupe(q, x))[2] = x[2]
         /\ \A t \in Nat : x[1] <= t => InForce(Dedupe(q, x), t, x[2])
         /\ \A t \in Nat, v \in Nat : t < x[1] /\ InForce(q, t, v) => InForce(Dedupe(q, x), t, v)
<1> DEFINE n == Len(q)
<1>1. n \in Nat /\ x[1] \in Nat /\ x[2] \in Nat
      /\ \A i \in 1 .. n : q[i] \in Pair /\ q[i][1] \in Nat /\ q[i][2] \in Nat
  BY DEF Pair
<1>2. q # <<>> => n \in 1 .. n /\ Last(q) = q[n]
  BY <1>1 DEF Last
<1>3. ASSUME NEW p \in Seq(Pair), NEW k \in 1 .. Len(p), k = Len(p), p[k][1] <= x[1], p[k][2] = x[2],
             NEW t \in Nat, x[1] <= t
      PROVE  InForce(p, t, x[2])
  <2>1. p[k][1] \in Nat
    <3>1. p[k] \in Pair
      OBVIOUS
    <3> QED BY <3>1 DEF Pair
  <2> QED BY <1>1, <1>3, <2>1 DEF InForce
<1>4. CASE q # <<>> /\ Last(q)[1] = x[1]
  <2> DEFINE p == Append(Front(q), x)
  <2>1. Dedupe(q, x) = p
    BY <1>4 DEF Dedupe
  <2>2. /\ p \in Seq(Pair) /\ Len(p) = n /\ p[n] = x
        /\ \A i \in 1 .. n - 1 : p[i] = q[i]
    <3>1. Front(q) \in Seq(Pair) /\ Len(Front(q)) = n - 1 /\ \A i \in 1 .. n - 1 : Front(q)[i] = q[i]
      BY <1>4, FrontElements
    <3> QED BY <1>1, <1>2, <1>4, <3>1
  <2> HIDE DEF p
  <2>3. p # <<>> /\ Last(p) = x /\ n \in 1 .. n /\ q[n][1] = x[1]
    BY <1>2, <1>4, <2>2 DEF Last
  <2>4. \A i \in 1 .. n : p[i][1] = q[i][1] /\ (i # n => p[i] = q[i])
    BY <1>1, <2>2, <2>3
  <2>5. Rising(p)
    BY <2>2, <2>4 DEF Rising
  <2>6. \A t \in Nat : x[1] <= t => InForce(p, t, x[2])
    <3>1. n \in 1 .. Len(p) /\ n = Len(p) /\ p[n][1] <= x[1] /\ p[n][2] = x[2]
      BY <1>1, <2>2, <2>3
    <3> QED BY <1>3, <2>2, <3>1
  <2>7. ASSUME NEW t \in Nat, NEW v \in Nat, t < x[1], InForce(q, t, v) PROVE InForce(p, t, v)
    <3>1. PICK i \in 1 .. n : /\ q[i][1] <= t /\ q[i][2] = v
                              /\ \A j \in 1 .. n : i < j => t < q[j][1]
      BY <2>7 DEF InForce
    <3>2. i # n
      BY <1>1, <2>3, <2>7, <3>1
    <3> QED BY <2>2, <2>4, <3>1, <3>2 DEF InForce
  <2> QED BY <1>1, <2>1, <2>3, <2>5, <2>6, <2>7
<1>5. CASE ~(q # <<>> /\ Last(q)[1] = x[1]) /\ q # <<>> /\ Last(q)[2] = x[2]
  <2>1. Dedupe(q, x) = q
    BY <1>5 DEF Dedupe
  <2>2. \A t \in Nat : x[1] <= t => InForce(q, t, x[2])
    BY <1>2, <1>3, <1>5
  <2> QED BY <1>5, <2>1, <2>2
<1>6. CASE ~(q # <<>> /\ Last(q)[1] = x[1]) /\ ~(q # <<>> /\ Last(q)[2] = x[2])
  <2> DEFINE p == Append(q, x)
  <2>1. Dedupe(q, x) = p
    BY <1>6 DEF Dedupe
  <2>2. /\ p \in Seq(Pair) /\ Len(p) = n + 1 /\ p[n + 1] = x
        /\ \A i \in 1 .. n : p[i] = q[i]
    OBVIOUS
  <2>3. p # <<>> /\ Last(p) = x
    BY <2>2 DEF Last
  <2> HIDE DEF p
  <2>4. \A i \in 1 .. n : q[i][1] < x[1]
    <3>1. SUFFICES ASSUME n > 0 PROVE \A i \in 1 .. n : q[i][1] < x[1]
      BY <1>1
    <3>2. n \in 1 .. n /\ q[n][1] < x[1]
      <4>1. q # <<>>
        BY <3>1
      <4> QED BY <1>1, <1>2, <1>6, <4>1
    <3>3. \A i \in 1 .. n : i # n => q[i][1] < q[n][1]
      BY <1>1, <3>2 DEF Rising
    <3> QED BY <1>1, <3>2, <3>3
  <2>5. Rising(p)
    BY <1>1, <2>2, <2>4 DEF Rising
  <2>6. \A t \in Nat : x[1] <= t => InForce(p, t, x[2])
    <3>1. n + 1 \in 1 .. Len(p) /\ p[n + 1][1] <= x[1] /\ p[n + 1][2] = x[2]
      BY <1>1, <2>2
    <3> QED BY <1>3, <2>2, <3>1
  <2>7. ASSUME NEW t \in Nat, NEW v \in Nat, t < x[1], InForce(q, t, v) PROVE InForce(p, t, v)
    <3>1. PICK i \in 1 .. n : /\ q[i][1] <= t /\ q[i][2] = v
                              /\ \A j \in 1 .. n : i < j => t < q[j][1]
      BY <2>7 DEF InForce
    <3>2. i \in 1 .. Len(p) /\ p[i][1] <= t /\ p[i][2] = v
      BY <1>1, <2>2, <3>1
    <3>3. ASSUME NEW j \in 1 .. Len(p), i < j PROVE t < p[j][1]
      <4>1. CASE j = n + 1
        BY <2>2, <2>7, <4>1
      <4>2. CASE j # n + 1
        <5>1. j \in 1 .. n
          BY <1>1, <2>2, <4>2
        <5> QED BY <2>2, <3>1, <3>3, <5>1
      <4> QED BY <4>1, <4>2
    <3> QED BY <3>2, <3>3 DEF InForce
  <2> QED BY <1>1, <2>1, <2>3, <2>5, <2>6, <2>7
<1> QED BY <1>4, <1>5, <1>6

\* The loop keeps every limit.
LEMMA Deduped ==
  ASSUME NEW s \in OrderedSeq, s # <<>>
  PROVE  LET q == FoldLeft(Dedupe, <<>>, s)
         IN  /\ q \in Seq(Pair) /\ q # <<>> /\ Rising(q)
             /\ \A t \in Nat, v \in Nat : InForce(s, t, v) => InForce(q, t, v)
<1> DEFINE n == Len(s)
           Reached(k, t, v) == \E i \in 1 .. k :
             /\ s[i][1] <= t /\ s[i][2] = v
             /\ \A j \in 1 .. k : i < j => t < s[j][1]
           Good(q, k) == /\ Rising(q)
                         /\ \A t \in Nat, v \in Nat : Reached(k, t, v) => InForce(q, t, v)
                         /\ k > 0 => q # <<>> /\ Last(q)[1] <= s[k][1] /\ Last(q)[2] = s[k][2]
                         /\ k = 0 => q = <<>>
<1>1. s \in Seq(Pair) /\ Ordered(s) /\ n \in Nat /\ n > 0
  BY DEF OrderedSeq
<1>2. PICK m \in [0 .. n -> Seq(Pair)] :
        /\ m[0] = <<>> /\ m[n] = FoldLeft(Dedupe, <<>>, s)
        /\ \A k \in 1 .. n : m[k] = Dedupe(m[k - 1], s[k])
  BY <1>1, DedupeLoop
<1>3. \A k \in 1 .. n : s[k] \in Pair /\ s[k][1] \in Nat /\ s[k][2] \in Nat
  BY <1>1 DEF Pair
<1> DEFINE Done == {k \in 0 .. n : Good(m[k], k)}
<1>4. 0 \in Done
  <2>1. Good(<<>>, 0)
    BY DEF Rising
  <2> HIDE DEF Good
  <2>2. 0 \in 0 .. n
    BY <1>1
  <2> QED BY <1>2, <2>1, <2>2
<1>5. ASSUME NEW k \in 0 .. n - 1, k \in Done PROVE k + 1 \in Done
  <2> DEFINE q == m[k]
             x == s[k + 1]
             p == Dedupe(q, x)
  <2>1. k + 1 \in 1 .. n /\ (k + 1) - 1 = k /\ k + 1 \in 0 .. n /\ k \in 0 .. n /\ k + 1 > 0
    BY <1>1
  <2>2. m[k + 1] = p /\ q \in Seq(Pair) /\ x \in Pair
    BY <1>2, <1>3, <2>1
  <2>3. Good(q, k)
    BY <1>5
  <2>4. \A i \in 1 .. k : s[i][1] <= x[1]
    <3>1. ASSUME NEW i \in 1 .. k PROVE s[i][1] <= x[1]
      <4>1. i \in 1 .. n /\ i < k + 1
        BY <2>1
      <4>2. ~Before(x, s[i])
        BY <1>1, <2>1, <4>1 DEF Ordered
      <4> QED BY <1>3, <2>1, <4>1, <4>2 DEF Before
    <3> QED BY <3>1
  <2>5. q # <<>> => Last(q)[1] <= x[1]
    <3>1. SUFFICES ASSUME k > 0 PROVE Last(q)[1] <= x[1]
      BY <2>1, <2>3
    <3>2. k \in 1 .. k /\ k \in 1 .. n
      BY <2>1, <3>1
    <3>3. q # <<>> /\ Last(q) \in Pair /\ Last(q)[1] <= s[k][1]
      BY <2>2, <2>3, <3>1, AppendType
    <3>4. s[k][1] <= x[1] /\ s[k][1] \in Nat /\ x[1] \in Nat
      BY <1>3, <2>1, <2>4, <3>2 DEF Pair
    <3>5. Last(q)[1] \in Nat
      BY <3>3 DEF Pair
    <3> QED BY <3>3, <3>4, <3>5
  <2> HIDE DEF q, x
  <2>6. /\ p # <<>> /\ Rising(p) /\ Last(p)[1] <= x[1] /\ Last(p)[2] = x[2]
        /\ \A t \in Nat : x[1] <= t => InForce(p, t, x[2])
        /\ \A t \in Nat, v \in Nat : t < x[1] /\ InForce(q, t, v) => InForce(p, t, v)
    BY <2>2, <2>3, <2>5, DedupeStep
  <2> HIDE DEF p
  <2>7. ASSUME NEW t \in Nat, NEW v \in Nat, Reached(k + 1, t, v) PROVE InForce(p, t, v)
    <3>1. PICK i \in 1 .. (k + 1) : /\ s[i][1] <= t /\ s[i][2] = v
                                    /\ \A j \in 1 .. (k + 1) : i < j => t < s[j][1]
      BY <2>7
    <3>2. CASE i = k + 1
      BY <2>6, <3>1, <3>2 DEF x
    <3>3. CASE i # k + 1
      <4>1. i \in 1 .. k /\ k + 1 \in 1 .. (k + 1) /\ i < k + 1 /\ \A j \in 1 .. k : j \in 1 .. (k + 1)
        BY <2>1, <3>3
      <4>2. t < x[1] /\ Reached(k, t, v)
        BY <3>1, <4>1 DEF x
      <4>3. InForce(q, t, v)
        BY <2>3, <4>2
      <4> QED BY <2>6, <4>2, <4>3
    <3> QED BY <3>2, <3>3
  <2>8. Good(p, k + 1)
    <3> HIDE DEF Reached
    <3> QED BY <2>1, <2>6, <2>7 DEF x
  <2> HIDE DEF Good
  <2> QED BY <2>1, <2>2, <2>8
<1>6. n \in Done
  <2>1. 0 .. n \subseteq Done
    <3> HIDE DEF Done, n
    <3> QED BY <1>1, <1>4, <1>5, Rounds
  <2>2. n \in 0 .. n
    BY <1>1
  <2> HIDE DEF Done
  <2> QED BY <2>1, <2>2
<1>7. Good(m[n], n) /\ m[n] \in Seq(Pair)
  <2> HIDE DEF Good
  <2> QED BY <1>1, <1>2, <1>6
<1> QED BY <1>1, <1>2, <1>7 DEF InForce

-----------------------------------------------------------------------------
(* From intervals to periods *)

\* What depends on the pairs alone, not on their order.
LEMMA ElementsTell ==
  ASSUME NEW q \in Seq(Pair)
  PROVE  /\ \A t : In(q, t) <=> \E z \in Elements(q) : z[1] <= t /\ t < z[2]
         /\ Proper(q) <=> \A z \in Elements(q) : z[1] < z[2]
         /\ \A c : Within(q, c) <=> \A z \in Elements(q) : z[1] <= z[2] /\ z[2] <= c
         /\ q = <<>> <=> Elements(q) = {}
<1>1. \A t : In(q, t) <=> \E z \in Elements(q) : z[1] <= t /\ t < z[2]
  BY DEF In, Elements
<1>2. Proper(q) <=> \A z \in Elements(q) : z[1] < z[2]
  BY DEF Proper, Elements
<1>3. \A c : Within(q, c) <=> \A z \in Elements(q) : z[1] <= z[2] /\ z[2] <= c
  BY DEF Within, Elements
<1>4. q = <<>> <=> Elements(q) = {}
  <2>1. ASSUME q # <<>> PROVE q[1] \in Elements(q)
    BY <2>1 DEF Elements
  <2>2. ASSUME q = <<>> PROVE Elements(q) = {}
    BY <2>2 DEF Elements
  <2> QED BY <2>1, <2>2
<1> QED BY <1>1, <1>2, <1>3, <1>4

\* The last of the pairs that have begun.
LEMMA LastBegun ==
  ASSUME NEW s \in OrderedSeq, NEW t \in Nat, NEW k \in 1 .. Len(s), s[k][1] <= t
  PROVE  \E i \in 1 .. Len(s) :
           /\ s[i][1] <= t /\ InForce(s, t, s[i][2])
           /\ \A j \in 1 .. Len(s) : s[j][1] <= t => ~Before(s[i], s[j])
<1> DEFINE S == {i \in 1 .. Len(s) : s[i][1] <= t}
           i == Max(S)
<1>1. s \in Seq(Pair) /\ Ordered(s) /\ Len(s) \in Nat
  BY DEF OrderedSeq
<1>2. \A j \in 1 .. Len(s) : s[j] \in Pair /\ s[j][1] \in Nat
  BY <1>1 DEF Pair
<1>3. i \in S /\ \A j \in S : j <= i
  <2>1. S \in SUBSET (1 .. Len(s)) /\ S # {}
    OBVIOUS
  <2> HIDE DEF S
  <2> QED BY <1>1, <2>1, LastIndex
<1> HIDE DEF i
<1>4. i \in 1 .. Len(s) /\ s[i][1] <= t
  BY <1>3
<1>5. ASSUME NEW j \in 1 .. Len(s), i < j PROVE t < s[j][1]
  <2>1. ~(s[j][1] <= t)
    BY <1>3, <1>4, <1>5
  <2> QED BY <1>2, <2>1
<1>6. InForce(s, t, s[i][2])
  BY <1>4, <1>5 DEF InForce
<1>7. ASSUME NEW j \in 1 .. Len(s), s[j][1] <= t PROVE ~Before(s[i], s[j])
  <2>1. j <= i
    BY <1>3, <1>7
  <2>2. j = i \/ j < i
    BY <1>4, <2>1
  <2> QED BY <1>1, <1>2, <1>4, <2>2, PairOrder DEF Ordered
<1> QED BY <1>4, <1>6, <1>7

\* What is in force at the edges: the limit inside the intervals, and nothing
\* outside of them unless one of them is empty.
LEMMA EdgesTell ==
  ASSUME NEW q \in Seq(Pair), q # <<>>, NEW c \in Nat, Apart(q), Within(q, c),
         NEW s \in OrderedSeq, \A z : z \in Elements(s) <=> Edge(q, c, z),
         NEW t \in Nat, t < c
  PROVE  /\ In(q, t) => InForce(s, t, Limit)
         /\ Proper(q) /\ ~In(q, t) => InForce(s, t, 0)
<1> DEFINE n == Len(q)
<1>1. n \in Nat /\ 1 \in 1 .. n /\ Limit \in Nat /\ Limit > 0
  BY PeriodAssumption
<1>2. \A i \in 1 .. n : q[i][1] \in Nat /\ q[i][2] \in Nat /\ q[i][1] <= q[i][2] /\ q[i][2] <= c
  BY DEF Pair, Within
<1>3. \A j \in 1 .. Len(s) : Edge(q, c, s[j])
  BY DEF Elements
<1>4. \A z : Edge(q, c, z) => \E j \in 1 .. Len(s) : s[j] = z
  <2>1. \A z \in Elements(s) : \E j \in 1 .. Len(s) : s[j] = z
    BY DEF Elements
  <2> QED BY <2>1
<1>5. \E k \in 1 .. Len(s) : s[k][1] <= t
  <2>1. CASE q[1][1] > 0
    <3>1. Edge(q, c, <<0, 0>>)
      BY <2>1 DEF Edge
    <3> QED BY <1>4, <3>1
  <2>2. CASE ~(q[1][1] > 0)
    <3>1. q[1][1] = 0
      BY <1>1, <1>2, <2>2
    <3>2. Edge(q, c, <<q[1][1], Limit>>)
      BY <1>1 DEF Edge
    <3> QED BY <1>4, <3>1, <3>2
  <2> QED BY <2>1, <2>2
<1>6. PICK k \in 1 .. Len(s) : /\ s[k][1] <= t /\ InForce(s, t, s[k][2])
                               /\ \A j \in 1 .. Len(s) : s[j][1] <= t => ~Before(s[k], s[j])
  BY <1>5, LastBegun
<1>7. \A z : Edge(q, c, z) /\ z[1] <= t => ~Before(s[k], z)
  BY <1>4, <1>6
<1>8. Edge(q, c, s[k])
  BY <1>3
<1>9. ASSUME In(q, t) PROVE s[k][2] = Limit
  <2>1. PICK i \in 1 .. n : q[i][1] <= t /\ t < q[i][2]
    BY <1>9 DEF In
  <2>2. ~Before(s[k], <<q[i][1], Limit>>)
    <3>1. Edge(q, c, <<q[i][1], Limit>>)
      BY DEF Edge
    <3> QED BY <1>7, <2>1, <3>1
  <2>3. CASE q[1][1] > 0 /\ s[k] = <<0, 0>>
    <3>1. q[i][1] > 0
      BY <1>1, <1>2, <2>3 DEF Apart
    <3> QED BY <2>2, <2>3, <3>1 DEF Before
  <2>4. ASSUME NEW a \in 1 .. n, q[a][2] < c, s[k] = <<q[a][2], 0>> PROVE FALSE
    <3>1. q[a][2] <= t /\ q[a][2] >= q[i][1]
      BY <1>1, <1>2, <1>6, <2>2, <2>4 DEF Before
    <3>2. a # i
      BY <1>2, <2>1, <3>1
    <3>3. ~(a < i)
      BY <1>2, <3>1 DEF Apart
    <3>4. ~(i < a)
      <4>1. i < a => q[i][2] < q[a][1]
        BY DEF Apart
      <4> QED BY <1>2, <2>1, <3>1, <4>1
    <3> QED BY <3>2, <3>3, <3>4
  <2> QED BY <1>8, <2>3, <2>4 DEF Edge
<1>10. ASSUME Proper(q), ~In(q, t) PROVE s[k][2] = 0
  <2>1. ASSUME NEW a \in 1 .. n, s[k] = <<q[a][1], Limit>> PROVE FALSE
    <3>1. q[a][1] <= t /\ q[a][2] <= t
      BY <1>2, <1>6, <1>10, <2>1 DEF In
    <3>2. Edge(q, c, <<q[a][2], 0>>)
      BY <1>2, <3>1 DEF Edge
    <3>3. ~Before(s[k], <<q[a][2], 0>>)
      BY <1>7, <3>1, <3>2
    <3> QED BY <1>10, <2>1, <3>3 DEF Before, Proper
  <2> QED BY <1>8, <2>1 DEF Edge
<1> QED BY <1>6, <1>9, <1>10

\* The periods made of a list of intervals: the limit inside them, and outside of
\* them nothing unless one is empty.
LEMMA PeriodsTell ==
  ASSUME NEW iv \in Seq(Pair), iv # <<>>, NEW c \in Nat, Within(iv, c), NEW p, p = PeriodsFrom(iv, c)
  PROVE  /\ p \in Seq(Pair) /\ p # <<>> /\ Rising(p)
         /\ \A t \in Nat : t < c /\ In(iv, t) => InForce(p, t, Limit)
         /\ \A t \in Nat : t < c /\ Proper(iv) /\ ~In(iv, t) => InForce(p, t, 0)
<1> DEFINE s == Sorted(iv)
           q == FoldLeft(Merge, <<>>, s)
           e == EdgesOf(Opening(q), q, c)
           r == Sorted(e)
<1>1. p = FoldLeft(Dedupe, <<>>, r)
  BY DEF PeriodsFrom, EdgesOf, Opening
<1>2. s \in OrderedSeq /\ Elements(s) = Elements(iv) /\ s \in Seq(Pair)
  BY SortedSorts DEF OrderedSeq
<1>3. /\ s # <<>> /\ Within(s, c) /\ (Proper(s) <=> Proper(iv))
      /\ \A t : In(s, t) <=> In(iv, t)
  <2> HIDE DEF s
  <2> QED BY <1>2, ElementsTell
<1>4. /\ q \in Seq(Pair) /\ q # <<>> /\ Apart(q) /\ Within(q, c)
      /\ Proper(s) => Proper(q)
      /\ \A t \in Nat : In(q, t) <=> In(s, t)
  <2> HIDE DEF s
  <2> QED BY <1>2, <1>3, Merged
<1>5. e \in Seq(Pair) /\ \A z : z \in Elements(e) <=> Edge(q, c, z)
  <2> HIDE DEF q
  <2> QED BY <1>4, EdgesFound
<1> HIDE DEF q, e
<1>6. r \in OrderedSeq /\ Elements(r) = Elements(e) /\ r \in Seq(Pair)
  BY <1>5, SortedSorts DEF OrderedSeq
<1>7. r # <<>>
  <2>1. 1 \in 1 .. Len(q)
    BY <1>4
  <2>2. <<q[1][1], Limit>> \in Elements(e)
    BY <1>5, <2>1 DEF Edge
  <2> HIDE DEF r
  <2> QED BY <1>6, <2>2, ElementsTell
<1>8. /\ p \in Seq(Pair) /\ p # <<>> /\ Rising(p)
      /\ \A t \in Nat, v \in Nat : InForce(r, t, v) => InForce(p, t, v)
  <2> HIDE DEF r
  <2> QED BY <1>1, <1>6, <1>7, Deduped
<1> HIDE DEF r, s
<1>9. \A t \in Nat : t < c => /\ In(q, t) => InForce(r, t, Limit)
                              /\ Proper(q) /\ ~In(q, t) => InForce(r, t, 0)
  BY <1>4, <1>5, <1>6, EdgesTell
<1>10. Limit \in Nat
  BY PeriodAssumption
<1> QED BY <1>3, <1>4, <1>8, <1>9, <1>10

\* A charger that follows rising periods.
LEMMA LimitIs ==
  ASSUME periods \in Seq(Pair), NEW t \in Nat, NEW v \in Nat, InForce(periods, t, v)
  PROVE  LimitAt(t) = v
<1> DEFINE begun == {n \in DOMAIN periods : periods[n][1] <= t}
<1>1. DOMAIN periods = 1 .. Len(periods)
  OBVIOUS
<1>2. PICK i \in 1 .. Len(periods) :
        /\ periods[i][1] <= t /\ periods[i][2] = v
        /\ \A j \in 1 .. Len(periods) : i < j => t < periods[j][1]
  BY DEF InForce
<1>3. i \in begun /\ \A k \in begun : k <= i
  <2>1. ASSUME NEW k \in begun PROVE k <= i
    <3>1. k \in 1 .. Len(periods) /\ periods[k] \in Pair /\ periods[k][1] \in Nat /\ periods[k][1] <= t
      BY <1>1 DEF Pair
    <3> QED BY <1>2, <3>1
  <2> QED BY <1>1, <1>2, <2>1
<1>4. \A n \in begun : (\A k \in begun : k <= n) => n = i
  <2>1. begun \in SUBSET Nat
    BY <1>1
  <2> QED BY <1>3, <2>1
<1>5. (CHOOSE n \in begun : \A k \in begun : k <= n) = i
  <2> HIDE DEF begun
  <2> QED BY <1>3, <1>4
<1> QED BY <1>2, <1>5 DEF LimitAt

-----------------------------------------------------------------------------
(* The clock *)

\* Facts about \div and %.
LEMMA Remainder ==
  ASSUME NEW n \in Nat \ {0}, NEW a \in Int
  PROVE  /\ a = n * (a \div n) + (a % n)
         /\ a % n \in 0 .. (n - 1) /\ a \div n \in Int
  OBVIOUS

LEMMA RemainderNear ==
  ASSUME NEW n \in Nat \ {0}, NEW a \in (-n) .. (2 * n - 1)
  PROVE  a % n = IF a < 0 THEN a + n ELSE IF a >= n THEN a - n ELSE a
  OBVIOUS

LEMMA RemainderOfSum ==
  ASSUME NEW n \in Nat \ {0}, NEW a \in 0 .. (n - 1), NEW b \in 1 .. n
  PROVE  (a + b) % n = IF a + b >= n THEN a + b - n ELSE a + b
OBVIOUS

LEMMA RemainderUnique ==
  ASSUME NEW n \in Nat \ {0}, NEW k \in Int, NEW r \in 0 .. (n - 1)
  PROVE  (n * k + r) % n = r
  OBVIOUS

LEMMA RemainderShift ==
  ASSUME NEW n \in Nat \ {0}, NEW k \in Int, NEW a \in Int
  PROVE  (a + n * k) % n = a % n
<1> DEFINE d == a \div n
           r == a % n
<1>1. a = n * d + r /\ r \in 0 .. (n - 1) /\ d \in Int
  BY Remainder
<1> HIDE DEF d, r
<1>2. a + n * k = n * (d + k) + r
  BY <1>1
<1>3. (n * (d + k) + r) % n = r
  BY <1>1, RemainderUnique
<1> QED BY <1>2, <1>3 DEF r

LEMMA Multiples ==
  ASSUME NEW n \in Nat \ {0}, NEW a \in Int, NEW b \in Int, a < b
  PROVE  a * n \in Int /\ b * n \in Int /\ a * n + n <= b * n
  OBVIOUS

\* The intervals of a window hold what is less than its duration ahead of its
\* start on the circle.
LEMMA CircularTells ==
  ASSUME NEW c \in Nat \ {0}, NEW start \in Int, NEW duration \in 1 .. c,
         NEW q, q = CircularInterval(start, duration, c)
  PROVE  /\ q \in Seq(Pair) /\ q # <<>> /\ Within(q, c)
         /\ \A t \in 0 .. (c - 1) : In(q, t) <=> (t - start) % c < duration
         /\ (start + duration) % c # 0 => Proper(q)
<1> DEFINE s == start % c
           e == (s + duration) % c
           k == start \div c
<1>1. start = c * k + s /\ s \in 0 .. (c - 1) /\ k \in Int
  BY Remainder
<1>2. ASSUME NEW t \in 0 .. (c - 1)
      PROVE  (t - start) % c = IF t < s THEN t - s + c ELSE t - s
  <2> HIDE DEF k, s
  <2> DEFINE a == t - s
             j == -k
  <2>1. j \in Int /\ t - start = a + c * j /\ a \in (-c) .. (2 * c - 1) /\ a \in Int
    BY <1>1
  <2>2. a = t - s
    OBVIOUS
  <2> HIDE DEF a, j
  <2>3. (a + c * j) % c = a % c
    BY <2>1, RemainderShift
  <2>4. a % c = IF a < 0 THEN a + c ELSE IF a >= c THEN a - c ELSE a
    BY <2>1, RemainderNear
  <2>5. (t - start) % c = IF a < 0 THEN a + c ELSE a
    <3>1. a < c
      BY <1>1, <2>2
    <3> QED BY <2>1, <2>3, <2>4, <3>1
  <2> QED BY <1>1, <2>2, <2>5
<1>3. e = (start + duration) % c
  <2> HIDE DEF k, s
  <2>1. start + duration = (s + duration) + c * k /\ s + duration \in Int
    BY <1>1
  <2> QED BY <1>1, <2>1, RemainderShift
<1>4. e = IF s + duration >= c THEN s + duration - c ELSE s + duration
  <2> HIDE DEF s
  <2> QED BY <1>1, RemainderOfSum
<1> HIDE DEF k
<1>5. q = IF duration >= c THEN << <<0, c>> >>
          ELSE IF s < e THEN << <<s, e>> >> ELSE << <<0, e>>, <<s, c>> >>
  BY Zenon DEF CircularInterval
<1> HIDE DEF s, e
<1>6. CASE duration >= c
  <2> DEFINE x == <<0, c>>
  <2>1. x \in Pair /\ x[1] = 0 /\ x[2] = c
    BY DEF Pair
  <2>2. q = <<x>>
    BY <1>5, <1>6
  <2> HIDE DEF x
  <2>3. q \in Seq(Pair) /\ Len(q) = 1 /\ q[1] = x /\ q # <<>>
    BY <2>1, <2>2
  <2>4. Within(q, c) /\ Proper(q)
    BY <2>1, <2>3 DEF Within, Proper
  <2>5. \A t \in 0 .. (c - 1) : In(q, t) /\ (t - start) % c < duration
    BY <1>1, <1>2, <1>6, <2>1, <2>3 DEF In
  <2> QED BY <2>3, <2>4, <2>5
<1>7. CASE ~(duration >= c) /\ s < e
  <2> DEFINE x == <<s, e>>
  <2>1. x \in Pair /\ x[1] = s /\ x[2] = e /\ e = s + duration /\ e < c
    BY <1>1, <1>4, <1>7 DEF Pair
  <2>2. q = <<x>>
    BY <1>5, <1>7
  <2> HIDE DEF x
  <2>3. q \in Seq(Pair) /\ Len(q) = 1 /\ q[1] = x /\ q # <<>>
    BY <2>1, <2>2
  <2>4. Within(q, c) /\ Proper(q)
    BY <1>1, <1>7, <2>1, <2>3 DEF Within, Proper
  <2>5. ASSUME NEW t \in 0 .. (c - 1) PROVE In(q, t) <=> (t - start) % c < duration
    <3>1. In(q, t) <=> s <= t /\ t < s + duration
      BY <2>1, <2>3 DEF In
    <3>2. (t - start) % c = IF t < s THEN t - s + c ELSE t - s
      BY <1>2
    <3> QED BY <1>1, <2>1, <3>1, <3>2
  <2> QED BY <2>3, <2>4, <2>5
<1>8. CASE ~(duration >= c) /\ ~(s < e)
  <2> DEFINE x == <<0, e>>
             y == <<s, c>>
  <2>1. /\ x \in Pair /\ x[1] = 0 /\ x[2] = e /\ y \in Pair /\ y[1] = s /\ y[2] = c
        /\ e = s + duration - c /\ e >= 0 /\ e < c
    BY <1>1, <1>4, <1>8 DEF Pair
  <2>2. q = <<x, y>>
    BY <1>5, <1>8
  <2> HIDE DEF x, y
  <2>3. q \in Seq(Pair) /\ Len(q) = 2 /\ q[1] = x /\ q[2] = y /\ q # <<>>
    BY <2>1, <2>2
  <2>4. Within(q, c)
    BY <1>1, <2>1, <2>3 DEF Within
  <2>5. e # 0 => Proper(q)
    BY <1>1, <2>1, <2>3 DEF Proper
  <2>6. ASSUME NEW t \in 0 .. (c - 1) PROVE In(q, t) <=> (t - start) % c < duration
    <3>1. In(q, t) <=> (x[1] <= t /\ t < x[2]) \/ (y[1] <= t /\ t < y[2])
      BY <2>3 DEF In
    <3>2. (t - start) % c = IF t < s THEN t - s + c ELSE t - s
      BY <1>2
    <3> DEFINE v == (t - start) % c
    <3> HIDE DEF v
    <3>3. v < duration <=> t < e \/ s <= t
      BY <1>1, <2>1, <3>2 DEF v
    <3> QED BY <1>1, <2>1, <3>1, <3>3 DEF v
  <2> QED BY <1>3, <2>3, <2>4, <2>5, <2>6
<1> QED BY <1>6, <1>7, <1>8

-----------------------------------------------------------------------------
(* Windows *)

Requests == [days : (SUBSET Day) \ {{}}, start : Time, end : Time, offset : Offsets]
WindowDays(r) == IF Daily(r) THEN {0} ELSE r.days
Window(r, d) == CircularInterval(StartOffset(r, d), Duration(r), Cycle(r))

\* How far t is past the start of the window of day d.
Past(r, d, t) == (t - StartOffset(r, d)) % Cycle(r)

\* The type of a request and of what is computed from it.
LEMMA RequestTypes ==
  ASSUME NEW r \in Requests
  PROVE  /\ Days \in Nat \ {0} /\ DayLength \in Nat \ {0}
         /\ r.days \in SUBSET Day /\ r.days # {}
         /\ r.start \in 0 .. DayLength - 1 /\ r.end \in 0 .. DayLength - 1
         /\ r.offset \in -(DayLength - 1) .. DayLength - 1
         /\ Duration(r) \in 1 .. DayLength
         /\ Cycle(r) \in Nat \ {0} /\ Cycle(r) >= DayLength
         /\ Days * DayLength \in Nat /\ Days * DayLength >= DayLength
<1>1. /\ Days \in Nat \ {0} /\ DayLength \in Nat \ {0}
      /\ r.days \in SUBSET Day /\ r.days # {}
      /\ r.start \in 0 .. DayLength - 1 /\ r.end \in 0 .. DayLength - 1
      /\ r.offset \in -(DayLength - 1) .. DayLength - 1
  <2>1. /\ r.days \in (SUBSET Day) \ {{}} /\ r.start \in Time /\ r.end \in Time
        /\ r.offset \in Offsets
    BY DEF Requests
  <2>2. Offsets \subseteq -(DayLength - 1) .. (DayLength - 1)
    BY PeriodAssumption
  <2>3. r.offset \in -(DayLength - 1) .. (DayLength - 1)
    BY <2>1, <2>2
  <2>4. r.days \in SUBSET Day /\ r.days # {}
    BY <2>1
  <2>5. r.start \in 0 .. (DayLength - 1) /\ r.end \in 0 .. (DayLength - 1)
    BY <2>1 DEF Time
  <2> QED BY PeriodAssumption, <2>3, <2>4, <2>5
<1>2. Duration(r) \in 1 .. DayLength
  BY <1>1 DEF Duration
<1>3. Days * DayLength \in Nat /\ Days * DayLength >= DayLength
  <2>1. 0 < Days /\ Days \in Int
    BY <1>1
  <2>2. 0 * DayLength + DayLength <= Days * DayLength /\ Days * DayLength \in Int
    BY <1>1, <2>1, Multiples
  <2> QED BY <1>1, <2>2
<1>4. Cycle(r) \in Nat \ {0} /\ Cycle(r) >= DayLength
  BY <1>1, <1>3 DEF Cycle
<1> QED BY <1>1, <1>2, <1>3, <1>4

\* The window of a day.
LEMMA WindowTells ==
  ASSUME NEW r \in Requests, NEW d \in Day
  PROVE  /\ StartOffset(r, d) \in Int
         /\ Window(r, d) \in Seq(Pair) /\ Window(r, d) # <<>> /\ Within(Window(r, d), Cycle(r))
         /\ \A t \in 0 .. (Cycle(r) - 1) : In(Window(r, d), t) <=> Past(r, d, t) < Duration(r)
         /\ (StartOffset(r, d) + Duration(r)) % Cycle(r) # 0 => Proper(Window(r, d))
<1>1. StartOffset(r, d) \in Int
  <2>1. d \in Int /\ d * DayLength \in Int
    <3>1. d \in Int /\ DayLength \in Int
      BY RequestTypes DEF Day
    <3> QED BY <3>1
  <2> QED BY <2>1, RequestTypes DEF StartOffset
<1>2. Cycle(r) \in Nat \ {0} /\ Duration(r) \in 1 .. Cycle(r)
  BY RequestTypes
<1> DEFINE q == Window(r, d)
           s == StartOffset(r, d)
           u == Duration(r)
           c == Cycle(r)
<1>3. q = CircularInterval(s, u, c)
  BY DEF Window
<1>4. \A t : Past(r, d, t) = (t - s) % c
  BY DEF Past
<1> HIDE DEF q, s, u, c
<1>5. c \in Nat \ {0} /\ s \in Int /\ u \in 1 .. c
  BY <1>1, <1>2 DEF s, u, c
<1>6. /\ q \in Seq(Pair) /\ q # <<>> /\ Within(q, c)
      /\ \A t \in 0 .. (c - 1) : In(q, t) <=> (t - s) % c < u
      /\ (s + u) % c # 0 => Proper(q)
  BY <1>3, <1>5, CircularTells
<1> QED BY Zenon, <1>1, <1>4, <1>6 DEF q, s, u, c

WindowsOf(r) ==
  FoldLeft(LAMBDA acc, d : IF d \in r.days
                           THEN acc \o CircularInterval(StartOffset(r, d), Duration(r), Cycle(r))
                           ELSE acc,
           <<>>, [j \in 1 .. Days |-> j - 1])

\* The rounds that collect the windows of a week.
LEMMA WindowLoop ==
  ASSUME NEW r \in Requests
  PROVE  \E m \in [0 .. Days -> Seq(Pair)] :
           /\ m[0] = <<>> /\ m[Days] = WindowsOf(r)
           /\ \A k \in 1 .. Days : m[k] = IF k - 1 \in r.days THEN m[k - 1] \o Window(r, k - 1) ELSE m[k - 1]
<1> DEFINE n == Days
           s == [i \in 1 .. Days |-> i - 1]
           Turn(q, x) == IF x \in r.days THEN q \o CircularInterval(StartOffset(r, x), Duration(r), Cycle(r)) ELSE q
           step == [z \in Seq(Pair) \X (1 .. n) |-> Turn(z[1], s[z[2]])]
           Recurs(h) == h = [t \in SUBSET (1 .. n) |->
                               IF t = {} THEN <<>> ELSE Turn(h[t \ {Max(t)}], s[Max(t)])]
           g == CHOOSE h : Recurs(h)
<1>1. WindowsOf(r) = g[1 .. n]
  <2>1. DOMAIN s = 1 .. n
    OBVIOUS
  <2> QED BY <2>1, Zenon DEF WindowsOf, FoldLeft, MapThenFoldSet
<1>2. <<>> \in Seq(Pair) /\ n \in Nat /\ \A k \in 1 .. n : s[k] \in Day
  BY RequestTypes DEF Day
<1>3. \A q \in Seq(Pair), k \in 1 .. n : Turn(q, s[k]) \in Seq(Pair)
  BY <1>2, WindowTells DEF Window
<1> HIDE DEF Turn, n
<1>4. step \in [Seq(Pair) \X (1 .. n) -> Seq(Pair)]
      /\ \A q \in Seq(Pair), k \in 1 .. n : step[<<q, k>>] = Turn(q, s[k])
  BY <1>3
<1>5. Loop(Seq(Pair), <<>>, n, step)
  BY <1>2, <1>4 DEF Loop
<1> HIDE DEF step
<1>6. PICK h : Recursion(h, Seq(Pair), <<>>, n, step)
  BY <1>5, LoopExists
<1>7. \A t \in SUBSET (1 .. n) : t # {} => t \ {Max(t)} \in SUBSET (1 .. n) /\ Max(t) \in 1 .. n
  BY <1>2, LastIndex
<1>8. Recurs(g)
  <2>1. ASSUME NEW t \in SUBSET (1 .. n), t # {} PROVE h[t] = Turn(h[t \ {Max(t)}], s[Max(t)])
    BY <1>4, <1>6, <1>7, <2>1 DEF Recursion
  <2>2. Recurs(h)
    BY <1>6, <2>1 DEF Recursion
  <2> HIDE DEF Recurs
  <2> QED BY <2>2
<1>9. Follows(g, Seq(Pair), <<>>, n, step)
  <2>1. g[{}] = <<>>
    BY <1>8
  <2>2. ASSUME NEW t \in SUBSET (1 .. n), t # {}, g[t \ {Max(t)}] \in Seq(Pair)
        PROVE  g[t] = step[<<g[t \ {Max(t)}], Max(t)>>]
    <3>1. g[t] = Turn(g[t \ {Max(t)}], s[Max(t)])
      BY <1>8, <2>2
    <3> QED BY <1>4, <1>7, <2>2, <3>1
  <2> HIDE DEF g
  <2> QED BY <2>1, <2>2 DEF Follows
<1> HIDE DEF g
<1>10. PICK m : RunsTo(m, Seq(Pair), <<>>, n, step) /\ m[n] = g[1 .. n]
  BY <1>5, <1>9, LoopRounds
<1>11. \A k \in 1 .. n : m[k] = Turn(m[k - 1], s[k])
  <2>1. \A k \in 1 .. n : k - 1 \in 0 .. n
    BY <1>2
  <2> QED BY <1>4, <1>10, <2>1 DEF RunsTo
<1>12. ASSUME NEW k \in 1 .. n
       PROVE  m[k] = IF k - 1 \in r.days THEN m[k - 1] \o Window(r, k - 1) ELSE m[k - 1]
  <2>1. s[k] = k - 1
    BY DEF n
  <2>2. m[k] = Turn(m[k - 1], k - 1)
    BY <1>11, <2>1
  <2> QED BY <2>2 DEF Turn, Window
<1> HIDE DEF s, Turn
<1>13. m \in [0 .. n -> Seq(Pair)] /\ m[0] = <<>>
  BY <1>10 DEF RunsTo
<1>14. m[n] = g[1 .. n]
  BY <1>10
<1> QED BY Zenon, <1>1, <1>12, <1>13, <1>14 DEF n

\* The list of all windows.
LEMMA IntervalsTell ==
  ASSUME NEW r \in Requests, NEW q, q = Intervals(r)
  PROVE  /\ q \in Seq(Pair)
         /\ \A z : z \in Elements(q) <=> \E d \in WindowDays(r) : z \in Elements(Window(r, d))
<1>1. \A d \in Day : Window(r, d) \in Seq(Pair)
  BY WindowTells
<1>2. Days \in Nat \ {0} /\ 0 \in Day
  BY RequestTypes DEF Day
<1>3. CASE Daily(r)
  BY <1>1, <1>2, <1>3 DEF Intervals, WindowDays, Window
<1>4. CASE ~Daily(r)
  <2> DEFINE s == [j \in 1 .. Days |-> j - 1]
  <2>1. PICK m \in [0 .. Days -> Seq(Pair)] :
          /\ m[0] = <<>> /\ m[Days] = q
          /\ \A k \in 1 .. Days : m[k] = IF k - 1 \in r.days THEN m[k - 1] \o Window(r, k - 1)
                                        ELSE m[k - 1]
    <3>1. q = WindowsOf(r)
      BY <1>4, Zenon DEF Intervals, WindowsOf
    <3> QED BY <3>1, WindowLoop
  <2> DEFINE Done == {k \in 0 .. Days : \A z : z \in Elements(m[k]) <=>
                        \E d \in r.days : d < k /\ z \in Elements(Window(r, d))}
  <2>2. r.days \in SUBSET Day /\ \A d \in Day : d \in 0 .. Days - 1
    BY RequestTypes DEF Day
  <2>3. 0 \in Done
    <3>1. Elements(m[0]) = {}
      BY <2>1 DEF Elements
    <3>2. \A d \in r.days : ~(d < 0)
      BY <1>2, <2>2
    <3> QED BY <1>2, <3>1, <3>2
  <2>4. ASSUME NEW k \in 0 .. Days - 1, k \in Done PROVE k + 1 \in Done
    <3>1. k + 1 \in 1 .. Days /\ (k + 1) - 1 = k /\ k + 1 \in 0 .. Days /\ k \in 0 .. Days /\ k \in Day
      BY <1>2 DEF Day
    <3>2. m[k + 1] = IF k \in r.days THEN m[k] \o Window(r, k) ELSE m[k]
      BY <2>1, <3>1
    <3>3. m[k] \in Seq(Pair) /\ Window(r, k) \in Seq(Pair)
      BY <1>1, <2>1, <3>1
    <3>4. Elements(m[k + 1]) = Elements(m[k]) \union (IF k \in r.days THEN Elements(Window(r, k)) ELSE {})
      BY <3>2, <3>3, ElementsOfConcat
    <3>5. ASSUME NEW d \in r.days PROVE d < k + 1 <=> d < k \/ d = k
      <4>1. d \in 0 .. Days - 1
        BY <2>2
      <4>2. d \in Int /\ k \in Int
        BY <1>2, <4>1
      <4> QED BY <4>2
    <3>6. ASSUME NEW z
          PROVE  z \in Elements(m[k + 1]) <=> \E d \in r.days : d < k + 1 /\ z \in Elements(Window(r, d))
      <4>1. z \in Elements(m[k]) <=> \E d \in r.days : d < k /\ z \in Elements(Window(r, d))
        BY <2>4
      <4>2. k < k + 1
        BY <3>1
      <4> QED BY <3>4, <3>5, <4>1, <4>2
    <3> QED BY <3>1, <3>6
  <2>5. Days \in Done
    <3>1. 0 .. Days \subseteq Done
      <4>1. Days \in Nat
        BY <1>2
      <4> HIDE DEF Done
      <4> QED BY <2>3, <2>4, <4>1, Rounds
    <3>2. Days \in 0 .. Days
      BY <1>2
    <3> HIDE DEF Done
    <3> QED BY <3>1, <3>2
  <2>6. \A d \in r.days : d < Days
    BY <1>2, <2>2
  <2>7. q \in Seq(Pair) /\ \A z : z \in Elements(q) <=> \E d \in r.days : z \in Elements(Window(r, d))
    <3>1. Days \in 0 .. Days
      BY <1>2
    <3> QED BY <2>1, <2>5, <2>6, <3>1
  <2> QED BY <1>4, <2>7 DEF WindowDays
<1> QED BY <1>3, <1>4

-----------------------------------------------------------------------------
(* What was asked for *)

\* Tick t on the user's clock.
LocalTick(r, t) == (t + r.offset) % (Days * DayLength)
Clock(r, t) == LocalTick(r, t) % DayLength
Today(r, t) == LocalTick(r, t) \div DayLength
Yesterday(r, t) == (Today(r, t) + Days - 1) % Days

\* The user's clock: the day of the week and the time of the day.
LEMMA ClockTells ==
  ASSUME NEW r \in Requests, NEW t \in Int
  PROVE  /\ Clock(r, t) \in 0 .. DayLength - 1
         /\ Today(r, t) \in 0 .. Days - 1 /\ Yesterday(r, t) \in 0 .. Days - 1
         /\ Yesterday(r, t) = IF Today(r, t) = 0 THEN Days - 1 ELSE Today(r, t) - 1
         /\ LocalTick(r, t) = Today(r, t) * DayLength + Clock(r, t)
         /\ \E k \in Int : t + r.offset = (Days * DayLength) * k + LocalTick(r, t)
<1> DEFINE w == Days * DayLength
           l == LocalTick(r, t)
           x == Clock(r, t)
           a == Today(r, t)
<1>1. Days \in Nat \ {0} /\ DayLength \in Nat \ {0} /\ w \in Nat \ {0} /\ t + r.offset \in Int
  BY RequestTypes
<1>2. l \in 0 .. (w - 1) /\ \E k \in Int : t + r.offset = w * k + l
  <2> HIDE DEF w
  <2>1. l = (t + r.offset) % w
    BY DEF LocalTick, w
  <2> QED BY <1>1, <2>1, Remainder
<1>3. x \in 0 .. (DayLength - 1) /\ a \in Int /\ l = DayLength * a + x
  <2>1. l \in Int
    BY <1>1, <1>2
  <2> HIDE DEF l
  <2>2. x = l % DayLength /\ a = l \div DayLength
    BY DEF Clock, Today, l
  <2> QED BY <1>1, <2>1, <2>2, Remainder
<1> HIDE DEF l, x, a
<1>4. l = a * DayLength + x
  BY <1>1, <1>3
<1>5. a >= 0
  <2>1. ASSUME a < 0 PROVE FALSE
    <3>1. a * DayLength + DayLength <= 0 * DayLength /\ a * DayLength \in Int
      BY <1>1, <1>3, <2>1, Multiples
    <3> QED BY <1>1, <1>2, <1>3, <1>4, <3>1
  <2> QED BY <1>3, <2>1
<1>6. a < Days
  <2>1. ASSUME Days < a PROVE FALSE
    <3>1. w + DayLength <= a * DayLength /\ a * DayLength \in Int
      BY <1>1, <1>3, <2>1, Multiples
    <3> HIDE DEF w
    <3> QED BY <1>1, <1>2, <1>3, <1>4, <3>1
  <2>2. a # Days
    <3>1. a = Days => l = w + x
      BY <1>4
    <3> HIDE DEF w
    <3> QED BY <1>1, <1>2, <1>3, <3>1
  <2> QED BY <1>1, <1>3, <2>1, <2>2
<1>7. (a + Days - 1) % Days = IF a = 0 THEN Days - 1 ELSE a - 1
  <2>1. a + Days - 1 \in (-Days) .. (2 * Days - 1)
    BY <1>1, <1>3, <1>5, <1>6
  <2> DEFINE b == a + Days - 1
  <2> HIDE DEF b
  <2>2. b % Days = IF b < 0 THEN b + Days ELSE IF b >= Days THEN b - Days ELSE b
    BY <1>1, <2>1, RemainderNear DEF b
  <2> DEFINE v == b % Days
  <2> HIDE DEF v
  <2>3. v = IF a = 0 THEN Days - 1 ELSE a - 1
    BY <1>1, <1>3, <1>5, <1>6, <2>2 DEF v, b
  <2> QED BY <2>3 DEF v, b
<1>8. Yesterday(r, t) = IF a = 0 THEN Days - 1 ELSE a - 1
  BY <1>7 DEF Yesterday, a
<1>9. a \in 0 .. Days - 1 /\ Yesterday(r, t) \in 0 .. Days - 1
  BY <1>1, <1>3, <1>5, <1>6, <1>8
<1>10. LocalTick(r, t) = Today(r, t) * DayLength + Clock(r, t)
  BY <1>4 DEF l, x, a
<1>11. \E k \in Int : t + r.offset = (Days * DayLength) * k + LocalTick(r, t)
  BY <1>2 DEF l
<1> QED BY Zenon, <1>3, <1>8, <1>9, <1>10, <1>11 DEF x, a

\* The same in the terms of Asked and of the length of the window.
LEMMA AskedOnClock ==
  ASSUME NEW r \in Requests, NEW t \in Int
  PROVE  /\ Asked(r, t) <=>
              \/ Today(r, t) \in r.days /\ r.start <= Clock(r, t) /\ Clock(r, t) < r.start + Duration(r)
              \/ Yesterday(r, t) \in r.days /\ Clock(r, t) + DayLength < r.start + Duration(r)
<1> DEFINE x == Clock(r, t)
<1>1. /\ x \in 0 .. DayLength - 1 /\ r.start \in 0 .. DayLength - 1 /\ r.end \in 0 .. DayLength - 1
      /\ DayLength \in Nat \ {0}
  BY ClockTells, RequestTypes
<1>2. Asked(r, t) <=>
        IF r.start < r.end
        THEN Today(r, t) \in r.days /\ r.start <= x /\ x < r.end
        ELSE \/ Today(r, t) \in r.days /\ r.start <= x
             \/ Yesterday(r, t) \in r.days /\ x < r.end
  BY Zenon DEF Asked, LocalTick, Clock, Today, Yesterday
<1> HIDE DEF x
<1>3. CASE r.start < r.end
  <2>1. Duration(r) = r.end - r.start
    BY <1>1, <1>3 DEF Duration
  <2>2. /\ x < r.start + Duration(r) <=> x < r.end
        /\ ~(x + DayLength < r.start + Duration(r))
    BY <1>1, <2>1
  <2> QED BY <1>2, <1>3, <2>2 DEF x
<1>4. CASE ~(r.start < r.end)
  <2>1. Duration(r) = r.end + DayLength - r.start
    BY <1>1, <1>4 DEF Duration
  <2>2. /\ x < r.start + Duration(r)
        /\ x + DayLength < r.start + Duration(r) <=> x < r.end
    BY <1>1, <2>1
  <2> QED BY <1>2, <1>4, <2>2 DEF x
<1> QED BY <1>3, <1>4

\* Days of a week of at least two, as ticks from its start.
LEMMA DayDistance ==
  ASSUME NEW l \in Nat \ {0}, NEW n \in Nat, n >= 2, NEW a \in 0 .. n - 1, NEW d \in 0 .. n - 1
  PROVE  /\ a * l \in Int /\ d * l \in Int /\ n * l \in Int
         /\ 0 <= a * l /\ a * l + l <= n * l /\ 0 <= d * l /\ d * l + l <= n * l
         /\ 2 * l <= n * l
         /\ d + 1 = a => d * l = a * l - l
         /\ a = 0 /\ d = n - 1 => a * l = 0 /\ d * l = n * l - l
         /\ d + 1 < a => d * l + 2 * l <= a * l
         /\ a < d => a * l + l <= d * l
         /\ a < d /\ (a # 0 \/ d # n - 1) => d * l + 2 * l <= n * l + a * l
<1>1. a * l \in Int /\ d * l \in Int /\ n * l \in Int
  OBVIOUS
<1>2. a * l + l <= n * l /\ d * l + l <= n * l
  BY Multiples
<1>3. 0 <= a * l /\ 0 <= d * l
  <2>1. \A e \in Nat : 0 <= e * l
    OBVIOUS
  <2> QED BY <2>1
<1>4. 2 * l <= n * l
  <2>1. 1 < n /\ n \in Int
    OBVIOUS
  <2>2. 1 * l + l <= n * l
    BY <2>1, Multiples
  <2> QED BY <1>1, <2>2
<1>5. d + 1 = a => d * l = a * l - l
  OBVIOUS
<1>6. a = 0 /\ d = n - 1 => a * l = 0 /\ d * l = n * l - l
  OBVIOUS
<1>7. ASSUME d + 1 < a PROVE d * l + 2 * l <= a * l
  <2>1. d + 1 \in Int /\ a \in Int
    OBVIOUS
  <2>2. (d + 1) * l + l <= a * l
    BY <1>7, <2>1, Multiples
  <2>3. (d + 1) * l = d * l + l
    OBVIOUS
  <2> QED BY <1>1, <2>2, <2>3
<1>8. a < d => a * l + l <= d * l
  BY Multiples
<1>9. ASSUME a < d, a # 0 PROVE d * l + 2 * l <= n * l + a * l
  <2>1. 0 < a /\ a \in Int
    BY <1>9
  <2>2. 0 * l + l <= a * l
    BY <2>1, Multiples
  <2> QED BY <1>1, <1>2, <2>2
<1>10. ASSUME a < d, d # n - 1 PROVE d * l + 2 * l <= n * l + a * l
  <2>1. d + 1 < n /\ d + 1 \in Int /\ n \in Int
    BY <1>10
  <2>2. (d + 1) * l + l <= n * l
    BY <2>1, Multiples
  <2>3. (d + 1) * l = d * l + l
    OBVIOUS
  <2> QED BY <1>1, <1>3, <2>2, <2>3
<1> QED BY <1>1, <1>2, <1>3, <1>4, <1>5, <1>6, <1>7, <1>8, <1>9, <1>10

\* How far the clock is past the start of a window, in a week of two days or more.
LEMMA PastInWeek ==
  ASSUME NEW r \in Requests, ~Daily(r), NEW t \in Int, NEW d \in r.days
  PROVE  Past(r, d, t) < Duration(r) <=>
           \/ /\ d = Today(r, t)
              /\ r.start <= Clock(r, t) /\ Clock(r, t) < r.start + Duration(r)
           \/ d = Yesterday(r, t) /\ Clock(r, t) + DayLength < r.start + Duration(r)
<1> DEFINE l == DayLength
           x == Clock(r, t)
           a == Today(r, t)
           b == Yesterday(r, t)
           w == Days * DayLength
           A == a * DayLength
           D == d * DayLength
           v == A + x - D - r.start
           s == r.start
           u == Duration(r)
<1>1. /\ l \in Nat \ {0} /\ Days \in Nat \ {0} /\ s \in 0 .. l - 1 /\ u \in 1 .. l
      /\ x \in 0 .. l - 1 /\ a \in 0 .. Days - 1 /\ b \in 0 .. Days - 1
      /\ b = (IF a = 0 THEN Days - 1 ELSE a - 1)
      /\ d \in 0 .. Days - 1 /\ w \in Nat \ {0}
  BY ClockTells, RequestTypes DEF Day
<1>2. Days >= 2
  <2>1. ASSUME Days = 1 PROVE FALSE
    <3>1. Day = {0}
      BY <2>1 DEF Day
    <3> QED BY <3>1, RequestTypes DEF Daily
  <2> QED BY <1>1, <2>1
<1>3. /\ A \in Int /\ D \in Int /\ w \in Int
      /\ 0 <= A /\ A + l <= w /\ 0 <= D /\ D + l <= w
      /\ 2 * l <= w
      /\ d + 1 = a => D = A - l
      /\ a = 0 /\ d = Days - 1 => A = 0 /\ D = w - l
      /\ d + 1 < a => D + 2 * l <= A
      /\ a < d => A + l <= D
      /\ a < d /\ (a # 0 \/ d # Days - 1) => D + 2 * l <= w + A
  <2> HIDE DEF a
  <2> QED BY <1>1, <1>2, DayDistance
<1>4. Past(r, d, t) = v % w
  <2>1. PICK k \in Int : t + r.offset = w * k + LocalTick(r, t)
    BY ClockTells
  <2>2. LocalTick(r, t) = A + x
    BY ClockTells
  <2>3. Cycle(r) = w
    BY DEF Cycle
  <2>4. r.offset \in Int /\ v \in Int
    <3> HIDE DEF A, D, x
    <3> QED BY <1>1, <1>3, RequestTypes
  <2>5. t - StartOffset(r, d) = t - (D + s - r.offset)
    BY DEF StartOffset
  <2>6. t - (D + s - r.offset) = v + w * k
    <3> DEFINE y == w * k
    <3>1. y \in Int
      BY <1>1
    <3>2. t + r.offset = y + A + x
      BY <1>1, <1>3, <2>1, <2>2, <3>1
    <3> HIDE DEF y, A, D, x, w, a
    <3>3. t - (D + s - r.offset) = v + y
      BY <1>1, <1>3, <2>4, <3>1, <3>2
    <3> QED BY <3>3 DEF y
  <2> HIDE DEF v, w
  <2>7. (v + w * k) % w = v % w
    BY <1>1, <2>4, RemainderShift
  <2> QED BY <2>3, <2>5, <2>6, <2>7 DEF Past
<1> HIDE DEF A, D, w, x, a, b, u, l, s
<1>5. v \in (-w) .. (2 * w - 1)
  BY <1>1, <1>3 DEF s
<1>6. v = A + x - D - s
  BY DEF s
<1> HIDE DEF v
<1>7. v % w = IF v < 0 THEN v + w ELSE IF v >= w THEN v - w ELSE v
  BY <1>1, <1>5, RemainderNear
<1>8. v < w
  BY <1>1, <1>3, <1>6
<1> DEFINE p == v % w
<1> HIDE DEF p
<1>9. v \in Int
  BY <1>1, <1>5
<1>10. p = IF v < 0 THEN v + w ELSE v
  BY <1>3, <1>7, <1>8, <1>9 DEF p
<1>11. CASE d = a
  <2>1. A = D /\ d # b
    BY <1>1, <1>2, <1>11 DEF A, D
  <2>2. v = x - s
    BY <1>1, <1>3, <1>6, <2>1
  <2>3. p < u <=> s <= x /\ x < s + u
    BY <1>1, <1>3, <1>10, <2>2
  <2> QED BY <1>4, <1>11, <2>1, <2>3 DEF p, u, s, x, a, b, l
<1>12. CASE d = b
  <2>1. d # a
    BY <1>1, <1>2, <1>12
  <2>2. d + 1 = a \/ (a = 0 /\ d = Days - 1)
    BY <1>1, <1>12
  <2>3. p = x + l - s
    <3>1. CASE d + 1 = a
      <4>1. v = x + l - s
        BY <1>1, <1>3, <1>6, <3>1
      <4> QED BY <1>1, <1>10, <4>1
    <3>2. CASE a = 0 /\ d = Days - 1
      <4>1. v = x + l - s - w
        BY <1>1, <1>3, <1>6, <3>2
      <4>2. v < 0
        BY <1>1, <1>3, <4>1
      <4>3. p = v + w
        BY <1>10, <4>2
      <4> QED BY <1>1, <1>3, <4>1, <4>3
    <3> QED BY <2>2, <3>1, <3>2
  <2>4. p < u <=> x + l < s + u
    BY <1>1, <2>3
  <2> QED BY <1>4, <1>12, <2>1, <2>4 DEF p, u, s, x, a, b, l
<1>13. CASE d # a /\ d # b
  <2>1. ASSUME d < a PROVE ~(p < u)
    <3>1. d + 1 < a
      BY <1>1, <1>13, <2>1
    <3>2. v >= 2 * l + x - s
      BY <1>1, <1>3, <1>6, <3>1
    <3> QED BY <1>1, <1>9, <1>10, <3>2
  <2>2. ASSUME a < d PROVE ~(p < u)
    <3>1. a # 0 \/ d # Days - 1
      BY <1>1, <1>13
    <3>2. v < 0 /\ v + w >= 2 * l + x - s
      BY <1>1, <1>3, <1>6, <2>2, <3>1
    <3> QED BY <1>1, <1>3, <1>10, <1>9, <3>2
  <2>3. ~(p < u)
    <3>1. d < a \/ a < d
      BY <1>1, <1>13
    <3> QED BY <2>1, <2>2, <3>1
  <2> QED BY <1>4, <1>13, <2>3 DEF p, u, a, b
<1> QED BY <1>11, <1>12, <1>13

\* The same in a day.
LEMMA PastInDay ==
  ASSUME NEW r \in Requests, Daily(r), NEW t \in Int
  PROVE  Past(r, 0, t) < Duration(r) <=>
           \/ r.start <= Clock(r, t) /\ Clock(r, t) < r.start + Duration(r)
           \/ Clock(r, t) + DayLength < r.start + Duration(r)
<1> DEFINE l == DayLength
           x == Clock(r, t)
           a == Today(r, t)
           s == r.start
           u == Duration(r)
           v == x - s
<1>1. /\ l \in Nat \ {0} /\ s \in 0 .. l - 1 /\ u \in 1 .. l /\ x \in 0 .. l - 1
      /\ a \in Int /\ Days \in Int /\ r.offset \in Int
  <2>1. /\ l \in Nat \ {0} /\ s \in 0 .. l - 1 /\ u \in 1 .. l
        /\ Days \in Int /\ r.offset \in Int
    BY RequestTypes
  <2>2. x \in 0 .. l - 1 /\ a \in 0 .. Days - 1
    BY ClockTells
  <2> HIDE DEF x, a, s, u
  <2> QED BY <2>1, <2>2
<1>2. Past(r, 0, t) = v % l
  <2>1. PICK k \in Int : t + r.offset = (Days * l) * k + LocalTick(r, t)
    BY ClockTells
  <2>2. LocalTick(r, t) = a * l + x
    BY ClockTells
  <2>3. Cycle(r) = l
    BY DEF Cycle
  <2> DEFINE y == Days * k + a
  <2>4. y \in Int
    BY <1>1
  <2>5. t + r.offset = l * y + x
    BY <1>1, <2>1, <2>2
  <2>6. t - StartOffset(r, 0) = t - (s - r.offset)
    <3>1. 0 * DayLength = 0
      BY <1>1
    <3> QED BY <1>1, <3>1 DEF StartOffset
  <2> HIDE DEF y, x, s, l
  <2>7. t - (s - r.offset) = v + l * y
    <3> DEFINE z == l * y
    <3>1. z \in Int
      BY <1>1, <2>4
    <3>2. t + r.offset = z + x
      BY <2>5
    <3> HIDE DEF z
    <3>3. t \in Int /\ r.offset \in Int /\ s \in Int /\ x \in Int /\ z \in Int
      BY <1>1, <3>1
    <3>4. t - (s - r.offset) = (x - s) + z
      BY <3>2, <3>3
    <3> QED BY <3>4 DEF z
  <2>8. v \in Int
    BY <1>1
  <2> HIDE DEF v
  <2>9. (v + l * y) % l = v % l
    BY <1>1, <2>4, <2>8, RemainderShift
  <2> QED BY <2>3, <2>6, <2>7, <2>9 DEF Past
<1> HIDE DEF x, s, l, u
<1>3. v \in (-l) .. (2 * l - 1) /\ v < l /\ v \in Int
  BY <1>1
<1> HIDE DEF v
<1>4. v % l = IF v < 0 THEN v + l ELSE IF v >= l THEN v - l ELSE v
  BY <1>1, <1>3, RemainderNear
<1> DEFINE p == v % l
<1> HIDE DEF p
<1>5. p = IF v < 0 THEN v + l ELSE v
  BY <1>1, <1>3, <1>4 DEF p
<1>6. p < u <=> (s <= x /\ x < s + u) \/ x + l < s + u
  BY <1>1, <1>5 DEF v
<1> QED BY <1>2, <1>6 DEF p, u, s, x, l

\* A tick was asked for when it is in a window.
LEMMA AskedTells ==
  ASSUME NEW r \in Requests, NEW t \in Int
  PROVE  Asked(r, t) <=> \E d \in WindowDays(r) : Past(r, d, t) < Duration(r)
<1> DEFINE Began == r.start <= Clock(r, t) /\ Clock(r, t) < r.start + Duration(r)
           Lasts == Clock(r, t) + DayLength < r.start + Duration(r)
<1>1. Asked(r, t) <=> (Today(r, t) \in r.days /\ Began) \/ (Yesterday(r, t) \in r.days /\ Lasts)
  BY AskedOnClock
<1>2. CASE Daily(r)
  <2>1. Today(r, t) \in r.days /\ Yesterday(r, t) \in r.days
    BY <1>2, ClockTells DEF Daily, Day
  <2>2. Past(r, 0, t) < Duration(r) <=> Began \/ Lasts
    BY <1>2, PastInDay
  <2>3. WindowDays(r) = {0}
    BY <1>2 DEF WindowDays
  <2> HIDE DEF Began, Lasts
  <2> QED BY <1>1, <2>1, <2>2, <2>3
<1>3. CASE ~Daily(r)
  <2>1. \A d \in r.days : Past(r, d, t) < Duration(r) <=>
                            (d = Today(r, t) /\ Began) \/ (d = Yesterday(r, t) /\ Lasts)
    BY <1>3, PastInWeek
  <2>2. WindowDays(r) = r.days
    BY <1>3 DEF WindowDays
  <2> HIDE DEF Began, Lasts
  <2> QED BY <1>1, <2>1, <2>2
<1> QED BY <1>2, <1>3

-----------------------------------------------------------------------------
(* The profile *)

PeriodsInv ==
  /\ request \in Requests
  /\ periods = <<>> \/ periods = PeriodsFrom(Intervals(request), Cycle(request))

\* The profile is the one made of the request.
LEMMA PeriodsInvariant == PeriodsSpec => []PeriodsInv
<1>1. PeriodsInit => PeriodsInv
  BY DEF PeriodsInit, PeriodsInv, Requests
<1>2. PeriodsInv /\ [PeriodsNext]_periodsVars => PeriodsInv'
  <2> SUFFICES ASSUME PeriodsInv, [PeriodsNext]_periodsVars PROVE PeriodsInv'
    OBVIOUS
  <2>1. CASE Build
    <3>1. request' = request /\ periods' = PeriodsFrom(Intervals(request), Cycle(request))
      BY <2>1 DEF Build
    <3> QED BY <3>1 DEF PeriodsInv
  <2>2. CASE UNCHANGED periodsVars
    BY <2>2 DEF periodsVars, PeriodsInv
  <2> QED BY <2>1, <2>2 DEF PeriodsNext
<1> QED BY <1>1, <1>2, PTL DEF PeriodsSpec

\* The intervals of a request: they hold what was asked for.
LEMMA IntervalsFit ==
  ASSUME NEW r \in Requests, NEW q, q = Intervals(r), NEW c, c = Cycle(r)
  PROVE  /\ q \in Seq(Pair) /\ q # <<>> /\ Within(q, c)
         /\ EndsInsideCycle(r) => Proper(q)
         /\ \A t \in 0 .. (c - 1) : In(q, t) <=> Asked(r, t)
<1>1. /\ q \in Seq(Pair)
      /\ \A z : z \in Elements(q) <=> \E d \in WindowDays(r) : z \in Elements(Window(r, d))
  BY IntervalsTell
<1>2. WindowDays(r) \in SUBSET Day /\ WindowDays(r) # {} /\ WindowDays(r) \in SUBSET r.days
  <2>1. r.days \in SUBSET Day /\ r.days # {} /\ 0 \in Day
    BY RequestTypes DEF Day
  <2>2. Daily(r) => 0 \in r.days
    BY <2>1 DEF Daily
  <2> QED BY <2>1, <2>2 DEF WindowDays
<1>3. ASSUME NEW d \in WindowDays(r)
      PROVE  /\ Window(r, d) \in Seq(Pair) /\ Window(r, d) # <<>> /\ Within(Window(r, d), c)
             /\ \A t \in 0 .. (c - 1) : In(Window(r, d), t) <=> Past(r, d, t) < Duration(r)
             /\ EndsInsideCycle(r) => Proper(Window(r, d))
  <2>1. d \in Day /\ d \in r.days
    BY <1>2
  <2> QED BY <2>1, WindowTells DEF EndsInsideCycle
<1>4. q # <<>>
  <2>1. PICK d \in WindowDays(r) : TRUE
    BY <1>2
  <2>2. Elements(Window(r, d)) # {}
    BY <1>3, ElementsTell
  <2> QED BY <1>1, <2>2, ElementsTell
<1>5. Within(q, c)
  <2>1. \A d \in WindowDays(r) : \A z \in Elements(Window(r, d)) : z[1] <= z[2] /\ z[2] <= c
    BY <1>3, ElementsTell
  <2> QED BY <1>1, <2>1, ElementsTell
<1>6. EndsInsideCycle(r) => Proper(q)
  <2>1. EndsInsideCycle(r) => \A d \in WindowDays(r) : \A z \in Elements(Window(r, d)) : z[1] < z[2]
    BY <1>3, ElementsTell
  <2> QED BY <1>1, <2>1, ElementsTell
<1>7. ASSUME NEW t \in 0 .. (c - 1) PROVE In(q, t) <=> Asked(r, t)
  <2>1. In(q, t) <=> \E d \in WindowDays(r) : \E z \in Elements(Window(r, d)) : z[1] <= t /\ t < z[2]
    BY <1>1, ElementsTell
  <2>2. \A d \in WindowDays(r) :
          (\E z \in Elements(Window(r, d)) : z[1] <= t /\ t < z[2]) <=> Past(r, d, t) < Duration(r)
    BY <1>3, ElementsTell
  <2>3. t \in Int
    BY RequestTypes
  <2> QED BY <2>1, <2>2, <2>3, AskedTells
<1> QED BY <1>1, <1>4, <1>5, <1>6, <1>7

\* The profile that has been built, and what is in force at a tick of it.
LEMMA ProfileTells ==
  ASSUME PeriodsInv, Built
  PROVE  /\ periods \in Seq(Pair) /\ Rising(periods)
         /\ \A t \in 0 .. (Cycle(request) - 1) :
              /\ Asked(request, t) => LimitAt(t) = Limit
              /\ EndsInsideCycle(request) /\ ~Asked(request, t) => LimitAt(t) = 0
<1> DEFINE c == Cycle(request)
           q == Intervals(request)
<1>1. request \in Requests /\ periods = PeriodsFrom(q, c)
  BY DEF PeriodsInv, Built
<1>2. c \in Nat /\ Limit \in Nat /\ 0 \in Nat
  BY <1>1, RequestTypes, PeriodAssumption
<1>3. /\ q \in Seq(Pair) /\ q # <<>> /\ Within(q, c)
      /\ EndsInsideCycle(request) => Proper(q)
      /\ \A t \in 0 .. (c - 1) : In(q, t) <=> Asked(request, t)
  BY <1>1, IntervalsFit
<1> HIDE DEF c, q
<1>4. /\ periods \in Seq(Pair) /\ Rising(periods)
      /\ \A t \in Nat : t < c /\ In(q, t) => InForce(periods, t, Limit)
      /\ \A t \in Nat : t < c /\ Proper(q) /\ ~In(q, t) => InForce(periods, t, 0)
  BY <1>1, <1>2, <1>3, PeriodsTell
<1>5. ASSUME NEW t \in 0 .. (c - 1)
      PROVE  /\ Asked(request, t) => LimitAt(t) = Limit
             /\ EndsInsideCycle(request) /\ ~Asked(request, t) => LimitAt(t) = 0
  <2>1. t \in Nat /\ t < c
    BY <1>2
  <2> QED BY <1>2, <1>3, <1>4, <2>1, LimitIs
<1> QED BY <1>4, <1>5 DEF c

\* The charger may charge whenever the user asked for it, for every week, every
\* length of the day, every zone and every schedule.
THEOREM WindowsAreKept == PeriodsSpec => []WindowsNeverLost
<1>1. PeriodsInv => WindowsNeverLost
  BY ProfileTells DEF WindowsNeverLost
<1> QED BY <1>1, PeriodsInvariant, PTL

\* The charger may not charge outside the windows when none of them ends with
\* the cycle.
THEOREM NothingOutsideWindows == PeriodsSpec => []ClosedOutsideWindows
<1>1. PeriodsInv => ClosedOutsideWindows
  BY ProfileTells DEF ClosedOutsideWindows
<1> QED BY <1>1, PeriodsInvariant, PTL

\* No two periods of a profile start together, and each starts after the one
\* before it.
THEOREM PeriodsAreInOrder == PeriodsSpec => [](periods \in Seq(Pair) /\ Rising(periods))
<1>1. PeriodsInv => periods \in Seq(Pair) /\ Rising(periods)
  <2>1. <<>> \in Seq(Pair) /\ Rising(<<>>)
    BY DEF Rising
  <2> QED BY <2>1, ProfileTells DEF Built
<1> QED BY <1>1, PeriodsInvariant, PTL
=============================================================================
