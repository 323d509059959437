------------------------------ MODULE OcppCalls ------------------------------
(***************************************************************************)
(* Commands to a charger over one session: OcppCoordinator._ocpp_call and  *)
(* ChargePointSession.  A call registers a future under its unique id,     *)
(* writes its frame under the send lock and waits for the future, for 20 s *)
(* at most.  The session's task reads answers and inbound calls from the   *)
(* same socket and writes its replies under the same lock.                 *)
(*                                                                         *)
(* A step is the code between two awaits that suspend: a frame write       *)
(* suspends only on a full transport buffer, the lock only when it is      *)
(* held.  asyncio.Lock is first come first served, so the lock and its     *)
(* waiters are one queue whose head is the holder.                         *)
(*                                                                         *)
(* The charger is an environment: it reads frames in order, answers what   *)
(* it likes as late as it likes, more than once or never, and sends calls. *)
(***************************************************************************)
EXTENDS Naturals, Sequences

CONSTANTS
  Call,        \* calls, each made once: a unique id is a fresh uuid
  Reader,      \* the session's own task, as a user of the send lock
  MaxInFlight  \* bound on the frames travelling from the charger

ASSUME CallAssumption ==
  /\ Reader \notin Call
  /\ MaxInFlight \in Nat

VARIABLES
  phase,      \* where each call's coroutine stands
  outcome,    \* how it ended
  future,     \* the call's future
  pending,    \* ids in ChargePointSession._pending_calls
  sendQueue,  \* holder and waiters of _send_lock
  writing,    \* the holder is suspended inside send_str
  reader,     \* the session's task
  closed,     \* websocket.closed
  lost,       \* the transport is gone
  registered, \* the session is the charger's entry in _ocpp_callers
  adopted,    \* charge_point_can_receive_commands
  toCharger,  \* frames of calls on their way
  fromCharger, \* frames on their way back
  executed,   \* calls the charger has carried out
  answers     \* every answer it has given

callVars == <<phase, outcome, future, pending>>
sockVars == <<closed, lost>>
regVars  == <<registered, adopted>>
netVars  == <<toCharger, fromCharger, executed, answers>>
vars == <<phase, outcome, future, pending, sendQueue, writing, reader, closed,
          lost, registered, adopted, toCharger, fromCharger, executed, answers>>

Answer  == {"result", "error"}
Inbound == "inbound"   \* a CALL of the charger's own
Frame   == (Call \X Answer) \union {<<Reader, Inbound>>}
Phase   == {"idle", "queued", "sending", "waiting", "done"}
Outcome == {"none", "result", "error", "timeout", "cancelled", "sendFailed",
            "refused"}

TypeOK ==
  /\ phase \in [Call -> Phase]
  /\ outcome \in [Call -> Outcome]
  /\ future \in [Call -> {"none", "pending", "result", "error", "cancelled"}]
  /\ pending \in SUBSET Call
  /\ sendQueue \in Seq(Call \union {Reader})
  /\ writing \in BOOLEAN
  /\ reader \in {"reading", "replying", "ended"}
  /\ closed \in BOOLEAN
  /\ lost \in BOOLEAN
  /\ registered \in BOOLEAN
  /\ adopted \in BOOLEAN
  /\ toCharger \in Seq(Call)
  /\ fromCharger \in Seq(Frame)
  /\ executed \in SUBSET Call
  /\ answers \in SUBSET (Call \X Answer)

Init ==
  /\ phase = [c \in Call |-> "idle"]
  /\ outcome = [c \in Call |-> "none"]
  /\ future = [c \in Call |-> "none"]
  /\ pending = {}
  /\ sendQueue = <<>>
  /\ writing = FALSE
  /\ reader = "reading"
  /\ closed = FALSE
  /\ lost = FALSE
  /\ registered = TRUE
  /\ adopted = TRUE
  /\ toCharger = <<>>
  /\ fromCharger = <<>>
  /\ executed = {}
  /\ answers = {}

-----------------------------------------------------------------------------
(* Calls                                                                   *)

Refused == ~registered \/ ~adopted \/ closed

\* send_str raises on a closing or broken transport.
CannotWrite == closed \/ lost

\* The holder of the lock is done with it.
Release(rest) == sendQueue' = rest /\ writing' = FALSE

\* Mutant: a write that raises leaves the lock held.
WriteCallKeepsLock(c, rest) ==
  \/ /\ CannotWrite
     /\ phase' = [phase EXCEPT ![c] = "done"]
     /\ outcome' = [outcome EXCEPT ![c] = "sendFailed"]
     /\ sendQueue' = <<c>> \o rest
     /\ UNCHANGED <<writing, toCharger>>
  \/ /\ ~CannotWrite
     /\ phase' = [phase EXCEPT ![c] = "waiting"]
     /\ toCharger' = Append(toCharger, c)
     /\ Release(rest)
     /\ UNCHANGED outcome
  \/ /\ ~CannotWrite
     /\ phase' = [phase EXCEPT ![c] = "sending"]
     /\ toCharger' = Append(toCharger, c)
     /\ sendQueue' = <<c>> \o rest
     /\ writing' = TRUE
     /\ UNCHANGED outcome

\* _send_frame once c holds the lock, `rest` waiting behind it: the write
\* raises, completes, or is suspended with its bytes already buffered.
WriteCall(c, rest) ==
  \/ /\ CannotWrite
     /\ phase' = [phase EXCEPT ![c] = "done"]
     /\ outcome' = [outcome EXCEPT ![c] = "sendFailed"]
     /\ Release(rest)
     /\ UNCHANGED toCharger
  \/ /\ ~CannotWrite
     /\ phase' = [phase EXCEPT ![c] = "waiting"]
     /\ toCharger' = Append(toCharger, c)
     /\ Release(rest)
     /\ UNCHANGED outcome
  \/ /\ ~CannotWrite
     /\ phase' = [phase EXCEPT ![c] = "sending"]
     /\ toCharger' = Append(toCharger, c)
     /\ sendQueue' = <<c>> \o rest
     /\ writing' = TRUE
     /\ UNCHANGED outcome

RefuseCall(c) ==
  /\ phase[c] = "idle"
  /\ Refused
  /\ phase' = [phase EXCEPT ![c] = "done"]
  /\ outcome' = [outcome EXCEPT ![c] = "refused"]
  /\ UNCHANGED <<future, pending, sendQueue, writing, reader, sockVars,
                 regVars, netVars>>

StartCall(c) ==
  /\ phase[c] = "idle"
  /\ ~Refused
  /\ future' = [future EXCEPT ![c] = "pending"]
  /\ pending' = pending \union {c}
  /\ \/ /\ sendQueue = <<>>
        /\ WriteCall(c, <<>>)
     \/ /\ sendQueue # <<>>
        /\ phase' = [phase EXCEPT ![c] = "queued"]
        /\ sendQueue' = Append(sendQueue, c)
        /\ UNCHANGED <<outcome, writing, toCharger>>
  /\ UNCHANGED <<reader, sockVars, regVars, fromCharger, executed, answers>>

\* A waiter gets the lock.
QueuedCall(c) ==
  /\ phase[c] = "queued"
  /\ Head(sendQueue) = c
  /\ WriteCall(c, Tail(sendQueue))
  /\ UNCHANGED <<future, pending, reader, sockVars, regVars, fromCharger,
                 executed, answers>>

\* A suspended write resumes: drained, or failed with the transport.
SendResumes(c) ==
  /\ phase[c] = "sending"
  /\ Release(Tail(sendQueue))
  /\ \/ /\ ~lost
        /\ phase' = [phase EXCEPT ![c] = "waiting"]
        /\ UNCHANGED outcome
     \/ /\ lost
        /\ phase' = [phase EXCEPT ![c] = "done"]
        /\ outcome' = [outcome EXCEPT ![c] = "sendFailed"]
  /\ UNCHANGED <<future, pending, reader, sockVars, regVars, netVars>>

\* Mutant: the wait ends before the future is done.
CallReturnsEarly(c) ==
  /\ phase[c] = "waiting"
  /\ phase' = [phase EXCEPT ![c] = "done"]
  /\ outcome' = [outcome EXCEPT ![c] = future[c]]
  /\ pending' = pending \ {c}
  /\ UNCHANGED <<future, sendQueue, writing, reader, sockVars, regVars,
                 netVars>>

\* The awaited future is done; the finally clause drops its entry.
CallReturns(c) ==
  /\ phase[c] = "waiting"
  /\ future[c] # "pending"
  /\ phase' = [phase EXCEPT ![c] = "done"]
  /\ outcome' = [outcome EXCEPT ![c] = future[c]]
  /\ pending' = pending \ {c}
  /\ UNCHANGED <<future, sendQueue, writing, reader, sockVars, regVars,
                 netVars>>

\* wait_for cancels the future and raises; an answer that arrived first wins.
CallTimesOut(c) ==
  /\ phase[c] = "waiting"
  /\ future[c] = "pending"
  /\ phase' = [phase EXCEPT ![c] = "done"]
  /\ outcome' = [outcome EXCEPT ![c] = "timeout"]
  /\ future' = [future EXCEPT ![c] = "cancelled"]
  /\ pending' = pending \ {c}
  /\ UNCHANGED <<sendQueue, writing, reader, sockVars, regVars, netVars>>

-----------------------------------------------------------------------------
(* The session's task                                                      *)

\* Mutant: the ids are forgotten, the futures left as they are.
CancelPendingForgets ==
  /\ pending' = {}
  /\ UNCHANGED future

\* _cancel_pending_calls
CancelPending ==
  /\ future' = [c \in Call |->
                  IF c \in pending /\ future[c] = "pending" THEN "cancelled"
                                                            ELSE future[c]]
  /\ pending' = {}

\* run() is left: the finally block of the handler unregisters the session.
SessionEnds ==
  /\ reader' = "ended"
  /\ closed' = TRUE
  /\ registered' = FALSE

\* Mutant: an answer also settles a future that is done.
AnswerOverwrites(c, a) ==
  future' = IF c \in pending THEN [future EXCEPT ![c] = a] ELSE future

\* Mutant: the id of the answer is not looked at.
AnswerSettlesAny(c, a) ==
  IF \E d \in pending : future[d] = "pending"
  THEN \E d \in pending : /\ future[d] = "pending"
                          /\ future' = [future EXCEPT ![d] = a]
  ELSE UNCHANGED future

\* CALL_RESULT or CALL_ERROR: settle the future if someone still waits for it.
Settle(c, a) ==
  future' = IF c \in pending /\ future[c] = "pending"
            THEN [future EXCEPT ![c] = a] ELSE future

ReadAnswer ==
  /\ reader = "reading" /\ ~closed /\ fromCharger # <<>>
  /\ LET f == Head(fromCharger)
     IN /\ f[2] # Inbound
        /\ Settle(f[1], f[2])
  /\ fromCharger' = Tail(fromCharger)
  /\ UNCHANGED <<phase, outcome, pending, sendQueue, writing, reader, sockVars,
                 regVars, toCharger, executed, answers>>

\* The reply to an inbound call once the reader holds the lock.  A write that
\* raises leaves run() without _cancel_pending_calls.
WriteReply(rest) ==
  \/ /\ CannotWrite
     /\ SessionEnds
     /\ Release(rest)
  \/ /\ ~CannotWrite
     /\ reader' = "reading"
     /\ Release(rest)
     /\ UNCHANGED <<closed, registered>>
  \/ /\ ~CannotWrite
     /\ reader' = "replying"
     /\ sendQueue' = <<Reader>> \o rest
     /\ writing' = TRUE
     /\ UNCHANGED <<closed, registered>>

ReadCall ==
  /\ reader = "reading" /\ ~closed /\ fromCharger # <<>>
  /\ Head(fromCharger)[2] = Inbound
  /\ fromCharger' = Tail(fromCharger)
  /\ \/ /\ sendQueue = <<>>
        /\ WriteReply(<<>>)
     \/ /\ sendQueue # <<>>
        /\ reader' = "replying"
        /\ sendQueue' = Append(sendQueue, Reader)
        /\ UNCHANGED <<writing, closed, registered>>
  /\ UNCHANGED <<callVars, lost, adopted, toCharger, executed, answers>>

QueuedReply ==
  /\ sendQueue # <<>> /\ Head(sendQueue) = Reader /\ ~writing
  /\ WriteReply(Tail(sendQueue))
  /\ UNCHANGED <<callVars, lost, adopted, netVars>>

ReplyResumes ==
  /\ sendQueue # <<>> /\ Head(sendQueue) = Reader /\ writing
  /\ Release(Tail(sendQueue))
  /\ \/ /\ ~lost
        /\ reader' = "reading"
        /\ UNCHANGED <<closed, registered>>
     \/ /\ lost
        /\ SessionEnds
  /\ UNCHANGED <<callVars, lost, adopted, netVars>>

\* The socket is closed, by either side: the loop over it ends normally.
RunReturns ==
  /\ reader = "reading"
  /\ closed \/ lost
  /\ CancelPending
  /\ SessionEnds
  /\ UNCHANGED <<phase, outcome, sendQueue, writing, lost, adopted, netVars>>

\* async_close, from a kick, a replacing connection or OcppServer.stop
Close ==
  /\ reader # "ended"
  /\ ~closed
  /\ CancelPending
  /\ closed' = TRUE
  /\ UNCHANGED <<phase, outcome, sendQueue, writing, reader, lost, regVars,
                 netVars>>

\* delete_charger, delete_user: commands are refused from now on.
Remove ==
  /\ adopted
  /\ adopted' = FALSE
  /\ UNCHANGED <<callVars, sendQueue, writing, reader, sockVars, registered,
                 netVars>>

-----------------------------------------------------------------------------
(* The charger and the network                                             *)

ChargerExecutes ==
  /\ toCharger # <<>>
  /\ toCharger' = Tail(toCharger)
  /\ executed' = executed \union {Head(toCharger)}
  /\ UNCHANGED <<callVars, sendQueue, writing, reader, sockVars, regVars,
                 fromCharger, answers>>

ChargerAnswers(c, a) ==
  /\ c \in executed /\ ~lost
  /\ Len(fromCharger) < MaxInFlight
  /\ fromCharger' = Append(fromCharger, <<c, a>>)
  /\ answers' = answers \union {<<c, a>>}
  /\ UNCHANGED <<callVars, sendQueue, writing, reader, sockVars, regVars,
                 toCharger, executed>>

ChargerCalls ==
  /\ ~lost
  /\ Len(fromCharger) < MaxInFlight
  /\ fromCharger' = Append(fromCharger, <<Reader, Inbound>>)
  /\ UNCHANGED <<callVars, sendQueue, writing, reader, sockVars, regVars,
                 toCharger, executed, answers>>

\* The connection breaks; frames not yet delivered may be lost with it.
TransportLost ==
  /\ ~lost
  /\ lost' = TRUE
  /\ fromCharger' = <<>>
  /\ toCharger' \in {toCharger, <<>>}
  /\ UNCHANGED <<callVars, sendQueue, writing, reader, closed, regVars,
                 executed, answers>>

-----------------------------------------------------------------------------
CallNext(c) ==
  \/ RefuseCall(c) \/ StartCall(c) \/ QueuedCall(c) \/ SendResumes(c)
  \/ CallReturns(c) \/ CallTimesOut(c)

SessionNext ==
  \/ ReadAnswer \/ ReadCall \/ QueuedReply \/ ReplyResumes
  \/ RunReturns \/ Close \/ Remove

ChargerNext ==
  \/ ChargerExecutes \/ ChargerCalls \/ TransportLost
  \/ \E c \in Call, a \in Answer : ChargerAnswers(c, a)

Next ==
  \/ \E c \in Call : CallNext(c)
  \/ SessionNext
  \/ ChargerNext

Spec == Init /\ [][Next]_vars

\* Ready tasks run, timers fire, and a suspended write ends (drained, or
\* failed by the 15 s heartbeat).  Nothing is assumed of the charger.
Fairness ==
  /\ \A c \in Call : /\ WF_vars(QueuedCall(c))
                     /\ WF_vars(SendResumes(c))
                     /\ WF_vars(CallReturns(c))
                     /\ WF_vars(CallTimesOut(c))
  /\ WF_vars(QueuedReply)
  /\ WF_vars(ReplyResumes)

FairSpec == Spec /\ Fairness

-----------------------------------------------------------------------------
(* Properties                                                              *)

InFlight(c) == phase[c] \in {"queued", "sending", "waiting"}

\* A call that still waits for its answer can get it: while its future is
\* open its id is in _pending_calls, whatever cancelled or cleared the table.
AnswerCanReachCall ==
  \A c \in Call : InFlight(c) /\ future[c] = "pending" => c \in pending

\* _pending_calls holds only calls still in flight, and those whose frame
\* could not be written (they stay until the session's table is cleared).
PendingAreInFlight ==
  \A c \in pending : InFlight(c) \/ outcome[c] = "sendFailed"

\* _pending_calls matches the calls under way: no answer a caller waits for can
\* miss it, and no ended call leaves an entry behind, except by a failed write.
TableMatchesCalls == AnswerCanReachCall /\ PendingAreInFlight

\* A future is settled once: a late or repeated answer, or a cancellation after
\* the answer, changes nothing for the caller.
SettledOnce ==
  [][\A c \in Call :
       future[c] \in {"result", "error", "cancelled"}
         => future'[c] = future[c]]_vars

\* Every call ends, whatever the charger does and whoever closes the session.
CallEnds == \A c \in Call : InFlight(c) ~> phase[c] = "done"

\* The caller's view of the detailed state.
PromisedOutcome ==
  [c \in Call |-> IF InFlight(c) THEN "open" ELSE outcome[c]]

Promise == INSTANCE CommandPromise WITH outcome <- PromisedOutcome

\* Calls keep the promise of CommandPromise: one ending each, an answer only
\* if the charger gave it to that call, a refusal only if nothing was sent.
KeepsPromise == Promise!PSpec
=============================================================================
