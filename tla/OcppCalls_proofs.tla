-------------------------- MODULE OcppCalls_proofs --------------------------
(***************************************************************************)
(* Proofs about OcppCalls, for any set of calls and any bound on frames in *)
(* flight: type correctness, the two invariants of the pending table, that *)
(* a future is settled once, and that calls implement CommandPromise.      *)
(***************************************************************************)
EXTENDS OcppCalls, TLAPS

Members(q) == {q[i] : i \in 1 .. Len(q)}

LEMMA QueueMembers ==
  ASSUME NEW S, NEW q \in Seq(S)
  PROVE  Members(q) \subseteq S
BY DEF Members

\* A new waiter at the end of a queue.
LEMMA QueueAppend ==
  ASSUME NEW S, NEW q \in Seq(S), NEW x \in S
  PROVE  /\ Append(q, x) \in Seq(S)
         /\ Members(Append(q, x)) = Members(q) \union {x}
<1>1. /\ Append(q, x) \in Seq(S)
      /\ Len(Append(q, x)) = Len(q) + 1
      /\ \A i \in 1 .. Len(q) : Append(q, x)[i] = q[i]
      /\ Append(q, x)[Len(q) + 1] = x
  OBVIOUS
<1> QED
  BY <1>1 DEF Members

LEMMA QueueAppendHead ==
  ASSUME NEW S, NEW q \in Seq(S), NEW x \in S, q # <<>>
  PROVE  Head(Append(q, x)) = Head(q)
<1>1. /\ Len(Append(q, x)) = Len(q) + 1
      /\ \A i \in 1 .. Len(q) : Append(q, x)[i] = q[i]
  OBVIOUS
<1>2. Len(q) \in Nat \ {0} /\ Head(q) = q[1]
  OBVIOUS
<1>3. Head(Append(q, x)) = Append(q, x)[1]
  BY <1>1
<1> QED
  BY <1>1, <1>2, <1>3

\* The holder put back in front of the waiters.
LEMMA QueuePush ==
  ASSUME NEW S, NEW q \in Seq(S), NEW x \in S
  PROVE  /\ <<x>> \o q \in Seq(S)
         /\ Head(<<x>> \o q) = x
         /\ Members(<<x>> \o q) = Members(q) \union {x}
<1>1. /\ <<x>> \o q \in Seq(S)
      /\ Len(<<x>> \o q) = Len(q) + 1
      /\ (<<x>> \o q)[1] = x
      /\ Head(<<x>> \o q) = x
      /\ \A i \in 1 .. Len(q) : (<<x>> \o q)[i + 1] = q[i]
  OBVIOUS
<1>2. ASSUME NEW i \in 1 .. Len(<<x>> \o q)
      PROVE  (<<x>> \o q)[i] \in Members(q) \union {x}
  <2>1. CASE i = 1
    BY <1>1, <2>1
  <2>2. CASE i # 1
    <3>1. i - 1 \in 1 .. Len(q)
      BY <1>1, <2>2
    <3>2. (<<x>> \o q)[(i - 1) + 1] = q[i - 1]
      BY <1>1, <3>1
    <3> QED
      BY <3>1, <3>2 DEF Members
  <2> QED
    BY <2>1, <2>2
<1>3. ASSUME NEW i \in 1 .. Len(q) PROVE q[i] \in Members(<<x>> \o q)
  <2>1. i + 1 \in 1 .. Len(<<x>> \o q)
    BY <1>1
  <2> QED
    BY <1>1, <2>1 DEF Members
<1>4. x \in Members(<<x>> \o q)
  BY <1>1 DEF Members
<1> QED
  BY <1>1, <1>2, <1>3, <1>4 DEF Members

LEMMA QueueHead ==
  ASSUME NEW S, NEW q \in Seq(S), q # <<>>
  PROVE  /\ Head(q) \in S
         /\ Tail(q) \in Seq(S)
         /\ Members(q) = Members(Tail(q)) \union {Head(q)}
<1>1. /\ Head(q) \in S /\ Head(q) = q[1]
      /\ Tail(q) \in Seq(S)
      /\ Len(q) \in Nat \ {0}
      /\ Len(Tail(q)) = Len(q) - 1
      /\ \A i \in 1 .. Len(Tail(q)) : Tail(q)[i] = q[i + 1]
  OBVIOUS
<1>2. ASSUME NEW i \in 1 .. Len(q)
      PROVE  q[i] \in Members(Tail(q)) \union {Head(q)}
  <2>1. CASE i = 1
    BY <1>1, <2>1
  <2>2. CASE i # 1
    <3>1. i - 1 \in 1 .. Len(Tail(q))
      BY <1>1, <2>2
    <3>2. Tail(q)[i - 1] = q[(i - 1) + 1]
      BY <1>1, <3>1
    <3> QED
      BY <3>1, <3>2 DEF Members
  <2> QED
    BY <2>1, <2>2
<1>3. ASSUME NEW i \in 1 .. Len(Tail(q)) PROVE Tail(q)[i] \in Members(q)
  <2>1. i + 1 \in 1 .. Len(q)
    BY <1>1
  <2> QED
    BY <1>1, <2>1 DEF Members
<1>4. Head(q) \in Members(q)
  BY <1>1 DEF Members
<1> QED
  BY <1>1, <1>2, <1>3, <1>4 DEF Members

LEMMA NoMembers == Members(<<>>) = {}
  BY DEF Members

LEMMA EmptyQueue ==
  /\ <<>> \in Seq(Call \union {Reader})
  /\ <<>> \in Seq(Call)
  /\ <<>> \in Seq(Frame)
  OBVIOUS
-----------------------------------------------------------------------------
(* The inductive invariant                                                 *)

\* A call's coroutine, its future and its ending agree.
PhasesAgree ==
  \A c \in Call :
    /\ phase[c] = "idle" => future[c] = "none" /\ c \notin pending
    /\ InFlight(c) => future[c] # "none"
    /\ phase[c] = "done" <=> outcome[c] # "none"

\* A call that wants the send lock stands in its queue; one whose write is
\* suspended holds the lock.
QueueHoldsSenders ==
  \A c \in Call :
    /\ phase[c] \in {"queued", "sending"} => c \in Members(sendQueue)
    /\ phase[c] = "sending" => Head(sendQueue) = c /\ writing

\* Only calls that were let through are on the wire.
OnlySentTravel ==
  \A c \in Members(toCharger) : phase[c] # "idle" /\ outcome[c] # "refused"

\* Answers on their way, and those that settled a future, were given.
AnswersWereGiven ==
  /\ \A f \in Members(fromCharger) : f[2] # Inbound => f \in answers
  /\ \A c \in Call : future[c] \in Answer => <<c, future[c]>> \in answers

IInv ==
  /\ TypeOK
  /\ PhasesAgree
  /\ QueueHoldsSenders
  /\ OnlySentTravel
  /\ AnswersWereGiven
  /\ AnswerCanReachCall
  /\ PendingAreInFlight

LEMMA Initial == Init => IInv
<1> SUFFICES ASSUME Init PROVE IInv
  OBVIOUS
<1>1. TypeOK
  BY CallAssumption, EmptyQueue DEF Init, TypeOK, Phase, Outcome
<1>2. PhasesAgree /\ AnswerCanReachCall /\ PendingAreInFlight
  BY DEF Init, PhasesAgree, AnswerCanReachCall, PendingAreInFlight, InFlight
<1>3. QueueHoldsSenders /\ OnlySentTravel /\ AnswersWereGiven
  BY NoMembers DEF Init, QueueHoldsSenders, OnlySentTravel, AnswersWereGiven, Answer
<1> QED
  BY <1>1, <1>2, <1>3 DEF IInv

\* Whoever holds or awaits the lock makes the queue non-empty.
LEMMA QueueInUse ==
  ASSUME IInv, NEW c \in Call, phase[c] \in {"queued", "sending"}
  PROVE  sendQueue # <<>>
BY NoMembers DEF IInv, QueueHoldsSenders

\* The three ways a write by a call can go, `rest` being what is left of the
\* queue behind it.
LEMMA WriteCallTypes ==
  ASSUME TypeOK, NEW c \in Call, NEW rest \in Seq(Call \union {Reader}),
         WriteCall(c, rest)
  PROVE  /\ phase' \in [Call -> Phase] /\ outcome' \in [Call -> Outcome]
         /\ sendQueue' \in Seq(Call \union {Reader}) /\ writing' \in BOOLEAN
         /\ toCharger' \in Seq(Call)
<1>1. /\ Append(toCharger, c) \in Seq(Call)
      /\ <<c>> \o rest \in Seq(Call \union {Reader})
  BY QueueAppend, QueuePush DEF TypeOK
<1> QED
  BY <1>1 DEF WriteCall, Release, TypeOK, Phase, Outcome

LEMMA TypeStep == IInv /\ [Next]_vars => TypeOK'
<1> SUFFICES ASSUME IInv, [Next]_vars PROVE TypeOK'
  OBVIOUS
<1>0. TypeOK
  BY DEF IInv
<1> USE CallAssumption DEF callVars, sockVars, regVars, netVars
<1>1. ASSUME NEW c \in Call, CallNext(c) PROVE TypeOK'
  <2>1. CASE RefuseCall(c)
    BY <1>0, <2>1 DEF RefuseCall, TypeOK, Phase, Outcome
  <2>2. CASE StartCall(c)
    <3>1. CASE sendQueue = <<>> /\ WriteCall(c, <<>>)
      <4>1. /\ phase' \in [Call -> Phase] /\ outcome' \in [Call -> Outcome]
            /\ sendQueue' \in Seq(Call \union {Reader}) /\ writing' \in BOOLEAN
            /\ toCharger' \in Seq(Call)
        BY <1>0, <3>1, EmptyQueue, WriteCallTypes
      <4> QED
        BY <1>0, <2>2, <4>1 DEF StartCall, TypeOK
    <3>2. CASE sendQueue # <<>>
      <4>1. Append(sendQueue, c) \in Seq(Call \union {Reader})
        BY <1>0, QueueAppend, QueuePush DEF TypeOK
      <4> QED
        BY <1>0, <2>2, <3>2, <4>1 DEF StartCall, TypeOK, Phase
    <3> QED
      BY <2>2, <3>1, <3>2 DEF StartCall
  <2>3. CASE QueuedCall(c)
    <3>1. Tail(sendQueue) \in Seq(Call \union {Reader})
      BY <1>0, <2>3, QueueInUse, QueueHead DEF QueuedCall, TypeOK
    <3>2. /\ phase' \in [Call -> Phase] /\ outcome' \in [Call -> Outcome]
          /\ sendQueue' \in Seq(Call \union {Reader}) /\ writing' \in BOOLEAN
          /\ toCharger' \in Seq(Call)
      BY <1>0, <2>3, <3>1, WriteCallTypes DEF QueuedCall
    <3> QED
      BY <1>0, <2>3, <3>2 DEF QueuedCall, TypeOK
  <2>4. CASE SendResumes(c)
    <3>1. Tail(sendQueue) \in Seq(Call \union {Reader})
      BY <1>0, <2>4, QueueInUse, QueueHead DEF SendResumes, TypeOK
    <3> QED
      BY <1>0, <2>4, <3>1 DEF SendResumes, Release, TypeOK, Phase, Outcome
  <2>5. CASE CallReturns(c)
    <3>1. future[c] \in {"result", "error", "cancelled"}
      BY <1>0, <2>5 DEF CallReturns, IInv, PhasesAgree, InFlight, TypeOK
    <3> QED
      BY <1>0, <2>5, <3>1 DEF CallReturns, TypeOK, Phase, Outcome
  <2>6. CASE CallTimesOut(c)
    BY <1>0, <2>6 DEF CallTimesOut, TypeOK, Phase, Outcome
  <2> QED
    BY <1>1, <2>1, <2>2, <2>3, <2>4, <2>5, <2>6 DEF CallNext
<1>2. CASE ReadAnswer
  <2>1. /\ Head(fromCharger) \in Frame
        /\ Tail(fromCharger) \in Seq(Frame)
    BY <1>0, <1>2, QueueHead DEF ReadAnswer, TypeOK
  <2>2. Head(fromCharger)[2] \in Answer
    BY <1>2, <2>1 DEF ReadAnswer, Frame, Inbound
  <2> QED
    BY <1>0, <1>2, <2>1, <2>2 DEF ReadAnswer, Settle, TypeOK, Answer
<1>3. ASSUME NEW rest \in Seq(Call \union {Reader}), WriteReply(rest)
      PROVE  /\ sendQueue' \in Seq(Call \union {Reader}) /\ writing' \in BOOLEAN
             /\ reader' \in {"reading", "replying", "ended"}
             /\ closed' \in BOOLEAN /\ registered' \in BOOLEAN
  <2>1. <<Reader>> \o rest \in Seq(Call \union {Reader})
    BY QueueAppend, QueuePush
  <2> QED
    BY <1>0, <1>3, <2>1 DEF WriteReply, SessionEnds, Release, TypeOK
<1>4. CASE ReadCall
  <2>1. Tail(fromCharger) \in Seq(Frame)
    BY <1>0, <1>4, QueueHead DEF ReadCall, TypeOK
  <2>2. /\ sendQueue' \in Seq(Call \union {Reader}) /\ writing' \in BOOLEAN
        /\ reader' \in {"reading", "replying", "ended"}
        /\ closed' \in BOOLEAN /\ registered' \in BOOLEAN
    <3>1. CASE sendQueue = <<>> /\ WriteReply(<<>>)
      BY <1>3, <3>1, EmptyQueue
    <3>2. CASE sendQueue # <<>>
      <4>1. Append(sendQueue, Reader) \in Seq(Call \union {Reader})
        BY <1>0, QueueAppend, QueuePush DEF TypeOK
      <4> QED
        BY <1>0, <1>4, <3>2, <4>1 DEF ReadCall, TypeOK
    <3> QED
      BY <1>4, <3>1, <3>2 DEF ReadCall
  <2> QED
    BY <1>0, <1>4, <2>1, <2>2 DEF ReadCall, TypeOK
<1>5. CASE QueuedReply
  <2>1. Tail(sendQueue) \in Seq(Call \union {Reader})
    BY <1>0, <1>5, QueueHead DEF QueuedReply, TypeOK
  <2>2. /\ sendQueue' \in Seq(Call \union {Reader}) /\ writing' \in BOOLEAN
        /\ reader' \in {"reading", "replying", "ended"}
        /\ closed' \in BOOLEAN /\ registered' \in BOOLEAN
    BY <1>3, <1>5, <2>1 DEF QueuedReply
  <2> QED
    BY <1>0, <1>5, <2>2 DEF QueuedReply, TypeOK
<1>6. CASE ReplyResumes
  <2>1. Tail(sendQueue) \in Seq(Call \union {Reader})
    BY <1>0, <1>6, QueueHead DEF ReplyResumes, TypeOK
  <2> QED
    BY <1>0, <1>6, <2>1 DEF ReplyResumes, SessionEnds, Release, TypeOK
<1>7. CASE RunReturns
  BY <1>0, <1>7 DEF RunReturns, CancelPending, SessionEnds, TypeOK
<1>8. CASE Close
  BY <1>0, <1>8 DEF Close, CancelPending, TypeOK
<1>9. CASE Remove
  BY <1>0, <1>9 DEF Remove, TypeOK
<1>10. CASE ChargerExecutes
  <2>1. Head(toCharger) \in Call /\ Tail(toCharger) \in Seq(Call)
    BY <1>0, <1>10, QueueHead DEF ChargerExecutes, TypeOK
  <2> QED
    BY <1>0, <1>10, <2>1 DEF ChargerExecutes, TypeOK
<1>11. ASSUME NEW c \in Call, NEW a \in Answer, ChargerAnswers(c, a)
       PROVE  TypeOK'
  <2>1. Append(fromCharger, <<c, a>>) \in Seq(Frame)
    BY <1>0, QueueAppend, QueuePush DEF TypeOK, Frame
  <2> QED
    BY <1>0, <1>11, <2>1 DEF ChargerAnswers, TypeOK
<1>12. CASE ChargerCalls
  <2>1. Append(fromCharger, <<Reader, Inbound>>) \in Seq(Frame)
    BY <1>0, QueueAppend, QueuePush DEF TypeOK, Frame
  <2> QED
    BY <1>0, <1>12, <2>1 DEF ChargerCalls, TypeOK
<1>13. CASE TransportLost
  BY <1>0, <1>13, EmptyQueue DEF TransportLost, TypeOK
<1>14. CASE UNCHANGED vars
  BY <1>0, <1>14 DEF vars, TypeOK
<1> QED
  BY <1>1, <1>2, <1>4, <1>5, <1>6, <1>7, <1>8, <1>9, <1>10, <1>11, <1>12,
     <1>13, <1>14 DEF Next, SessionNext, ChargerNext

-----------------------------------------------------------------------------
(* Futures, the pending table and the coroutines                           *)

LEMMA CallTableStep ==
  IInv /\ [Next]_vars
    => PhasesAgree' /\ AnswerCanReachCall' /\ PendingAreInFlight'
<1> SUFFICES ASSUME IInv, [Next]_vars
             PROVE  PhasesAgree' /\ AnswerCanReachCall' /\ PendingAreInFlight'
  OBVIOUS
<1>0. /\ phase \in [Call -> Phase]
      /\ outcome \in [Call -> Outcome]
      /\ future \in [Call -> {"none", "pending", "result", "error", "cancelled"}]
      /\ pending \subseteq Call
      /\ PhasesAgree /\ AnswerCanReachCall /\ PendingAreInFlight
  BY DEF IInv, TypeOK
<1> USE DEF PhasesAgree, AnswerCanReachCall, PendingAreInFlight, InFlight
<1>1. ASSUME UNCHANGED callVars
      PROVE  PhasesAgree' /\ AnswerCanReachCall' /\ PendingAreInFlight'
  BY <1>0, <1>1 DEF callVars
<1>2. ASSUME NEW c \in Call, CallNext(c)
      PROVE  PhasesAgree' /\ AnswerCanReachCall' /\ PendingAreInFlight'
  <2>1. CASE RefuseCall(c)
    BY <1>0, <2>1 DEF RefuseCall
  <2>2. CASE StartCall(c)
    BY <1>0, <2>2 DEF StartCall, WriteCall
  <2>3. CASE QueuedCall(c)
    BY <1>0, <2>3 DEF QueuedCall, WriteCall
  <2>4. CASE SendResumes(c)
    BY <1>0, <2>4 DEF SendResumes
  <2>5. CASE CallReturns(c)
    BY <1>0, <2>5 DEF CallReturns
  <2>6. CASE CallTimesOut(c)
    BY <1>0, <2>6 DEF CallTimesOut
  <2> QED
    BY <1>2, <2>1, <2>2, <2>3, <2>4, <2>5, <2>6 DEF CallNext
<1>3. CASE ReadAnswer
  <2>1. ASSUME NEW c, NEW a \in Answer, Settle(c, a),
               UNCHANGED <<phase, outcome, pending>>
        PROVE  PhasesAgree' /\ AnswerCanReachCall' /\ PendingAreInFlight'
    BY <1>0, <2>1 DEF Settle, Answer
  <2>2. Head(fromCharger) \in Frame
    BY <1>3, QueueHead DEF ReadAnswer, IInv, TypeOK
  <2>3. Head(fromCharger)[2] \in Answer
    BY <1>3, <2>2 DEF ReadAnswer, Frame, Inbound
  <2> QED
    BY <1>3, <2>1, <2>3 DEF ReadAnswer
<1>4. CASE RunReturns \/ Close
  BY <1>0, <1>4 DEF RunReturns, Close, CancelPending
<1>5. CASE ReadCall \/ QueuedReply \/ ReplyResumes \/ Remove
  BY <1>1, <1>5 DEF ReadCall, QueuedReply, ReplyResumes, Remove
<1>6. CASE ChargerNext
  BY <1>1, <1>6 DEF ChargerNext, ChargerExecutes, ChargerCalls, TransportLost,
                    ChargerAnswers
<1>7. CASE UNCHANGED vars
  BY <1>1, <1>7 DEF vars, callVars
<1> QED
  BY <1>2, <1>3, <1>4, <1>5, <1>6, <1>7 DEF Next, SessionNext

-----------------------------------------------------------------------------
(* The send lock                                                           *)

\* Taking the head off the queue takes nobody else off it.
LEMMA TailKeepsOthers ==
  ASSUME IInv, sendQueue # <<>>
  PROVE  \A c \in Call : c \in Members(sendQueue) /\ c # Head(sendQueue)
                           => c \in Members(Tail(sendQueue))
BY QueueHead DEF IInv, TypeOK

LEMMA QueueStep == IInv /\ [Next]_vars => QueueHoldsSenders'
<1> SUFFICES ASSUME IInv, [Next]_vars PROVE QueueHoldsSenders'
  OBVIOUS
<1>0. /\ phase \in [Call -> Phase]
      /\ sendQueue \in Seq(Call \union {Reader})
      /\ QueueHoldsSenders
  BY DEF IInv, TypeOK
<1>1. ASSUME UNCHANGED <<phase, sendQueue, writing>> PROVE QueueHoldsSenders'
  BY <1>0, <1>1 DEF QueueHoldsSenders, Members
<1>2. ASSUME NEW c \in Call, NEW rest \in Seq(Call \union {Reader}),
             WriteCall(c, rest),
             \A d \in Call \ {c} : /\ phase[d] # "sending"
                                   /\ phase[d] = "queued" => d \in Members(rest)
      PROVE  QueueHoldsSenders'
  <2>1. /\ Head(<<c>> \o rest) = c
        /\ Members(<<c>> \o rest) = Members(rest) \union {c}
    BY QueueAppend, QueuePush
  <2>2. \A d \in Call \ {c} : phase'[d] = phase[d]
    BY <1>0, <1>2 DEF WriteCall
  <2>3. \/ phase'[c] \in {"done", "waiting"} /\ sendQueue' = rest
        \/ phase'[c] = "sending" /\ writing' /\ sendQueue' = <<c>> \o rest
    BY <1>0, <1>2 DEF WriteCall, Release
  <2>4. \A d \in Call : phase'[d] \in {"queued", "sending"}
                          => d \in Members(sendQueue')
    BY <1>2, <2>1, <2>2, <2>3
  <2>5. \A d \in Call : phase'[d] = "sending"
                          => Head(sendQueue') = d /\ writing'
    BY <1>2, <2>1, <2>2, <2>3
  <2> QED
    BY <2>4, <2>5 DEF QueueHoldsSenders, Members
<1>3. ASSUME sendQueue # <<>>, NEW x \in Call \union {Reader},
             sendQueue' = Append(sendQueue, x), writing' = writing,
             \A d \in Call : \/ phase'[d] = phase[d]
                             \/ d = x /\ phase'[d] # "sending"
      PROVE  QueueHoldsSenders'
  <2>1. /\ Head(Append(sendQueue, x)) = Head(sendQueue)
        /\ Members(Append(sendQueue, x)) = Members(sendQueue) \union {x}
    BY <1>0, <1>3, QueueAppend, QueueAppendHead
  <2>2. Members(sendQueue') = Members(sendQueue) \union {x}
    BY <1>3, <2>1 DEF Members
  <2> QED
    BY <1>0, <1>3, <2>1, <2>2 DEF QueueHoldsSenders
<1>4. ASSUME sendQueue # <<>>, sendQueue' = Tail(sendQueue),
             \A d \in Call : \/ d # Head(sendQueue) /\ phase'[d] = phase[d]
                             \/ phase'[d] \notin {"queued", "sending"}
      PROVE  QueueHoldsSenders'
  <2>1. Members(sendQueue') = Members(Tail(sendQueue))
    BY <1>4 DEF Members
  <2> QED
    BY <1>0, <1>4, <2>1, TailKeepsOthers DEF QueueHoldsSenders
<1>5. ASSUME NEW c \in Call, CallNext(c) PROVE QueueHoldsSenders'
  <2>1. CASE RefuseCall(c)
    BY <1>0, <2>1 DEF RefuseCall, QueueHoldsSenders, Members
  <2>2. CASE StartCall(c)
    <3>1. CASE sendQueue = <<>> /\ WriteCall(c, <<>>)
      <4>1. \A d \in Call : phase[d] \notin {"queued", "sending"}
        BY <3>1, QueueInUse
      <4> QED
        BY <1>2, <3>1, <4>1, EmptyQueue
    <3>2. CASE sendQueue # <<>>
      BY <1>0, <1>3, <2>2, <3>2 DEF StartCall
    <3> QED
      BY <2>2, <3>1, <3>2 DEF StartCall
  <2>3. CASE QueuedCall(c)
    <3>1. sendQueue # <<>> /\ Head(sendQueue) = c
      BY <2>3, QueueInUse DEF QueuedCall
    <3>2. Tail(sendQueue) \in Seq(Call \union {Reader})
      BY <1>0, <3>1, QueueHead
    <3>3. \A d \in Call \ {c} :
            /\ phase[d] # "sending"
            /\ phase[d] = "queued" => d \in Members(Tail(sendQueue))
      BY <1>0, <3>1, TailKeepsOthers DEF QueueHoldsSenders
    <3> QED
      BY <1>2, <2>3, <3>2, <3>3 DEF QueuedCall
  <2>4. CASE SendResumes(c)
    <3>1. sendQueue # <<>> /\ Head(sendQueue) = c
      BY <1>0, <2>4, QueueInUse DEF SendResumes, QueueHoldsSenders
    <3> QED
      BY <1>0, <1>4, <2>4, <3>1 DEF SendResumes, Release
  <2>5. CASE CallReturns(c) \/ CallTimesOut(c)
    BY <1>0, <2>5 DEF CallReturns, CallTimesOut, QueueHoldsSenders, Members
  <2> QED
    BY <1>5, <2>1, <2>2, <2>3, <2>4, <2>5 DEF CallNext
<1>6. ASSUME NEW rest \in Seq(Call \union {Reader}), WriteReply(rest),
             UNCHANGED phase, \A d \in Call : phase[d] # "sending",
             \A d \in Call : phase[d] = "queued" => d \in Members(rest)
      PROVE  QueueHoldsSenders'
  <2>1. Members(<<Reader>> \o rest) = Members(rest) \union {Reader}
    BY QueueAppend, QueuePush
  <2>2. sendQueue' \in {rest, <<Reader>> \o rest}
    BY <1>6 DEF WriteReply, Release
  <2>3. Members(rest) \subseteq Members(sendQueue')
    BY <2>1, <2>2 DEF Members
  <2> QED
    BY <1>6, <2>3 DEF QueueHoldsSenders
<1>7. CASE ReadCall
  <2>1. CASE sendQueue = <<>> /\ WriteReply(<<>>)
    <3>1. \A d \in Call : phase[d] \notin {"queued", "sending"}
      BY <2>1, QueueInUse
    <3> QED
      BY <1>6, <1>7, <2>1, <3>1, EmptyQueue DEF ReadCall, callVars
  <2>2. CASE sendQueue # <<>>
    BY <1>3, <1>7, <2>2 DEF ReadCall, callVars
  <2> QED
    BY <1>7, <2>1, <2>2 DEF ReadCall
<1>8. CASE QueuedReply \/ ReplyResumes
  <2>1. sendQueue # <<>> /\ Head(sendQueue) = Reader /\ UNCHANGED phase
    BY <1>8 DEF QueuedReply, ReplyResumes, callVars
  <2>2. \A d \in Call : d # Head(sendQueue) /\ phase[d] # "sending"
    BY <1>0, <2>1, CallAssumption DEF QueueHoldsSenders
  <2>3. CASE QueuedReply
    <3>1. Tail(sendQueue) \in Seq(Call \union {Reader})
      BY <1>0, <2>1, QueueHead
    <3>2. \A d \in Call : phase[d] = "queued" => d \in Members(Tail(sendQueue))
      BY <1>0, <2>1, <2>2, TailKeepsOthers DEF QueueHoldsSenders
    <3> QED
      BY <1>6, <2>1, <2>2, <2>3, <3>1, <3>2 DEF QueuedReply
  <2>4. CASE ReplyResumes
    BY <1>4, <2>1, <2>2, <2>4 DEF ReplyResumes, Release
  <2> QED
    BY <1>8, <2>3, <2>4
<1>9. CASE ReadAnswer \/ RunReturns \/ Close \/ Remove
  BY <1>1, <1>9 DEF ReadAnswer, RunReturns, Close, Remove, callVars
<1>10. CASE ChargerNext
  BY <1>1, <1>10 DEF ChargerNext, ChargerExecutes, ChargerCalls, TransportLost,
                     ChargerAnswers, callVars
<1>11. CASE UNCHANGED vars
  BY <1>1, <1>11 DEF vars
<1> QED
  BY <1>5, <1>7, <1>8, <1>9, <1>10, <1>11 DEF Next, SessionNext

-----------------------------------------------------------------------------
(* The wire                                                                *)

\* A call past its check stays past it: it is neither idle nor refused again.
LEMMA SentStaysSent ==
  ASSUME IInv, [Next]_vars, NEW c \in Call,
         phase[c] # "idle", outcome[c] # "refused"
  PROVE  phase'[c] # "idle" /\ outcome'[c] # "refused"
<1>0. /\ phase \in [Call -> Phase] /\ outcome \in [Call -> Outcome]
      /\ future \in [Call -> {"none", "pending", "result", "error", "cancelled"}]
  BY DEF IInv, TypeOK
<1>1. ASSUME NEW d \in Call, CallNext(d)
      PROVE  phase'[c] # "idle" /\ outcome'[c] # "refused"
  BY <1>0, <1>1 DEF CallNext, RefuseCall, StartCall, QueuedCall, WriteCall,
                    SendResumes, CallReturns, CallTimesOut
<1>2. CASE SessionNext \/ ChargerNext
  BY <1>2 DEF SessionNext, ReadAnswer, ReadCall, QueuedReply, ReplyResumes,
              RunReturns, Close, Remove, callVars,
              ChargerNext, ChargerExecutes, ChargerCalls, TransportLost,
              ChargerAnswers
<1>3. CASE UNCHANGED vars
  BY <1>3 DEF vars
<1> QED
  BY <1>1, <1>2, <1>3 DEF Next

\* The only call whose frame can join the wire is one that is let through.
LEMMA WireGrowth ==
  ASSUME IInv, [Next]_vars
  PROVE  \A c \in Members(toCharger') :
           /\ c \in Call
           /\ \/ c \in Members(toCharger)
              \/ phase'[c] # "idle" /\ outcome'[c] # "refused"
<1>0. /\ phase \in [Call -> Phase] /\ outcome \in [Call -> Outcome]
      /\ toCharger \in Seq(Call) /\ toCharger' \in Seq(Call)
  BY TypeStep DEF IInv, TypeOK
<1>1. ASSUME UNCHANGED toCharger
      PROVE  Members(toCharger') = Members(toCharger)
  BY <1>1 DEF Members
<1>2. Members(toCharger') \subseteq Call
  BY <1>0 DEF Members
<1>3. ASSUME NEW d \in Call, phase[d] \in {"idle", "queued"},
             \E rest : WriteCall(d, rest)
      PROVE  \A c \in Members(toCharger') :
               \/ c \in Members(toCharger)
               \/ phase'[c] # "idle" /\ outcome'[c] # "refused"
  <2>1. CASE UNCHANGED toCharger
    BY <1>1, <2>1
  <2>2. CASE toCharger' # toCharger
    <3>1. /\ toCharger' = Append(toCharger, d)
          /\ phase'[d] \in {"waiting", "sending"}
          /\ outcome' = outcome
      BY <1>0, <1>3, <2>2 DEF WriteCall
    <3>2. Members(toCharger') = Members(toCharger) \union {d}
      <4>1. Members(Append(toCharger, d)) = Members(toCharger) \union {d}
        BY <1>0, QueueAppend, QueuePush
      <4> QED
        BY <3>1, <4>1 DEF Members
    <3>3. outcome[d] = "none"
      BY <1>0, <1>3 DEF IInv, PhasesAgree, Phase
    <3> QED
      BY <3>1, <3>2, <3>3
  <2> QED
    BY <2>1, <2>2
<1>4. ASSUME NEW d \in Call, CallNext(d)
      PROVE  \A c \in Members(toCharger') :
               \/ c \in Members(toCharger)
               \/ phase'[c] # "idle" /\ outcome'[c] # "refused"
  <2>1. CASE RefuseCall(d) \/ SendResumes(d) \/ CallReturns(d) \/ CallTimesOut(d)
    BY <1>1, <2>1 DEF RefuseCall, SendResumes, CallReturns, CallTimesOut, netVars
  <2>2. CASE StartCall(d)
    <3>1. CASE WriteCall(d, <<>>)
      BY <1>3, <2>2, <3>1 DEF StartCall
    <3>2. CASE ~WriteCall(d, <<>>)
      BY <1>1, <2>2, <3>2 DEF StartCall
    <3> QED
      BY <3>1, <3>2
  <2>3. CASE QueuedCall(d)
    BY <1>3, <2>3 DEF QueuedCall
  <2> QED
    BY <1>4, <2>1, <2>2, <2>3 DEF CallNext
<1>5. CASE ChargerExecutes
  <2>1. Members(toCharger') \subseteq Members(toCharger)
    <3>1. Members(Tail(toCharger)) \subseteq Members(toCharger)
      BY <1>0, <1>5, QueueHead DEF ChargerExecutes
    <3> QED
      BY <1>5, <3>1 DEF ChargerExecutes, Members
  <2> QED
    BY <1>2, <2>1
<1>6. CASE TransportLost
  <2>1. toCharger' = toCharger \/ toCharger' = <<>>
    BY <1>6 DEF TransportLost
  <2>2. Members(toCharger') \subseteq Members(toCharger)
    BY <2>1, NoMembers DEF Members
  <2> QED
    BY <1>2, <2>2
<1>7. CASE SessionNext \/ ChargerCalls
          \/ \E c \in Call, a \in Answer : ChargerAnswers(c, a)
  BY <1>1, <1>2, <1>7
  DEF SessionNext, ReadAnswer, ReadCall, QueuedReply, ReplyResumes, RunReturns,
      Close, Remove, netVars, ChargerCalls, ChargerAnswers
<1>8. CASE UNCHANGED vars
  BY <1>1, <1>2, <1>8 DEF vars
<1> QED
  BY <1>2, <1>4, <1>5, <1>6, <1>7, <1>8 DEF Next, ChargerNext

LEMMA WireStep == IInv /\ [Next]_vars => OnlySentTravel'
<1> SUFFICES ASSUME IInv, [Next]_vars, NEW c \in Members(toCharger')
             PROVE  phase'[c] # "idle" /\ outcome'[c] # "refused"
  BY DEF OnlySentTravel
<1> QED
  BY WireGrowth, SentStaysSent DEF IInv, OnlySentTravel

LEMMA AnswersStep == IInv /\ [Next]_vars => AnswersWereGiven'
<1> SUFFICES ASSUME IInv, [Next]_vars PROVE AnswersWereGiven'
  OBVIOUS
<1>0. /\ future \in [Call -> {"none", "pending", "result", "error", "cancelled"}]
      /\ fromCharger \in Seq(Frame)
      /\ AnswersWereGiven
  BY DEF IInv, TypeOK
<1> USE DEF AnswersWereGiven
<1>1. ASSUME \A c \in Call : future'[c] \in Answer => future'[c] = future[c],
             Members(fromCharger') \subseteq Members(fromCharger),
             UNCHANGED answers
      PROVE  AnswersWereGiven'
  <2>1. \A f \in Members(fromCharger') : f[2] # Inbound => f \in answers
    BY <1>0, <1>1
  <2> QED
    BY <1>0, <1>1, <2>1 DEF Members
<1>2. ASSUME UNCHANGED fromCharger
      PROVE  Members(fromCharger') \subseteq Members(fromCharger)
  BY <1>2
<1>3. ASSUME NEW c \in Call, CallNext(c) PROVE AnswersWereGiven'
  <2>1. \A d \in Call : future'[d] \in Answer => future'[d] = future[d]
    BY <1>0, <1>3 DEF CallNext, RefuseCall, StartCall, QueuedCall, SendResumes,
                      CallReturns, CallTimesOut, Answer
  <2>2. UNCHANGED <<fromCharger, answers>>
    BY <1>3 DEF CallNext, RefuseCall, StartCall, QueuedCall, SendResumes,
                CallReturns, CallTimesOut, netVars
  <2> QED
    BY <1>1, <1>2, <2>1, <2>2
<1>4. ASSUME fromCharger # <<>>
      PROVE  /\ Head(fromCharger) \in Members(fromCharger)
             /\ Head(fromCharger) \in Frame
             /\ Members(Tail(fromCharger)) \subseteq Members(fromCharger)
  BY <1>0, <1>4, QueueHead
<1>5. CASE ReadAnswer
  <2> DEFINE f == Head(fromCharger)
  <2>1. f[2] \in Answer /\ f = <<f[1], f[2]>> /\ f \in answers
    BY <1>0, <1>4, <1>5 DEF ReadAnswer, Frame, Inbound
  <2>2. /\ Members(fromCharger') \subseteq Members(fromCharger)
        /\ UNCHANGED answers
    BY <1>4, <1>5 DEF ReadAnswer
  <2>3. \A d \in Call : future'[d] # future[d] => <<d, future'[d]>> = f
    BY <1>0, <1>5, <2>1 DEF ReadAnswer, Settle
  <2>4. \A g \in Members(fromCharger') : g[2] # Inbound => g \in answers
    BY <1>0, <2>2
  <2> QED
    BY <1>0, <2>1, <2>2, <2>3, <2>4 DEF Members
<1>6. CASE ReadCall
  <2>1. Members(fromCharger') \subseteq Members(fromCharger)
    BY <1>4, <1>6 DEF ReadCall
  <2> QED
    BY <1>1, <1>6, <2>1 DEF ReadCall, callVars
<1>7. CASE RunReturns \/ Close
  BY <1>0, <1>1, <1>2, <1>7 DEF RunReturns, Close, CancelPending, netVars, Answer
<1>8. CASE QueuedReply \/ ReplyResumes \/ Remove \/ ChargerExecutes
  BY <1>1, <1>2, <1>8 DEF QueuedReply, ReplyResumes, Remove, ChargerExecutes,
                          callVars, netVars
<1>9. ASSUME NEW c \in Call, NEW a \in Answer, ChargerAnswers(c, a)
      PROVE  AnswersWereGiven'
  <2>1. <<c, a>> \in Frame
    BY DEF Frame
  <2>2. Members(Append(fromCharger, <<c, a>>))
          = Members(fromCharger) \union {<<c, a>>}
    BY <1>0, <2>1, QueueAppend
  <2>3. /\ Members(fromCharger') = Members(fromCharger) \union {<<c, a>>}
        /\ answers' = answers \union {<<c, a>>}
        /\ UNCHANGED future
    BY <1>9, <2>2 DEF ChargerAnswers, callVars
  <2>4. \A g \in Members(fromCharger') : g[2] # Inbound => g \in answers'
    BY <1>0, <2>3
  <2> QED
    BY <1>0, <2>3, <2>4 DEF Members
<1>10. CASE ChargerCalls
  <2>1. <<Reader, Inbound>> \in Frame
    BY DEF Frame
  <2>2. Members(Append(fromCharger, <<Reader, Inbound>>))
          = Members(fromCharger) \union {<<Reader, Inbound>>}
    BY <1>0, <2>1, QueueAppend
  <2>3. /\ Members(fromCharger') = Members(fromCharger) \union {<<Reader, Inbound>>}
        /\ UNCHANGED <<future, answers>>
    BY <1>10, <2>2 DEF ChargerCalls, callVars
  <2>4. \A g \in Members(fromCharger') : g[2] # Inbound => g \in answers'
    BY <1>0, <2>3
  <2> QED
    BY <1>0, <2>3, <2>4 DEF Members
<1>11. CASE TransportLost
  <2>1. Members(fromCharger') \subseteq Members(fromCharger)
    BY <1>11, NoMembers DEF TransportLost
  <2> QED
    BY <1>1, <1>11, <2>1 DEF TransportLost, callVars
<1>12. CASE UNCHANGED vars
  BY <1>1, <1>2, <1>12 DEF vars
<1> QED
  BY <1>3, <1>5, <1>6, <1>7, <1>8, <1>9, <1>10, <1>11, <1>12
  DEF Next, SessionNext, ChargerNext

LEMMA Inductive == IInv /\ [Next]_vars => IInv'
  BY TypeStep, CallTableStep, QueueStep, WireStep, AnswersStep DEF IInv

-----------------------------------------------------------------------------
(* Theorems                                                                *)

\* Type correctness of commands, for any number of calls.
THEOREM CallsTypeCorrect == Spec => []TypeOK
<1>1. IInv => TypeOK
  BY DEF IInv
<1> QED
  BY <1>1, Initial, Inductive, PTL DEF Spec

\* The pending table: a call that can still be answered is in it, and it holds
\* nothing but calls in flight and failed sends (_pending_calls).
THEOREM PendingTable == Spec => []TableMatchesCalls
<1>1. IInv => TableMatchesCalls
  BY DEF IInv, TableMatchesCalls
<1> QED
  BY <1>1, Initial, Inductive, PTL DEF Spec

\* No late or repeated answer, timeout or cancellation reverses an ending.
THEOREM FuturesSettleOnce == Spec => SettledOnce
<1> DEFINE Kept == \A c \in Call :
                     future[c] \in {"result", "error", "cancelled"}
                       => future'[c] = future[c]
<1>1. ASSUME IInv, [Next]_vars PROVE Kept
  <2>0. future \in [Call -> {"none", "pending", "result", "error", "cancelled"}]
        /\ PhasesAgree
    BY <1>1 DEF IInv, TypeOK
  <2>1. ASSUME NEW d \in Call, CallNext(d) PROVE Kept
    BY <2>0, <2>1 DEF CallNext, RefuseCall, StartCall, QueuedCall, SendResumes,
                      CallReturns, CallTimesOut, PhasesAgree
  <2>2. CASE SessionNext
    BY <2>0, <2>2 DEF SessionNext, ReadAnswer, Settle, ReadCall, QueuedReply,
                      ReplyResumes, RunReturns, Close, CancelPending, Remove,
                      callVars
  <2>3. CASE ChargerNext
    BY <2>3 DEF ChargerNext, ChargerExecutes, ChargerCalls, TransportLost,
                ChargerAnswers, callVars
  <2>4. CASE UNCHANGED vars
    BY <2>4 DEF vars
  <2> QED
    BY <1>1, <2>1, <2>2, <2>3, <2>4 DEF Next
<1>2. IInv /\ [Next]_vars => [Kept]_vars
  BY <1>1
<1> QED
  BY <1>2, Initial, Inductive, PTL DEF Spec, SettledOnce

-----------------------------------------------------------------------------
(* Refinement                                                              *)

\* A step that moves one call's ending, seen through the mapping.
LEMMA PromisedStep ==
  ASSUME IInv, NEW c \in Call, NEW o,
         \A d \in Call \ {c} : phase'[d] = phase[d] /\ outcome'[d] = outcome[d],
         (IF phase'[c] \in {"queued", "sending", "waiting"} THEN "open"
                                                            ELSE outcome'[c]) = o
  PROVE  PromisedOutcome' = [PromisedOutcome EXCEPT ![c] = o]
BY DEF PromisedOutcome, InFlight

LEMMA PromiseInit == Init => Promise!PInit
BY DEF Init, Promise!PInit, PromisedOutcome, InFlight

LEMMA PromiseStep == IInv /\ [Next]_vars => [Promise!PNext]_Promise!pvars
<1> SUFFICES ASSUME IInv, [Next]_vars
             PROVE  [Promise!PNext]_Promise!pvars
  OBVIOUS
<1>0. /\ phase \in [Call -> Phase] /\ outcome \in [Call -> Outcome]
      /\ future \in [Call -> {"none", "pending", "result", "error", "cancelled"}]
      /\ PhasesAgree
  BY DEF IInv, TypeOK
<1>1. ASSUME UNCHANGED <<phase, outcome, executed, answers>>
      PROVE  UNCHANGED Promise!pvars
  BY <1>1 DEF Promise!pvars, PromisedOutcome, InFlight
<1>2. ASSUME NEW c \in Call, CallNext(c)
      PROVE  [Promise!PNext]_Promise!pvars
  <2>0. UNCHANGED <<executed, answers>>
    BY <1>2 DEF CallNext, RefuseCall, StartCall, QueuedCall, SendResumes,
                CallReturns, CallTimesOut, netVars
  <2>1. CASE RefuseCall(c)
    <3>1. PromisedOutcome' = [PromisedOutcome EXCEPT ![c] = "refused"]
      BY <1>0, <2>1, PromisedStep DEF RefuseCall
    <3>2. PromisedOutcome[c] = "none"
      BY <1>0, <2>1 DEF RefuseCall, PromisedOutcome, InFlight, PhasesAgree, Phase
    <3> QED
      BY <2>0, <3>1, <3>2 DEF Promise!PNext, Promise!Begin
  <2>2. CASE StartCall(c)
    <3>1. PromisedOutcome[c] = "none"
      BY <1>0, <2>2 DEF StartCall, PromisedOutcome, InFlight, PhasesAgree, Phase
    <3>2. \E o \in {"open", "sendFailed"} :
            PromisedOutcome' = [PromisedOutcome EXCEPT ![c] = o]
      <4>1. \A d \in Call \ {c} : phase'[d] = phase[d] /\ outcome'[d] = outcome[d]
        BY <1>0, <2>2 DEF StartCall, WriteCall
      <4>2. \/ phase'[c] \in {"queued", "sending", "waiting"}
            \/ phase'[c] = "done" /\ outcome'[c] = "sendFailed"
        BY <1>0, <2>2 DEF StartCall, WriteCall
      <4> QED
        BY <4>1, <4>2, PromisedStep
    <3> QED
      BY <2>0, <3>1, <3>2 DEF Promise!PNext, Promise!Begin
  <2>3. CASE QueuedCall(c) \/ SendResumes(c)
    <3>1. PromisedOutcome[c] = "open"
      BY <2>3 DEF QueuedCall, SendResumes, PromisedOutcome, InFlight
    <3>2. \A d \in Call \ {c} : phase'[d] = phase[d] /\ outcome'[d] = outcome[d]
      BY <1>0, <2>3 DEF QueuedCall, SendResumes, WriteCall
    <3>3. CASE phase'[c] \in {"sending", "waiting"}
      <4>1. PromisedOutcome' = [PromisedOutcome EXCEPT ![c] = "open"]
        BY <3>2, <3>3, PromisedStep
      <4>2. UNCHANGED PromisedOutcome
        BY <3>1, <4>1 DEF PromisedOutcome
      <4> QED
        BY <2>0, <4>2 DEF Promise!pvars
    <3>4. CASE phase'[c] = "done" /\ outcome'[c] = "sendFailed"
      <4>1. PromisedOutcome' = [PromisedOutcome EXCEPT ![c] = "sendFailed"]
        BY <3>2, <3>4, PromisedStep
      <4>2. Promise!End(c, "sendFailed")
        BY <2>0, <3>1, <4>1 DEF Promise!End, Promise!Answer
      <4> QED
        BY <4>2 DEF Promise!PNext, Promise!Failure
    <3> QED
      BY <1>0, <2>3, <3>3, <3>4 DEF QueuedCall, SendResumes, WriteCall
  <2>4. CASE CallReturns(c)
    <3>1. PromisedOutcome[c] = "open"
      BY <2>4 DEF CallReturns, PromisedOutcome, InFlight
    <3>2. PromisedOutcome' = [PromisedOutcome EXCEPT ![c] = future[c]]
      BY <1>0, <2>4, PromisedStep DEF CallReturns
    <3>3. future[c] \in {"result", "error", "cancelled"}
      BY <1>0, <2>4 DEF CallReturns, PhasesAgree, InFlight
    <3>4. future[c] \in {"result", "error"} => <<c, future[c]>> \in answers
      BY DEF IInv, AnswersWereGiven, Answer
    <3>5. Promise!End(c, future[c])
      BY <2>0, <3>1, <3>2, <3>4 DEF Promise!End, Promise!Answer
    <3> QED
      BY <3>3, <3>5 DEF Promise!PNext, Promise!Answer, Promise!Failure
  <2>5. CASE CallTimesOut(c)
    <3>1. PromisedOutcome[c] = "open"
      BY <2>5 DEF CallTimesOut, PromisedOutcome, InFlight
    <3>2. PromisedOutcome' = [PromisedOutcome EXCEPT ![c] = "timeout"]
      BY <1>0, <2>5, PromisedStep DEF CallTimesOut
    <3>3. Promise!End(c, "timeout")
      BY <2>0, <3>1, <3>2 DEF Promise!End, Promise!Answer
    <3> QED
      BY <3>3 DEF Promise!PNext, Promise!Failure
  <2> QED
    BY <1>2, <2>1, <2>2, <2>3, <2>4, <2>5 DEF CallNext
<1>3. CASE SessionNext \/ ChargerCalls \/ TransportLost
  BY <1>1, <1>3 DEF SessionNext, ReadAnswer, ReadCall, QueuedReply,
                    ReplyResumes, RunReturns, Close, Remove, ChargerCalls,
                    TransportLost, callVars, netVars
<1>4. CASE ChargerExecutes
  <2> DEFINE c == Head(toCharger)
  <2>1. c \in Call /\ c \in Members(toCharger)
    BY <1>4, QueueHead DEF ChargerExecutes, IInv, TypeOK
  <2>2. phase[c] # "idle" /\ outcome[c] # "refused"
    BY <2>1 DEF IInv, OnlySentTravel
  <2>3. PromisedOutcome[c] \notin {"none", "refused"}
    BY <1>0, <2>1, <2>2 DEF PromisedOutcome, InFlight, PhasesAgree, Phase
  <2>4. executed' = executed \union {c} /\ UNCHANGED <<phase, outcome, answers>>
    BY <1>4 DEF ChargerExecutes, callVars
  <2>5. UNCHANGED PromisedOutcome
    BY <2>4 DEF PromisedOutcome, InFlight
  <2> QED
    BY <2>1, <2>3, <2>4, <2>5 DEF Promise!PNext, Promise!Execute
<1>5. ASSUME NEW c \in Call, NEW a \in Answer, ChargerAnswers(c, a)
      PROVE  Promise!PNext
  <2>1. /\ c \in executed /\ answers' = answers \union {<<c, a>>}
        /\ UNCHANGED <<phase, outcome, executed>>
    BY <1>5 DEF ChargerAnswers, callVars
  <2>2. UNCHANGED PromisedOutcome
    BY <2>1 DEF PromisedOutcome, InFlight
  <2>3. Promise!Respond(c, a)
    BY <2>1, <2>2 DEF Promise!Respond
  <2> QED
    BY <2>3 DEF Promise!PNext, Promise!Answer, Answer
<1>6. CASE UNCHANGED vars
  BY <1>1, <1>6 DEF vars
<1> QED
  BY <1>2, <1>3, <1>4, <1>5, <1>6 DEF Next, ChargerNext

\* Commands implement what their callers rely on: ChargePointSession keeps the
\* promise of CommandPromise.
THEOREM Implements == Spec => KeepsPromise
BY PromiseInit, PromiseStep, Initial, Inductive, PTL
DEF Spec, KeepsPromise, Promise!PSpec
=============================================================================
