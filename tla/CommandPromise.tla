--------------------------- MODULE CommandPromise ---------------------------
(***************************************************************************)
(* What a caller of ChargePointSession.async_call may rely on, and no      *)
(* more: the call ends once, with an answer only if the charger gave that  *)
(* answer to this call.  Every other ending leaves open whether the        *)
(* charger carried the command out, now or later, except a refusal.        *)
(***************************************************************************)
CONSTANT Call

VARIABLES
  outcome,    \* "none" before the call, "open" during it, then how it ended
  executed,   \* the commands the charger has carried out
  answers     \* <<call, answer>> for every answer the charger has given

pvars == <<outcome, executed, answers>>

Answer   == {"result", "error"}
Failure  == {"timeout", "cancelled", "sendFailed"}
Ended    == Answer \union Failure \union {"refused"}

PInit ==
  /\ outcome = [c \in Call |-> "none"]
  /\ executed = {}
  /\ answers = {}

\* The call is made: it is refused, fails while its frame is written, or stays
\* open.
Begin(c) ==
  /\ outcome[c] = "none"
  /\ \E o \in {"open", "refused", "sendFailed"} :
       outcome' = [outcome EXCEPT ![c] = o]
  /\ UNCHANGED <<executed, answers>>

\* The charger carries the command out, perhaps after the caller gave up.
Execute(c) ==
  /\ outcome[c] \notin {"none", "refused"}
  /\ executed' = executed \union {c}
  /\ UNCHANGED <<outcome, answers>>

\* The charger answers a command it has carried out or rejected.
Respond(c, a) ==
  /\ c \in executed
  /\ answers' = answers \union {<<c, a>>}
  /\ UNCHANGED <<outcome, executed>>

End(c, o) ==
  /\ outcome[c] = "open"
  /\ o \in Answer => <<c, o>> \in answers
  /\ outcome' = [outcome EXCEPT ![c] = o]
  /\ UNCHANGED <<executed, answers>>

PNext ==
  \E c \in Call :
    \/ Begin(c)
    \/ Execute(c)
    \/ \E a \in Answer : Respond(c, a)
    \/ \E o \in Answer \union Failure : End(c, o)

PSpec == PInit /\ [][PNext]_pvars
=============================================================================
