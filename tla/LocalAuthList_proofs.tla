------------------------ MODULE LocalAuthList_proofs ------------------------
(***************************************************************************)
(* For any finite set of tags and any changes, overlapping as they may: as *)
(* long as no change is stored after another overtook it and no accepted   *)
(* update goes unanswered, the charger's list is the portal's with the     *)
(* accepted updates applied whose answers are still under way, in order.   *)
(***************************************************************************)
EXTENDS LocalAuthList, FiniteSetTheorems, TLAPS

Types ==
  /\ tags \in List /\ stored \in List /\ list \in List
  /\ job \in [Job -> Change \union {Idle, Ended}]
  /\ version \in Nat /\ replies \in Seq(Job) /\ crashes \in Nat

\* The answers under way are those of running changes, each once, and none of an
\* accepted update is missing.
Answered ==
  /\ \A n \in DOMAIN replies : At(replies[n], "accepted") \/ At(replies[n], "refused")
  /\ \A m, n \in DOMAIN replies : replies[m] = replies[n] => m = n
  /\ \A j \in Job : At(j, "accepted") => \E n \in DOMAIN replies : replies[n] = j

\* The n-th answer is that of an accepted update of tag t.
Changes(n, t) == At(replies[n], "accepted") /\ job[replies[n]].entries[t] # "keep"

\* The charger has for each tag what the last accepted update made of it, and
\* otherwise what the portal has.
ListFollows == \A t \in Tag :
  \/ \E n \in DOMAIN replies :
       /\ Changes(n, t) /\ list[t] = job[replies[n]].entries[t]
       /\ \A m \in DOMAIN replies : m > n => ~Changes(m, t)
  \/ list[t] = tags[t] /\ \A m \in DOMAIN replies : ~Changes(m, t)

Override(j, t) == IF job[j].entries[t] = "keep" THEN tags[t] ELSE job[j].entries[t]

\* A save that has the portal's own tags has them as they are now.
ReadsHold == \A j \in Running :
  /\ job[j].kind = "save" /\ job[j].view = "current" =>
       \A t \in Tag : job[j].list[t] = Override(j, t)
  /\ job[j].kind = "enable" => \A t \in Tag : job[j].entries[t] # None
  /\ job[j].kind = "delete" =>
       \E t \in Tag : job[j].entries[t] = None /\ \A s \in Tag \ {t} : job[j].entries[s] = "keep"

IInv == /\ Types /\ Answered /\ ReadsHold
        /\ lost \/ muddled \/ (stored = tags /\ ListFollows)

LEMMA Initial == Init => IInv
  BY ListAssumption DEF Init, IInv, Types, List, Answered, ReadsHold, ListFollows, Running, At, Idle, Changes

LEMMA SizeType == ASSUME NEW l \in List PROVE Size(l) \in Nat /\ IsFiniteSet(Known(l))
  BY ListAssumption, FS_Subset, FS_CardinalityType DEF Size, Known

LEMMA SizeShrinks ==
  ASSUME NEW l \in List, NEW m \in List, NEW t \in Known(m), Known(l) = Known(m) \ {t}
  PROVE  Size(l) = Size(m) - 1
  BY SizeType, FS_RemoveElement DEF Size

LEMMA NotIdle == \A c \in Change : c # Idle /\ c # Ended
<1>1. \A c \in Change : c.kind # None /\ c.kind # "ended"
  BY ListAssumption DEF Change
<1> QED BY <1>1 DEF Idle, Ended

LEMMA RunningIs ==
  ASSUME Types, NEW j \in Job
  PROVE  j \in Running <=> job[j] \in Change
  BY NotIdle DEF Types, Running

LEMMA LaterPart ==
  ASSUME NEW S, NEW a \in Seq(S), NEW b \in Seq(S), NEW n \in (Len(a) + 1)..(Len(a) + Len(b))
  PROVE  (a \o b)[n] = b[n - Len(a)]
  OBVIOUS

LEMMA RemoveAtIs ==
  ASSUME NEW S, NEW s \in Seq(S), NEW i \in DOMAIN s
  PROVE  /\ RemoveAt(s, i) \in Seq(S) /\ Len(RemoveAt(s, i)) = Len(s) - 1
         /\ \A n \in 1..(Len(s) - 1) : RemoveAt(s, i)[n] = IF n < i THEN s[n] ELSE s[n + 1]
<1> DEFINE before == SubSeq(s, 1, i - 1)
           after == SubSeq(s, i + 1, Len(s))
<1>1. i \in 1..Len(s) /\ Len(s) \in Nat
  OBVIOUS
<1>2. before \in Seq(S) /\ Len(before) = i - 1 /\ \A n \in 1..(i - 1) : before[n] = s[n]
  BY <1>1
<1>3. after \in Seq(S) /\ Len(after) = Len(s) - i /\ \A n \in 1..(Len(s) - i) : after[n] = s[n + i]
  BY <1>1
<1>4. RemoveAt(s, i) = before \o after
  BY DEF RemoveAt
<1> HIDE DEF before, after
<1>5. before \o after \in Seq(S) /\ Len(before \o after) = Len(s) - 1
  BY <1>1, <1>2, <1>3
<1>6. ASSUME NEW n \in 1..(Len(s) - 1)
      PROVE  (before \o after)[n] = IF n < i THEN s[n] ELSE s[n + 1]
  <2>1. CASE n < i
    BY <1>1, <1>2, <1>3, <2>1
  <2>2. CASE ~(n < i)
    <3>1. n - (i - 1) \in 1..(Len(s) - i) /\ (n - (i - 1)) + i = n + 1
      BY <1>1, <2>2
    <3>2. n \in (Len(before) + 1)..(Len(before) + Len(after))
      BY <1>1, <1>2, <1>3, <2>2
    <3>3. (before \o after)[n] = after[n - Len(before)]
      BY <1>2, <1>3, <3>2, LaterPart
    <3> QED BY <1>2, <1>3, <2>2, <3>1, <3>3
  <2> QED BY <2>1, <2>2
<1> QED BY <1>4, <1>5, <1>6

\* What does not touch the answered changes touches neither their answers nor what
\* the charger is ahead by.
LEMMA UnansweredStep ==
  ASSUME Types, Answered, replies' = replies, tags' = tags, list' = list,
         \A n \in DOMAIN replies : /\ replies[n] \in Running'
                                   /\ job'[replies[n]].stage = job[replies[n]].stage
                                   /\ job'[replies[n]].entries = job[replies[n]].entries,
         \A i \in Running' : job'[i].stage = "accepted" => At(i, "accepted")
  PROVE  Answered' /\ (ListFollows => ListFollows')
<1>1. \A n \in DOMAIN replies : replies[n] \in Job /\ replies[n] \in Running
  BY DEF Types, Answered, At
<1>2. Answered'
  BY <1>1 DEF Answered, At
<1>3. ListFollows => ListFollows'
  BY <1>1 DEF ListFollows, Changes, At
<1> QED BY <1>2, <1>3

LEMMA UndisturbedStep ==
  ASSUME Types, Answered, replies' = replies, tags' = tags, list' = list,
         \A i \in Running : At(i, "accepted") \/ At(i, "refused") =>
           i \in Running' /\ job'[i].stage = job[i].stage /\ job'[i].entries = job[i].entries,
         \A i \in Running' : i \in Running \/ job'[i].stage # "accepted",
         \A i \in Running : job'[i].stage # "accepted" \/ job[i].stage = "accepted"
  PROVE  Answered' /\ (ListFollows => ListFollows')
<1>1. \A n \in DOMAIN replies : /\ replies[n] \in Running'
                                /\ job'[replies[n]].stage = job[replies[n]].stage
                                /\ job'[replies[n]].entries = job[replies[n]].entries
  BY DEF Types, Answered, At
<1>2. \A i \in Running' : job'[i].stage = "accepted" => At(i, "accepted")
  BY DEF At
<1> QED BY <1>1, <1>2, UnansweredStep

-----------------------------------------------------------------------------
\* A change that starts has read the list there is now.
LEMMA CallsStep ==
  ASSUME IInv, NEW j \in Job, NEW kind \in {"save", "enable", "delete"},
         NEW entries \in [Tag -> Info \union {None, "keep"}], NEW newList \in List,
         Calls(j, kind, entries, newList),
         kind = "save" => \A t \in Tag :
           newList[t] = IF entries[t] = "keep" THEN tags[t] ELSE entries[t],
         kind = "enable" => \A t \in Tag : entries[t] # None,
         kind = "delete" => \E t \in Tag :
           entries[t] = None /\ \A s \in Tag \ {t} : entries[s] = "keep"
  PROVE  IInv'
<1> DEFINE new == [kind |-> kind, stage |-> "ask", entries |-> entries, list |-> newList,
                   view |-> "current", size |-> Size(tags), version |-> 0]
<1>1. new \in Change
  BY SizeType DEF Change, Active, IInv, Types
<1>2. /\ tags' = tags /\ stored' = stored /\ list' = list /\ version' = version
      /\ replies' = replies /\ crashes' = crashes /\ lost' = lost /\ muddled' = muddled
      /\ job[j] = Idle /\ job' = [job EXCEPT ![j] = new]
  BY DEF Calls
<1>3. new.kind = kind /\ new.stage = "ask" /\ new.entries = entries /\ new.list = newList
  OBVIOUS
<1> HIDE DEF new
<1>4. Types'
  BY <1>1, <1>2 DEF IInv, Types
<1>5. job'[j] = new /\ \A i \in Job \ {j} : job'[i] = job[i]
  BY <1>2 DEF IInv, Types
<1>6. j \notin Running /\ Running' = Running \union {j}
  <2>1. j \in Running'
    BY <1>1, <1>4, <1>5, RunningIs, ListAssumption DEF Running, Change, Idle, Ended
  <2> QED BY <1>2, <1>5, <2>1 DEF Running
<1>7. \A i \in Running : i \in Running' /\ job'[i].stage = job[i].stage /\ job'[i].entries = job[i].entries
  BY <1>5, <1>6 DEF Running
<1>8. \A i \in Running' : i \in Running \/ job'[i].stage = "ask"
  BY <1>3, <1>5, <1>6
<1>9. Answered' /\ (ListFollows => ListFollows')
  <2>1. \A i \in Running' : i \in Running \/ job'[i].stage # "accepted"
    BY <1>8
  <2>2. \A i \in Running : job'[i].stage # "accepted" \/ job[i].stage = "accepted"
    BY <1>7
  <2> QED BY <1>2, <1>7, <2>1, <2>2, UndisturbedStep DEF IInv
<1>10. ReadsHold'
  BY <1>2, <1>3, <1>5, <1>6 DEF IInv, ReadsHold, Override
<1> QED BY <1>2, <1>4, <1>9, <1>10 DEF IInv

LEMMA StartStep ==
  ASSUME IInv, NEW j \in Job, NEW t \in Tag,
         \/ \E original \in Tag \union {None}, info \in Info : SaveTag(j, original, t, info)
         \/ \E info \in Info : SetEnabled(j, t, info)
         \/ DeleteTag(j, t)
  PROVE  IInv'
<1> USE ListAssumption DEF IInv, Types, List, Info
<1>1. ASSUME NEW original \in Tag \union {None}, NEW info \in Info, SaveTag(j, original, t, info)
      PROVE  IInv'
  <2> DEFINE entries == SavedEntries(original, t, info)
             newList == Saved(original, t, info)
  <2>2. /\ entries \in [Tag -> Info \union {None, "keep"}]
        /\ \A s \in Tag : entries[s] = IF s = t THEN info ELSE IF s = original THEN None ELSE "keep"
    BY DEF SavedEntries
  <2>3. /\ newList \in List
        /\ \A s \in Tag : newList[s] = IF s = t THEN info ELSE IF s = original THEN None ELSE tags[s]
    BY DEF Saved
  <2>4. Calls(j, "save", entries, newList)
    BY <1>1 DEF SaveTag
  <2>5. \A s \in Tag : newList[s] = IF entries[s] = "keep" THEN tags[s] ELSE entries[s]
    BY <2>2, <2>3
  <2> HIDE DEF entries, newList
  <2> QED BY <2>2, <2>3, <2>4, <2>5, CallsStep
<1>2. ASSUME NEW info \in Info, SetEnabled(j, t, info) PROVE IInv'
  <2> DEFINE entries == [Keep EXCEPT ![t] = info]
  <2>1. /\ entries \in [Tag -> Info \union {None, "keep"}]
        /\ \A s \in Tag : entries[s] = IF s = t THEN info ELSE "keep"
    BY DEF Keep
  <2>2. Calls(j, "enable", entries, tags)
    BY <1>2 DEF SetEnabled
  <2> HIDE DEF entries
  <2> QED BY <2>1, <2>2, CallsStep
<1>3. CASE DeleteTag(j, t)
  <2> DEFINE entries == [Keep EXCEPT ![t] = None]
  <2>1. /\ entries \in [Tag -> Info \union {None, "keep"}]
        /\ \A s \in Tag : entries[s] = IF s = t THEN None ELSE "keep"
    BY DEF Keep
  <2>2. Calls(j, "delete", entries, tags)
    BY <1>3 DEF DeleteTag
  <2> HIDE DEF entries
  <2> QED BY <2>1, <2>2, CallsStep
<1> QED BY <1>1, <1>2, <1>3

-----------------------------------------------------------------------------
\* The stage of a change, or its version, is what its calls alter.
LEMMA StageChanges ==
  ASSUME Types, NEW j \in Running, j \in Job, NEW stage \in Active, NEW v \in Nat,
         \/ job' = [job EXCEPT ![j].stage = stage, ![j].version = v]
         \/ job' = [job EXCEPT ![j].stage = stage]
  PROVE  /\ job'[j] \in Change /\ job' \in [Job -> Change \union {Idle, Ended}]
         /\ \A i \in Job \ {j} : job'[i] = job[i]
         /\ job'[j].stage = stage /\ job'[j].kind = job[j].kind
         /\ job'[j].entries = job[j].entries /\ job'[j].list = job[j].list
         /\ job'[j].view = job[j].view
<1>1. job[j] \in Change
  BY RunningIs
<1>2. PICK c \in Change :
        /\ c.stage = stage /\ c.kind = job[j].kind /\ c.entries = job[j].entries
        /\ c.list = job[j].list /\ c.view = job[j].view
        /\ job' = [job EXCEPT ![j] = c]
  <2>1. CASE job' = [job EXCEPT ![j].stage = stage, ![j].version = v]
    <3> DEFINE c == [[job[j] EXCEPT !.stage = stage] EXCEPT !.version = v]
    <3>1. job' = [job EXCEPT ![j] = c]
      BY <2>1 DEF Types
    <3>2. /\ c \in Change /\ c.stage = stage /\ c.kind = job[j].kind
          /\ c.entries = job[j].entries /\ c.list = job[j].list /\ c.view = job[j].view
      BY <1>1 DEF Change
    <3> QED BY <3>1, <3>2
  <2>2. CASE job' = [job EXCEPT ![j].stage = stage]
    <3> DEFINE c == [job[j] EXCEPT !.stage = stage]
    <3>1. job' = [job EXCEPT ![j] = c]
      BY <2>2 DEF Types
    <3>2. /\ c \in Change /\ c.stage = stage /\ c.kind = job[j].kind
          /\ c.entries = job[j].entries /\ c.list = job[j].list /\ c.view = job[j].view
      BY <1>1 DEF Change
    <3> QED BY <3>1, <3>2
  <2> QED BY <2>1, <2>2
<1> QED BY <1>2 DEF Types

\* Whatever keeps what running changes have read keeps it true.
LEMMA ReadsStay ==
  ASSUME ReadsHold, tags' = tags,
         \A i \in Running' : /\ i \in Running
                            /\ job'[i].kind = job[i].kind /\ job'[i].entries = job[i].entries
                            /\ job'[i].list = job[i].list /\ job'[i].view \in {job[i].view, "copied"}
  PROVE  ReadsHold'
  BY DEF ReadsHold, Override

LEMMA AskStep ==
  ASSUME IInv, NEW j \in Job, ReadVersion(j)
  PROVE  IInv'
<1> USE DEF IInv
<1>1. /\ tags' = tags /\ stored' = stored /\ list' = list /\ version' = version
      /\ replies' = replies /\ crashes' = crashes /\ lost' = lost /\ muddled' = muddled
      /\ j \in Running /\ job[j].stage = "ask"
      /\ job' = [job EXCEPT ![j].stage = "send", ![j].version = version + 1]
  BY DEF ReadVersion, At
<1>2. version + 1 \in Nat /\ "send" \in Active
  BY DEF Types, Active
<1>3. /\ job'[j] \in Change /\ job' \in [Job -> Change \union {Idle, Ended}]
      /\ \A i \in Job \ {j} : job'[i] = job[i]
      /\ job'[j].stage = "send" /\ job'[j].kind = job[j].kind
      /\ job'[j].entries = job[j].entries /\ job'[j].list = job[j].list
      /\ job'[j].view = job[j].view
  BY <1>1, <1>2, StageChanges
<1>4. Types'
  BY <1>1, <1>3 DEF Types
<1>5. Running' = Running
  BY <1>1, <1>3, NotIdle DEF Running
<1>6. Answered' /\ (ListFollows => ListFollows')
  <2>1. \A i \in Running : At(i, "accepted") \/ At(i, "refused") =>
          i \in Running' /\ job'[i].stage = job[i].stage /\ job'[i].entries = job[i].entries
    BY <1>1, <1>3, <1>5 DEF At, Running
  <2>2. \A i \in Running' : i \in Running \/ job'[i].stage # "accepted"
    BY <1>5
  <2>3. \A i \in Running : job'[i].stage # "accepted" \/ job[i].stage = "accepted"
    BY <1>3 DEF Running
  <2> QED BY <1>1, <2>1, <2>2, <2>3, UndisturbedStep
<1>7. ReadsHold'
  <2>1. \A i \in Running' : /\ i \in Running
                            /\ job'[i].kind = job[i].kind /\ job'[i].entries = job[i].entries
                            /\ job'[i].list = job[i].list /\ job'[i].view \in {job[i].view, "copied"}
    BY <1>3, <1>5 DEF Running
  <2> QED BY <1>1, <2>1, ReadsStay
<1> QED BY <1>1, <1>4, <1>6, <1>7

\* A save without a call makes copies; any other save of the state makes none.
LEMMA CopiesStep ==
  ASSUME IInv, SaveAlias \/ SaveState
  PROVE  IInv'
<1> USE DEF IInv
<1>1. /\ tags' = tags /\ stored' = tags /\ list' = list /\ version' = version
      /\ replies' = replies /\ crashes' = crashes /\ lost' = lost /\ muddled' = muddled
      /\ \/ job' = job
         \/ job' = [j \in Job |-> IF j \in Saving THEN [job[j] EXCEPT !.view = "copied"] ELSE job[j]]
  BY DEF SaveAlias, SaveState
<1>2. \A i \in Running : /\ job[i] \in Change /\ job'[i] \in Change
                         /\ job'[i].stage = job[i].stage /\ job'[i].kind = job[i].kind
                         /\ job'[i].entries = job[i].entries /\ job'[i].list = job[i].list
                         /\ job'[i].view \in {job[i].view, "copied"}
  <2>1. ASSUME NEW i \in Running
        PROVE  /\ job[i] \in Change /\ job'[i] \in Change
               /\ job'[i].stage = job[i].stage /\ job'[i].kind = job[i].kind
               /\ job'[i].entries = job[i].entries /\ job'[i].list = job[i].list
               /\ job'[i].view \in {job[i].view, "copied"}
    <3>1. i \in Job /\ job[i] \in Change
      BY RunningIs DEF Running
    <3>2. job'[i] = job[i] \/ job'[i] = [job[i] EXCEPT !.view = "copied"]
      BY <1>1, <3>1
    <3> QED BY <3>1, <3>2 DEF Change
  <2> QED BY <2>1
<1>3. \A i \in Job \ Running : job'[i] = job[i]
  BY <1>1 DEF Saving
<1>4. job' \in [Job -> Change \union {Idle, Ended}]
  <2>1. DOMAIN job' = Job /\ job' = [i \in Job |-> job'[i]]
    BY <1>1 DEF Types
  <2>2. \A i \in Job : job'[i] \in Change \union {Idle, Ended}
    BY <1>2, <1>3 DEF Types
  <2> QED BY <2>1, <2>2
<1>5. Types'
  BY <1>1, <1>4 DEF Types
<1>6. Running' = Running
  <2>1. \A i \in Job : i \in Running' <=> i \in Running
    BY <1>2, <1>3, NotIdle DEF Running
  <2> QED BY <2>1 DEF Running
<1>7. Answered' /\ (ListFollows => ListFollows')
  BY <1>1, <1>2, <1>6, UndisturbedStep
<1>8. ReadsHold'
  BY <1>1, <1>2, <1>6, ReadsStay
<1> QED BY <1>1, <1>5, <1>7, <1>8

\* The charger's verdict puts an answer behind the others.
LEMMA UpdateStep ==
  ASSUME IInv, NEW j \in Job, ReceiveUpdate(j)
  PROVE  IInv'
<1> USE DEF IInv
<1>1. /\ tags' = tags /\ stored' = stored /\ crashes' = crashes /\ lost' = lost /\ muddled' = muddled
      /\ j \in Running /\ job[j].stage = "send" /\ replies' = Append(replies, j)
  BY DEF ReceiveUpdate, At
<1>2. PICK stage \in {"accepted", "refused"} :
        /\ job' = [job EXCEPT ![j].stage = stage]
        /\ stage = "accepted" =>
             /\ version' = job[j].version
             /\ list' = [t \in Tag |-> IF job[j].entries[t] = "keep" THEN list[t] ELSE job[j].entries[t]]
        /\ stage = "refused" => version' = version /\ list' = list
  BY DEF ReceiveUpdate
<1>3. /\ job'[j] \in Change /\ job' \in [Job -> Change \union {Idle, Ended}]
      /\ \A i \in Job \ {j} : job'[i] = job[i]
      /\ job'[j].stage = stage /\ job'[j].kind = job[j].kind
      /\ job'[j].entries = job[j].entries /\ job'[j].list = job[j].list
      /\ job'[j].view = job[j].view
  <2>1. stage \in Active /\ 0 \in Nat
    BY DEF Active
  <2> QED BY <1>1, <1>2, <2>1, StageChanges
<1>4. Types'
  <2>1. job[j].version \in Nat /\ job[j].entries \in [Tag -> Info \union {None, "keep"}]
    BY <1>1, RunningIs DEF Change
  <2>2. list' \in List /\ version' \in Nat
    BY <1>2, <2>1 DEF Types, List
  <2>3. replies' \in Seq(Job)
    BY <1>1 DEF Types
  <2> QED BY <1>1, <1>3, <2>2, <2>3 DEF Types
<1>5. Running' = Running
  BY <1>1, <1>3, NotIdle DEF Running
<1>6. /\ Len(replies) \in Nat /\ DOMAIN replies = 1..Len(replies)
      /\ DOMAIN replies' = 1..(Len(replies) + 1) /\ replies'[Len(replies) + 1] = j
      /\ \A n \in 1..Len(replies) : replies'[n] = replies[n] /\ replies[n] \in Job
  BY <1>1 DEF Types
<1>7. \A n \in 1..Len(replies) : replies[n] # j /\ job'[replies[n]] = job[replies[n]]
  BY <1>1, <1>3, <1>6 DEF Answered, At
<1>8. Answered'
  <2>1. \A n \in DOMAIN replies' : At(replies[n], "accepted")' \/ At(replies[n], "refused")'
    BY <1>1, <1>2, <1>3, <1>5, <1>6, <1>7 DEF Answered, At
  <2>2. \A m, n \in DOMAIN replies' : replies'[m] = replies'[n] => m = n
    BY <1>6, <1>7 DEF Answered
  <2>3. ASSUME NEW i \in Job, At(i, "accepted")' PROVE \E n \in DOMAIN replies' : replies'[n] = i
    <3>1. CASE i = j
      BY <1>6, <3>1
    <3>2. CASE i # j
      <4>1. At(i, "accepted")
        BY <1>3, <1>5, <2>3, <3>2 DEF At
      <4>2. PICK n \in 1..Len(replies) : replies[n] = i
        BY <1>6, <4>1 DEF Answered
      <4> QED BY <1>6, <4>2
    <3> QED BY <3>1, <3>2
  <2> QED BY <2>1, <2>2, <2>3 DEF Answered
<1>9. ASSUME ListFollows PROVE ListFollows'
  <2> SUFFICES ASSUME NEW t \in Tag
      PROVE  \/ \E n \in DOMAIN replies' :
                  /\ Changes(n, t)' /\ list'[t] = job'[replies'[n]].entries[t]
                  /\ \A m \in DOMAIN replies' : m > n => ~Changes(m, t)'
             \/ list'[t] = tags'[t] /\ \A m \in DOMAIN replies' : ~Changes(m, t)'
    BY DEF ListFollows
  <2>0. PICK last \in Nat : last = Len(replies) + 1
    BY <1>6
  <2>1. \A n \in 1..Len(replies) : Changes(n, t)' <=> Changes(n, t)
    BY <1>5, <1>6, <1>7 DEF Changes, At
  <2>2. Changes(last, t)' <=> stage = "accepted" /\ job[j].entries[t] # "keep"
    BY <1>1, <1>3, <1>5, <1>6, <2>0 DEF Changes, At
  <2>3. CASE stage = "accepted" /\ job[j].entries[t] # "keep"
    <3>1. list'[t] = job'[replies'[last]].entries[t]
      BY <1>2, <1>3, <1>6, <2>0, <2>3
    <3>2. last \in DOMAIN replies' /\ \A m \in DOMAIN replies' : ~(m > last)
      BY <1>6, <2>0
    <3> QED BY <2>2, <2>3, <3>1, <3>2
  <2>4. CASE ~(stage = "accepted" /\ job[j].entries[t] # "keep")
    <3>1. list'[t] = list[t] /\ ~Changes(last, t)'
      BY <1>2, <2>2, <2>4 DEF Types, List
    <3>2. \A m \in DOMAIN replies' : m \in 1..Len(replies) \/ m = last
      BY <1>6, <2>0
    <3>3. CASE \E n \in DOMAIN replies :
                 /\ Changes(n, t) /\ list[t] = job[replies[n]].entries[t]
                 /\ \A m \in DOMAIN replies : m > n => ~Changes(m, t)
      <4>1. PICK n \in 1..Len(replies) :
                 /\ Changes(n, t) /\ list[t] = job[replies[n]].entries[t]
                 /\ \A m \in DOMAIN replies : m > n => ~Changes(m, t)
        BY <1>6, <3>3
      <4>2. n \in DOMAIN replies' /\ job'[replies'[n]].entries[t] = job[replies[n]].entries[t]
        BY <1>6, <1>7
      <4>3. \A m \in DOMAIN replies' : m > n => ~Changes(m, t)'
        BY <1>6, <2>1, <3>1, <3>2, <4>1
      <4> QED BY <2>1, <3>1, <4>1, <4>2, <4>3
    <3>4. CASE list[t] = tags[t] /\ \A m \in DOMAIN replies : ~Changes(m, t)
      BY <1>1, <1>6, <2>1, <3>1, <3>2, <3>4
    <3> QED BY <1>9, <3>3, <3>4 DEF ListFollows
  <2> QED BY <2>3, <2>4
<1>10. ReadsHold'
  <2>1. \A i \in Running' : /\ i \in Running
                            /\ job'[i].kind = job[i].kind /\ job'[i].entries = job[i].entries
                            /\ job'[i].list = job[i].list /\ job'[i].view \in {job[i].view, "copied"}
    BY <1>3, <1>5 DEF Running
  <2> QED BY <1>1, <2>1, ReadsStay
<1> QED BY <1>1, <1>4, <1>8, <1>9, <1>10

-----------------------------------------------------------------------------
\* The i-th answer goes with its change.  The charger stays ahead by the others if
\* the portal has taken over what that change made, being the oldest, or if it made
\* nothing.
LEMMA RemovedStep ==
  ASSUME Types, Answered, NEW i \in DOMAIN replies, NEW j \in Job, replies[i] = j,
         replies' \in Seq(Job), Len(replies') = Len(replies) - 1,
         \A n \in 1..(Len(replies) - 1) : replies'[n] = IF n < i THEN replies[n] ELSE replies[n + 1],
         Running' = Running \ {j}, list' = list,
         \A k \in Running \ {j} : job'[k].stage = job[k].stage /\ job'[k].entries = job[k].entries,
         NEW taken, taken <=> \A t \in Tag : IF Changes(i, t)
                                           THEN i = 1 /\ tags'[t] = job[j].entries[t]
                                           ELSE tags'[t] = tags[t]
  PROVE  Answered' /\ (ListFollows /\ taken => ListFollows')
<1> DEFINE From(n) == IF n < i THEN n ELSE n + 1
           Onto(n) == IF n < i THEN n ELSE n - 1
<1>1. PICK len \in Nat : Len(replies) = len + 1 /\ DOMAIN replies = 1..(len + 1) /\ DOMAIN replies' = 1..len
  BY DEF Types
<1>2. \A n \in 1..len : /\ From(n) \in DOMAIN replies /\ From(n) # i /\ replies'[n] = replies[From(n)]
                       /\ Onto(From(n)) = n
  BY <1>1
<1>3. \A n \in DOMAIN replies \ {i} : Onto(n) \in 1..len /\ From(Onto(n)) = n
  BY <1>1
<1>4. \A m, n \in 1..len : m > n <=> From(m) > From(n)
  BY <1>1
<1>5. \A n \in DOMAIN replies \ {i} : /\ replies[n] \in Running \ {j} /\ replies[n] \in Running'
                                     /\ replies[n] \in Job
                                     /\ job'[replies[n]].stage = job[replies[n]].stage
                                     /\ job'[replies[n]].entries = job[replies[n]].entries
  <2>1. \A n \in DOMAIN replies \ {i} : replies[n] # j /\ replies[n] \in Running
    BY DEF Answered, At
  <2> QED BY <2>1 DEF Types
<1> HIDE DEF From, Onto
<1>6. Answered'
  <2>1. ASSUME NEW n \in DOMAIN replies'
        PROVE  At(replies[n], "accepted")' \/ At(replies[n], "refused")'
    <3>1. n \in 1..len /\ replies'[n] = replies[From(n)] /\ From(n) \in DOMAIN replies \ {i}
      BY <1>1, <1>2
    <3>2. At(replies[From(n)], "accepted") \/ At(replies[From(n)], "refused")
      BY <3>1 DEF Answered
    <3> QED BY <1>5, <3>1, <3>2 DEF At
  <2>2. \A m, n \in DOMAIN replies' : replies'[m] = replies'[n] => m = n
    <3> SUFFICES ASSUME NEW m \in 1..len, NEW n \in 1..len, replies'[m] = replies'[n] PROVE m = n
      BY <1>1
    <3>1. From(m) = From(n)
      BY <1>2 DEF Answered
    <3> QED BY <1>2, <3>1
  <2>3. ASSUME NEW k \in Job, At(k, "accepted")' PROVE \E n \in DOMAIN replies' : replies'[n] = k
    <3>1. At(k, "accepted") /\ k # j
      BY <2>3 DEF At
    <3>2. PICK n \in DOMAIN replies : replies[n] = k
      BY <3>1 DEF Answered
    <3>3. n # i
      BY <3>1, <3>2
    <3> QED BY <1>1, <1>2, <1>3, <3>2, <3>3
  <2> QED BY <2>1, <2>2, <2>3 DEF Answered
<1>7. ASSUME ListFollows, taken PROVE ListFollows'
  <2> SUFFICES ASSUME NEW t \in Tag
      PROVE  \/ \E n \in DOMAIN replies' :
                  /\ Changes(n, t)' /\ list'[t] = job'[replies'[n]].entries[t]
                  /\ \A m \in DOMAIN replies' : m > n => ~Changes(m, t)'
             \/ list'[t] = tags'[t] /\ \A m \in DOMAIN replies' : ~Changes(m, t)'
    BY DEF ListFollows
  <2>1. \A n \in 1..len : Changes(n, t)' <=> Changes(From(n), t)
    BY <1>1, <1>2, <1>5 DEF Changes, At
  <2>2. CASE \E n \in DOMAIN replies \ {i} :
               /\ Changes(n, t) /\ list[t] = job[replies[n]].entries[t]
               /\ \A m \in DOMAIN replies : m > n => ~Changes(m, t)
    <3>1. PICK n \in DOMAIN replies \ {i} :
               /\ Changes(n, t) /\ list[t] = job[replies[n]].entries[t]
               /\ \A m \in DOMAIN replies : m > n => ~Changes(m, t)
      BY <2>2
    <3>2. PICK k \in 1..len : From(k) = n
      BY <1>3
    <3>3. Changes(k, t)' /\ list'[t] = job'[replies'[k]].entries[t]
      BY <1>2, <1>5, <2>1, <3>1, <3>2
    <3>4. \A m \in DOMAIN replies' : m > k => ~Changes(m, t)'
      BY <1>1, <1>2, <1>4, <2>1, <3>1, <3>2
    <3> QED BY <1>1, <3>3, <3>4
  <2>3. CASE /\ Changes(i, t) /\ list[t] = job[replies[i]].entries[t]
             /\ \A m \in DOMAIN replies : m > i => ~Changes(m, t)
    <3>1. i = 1 /\ list'[t] = tags'[t]
      BY <1>7, <2>3
    <3>2. \A m \in 1..len : From(m) > i
      BY <1>1, <3>1 DEF From
    <3> QED BY <1>1, <1>2, <2>1, <2>3, <3>1, <3>2
  <2>4. CASE list[t] = tags[t] /\ \A m \in DOMAIN replies : ~Changes(m, t)
    <3>1. tags'[t] = tags[t]
      BY <1>7, <2>4
    <3> QED BY <1>1, <1>2, <2>1, <2>4, <3>1
  <2> QED BY <1>7, <2>2, <2>3, <2>4 DEF ListFollows
<1> QED BY <1>6, <1>7

\* A call that fails ends its change: the charger is ahead for good if it had
\* accepted.
LEMMA FailStep ==
  ASSUME IInv, NEW j \in Job, CallFails(j)
  PROVE  IInv'
<1> USE DEF IInv
<1>1. /\ tags' = tags /\ stored' = stored /\ list' = list /\ version' = version
      /\ crashes' = crashes /\ muddled' = muddled
      /\ j \in Running /\ job' = [job EXCEPT ![j] = Ended]
  BY DEF CallFails
<1>2. (lost => lost') /\ (At(j, "accepted") => lost')
  <2>1. lost' = (lost \/ At(j, "accepted"))
    BY DEF CallFails
  <2> QED BY Zenon, <2>1
<1>3. /\ job' \in [Job -> Change \union {Idle, Ended}] /\ job'[j] = Ended
      /\ \A i \in Job \ {j} : job'[i] = job[i]
  BY <1>1 DEF Types
<1>4. Running' = Running \ {j}
  BY <1>3 DEF Running
<1>5. \A i \in Running \ {j} : job'[i] = job[i]
  BY <1>3 DEF Running
<1>6. ReadsHold'
  BY <1>1, <1>4, <1>5 DEF ReadsHold, Override
<1>7. CASE j \notin ToSet(replies) /\ replies' = replies
  <2>1. \A n \in DOMAIN replies : replies[n] # j
    BY <1>7 DEF ToSet
  <2>2. \A n \in DOMAIN replies : /\ replies[n] \in Running'
                                  /\ job'[replies[n]].stage = job[replies[n]].stage
                                  /\ job'[replies[n]].entries = job[replies[n]].entries
    BY <1>4, <1>5, <2>1 DEF Answered, At
  <2>3. \A i \in Running' : job'[i].stage = "accepted" => At(i, "accepted")
    BY <1>4, <1>5 DEF At
  <2>4. Answered' /\ (ListFollows => ListFollows')
    BY <1>1, <1>7, <2>2, <2>3, UnansweredStep
  <2> QED BY <1>1, <1>2, <1>3, <1>6, <1>7, <2>4 DEF Types
<1>8. CASE \E i \in DOMAIN replies : replies[i] = j /\ replies' = RemoveAt(replies, i)
  <2>1. PICK i \in DOMAIN replies : replies[i] = j /\ replies' = RemoveAt(replies, i)
    BY <1>8
  <2>2. /\ replies' \in Seq(Job) /\ Len(replies') = Len(replies) - 1
        /\ \A n \in 1..(Len(replies) - 1) :
             replies'[n] = IF n < i THEN replies[n] ELSE replies[n + 1]
    BY <2>1, RemoveAtIs DEF Types
  <2>3. PICK taken \in BOOLEAN :
          taken <=> \A t \in Tag : IF Changes(i, t) THEN i = 1 /\ tags'[t] = job[j].entries[t]
                                   ELSE tags'[t] = tags[t]
    OBVIOUS
  <2>4. Answered' /\ (ListFollows /\ taken => ListFollows')
    BY <1>1, <1>4, <1>5, <2>1, <2>2, <2>3, RemovedStep
  <2>5. ~At(j, "accepted") => taken
    BY <1>1, <2>1, <2>3 DEF Changes
  <2> QED BY <1>1, <1>2, <1>3, <1>6, <2>2, <2>4, <2>5 DEF Types
<1> QED BY <1>7, <1>8 DEF CallFails

-----------------------------------------------------------------------------
\* What an accepted change makes of the portal's list.
LEMMA ResultType ==
  ASSUME Types, NEW j \in Job, job[j] \in Change
  PROVE  Result(j) \in List
<1>1. job[j].list \in List /\ job[j].entries \in [Tag -> Info \union {None, "keep"}]
  BY DEF Change
<1>2. CASE job[j].kind = "save"
  BY <1>1, <1>2 DEF Result
<1>3. CASE job[j].kind # "save"
  BY <1>1, <1>3 DEF Result, List, Types
<1> QED BY <1>2, <1>3

\* A change that was not overtaken makes its entries of the list there is.
LEMMA ResultOverrides ==
  ASSUME Types, ReadsHold, NEW j \in Running, ~Overtaken(j)
  PROVE  \A t \in Tag : Result(j)[t] = Override(j, t)
<1>1. job[j] \in Change /\ job[j].kind \in {"save", "enable", "delete"}
  BY RunningIs DEF Running, Change
<1>2. CASE job[j].kind = "save"
  BY <1>2 DEF ReadsHold, Result, Overtaken
<1>3. CASE job[j].kind = "enable"
  <2>1. \A t \in Tag : job[j].entries[t] = "keep" \/ tags[t] # None
    BY <1>3 DEF Overtaken
  <2> QED BY <1>3, <2>1 DEF Result, Override
<1>4. CASE job[j].kind = "delete"
  BY <1>4 DEF Result, Override
<1> QED BY <1>1, <1>2, <1>3, <1>4

\* A deletion that was not overtaken saves what it has deleted.
LEMMA DeletionSaves ==
  ASSUME Types, ReadsHold, NEW j \in Running, job[j].kind = "delete", ~Overtaken(j)
  PROVE  Size(Result(j)) = job[j].size => Result(j) = tags
<1>1. job[j] \in Change /\ job[j].size \in Nat /\ Result(j) \in List /\ tags \in List
  BY RunningIs, ResultType DEF Running, Change, Types
<1>2. PICK t \in Tag : job[j].entries[t] = None /\ \A s \in Tag \ {t} : job[j].entries[s] = "keep"
  BY DEF ReadsHold
<1>3. \A s \in Tag : Result(j)[s] = IF s = t THEN None ELSE tags[s]
  BY <1>2, ListAssumption, ResultOverrides DEF Override
<1>4. Size(tags) <= job[j].size /\ Size(tags) \in Nat
  BY <1>1, SizeType DEF Overtaken
<1>5. CASE tags[t] = None
  BY <1>1, <1>3, <1>5 DEF List
<1>6. CASE tags[t] # None
  <2>1. t \in Known(tags) /\ Known(Result(j)) = Known(tags) \ {t}
    BY <1>3, <1>6 DEF Known
  <2>2. Size(Result(j)) = Size(tags) - 1
    BY <1>1, <2>1, SizeShrinks
  <2> QED BY <1>1, <1>4, <2>2
<1> QED BY <1>5, <1>6

\* The oldest answer: its change takes what the charger has made of it over, unless
\* the charger refused.
LEMMA AnswerStep ==
  ASSUME IInv, NEW j \in Job, ReceiveAnswer(j)
  PROVE  IInv'
<1> USE DEF IInv
<1>1. /\ list' = list /\ version' = version /\ crashes' = crashes /\ lost' = lost
      /\ j \in Running /\ job[j] \in Change
      /\ replies # << >> /\ Head(replies) = j /\ replies' = Tail(replies)
  BY RunningIs DEF ReceiveAnswer
<1>2. /\ 1 \in DOMAIN replies /\ replies[1] = j
      /\ replies' \in Seq(Job) /\ Len(replies') = Len(replies) - 1
      /\ \A n \in 1..(Len(replies) - 1) : replies'[n] = IF n < 1 THEN replies[n] ELSE replies[n + 1]
  BY <1>1 DEF Types
<1>3. PICK taken \in BOOLEAN :
        taken <=> \A t \in Tag : IF Changes(1, t) THEN 1 = 1 /\ tags'[t] = job[j].entries[t]
                                 ELSE tags'[t] = tags[t]
  OBVIOUS
<1>4. CASE ~At(j, "accepted")
  <2>1. tags' = tags /\ stored' = stored /\ muddled' = muddled /\ job' = [job EXCEPT ![j] = Ended]
    BY <1>4 DEF ReceiveAnswer
  <2>2. /\ job' \in [Job -> Change \union {Idle, Ended}] /\ job'[j] = Ended
        /\ \A i \in Job \ {j} : job'[i] = job[i]
    BY <2>1 DEF Types
  <2>3. Running' = Running \ {j} /\ \A i \in Running \ {j} : job'[i] = job[i]
    BY <2>2 DEF Running
  <2>4. ReadsHold'
    BY <2>1, <2>3 DEF ReadsHold, Override
  <2>5. Answered' /\ (ListFollows /\ taken => ListFollows')
    BY <1>1, <1>2, <1>3, <2>3, RemovedStep
  <2>6. taken
    BY <1>2, <1>3, <1>4, <2>1 DEF Changes
  <2> QED BY <1>1, <1>2, <2>1, <2>2, <2>4, <2>5, <2>6 DEF Types
<1>5. CASE At(j, "accepted")
  <2>1. /\ tags' = Result(j)
        /\ stored' = IF job[j].kind = "delete" /\ Size(tags') = job[j].size THEN stored ELSE tags'
        /\ job' = [i \in Job |->
             IF i = j THEN Ended
             ELSE IF i \in Saving
                  THEN [job[i] EXCEPT !.view = ViewAfter(i, j), !.list = ListAfter(i, j)]
                  ELSE job[i]]
    BY <1>5 DEF ReceiveAnswer
  <2>2. tags' \in List /\ stored' \in List
    BY <1>1, <2>1, ResultType DEF Types
  <2>3. ASSUME NEW i \in Running \ {j}
        PROVE  /\ i \in Job /\ i # j /\ job'[i] \in Change
               /\ job'[i].stage = job[i].stage /\ job'[i].kind = job[i].kind
               /\ job'[i].entries = job[i].entries
               /\ job[i].kind = "save" => /\ job'[i].view = ViewAfter(i, j)
                                         /\ job'[i].list = ListAfter(i, j)
    <3>1. i \in Job /\ i # j /\ job[i] \in Change
      BY RunningIs DEF Running
    <3>2. CASE i \in Saving
      <4>1. job'[i] = [job[i] EXCEPT !.view = ViewAfter(i, j), !.list = ListAfter(i, j)]
        BY <2>1, <3>1, <3>2
      <4>2. ViewAfter(i, j) \in {"current", "shared", "copied"}
        BY <3>1 DEF ViewAfter, Change
      <4>3. ListAfter(i, j) \in List
        <5>1. /\ job[i].list \in List /\ job[j].entries \in [Tag -> Info \union {None, "keep"}]
          BY <1>1, <3>1 DEF Change
        <5> QED BY <5>1 DEF ListAfter, List
      <4> QED BY <3>1, <4>1, <4>2, <4>3 DEF Change
    <3>3. CASE i \notin Saving
      <4>1. job'[i] = job[i] /\ job[i].kind # "save"
        BY <2>1, <3>1, <3>3 DEF Saving
      <4> QED BY <3>1, <4>1
    <3> QED BY <3>2, <3>3
  <2>4. \A i \in Job \ Running : i # j /\ job'[i] = job[i]
    BY <1>1, <2>1 DEF Saving
  <2>5. job'[j] = Ended
    BY <1>1, <2>1 DEF Running
  <2>6. Types'
    <3>1. \A i \in Job : job'[i] \in Change \union {Idle, Ended}
      BY <2>3, <2>4, <2>5 DEF Types
    <3>2. job' = [i \in Job |-> job'[i]]
      BY <2>1
    <3>3. job' \in [Job -> Change \union {Idle, Ended}]
      BY <3>1, <3>2
    <3> QED BY <1>1, <1>2, <2>2, <3>3 DEF Types
  <2>7. Running' = Running \ {j}
    <3>1. \A i \in Job : i \in Running' <=> i \in Running \ {j}
      BY <2>3, <2>4, <2>5, NotIdle DEF Running
    <3> QED BY <3>1 DEF Running
  <2>8. Answered' /\ (ListFollows /\ taken => ListFollows')
    BY <1>1, <1>2, <1>3, <2>3, <2>7, RemovedStep
  <2>9. ReadsHold'
    <3>1. ASSUME NEW i \in Running \ {j}, job[i].kind = "save", job'[i].view = "current", NEW t \in Tag
          PROVE  job'[i].list[t] = IF job[i].entries[t] = "keep" THEN tags'[t] ELSE job[i].entries[t]
      <4>1. job'[i].view = ViewAfter(i, j) /\ job'[i].list = ListAfter(i, j)
        BY <2>3, <3>1
      <4>2. /\ job[j].kind # "save" /\ job[i].view = "current"
            /\ job[j].kind = "delete" => tags' = tags
        <5>1. ViewAfter(i, j) = "current"
          BY <3>1, <4>1
        <5>2. job[j].kind # "save"
          BY <5>1 DEF ViewAfter
        <5>3. ~(job[j].kind = "delete" /\ Result(j) # tags /\ job[i].view = "current")
          BY <5>1, <5>2 DEF ViewAfter
        <5>4. job[i].view = "current"
          BY <5>1, <5>2, <5>3 DEF ViewAfter
        <5> QED BY <2>1, <5>2, <5>3, <5>4
      <4>3. job[i].list[t] = Override(i, t)
        BY <3>1, <4>2 DEF ReadsHold
      <4>4. job[j].kind \in {"enable", "delete"}
        BY <1>1, <4>2 DEF Change
      <4>5. CASE job[j].kind = "enable"
        <5>1. tags'[t] = IF job[j].entries[t] = "keep" \/ tags[t] = None THEN tags[t] ELSE job[j].entries[t]
          BY <2>1, <4>5 DEF Result
        <5>2. ListAfter(i, j)[t] = IF tags[t] # None /\ job[j].entries[t] # "keep" /\ job[i].entries[t] = "keep"
                                   THEN job[j].entries[t] ELSE job[i].list[t]
          BY <4>2, <4>5 DEF ListAfter
        <5> QED BY <4>1, <4>3, <5>1, <5>2 DEF Override
      <4>6. CASE job[j].kind = "delete"
        <5>1. ListAfter(i, j)[t] = job[i].list[t]
          BY <4>6 DEF ListAfter
        <5> QED BY <4>1, <4>2, <4>3, <4>6, <5>1 DEF Override
      <4> QED BY <4>4, <4>5, <4>6
    <3> QED BY <2>3, <2>7, <3>1 DEF ReadsHold, Override
  <2>10. ASSUME ~lost', ~muddled' PROVE stored' = tags' /\ ListFollows'
    <3>1. ~muddled /\ ~Overtaken(j)
      <4>1. muddled' = (muddled \/ Overtaken(j))
        BY <1>5 DEF ReceiveAnswer
      <4> QED BY Zenon, <2>10, <4>1
    <3>2. stored = tags /\ ListFollows
      BY <1>1, <2>10, <3>1
    <3>3. \A t \in Tag : tags'[t] = Override(j, t)
      BY <1>1, <2>1, <3>1, ResultOverrides
    <3>4. taken
      BY <1>2, <1>3, <1>5, <3>3 DEF Changes, Override
    <3>5. stored' = tags'
      <4>1. CASE job[j].kind = "delete" /\ Size(Result(j)) = job[j].size
        BY <1>1, <2>1, <3>1, <3>2, <4>1, DeletionSaves
      <4>2. CASE ~(job[j].kind = "delete" /\ Size(Result(j)) = job[j].size)
        BY <2>1, <4>2
      <4> QED BY <4>1, <4>2
    <3> QED BY <2>8, <3>2, <3>4, <3>5
  <2> QED BY <2>6, <2>8, <2>9, <2>10
<1> QED BY <1>4, <1>5

-----------------------------------------------------------------------------
\* A process that dies with no accepted update unanswered loses nothing.
LEMMA RestartStep ==
  ASSUME IInv, Restart
  PROVE  IInv'
<1> USE DEF IInv
<1>1. /\ tags' = stored /\ stored' = stored /\ list' = list /\ version' = version
      /\ muddled' = muddled /\ replies' = << >> /\ crashes' = crashes + 1
      /\ job' = [j \in Job |-> IF j \in Running THEN Ended ELSE job[j]]
  BY DEF Restart
<1>2. (lost => lost') /\ (~lost' => \A j \in Job : ~At(j, "accepted"))
  <2>1. lost' = (lost \/ \E j \in Job : At(j, "accepted"))
    BY DEF Restart
  <2> QED BY Zenon, <2>1
<1>3. Types'
  BY <1>1 DEF Types, Running
<1>4. Running' = {}
  BY <1>1 DEF Running
<1>5. Answered' /\ ReadsHold'
  BY <1>1, <1>4 DEF Answered, ReadsHold, At
<1>6. ASSUME ~lost', ~muddled' PROVE stored' = tags' /\ ListFollows'
  <2>1. stored = tags /\ ListFollows
    BY <1>1, <1>2, <1>6
  <2>2. \A t \in Tag : list[t] = tags[t]
    BY <1>2, <1>6, <2>1 DEF ListFollows, Changes, Types
  <2>3. ListFollows'
    BY <1>1, <2>1, <2>2 DEF ListFollows
  <2> QED BY <1>1, <2>1, <2>3
<1> QED BY <1>3, <1>5, <1>6

LEMMA Inductive == IInv /\ [Next]_vars => IInv'
<1> SUFFICES ASSUME IInv, [Next]_vars PROVE IInv'
  OBVIOUS
<1>1. CASE UNCHANGED vars
  <2>1. /\ tags' = tags /\ stored' = stored /\ job' = job /\ list' = list /\ version' = version
        /\ replies' = replies /\ crashes' = crashes /\ lost' = lost /\ muddled' = muddled
    BY <1>1 DEF vars
  <2>2. Types' /\ Answered' /\ ListFollows' = ListFollows
    BY <2>1 DEF IInv, Types, Answered, ListFollows, Changes, Running, At
  <2>3. ReadsHold'
    BY <2>1 DEF IInv, ReadsHold, Override, Running
  <2> QED BY <2>1, <2>2, <2>3 DEF IInv
<1>2. CASE Next
  BY <1>2, StartStep, CopiesStep, AskStep, UpdateStep, AnswerStep, FailStep, RestartStep DEF Next
<1> QED BY <1>1, <1>2

\* With no change under way the portal, its snapshot and the charger agree, however
\* changes overlapped (async_save_rfid_tag, async_set_rfid_tag_enabled,
\* async_delete_rfid_tag).
THEOREM ListsAgree == Spec => []TagsAgree
<1>1. IInv => TagsAgree
  <2> SUFFICES ASSUME IInv, Running = {}, ~lost, ~muddled PROVE tags = list /\ stored = tags
    BY DEF TagsAgree
  <2>1. \A n \in DOMAIN replies, t \in Tag : ~Changes(n, t)
    BY DEF Changes, At
  <2>2. \A t \in Tag : list[t] = tags[t]
    BY <2>1 DEF IInv, ListFollows
  <2> QED BY <2>2 DEF IInv, Types, List
<1> QED BY <1>1, Initial, Inductive, PTL DEF Spec

-----------------------------------------------------------------------------
(* The flags *)

Flags == lost \in BOOLEAN /\ muddled \in BOOLEAN

LEMMA FlagsStep == Flags /\ [Next]_vars => Flags'
<1> SUFFICES ASSUME Flags, [Next]_vars PROVE Flags'
  OBVIOUS
<1> USE DEF Flags
<1>1. ASSUME NEW j \in Job, NEW kind, NEW entries, NEW newList, Calls(j, kind, entries, newList)
      PROVE  Flags'
  BY <1>1 DEF Calls
<1>2. ASSUME NEW j \in Job, NEW original, NEW t, NEW info, SaveTag(j, original, t, info)
      PROVE  Flags'
  BY <1>1, <1>2 DEF SaveTag
<1>3. ASSUME NEW j \in Job, NEW t, NEW info, SetEnabled(j, t, info) PROVE Flags'
  BY <1>1, <1>3 DEF SetEnabled
<1>4. ASSUME NEW j \in Job, NEW t, DeleteTag(j, t) PROVE Flags'
  BY <1>1, <1>4 DEF DeleteTag
<1>5. ASSUME NEW j \in Job, ReadVersion(j) \/ ReceiveUpdate(j) \/ SaveAlias \/ SaveState PROVE Flags'
  BY <1>5 DEF ReadVersion, ReceiveUpdate, SaveAlias, SaveState
<1>6. ASSUME NEW j \in Job, CallFails(j) PROVE Flags'
  <2>1. muddled' = muddled /\ lost' = (lost \/ At(j, "accepted"))
    BY <1>6 DEF CallFails
  <2> QED BY Zenon, <2>1
<1>7. ASSUME NEW j \in Job, ReceiveAnswer(j) PROVE Flags'
  <2>1. lost' = lost /\ (muddled' = muddled \/ muddled' = (muddled \/ Overtaken(j)))
    BY <1>7 DEF ReceiveAnswer
  <2> QED BY Zenon, <2>1
<1>8. CASE Restart
  <2>1. muddled' = muddled /\ lost' = (lost \/ \E j \in Job : At(j, "accepted"))
    BY <1>8 DEF Restart
  <2> QED BY Zenon, <2>1
<1>9. CASE SaveAlias \/ SaveState
  BY <1>9 DEF SaveAlias, SaveState
<1>10. CASE UNCHANGED vars
  BY <1>10 DEF vars
<1> QED BY <1>2, <1>3, <1>4, <1>5, <1>6, <1>7, <1>8, <1>9, <1>10 DEF Next

\* What the portal and the charger keep are lists of tags, whatever an update
\* carried and whatever a running save shares with the portal, and the answers under
\* way belong to changes (_async_send_local_authorization_update).
THEOREM ListTypeCorrect == Spec => []TypeOK
<1>1. Init => Flags
  BY DEF Init, Flags
<1>2. IInv /\ Flags => TypeOK
  BY DEF IInv, Types, Flags, TypeOK
<1> QED BY <1>1, <1>2, Initial, Inductive, FlagsStep, PTL DEF Spec
=============================================================================
