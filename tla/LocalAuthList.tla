---------------------------- MODULE LocalAuthList ----------------------------
(***************************************************************************)
(* The ID tags of one charger: the portal's list, the one it has stored    *)
(* and the charger's local authorisation list.  A change of the portal     *)
(* reads the charger's list version, sends a differential update with the  *)
(* next one and, once that is accepted, changes its own list.  Each of     *)
(* the two calls is an await, and several changes may be under way.        *)
(*                                                                         *)
(* A tag stands for its case-folded id; alias and expiry are left out, the *)
(* info of a tag being whether it is accepted or blocked.  A call ends     *)
(* with its answer or with an error; answers arrive in the order in which  *)
(* the charger gave them.  The list a save builds holds the portal's own   *)
(* tag objects, which an enabling changes in place: the two share them     *)
(* until a save stores copies.                                             *)
(***************************************************************************)
EXTENDS Naturals, Sequences, FiniteSets, SequencesExt

CONSTANTS Tag, Job, None, MaxCrashes

ASSUME ListAssumption ==
  /\ IsFiniteSet(Tag)
  /\ None \notin Tag \union {"Accepted", "Blocked", "keep", "save", "enable", "delete", "ended"}
  /\ MaxCrashes \in Nat

VARIABLES
  tags,     \* rfid_tags of the live state
  stored,   \* rfid_tags of the stored snapshot
  job,      \* per change: what it is about and how far it got
  list,     \* charger: its local list
  version,  \* charger: its list version
  replies,  \* changes whose update the charger has answered, in that order
  crashes,  \* bound
  lost,     \* history: an accepted update whose answer never arrived
  muddled   \* history: a change was stored although another had overtaken it

vars == <<tags, stored, job, list, version, replies, crashes, lost, muddled>>

Info == {"Accepted", "Blocked"}
List == [Tag -> Info \union {None}]
Idle == [kind |-> None]
Ended == [kind |-> "ended"]
Active == {"ask", "send", "accepted", "refused"}

\* entries: what the update changes, None being a removal; list: the new list a
\* save has built; view: whether its tags still are the portal's ("current"), the
\* portal has deleted one of them ("shared"), or a save has stored copies; size:
\* the length a deletion has read.
Change == [kind : {"save", "enable", "delete"}, stage : Active,
           entries : [Tag -> Info \union {None, "keep"}], list : List,
           view : {"current", "shared", "copied"}, size : Nat, version : Nat]

TypeOK ==
  /\ tags \in List /\ stored \in List /\ list \in List
  /\ job \in [Job -> Change \union {Idle, Ended}]
  /\ version \in Nat /\ crashes \in Nat
  /\ replies \in Seq(Job)
  /\ lost \in BOOLEAN /\ muddled \in BOOLEAN

\* Whatever tags were saved before.
Init ==
  /\ tags \in List /\ stored = tags /\ list = tags
  /\ job = [j \in Job |-> Idle]
  /\ version = 0 /\ replies = << >> /\ crashes = 0
  /\ lost = FALSE /\ muddled = FALSE

Known(l) == {t \in Tag : l[t] # None}
Size(l) == Cardinality(Known(l))
Running == {j \in Job : job[j] \notin {Idle, Ended}}
At(j, stage) == j \in Running /\ job[j].stage = stage
Saving == {j \in Running : job[j].kind = "save"}
Keep == [t \in Tag |-> "keep"]

\* A change reaches its first call.
Calls(j, kind, entries, newList) ==
  /\ job[j] = Idle
  /\ job' = [job EXCEPT ![j] = [kind |-> kind, stage |-> "ask", entries |-> entries,
                                list |-> newList, view |-> "current",
                                size |-> Size(tags), version |-> 0]]
  /\ UNCHANGED <<tags, stored, list, version, replies, crashes, lost, muddled>>

-----------------------------------------------------------------------------
(* The portal's changes, up to their first await.  What is refused changes   *)
(* nothing.                                                                  *)

\* The list a save builds: original is the tag being renamed, or None.
Saved(original, t, info) ==
  [s \in Tag |-> IF s = t THEN info ELSE IF s = original THEN None ELSE tags[s]]

\* The entries it sends: the removal of the old id, and the new one.
SavedEntries(original, t, info) ==
  [s \in Tag |-> IF s = t THEN info ELSE IF s = original THEN None ELSE "keep"]

\* async_save_rfid_tag: a new tag, one saved again, or one renamed.
SaveTag(j, original, t, info) ==
  /\ original \in {None, t} \union Known(tags)
  /\ original \notin {None, t} => tags[t] = None
  /\ tags[t] # info
  /\ Calls(j, "save", SavedEntries(original, t, info), Saved(original, t, info))

\* async_save_rfid_tag of a tag whose info stays: no call, and copies are stored.
SaveAlias ==
  /\ Known(tags) # {}
  /\ stored' = tags
  /\ job' = [j \in Job |-> IF j \in Saving THEN [job[j] EXCEPT !.view = "copied"] ELSE job[j]]
  /\ UNCHANGED <<tags, list, version, replies, crashes, lost, muddled>>

\* Whatever else the charger's state is saved for, a heartbeat for one.
SaveState ==
  /\ stored # tags /\ stored' = tags
  /\ UNCHANGED <<tags, job, list, version, replies, crashes, lost, muddled>>

\* async_set_rfid_tag_enabled
SetEnabled(j, t, info) ==
  /\ tags[t] # None /\ tags[t] # info
  /\ Calls(j, "enable", [Keep EXCEPT ![t] = info], tags)

\* async_delete_rfid_tag
DeleteTag(j, t) ==
  /\ tags[t] # None
  /\ Calls(j, "delete", [Keep EXCEPT ![t] = None], tags)

-----------------------------------------------------------------------------
(* The two calls *)

\* The charger answers GetLocalListVersion.
ReadVersion(j) ==
  /\ At(j, "ask")
  /\ job' = [job EXCEPT ![j].stage = "send", ![j].version = version + 1]
  /\ UNCHANGED <<tags, stored, list, version, replies, crashes, lost, muddled>>

\* The charger receives SendLocalList: it takes a newer version, or not.
ReceiveUpdate(j) ==
  /\ At(j, "send")
  /\ replies' = Append(replies, j)
  /\ \/ /\ job[j].version > version
        /\ job' = [job EXCEPT ![j].stage = "accepted"]
        /\ version' = job[j].version
        /\ list' = [t \in Tag |-> IF job[j].entries[t] = "keep" THEN list[t] ELSE job[j].entries[t]]
     \/ /\ job' = [job EXCEPT ![j].stage = "refused"]
        /\ UNCHANGED <<version, list>>
  /\ UNCHANGED <<tags, stored, crashes, lost, muddled>>

\* A call that ends with an error: nothing is stored.
CallFails(j) ==
  /\ j \in Running
  /\ job' = [job EXCEPT ![j] = Ended]
  /\ \/ j \notin ToSet(replies) /\ UNCHANGED replies
     \/ \E i \in DOMAIN replies : replies[i] = j /\ replies' = RemoveAt(replies, i)
  /\ lost' = (lost \/ At(j, "accepted"))
  /\ UNCHANGED <<tags, stored, list, version, crashes, muddled>>

\* Mutant: the differential update becomes the list.
Result_Raw(j) == job[j].entries

\* What an accepted change makes of the portal's list: a save stores the list it
\* has built, the others change the list there is now.
Result(j) ==
  LET entry == job[j].entries
  IN  IF job[j].kind = "save" THEN job[j].list
      ELSE [t \in Tag |-> IF entry[t] = "keep" \/ (job[j].kind = "enable" /\ tags[t] = None)
                          THEN tags[t] ELSE entry[t]]

\* What an accepted change does to the list a running save has built.
ViewAfter(i, j) ==
  CASE job[j].kind = "save" -> "copied"
    [] job[j].kind = "delete" /\ Result(j) # tags /\ job[i].view = "current" -> "shared"
    [] OTHER -> job[i].view

\* Mutant: a save works on copies of the portal's tags.
ListAfter_Copies(i, j) == job[i].list

ListAfter(i, j) ==
  [t \in Tag |-> IF job[j].kind = "enable" /\ job[i].view # "copied"
                      /\ tags[t] # None /\ job[j].entries[t] # "keep" /\ job[i].entries[t] = "keep"
                  THEN job[j].entries[t] ELSE job[i].list[t]]

\* What a change has read before its calls no longer holds: another list was
\* stored since, the tag is gone, or there are more tags than there were.
Overtaken(j) ==
  CASE job[j].kind = "save"   -> job[j].view # "current"
    [] job[j].kind = "enable" -> \E t \in Tag : job[j].entries[t] # "keep" /\ tags[t] = None
    [] job[j].kind = "delete" -> Size(tags) > job[j].size

\* The oldest answer resumes its change.  A deletion that finds as many tags as
\* it had read reports an unknown tag and does not save: its list stays in memory.
ReceiveAnswer(j) ==
  /\ j \in Running
  /\ replies # << >> /\ Head(replies) = j /\ replies' = Tail(replies)
  /\ IF At(j, "accepted")
     THEN /\ tags' = Result(j)
          /\ stored' = IF job[j].kind = "delete" /\ Size(tags') = job[j].size THEN stored ELSE tags'
          /\ job' = [i \in Job |->
               IF i = j THEN Ended
               ELSE IF i \in Saving
                    THEN [job[i] EXCEPT !.view = ViewAfter(i, j), !.list = ListAfter(i, j)]
                    ELSE job[i]]
          /\ muddled' = (muddled \/ Overtaken(j))
     ELSE /\ job' = [job EXCEPT ![j] = Ended]
          /\ UNCHANGED <<tags, stored, muddled>>
  /\ UNCHANGED <<list, version, crashes, lost>>

\* The process dies and starts again from its snapshot.
Restart ==
  /\ crashes < MaxCrashes /\ crashes' = crashes + 1
  /\ tags' = stored
  /\ job' = [j \in Job |-> IF j \in Running THEN Ended ELSE job[j]]
  /\ replies' = << >>
  /\ lost' = (lost \/ \E j \in Job : At(j, "accepted"))
  /\ UNCHANGED <<stored, list, version, muddled>>

Next ==
  \/ \E j \in Job, original \in Tag \union {None}, t \in Tag, info \in Info :
       SaveTag(j, original, t, info)
  \/ \E j \in Job, t \in Tag, info \in Info : SetEnabled(j, t, info)
  \/ \E j \in Job, t \in Tag : DeleteTag(j, t)
  \/ SaveAlias
  \/ SaveState
  \/ \E j \in Job : ReadVersion(j) \/ ReceiveUpdate(j) \/ ReceiveAnswer(j) \/ CallFails(j)
  \/ Restart

Spec == Init /\ [][Next]_vars

-----------------------------------------------------------------------------
(* Properties *)

\* With no change under way the portal, its snapshot and the charger agree on
\* every tag, whatever was refused, failed or interrupted and however changes
\* overlap, a save with an enabling too: provided that no change was stored after
\* another had overtaken it, and no accepted update went unanswered.
TagsAgree == Running = {} /\ ~lost /\ ~muddled => tags = list /\ stored = tags

\* "Tags are synchronised to the charger": the same of the portal and the charger,
\* whichever change overtook another.
TagsSynchronised == Running = {} /\ ~lost => tags = list

\* A deletion is to "permanently remove a tag": a tag that is not there comes back
\* only with a save.
\* Not kept by the code: counterexample by DeletedForGood.cfg.
DeletedForGood == [][\A t \in Tag : tags[t] = None /\ tags'[t] # None =>
                \E j \in Saving : ReceiveAnswer(j)]_vars
=============================================================================
