------------------------ MODULE FirmwareUpdate_proofs ------------------------
(***************************************************************************)
(* For any connections, chargers, files and installations: the file a      *)
(* charger was told to fetch is in the cache, and a download that sends    *)
(* can be cancelled, whatever the update fields show; then, what they show *)
(* was asked for, and a reboot settles it.                                 *)
(***************************************************************************)
EXTENDS FirmwareUpdate, FiniteSetTheorems, TLAPS

Task == [cp : Charger, file : File,
         stage : {"checking", "missing", "fetching", "ready", "calling"}] \union {Over}

Fetching(t) == At(t, "missing") \/ At(t, "fetching")

\* The lock of a file is held by one installation, which has found the file
\* missing; nothing else changes the cache.
LockIsExclusive ==
  /\ \A s, t \in Install : Fetching(s) /\ Fetching(t) /\ s # t => task[s].file # task[t].file
  /\ \A t \in Install : Fetching(t) => task[t].file \notin cache
  /\ \A t \in Install : At(t, "ready") => task[t].file \in cache

CacheInv ==
  /\ task \in [Install -> Task \union {None}]
  /\ want \in [Charger -> File \union {None}]
  /\ LockIsExclusive
  /\ RequestedFileIsCached

\* A download is in the table from its registration to its end, and only a
\* registered one sends.
Tabled == \A c \in Conn :
  /\ thread[c] \in {"registered", "serving", "closing"} => c \in downloads
  /\ c \in whole => thread[c] \in {"serving", "closing", "ended"}
  /\ thread[c] = "ended" /\ c \in downloads => c \notin whole

TableInv == thread \in [Conn -> Phase] /\ Tabled

-----------------------------------------------------------------------------
(* The cache *)

LEMMA CacheInitial == Init => CacheInv
  BY DEF Init, ServerInit, CacheInv, LockIsExclusive, RequestedFileIsCached, Fetching, At

\* A task moves on, and neither the cache nor what is wanted changes.
LEMMA StartStep ==
  ASSUME CacheInv, NEW t \in Install, NEW cp \in Charger, NEW f \in File, StartInstall(t, cp, f)
  PROVE  CacheInv'
<1>1. /\ task' = [task EXCEPT ![t] = [cp |-> cp, file |-> f, stage |-> "checking"]]
      /\ want' = want /\ cache' = cache
  BY DEF StartInstall, external, serverVars
<1>2. task' \in [Install -> Task \union {None}]
  BY <1>1 DEF CacheInv, Task
<1>3. /\ task'[t].stage = "checking" /\ \A s \in Install \ {t} : task'[s] = task[s]
  BY <1>1 DEF CacheInv
<1>4. LockIsExclusive'
  BY <1>1, <1>3 DEF CacheInv, LockIsExclusive, Fetching, At
<1> QED BY <1>1, <1>2, <1>4 DEF CacheInv, RequestedFileIsCached

LEMMA StageOf ==
  ASSUME CacheInv, NEW t \in Install, task[t] # None, task[t].stage # "ended",
         NEW stage \in {"checking", "missing", "fetching", "ready", "calling", "ended"},
         IF stage = "ended" THEN Ended(t) ELSE To(t, stage)
  PROVE  /\ task' \in [Install -> Task \union {None}]
         /\ task'[t].stage = stage /\ (stage # "ended" => task'[t].file = task[t].file)
         /\ task[t].file \in File /\ task[t].cp \in Charger
         /\ \A s \in Install \ {t} : task'[s] = task[s]
<1>1. task[t].file \in File /\ task[t].cp \in Charger
  BY DEF CacheInv, Task, Over
<1>2. CASE stage = "ended"
  BY <1>1, <1>2 DEF CacheInv, Task, Ended, Over
<1>3. CASE stage # "ended"
  BY <1>1, <1>3 DEF CacheInv, Task, To, Over
<1> QED BY <1>1, <1>2, <1>3

LEMMA CheckStep ==
  ASSUME CacheInv, NEW t \in Install, CheckCache(t)
  PROVE  CacheInv'
<1>1. PICK stage \in {"ready", "missing"} :
        /\ To(t, stage) /\ task[t] # None /\ task[t].stage = "checking"
        /\ stage = "ready" <=> task[t].file \in cache
  BY DEF CheckCache, At
<1>2. want' = want /\ cache' = cache /\ LockFree(task[t].file)
  BY DEF CheckCache, external, serverVars
<1>3. /\ task' \in [Install -> Task \union {None}]
      /\ task'[t].stage = stage /\ task'[t].file = task[t].file
      /\ \A s \in Install \ {t} : task'[s] = task[s]
  BY <1>1, StageOf
<1>4. \A s \in Install : Fetching(s) => task[s].file # task[t].file
  BY <1>2 DEF LockFree, Fetching, At
<1>5. LockIsExclusive'
  BY <1>1, <1>2, <1>3, <1>4 DEF CacheInv, LockIsExclusive, Fetching, At
<1> QED BY <1>2, <1>3, <1>5 DEF CacheInv, RequestedFileIsCached

\* What is unlinked or removed was not there; what is added nobody else fetches.
LEMMA FetchStep ==
  ASSUME CacheInv, NEW t \in Install, Unlink(t) \/ Fetched(t)
  PROVE  CacheInv'
<1>1. Fetching(t) /\ task[t] # None /\ task[t].stage # "ended" /\ want' = want
  BY DEF Unlink, Fetched, Fetching, At, external
<1>2. task[t].file \notin cache
  BY <1>1 DEF CacheInv, LockIsExclusive
<1>3. PICK stage \in {"fetching", "ready", "ended"} :
        /\ IF stage = "ended" THEN Ended(t) ELSE To(t, stage)
        /\ cache' = IF stage = "ready" THEN cache \union {task[t].file} ELSE cache
  <2>1. CASE Unlink(t)
    BY <1>2, <2>1 DEF Unlink
  <2>2. CASE Fetched(t)
    BY <1>2, <2>2 DEF Fetched
  <2> QED BY <2>1, <2>2
<1>4. /\ task' \in [Install -> Task \union {None}]
      /\ task'[t].stage = stage /\ (stage # "ended" => task'[t].file = task[t].file)
      /\ \A s \in Install \ {t} : task'[s] = task[s]
  BY <1>1, <1>3, StageOf
<1>5. LockIsExclusive'
  <2>1. \A s \in Install \ {t} : Fetching(s) => task[s].file # task[t].file
    BY <1>1 DEF CacheInv, LockIsExclusive
  <2>2. \A s \in Install \ {t} : Fetching(s)' => Fetching(s)
    BY <1>4 DEF Fetching, At
  <2> QED BY <1>1, <1>2, <1>3, <1>4, <2>1, <2>2 DEF CacheInv, LockIsExclusive, Fetching, At
<1>6. RequestedFileIsCached'
  BY <1>1, <1>3 DEF CacheInv, RequestedFileIsCached
<1> QED BY <1>1, <1>4, <1>5, <1>6 DEF CacheInv

\* A charger is asked only for a file that is ready.
LEMMA AskStep ==
  ASSUME CacheInv, NEW t \in Install, Ask(t) \/ Answered(t)
  PROVE  CacheInv'
<1>1. PICK stage \in {"calling", "ended"} : IF stage = "ended" THEN Ended(t) ELSE To(t, stage)
  BY DEF Ask, Answered
<1>2. task[t] # None /\ task[t].stage # "ended" /\ cache' = cache
  BY DEF Ask, Answered, At, serverVars
<1>3. /\ task' \in [Install -> Task \union {None}]
      /\ task'[t].stage = stage
      /\ task[t].file \in File /\ task[t].cp \in Charger
      /\ \A s \in Install \ {t} : task'[s] = task[s]
  BY <1>1, <1>2, StageOf
<1>4. \/ want' = want
      \/ want' = [want EXCEPT ![task[t].cp] = task[t].file] /\ At(t, "ready")
  BY DEF Ask, Answered, external
<1>5. want' \in [Charger -> File \union {None}] /\ RequestedFileIsCached'
  <2>1. At(t, "ready") => task[t].file \in cache
    BY DEF CacheInv, LockIsExclusive
  <2> QED BY <1>2, <1>3, <1>4, <2>1 DEF CacheInv, RequestedFileIsCached
<1>6. LockIsExclusive'
  BY <1>2, <1>3 DEF CacheInv, LockIsExclusive, Fetching, At
<1> QED BY <1>3, <1>5, <1>6 DEF CacheInv

\* Everything else leaves tasks and cache alone, and a reboot forgets a request.
LEMMA OtherCacheStep ==
  ASSUME CacheInv, task' = task, cache' = cache,
         want' = want \/ (\E cp \in Charger : want' = [want EXCEPT ![cp] = None])
  PROVE  CacheInv'
<1>1. LockIsExclusive'
  BY DEF CacheInv, LockIsExclusive, Fetching, At
<1>2. want' \in [Charger -> File \union {None}] /\ RequestedFileIsCached'
  BY DEF CacheInv, RequestedFileIsCached
<1> QED BY <1>1, <1>2 DEF CacheInv

LEMMA ServerStepKeepsCache ==
  ASSUME NEW c \in Conn,
         (\E cp \in Charger : Connects(c, cp)) \/ Requests(c) \/ Thread(c)
  PROVE  task' = task /\ cache' = cache /\ want' = want
<1>1. ASSUME NEW cp \in Charger, Connects(c, cp) PROVE task' = task /\ cache' = cache /\ want' = want
  BY <1>1 DEF Connects, Accept, Posts, external
<1>2. CASE Requests(c)
  BY <1>2 DEF Requests, Request, Posts, external
<1>3. CASE Thread(c)
  BY <1>3 DEF Thread, ThreadStep, RequestMissing, NotFound, Register, StartDownload, StartFails,
     SendChunk, FinishDownload, Unregister, Posts, external
<1> QED BY <1>1, <1>2, <1>3

LEMMA CacheInductive == CacheInv /\ [Next]_vars => CacheInv'
<1> SUFFICES ASSUME CacheInv, [Next]_vars PROVE CacheInv'
  OBVIOUS
<1>1. CASE UNCHANGED vars
  BY <1>1, OtherCacheStep DEF vars, serverVars, external
<1>2. ASSUME NEW cp \in Charger, Browse(cp) \/ CancelUpdate(cp) \/ Reboot(cp) PROVE CacheInv'
  BY <1>2, OtherCacheStep DEF Browse, CancelUpdate, CancelDownload, Reboot, serverVars, external
<1>3. ASSUME NEW cp \in Charger, NEW s \in Notification, FirmwareStatus(cp, s)
      PROVE  CacheInv'
  BY <1>3, OtherCacheStep DEF FirmwareStatus, serverVars, external
<1>4. ASSUME NEW t \in Install, InstallStep(t) PROVE CacheInv'
  BY <1>4, CheckStep, FetchStep, AskStep DEF InstallStep
<1>5. ASSUME NEW c \in Conn, (\E cp \in Charger : Connects(c, cp)) \/ Requests(c) \/ Thread(c)
      PROVE  CacheInv'
  BY <1>5, ServerStepKeepsCache, OtherCacheStep
<1> QED BY <1>1, <1>2, <1>3, <1>4, <1>5, StartStep DEF Next

-----------------------------------------------------------------------------
(* The table of downloads *)

LEMMA TableInitial == Init => TableInv
  BY DEF Init, ServerInit, TableInv, Tabled, Phase

LEMMA ThreadKeepsTable ==
  ASSUME TableInv, NEW c \in Conn, NEW names, ThreadStep(c, names)
  PROVE  TableInv'
<1> USE DEF TableInv, Tabled, Phase
<1>1. CASE RequestMissing(c, names)
  BY <1>1 DEF RequestMissing, Ends
<1>2. CASE NotFound(c, names)
  BY <1>2 DEF NotFound, Ends
<1>3. CASE Register(c, names)
  BY <1>3 DEF Register
<1>4. CASE StartDownload(c, names)
  BY <1>4 DEF StartDownload
<1>5. CASE StartFails(c, names)
  BY <1>5 DEF StartFails, Ends
<1>6. CASE SendChunk(c, names)
  BY <1>6 DEF SendChunk, connVars
<1>7. CASE FinishDownload(c, names)
  <2>1. /\ thread[c] = "serving" /\ thread' = [thread EXCEPT ![c] = "closing"]
        /\ whole' \subseteq whole /\ downloads' = downloads
    BY <1>7 DEF FinishDownload
  <2> QED BY <2>1
<1>8. CASE Unregister(c, names)
  BY <1>8 DEF Unregister, Ends
<1> QED BY <1>1, <1>2, <1>3, <1>4, <1>5, <1>6, <1>7, <1>8 DEF ThreadStep

LEMMA TableInductive == TableInv /\ [Next]_vars => TableInv'
<1> SUFFICES ASSUME TableInv, [Next]_vars PROVE TableInv'
  OBVIOUS
<1>1. CASE thread' = thread /\ downloads' = downloads /\ whole' = whole
  BY <1>1 DEF TableInv, Tabled
<1>2. UNCHANGED vars => thread' = thread /\ downloads' = downloads /\ whole' = whole
  BY DEF vars, serverVars, connVars
<1>3. ASSUME NEW cp \in Charger, Browse(cp) \/ CancelUpdate(cp) \/ Reboot(cp)
      PROVE  thread' = thread /\ downloads' = downloads /\ whole' = whole
  BY <1>3 DEF Browse, CancelUpdate, CancelDownload, Reboot, serverVars, connVars
<1>4. ASSUME NEW cp \in Charger, NEW s \in Notification, FirmwareStatus(cp, s)
      PROVE  thread' = thread /\ downloads' = downloads /\ whole' = whole
  BY <1>4 DEF FirmwareStatus, serverVars, connVars
<1>5. ASSUME NEW t \in Install, InstallStep(t) \/ (\E cp \in Charger, f \in File : StartInstall(t, cp, f))
      PROVE  thread' = thread /\ downloads' = downloads /\ whole' = whole
  BY <1>5 DEF InstallStep, StartInstall, CheckCache, Unlink, Fetched, Ask, Answered, serverVars, connVars
<1>6. ASSUME NEW c \in Conn, NEW cp \in Charger, Connects(c, cp) PROVE TableInv'
  BY <1>6 DEF Connects, Accept, TableInv, Tabled, Phase
<1>7. ASSUME NEW c \in Conn, Requests(c) PROVE TableInv'
  BY <1>7 DEF Requests, Request, TableInv, Tabled, Phase
<1>8. ASSUME NEW c \in Conn, Thread(c) PROVE TableInv'
  BY <1>8, ThreadKeepsTable DEF Thread
<1> QED BY <1>1, <1>2, <1>3, <1>4, <1>5, <1>6, <1>7, <1>8 DEF Next

-----------------------------------------------------------------------------
(* What an update shows *)

\* A connection's charger had been asked to update when it connected, and the
\* thread of a request knows the file.
Reached == \A c \in Conn :
  /\ thread[c] # "new" => peer[c] \in Charger /\ upd[peer[c]].state # None
  /\ c \in whole => file[c] \in File
  /\ thread[c] \in {"requested", "registered", "serving", "closing"} => file[c] \in File
  /\ c \in downloads => thread[c] # "new"

\* What is asked of a charger has been shown, and is still the target.
Shown == \A cp \in Charger :
  /\ want[cp] # None => asked[cp] # None
  /\ asked[cp] # None => upd[cp].state # None /\ upd[cp].target # None
  /\ asked[cp] # None /\ cp \notin overlapped => upd[cp].target = asked[cp]
  /\ InProgress(upd[cp]) /\ upd[cp].target \notin Unversioned /\ cp \notin misled => asked[cp] # None

\* A single installation finds its own file still selected.
Chosen ==
  /\ \A t \in Install : Busy(t) =>
       /\ upd[task[t].cp].selected # None
       /\ task[t].cp \notin overlapped => upd[task[t].cp].selected = task[t].file
  /\ \A s, t \in Install : s # t /\ Busy(s) /\ Busy(t) /\ task[s].cp = task[t].cp =>
       task[s].cp \in overlapped

UpdateInv ==
  /\ CacheInv /\ TableInv
  /\ ServerTypeOK
  /\ upd \in [Charger -> Update]
  /\ running \in [Charger -> File \union {Old}] /\ incidents \in Nat
  /\ asked \in [Charger -> File \union {None}]
  /\ misled \subseteq Charger /\ overlapped \subseteq Charger
  /\ Reached /\ Shown /\ Chosen

TransferEvent == [name : Event, conn : Conn, peer : Charger, file : File \union {None}]

\* v may follow u without an installation; by events, a settled update stays so.
Keeps(u, v) ==
  /\ v \in Update /\ v.target = u.target /\ v.selected = u.selected
  /\ u.state # None => v.state # None

Follows(u, v) == Keeps(u, v) /\ (Settled(u) => Settled(v))

LEMMA UpdateTypes ==
  ASSUME NEW u \in Update
  PROVE  /\ u.state \in UpdateState /\ u.target \in File \union {None}
         /\ u.selected \in File \union {None} /\ u.progress \in Progress
         /\ InProgress(u) => u.state # None /\ ~Settled(u)
         /\ u.state # None => InProgress(u) \/ Settled(u)
<1>1. u.state \in UpdateState /\ u.target \in File \union {None}
      /\ u.selected \in File \union {None} /\ u.progress \in Progress
  BY DEF Update
<1>2. None \notin Ongoing \union Final /\ Ongoing \cap Final = {}
  BY UpdateAssumption DEF Ongoing, Final
<1> QED BY <1>1, <1>2 DEF UpdateState, InProgress, Settled

\* A settled update changes only its verdict.
LEMMA SetState ==
  ASSUME NEW u \in Update, NEW s, s \in Ongoing \union Final, NEW p \in Progress,
         Settled(u) => s \in Final,
         NEW v, v = [u EXCEPT !.state = s, !.progress = p]
  PROVE  Follows(u, v)
<1>1. v \in Update /\ v.state = s /\ v.target = u.target /\ v.selected = u.selected
  BY DEF Update, UpdateState
<1>2. s # None
  BY UpdateAssumption
<1> QED BY <1>1, <1>2 DEF Follows, Keeps, Settled

LEMMA SetProgress ==
  ASSUME NEW u \in Update, NEW p \in Progress
  PROVE  Follows(u, [u EXCEPT !.progress = p]) /\ [u EXCEPT !.progress = p].state = u.state
<1> DEFINE v == [u EXCEPT !.progress = p]
<1>1. v \in Update /\ v.state = u.state /\ v.target = u.target /\ v.selected = u.selected
  BY DEF Update
<1> QED BY <1>1 DEF Follows, Keeps, Settled

LEMMA NotedTypes ==
  ASSUME NEW u \in Update, NEW e \in TransferEvent
  PROVE  /\ Noted(u, e) \in Progress
         /\ Traced(u, e) \in Progress
         /\ \A done \in BOOLEAN : [Traced(u, e) EXCEPT !.done = done] \in Progress
         /\ [Noted(u, e) EXCEPT !.moving = FALSE, !.done = TRUE] \in Progress
<1>1. u.progress \in Progress /\ e.conn \in Conn /\ e.file \in File \union {None}
  BY UpdateTypes DEF TransferEvent
<1>2. (e.name \in Moving) \in BOOLEAN
  OBVIOUS
<1>3. Noted(u, e) \in Progress
  BY <1>1, <1>2 DEF Noted, Progress
<1>4. Traced(u, e) \in Progress
  BY <1>1, <1>3 DEF Traced, Progress
<1> QED BY <1>3, <1>4 DEF Progress

LEMMA RestartingFollows ==
  ASSUME NEW u \in Update
  PROVE  /\ Follows(u, Restarting(u))
         /\ InProgress(Restarting(u)) => InProgress(u)
<1> DEFINE p == [u.progress EXCEPT !.moving = FALSE, !.done = TRUE]
<1>1. p \in Progress /\ u \in Update /\ "Installing" \in Ongoing \union Final
  BY UpdateTypes DEF Progress, Ongoing, Final
<1>2. CASE u.state \in {"Downloaded", "Installing"}
  <2>1. Restarting(u) = [u EXCEPT !.state = "Installing", !.progress = p]
    BY <1>2, UpdateTypes DEF Restarting, Update
  <2>2. InProgress(u) /\ ~Settled(u)
    BY <1>2, UpdateTypes DEF InProgress, Ongoing
  <2> HIDE DEF p
  <2> QED BY <1>1, <2>1, <2>2, SetState
<1>3. CASE u.state \notin {"Downloaded", "Installing"}
  BY <1>3 DEF Restarting, Follows, Keeps, Settled
<1> QED BY <1>2, <1>3

\* An event moves an update that is not settled, or cancels it.
LEMMA AfterFollows ==
  ASSUME NEW u \in Update, NEW e \in TransferEvent
  PROVE  Follows(u, After(u, e))
<1> USE DEF Ongoing, Final
<1>1. CASE Dropped(u, e)
  BY <1>1 DEF After, Follows, Keeps, Settled
<1>2. CASE ~Dropped(u, e) /\ Late(u, e)
  <2>1. After(u, e) \in {u, Restarting(u)}
    BY <1>2 DEF After
  <2> QED BY <2>1, RestartingFollows DEF Follows, Keeps, Settled
<1>3. CASE ~Dropped(u, e) /\ ~Late(u, e)
  <2>1. Settled(u) => e.name = "transfer_cancelled"
    BY <1>3 DEF Dropped
  <2> DEFINE p == [Noted(u, e) EXCEPT !.moving = FALSE, !.done = TRUE]
  <2>2. p \in Progress /\ Noted(u, e) \in Progress /\ Traced(u, e) \in Progress
        /\ \A done \in BOOLEAN : [Traced(u, e) EXCEPT !.done = done] \in Progress
    BY NotedTypes
  <2>3. Downloaded(u, e) = [u EXCEPT !.state = "Downloaded", !.progress = p]
    BY DEF Downloaded
  <2> HIDE DEF p
  <2>4. ~Settled(u) => Follows(u, Downloaded(u, e)) /\ Downloaded(u, e) \in Update
    <3>1. "Downloaded" \in Ongoing \union Final
      OBVIOUS
    <3>2. ~Settled(u) => Follows(u, Downloaded(u, e))
      BY <2>2, <2>3, <3>1, SetState
    <3> QED BY <3>2 DEF Follows, Keeps
  <2>5. ~Settled(u) => Follows(u, Restarting(Downloaded(u, e)))
    BY <2>4, RestartingFollows DEF Follows, Keeps
  <2>6. CASE e.name = "transfer_cancelled"
    <3>1. After(u, e) = [u EXCEPT !.state = "Cancelled", !.progress = Noted(u, e)]
      BY <1>3, <2>6 DEF After, TerminalError
    <3>2. "Cancelled" \in Final /\ "Cancelled" \in Ongoing \union Final
      OBVIOUS
    <3> QED BY <2>2, <3>1, <3>2, SetState
  <2>7. CASE e.name \in TerminalError /\ After(u, e) = [u EXCEPT !.state = "Failed", !.progress = Noted(u, e)]
    <3>1. ~Settled(u) /\ "Failed" \in Ongoing \union Final
      BY <2>1, <2>7 DEF TerminalError
    <3> QED BY <2>2, <2>7, <3>1, SetState
  <2>8. CASE \E q \in Progress : After(u, e) = [u EXCEPT !.progress = q]
    BY <2>8, SetProgress
  <2>9. CASE After(u, e) \in {Downloaded(u, e), Restarting(Downloaded(u, e))} /\ ~Settled(u)
    BY <2>4, <2>5, <2>9
  <2> QED BY <1>3, <2>1, <2>2, <2>6, <2>7, <2>8, <2>9 DEF After
<1> QED BY <1>1, <1>2, <1>3

-----------------------------------------------------------------------------
(* Whom an event is about *)

\* Every set of numbers has a least one.
LEMMA Least ==
  ASSUME NEW S \in SUBSET Nat, S # {}
  PROVE  \E x \in S : \A y \in S : x <= y
<1> DEFINE T == {0 .. k : k \in S}
<1>1. T \subseteq FiniteSubsetsOf(Nat) /\ T # {}
  <2>1. \A k \in S : IsFiniteSet(0 .. k) /\ 0 .. k \in SUBSET Nat
    BY FS_Interval
  <2> QED BY <2>1 DEF FiniteSubsetsOf
<1>2. PICK x \in T : \A y \in T : <<y, x>> \notin StrictSubsetOrdering(Nat)
  BY <1>1, FS_StrictSubsetOrderingWellFounded, WFMin
<1>3. PICK k \in S : x = 0 .. k
  BY <1>2
<1>4. ASSUME NEW m \in S, m < k PROVE FALSE
  <2>1. 0 .. m \subseteq 0 .. k /\ 0 .. m # 0 .. k
    <3>1. k \in 0 .. k /\ k \notin 0 .. m /\ m \in Nat /\ k \in Nat
      BY <1>4
    <3> QED BY <1>4, <3>1
  <2>2. <<0 .. m, 0 .. k>> \in StrictSubsetOrdering(Nat)
    BY <2>1 DEF StrictSubsetOrdering
  <2> QED BY <1>2, <1>3, <2>2
<1>5. \A y \in S : k <= y
  BY <1>4
<1> QED BY <1>5

LEMMA OwnerType ==
  ASSUME NEW us, NEW e \in TransferEvent
  PROVE  Owner(us, e) \in Charger
<1> DEFINE S == {cp \in Charger : Claims(us[cp], e)}
<1>1. e.peer \in Charger
  BY DEF TransferEvent
<1>2. CASE S = {}
  BY <1>1, <1>2 DEF Owner
<1>3. CASE S # {}
  <2>1. PICK cp \in S : \A b \in S : cp <= b
    BY <1>3, Least, FirmwareAssumption
  <2>2. \E a \in Charger : Claims(us[a], e) /\ \A b \in Charger : Claims(us[b], e) => a <= b
    BY <2>1
  <2> QED BY <1>1, <2>2 DEF Owner
<1> QED BY <1>2, <1>3

\* The states vs and the misled ns may follow us and ms by events of p's: those
\* not misled and not p are as they were.
Lead(us, vs, ms, ns, p) ==
  /\ us \in [Charger -> Update] /\ vs \in [Charger -> Update]
  /\ ms \subseteq ns /\ ns \subseteq Charger
  /\ \A b \in Charger : Follows(us[b], vs[b]) /\ (b \notin ns /\ b # p => vs[b] = us[b])

LEMMA LeadSame ==
  ASSUME NEW us \in [Charger -> Update], NEW ms \in SUBSET Charger, NEW p
  PROVE  Lead(us, us, ms, ms, p)
  BY DEF Lead, Follows, Keeps

LEMMA LeadTwice ==
  ASSUME NEW us, NEW vs, NEW ws, NEW ms, NEW ns, NEW os, NEW p,
         Lead(us, vs, ms, ns, p), Lead(vs, ws, ns, os, p)
  PROVE  Lead(us, ws, ms, os, p)
  BY DEF Lead, Follows, Keeps

LEMMA HandledLeads ==
  ASSUME NEW acc, acc.upd \in [Charger -> Update], acc.misled \subseteq Charger,
         NEW e \in TransferEvent
  PROVE  Lead(acc.upd, Handled(acc, e).upd, acc.misled, Handled(acc, e).misled, e.peer)
<1> DEFINE cp == Owner(acc.upd, e)
<1>1. cp \in Charger /\ e.peer \in Charger
  BY OwnerType DEF TransferEvent
<1>2. /\ Handled(acc, e).upd = [acc.upd EXCEPT ![cp] = After(@, e)]
      /\ Handled(acc, e).misled = IF cp = e.peer THEN acc.misled ELSE acc.misled \union {cp}
  BY DEF Handled
<1> HIDE DEF cp
<1>3. Follows(acc.upd[cp], After(acc.upd[cp], e))
  BY <1>1, AfterFollows
<1>4. \A b \in Charger : Follows(acc.upd[b], acc.upd[b])
  BY DEF Follows, Keeps
<1> QED BY <1>1, <1>2, <1>3, <1>4 DEF Lead, Follows, Keeps

LEMMA BatchEvents ==
  ASSUME NEW names \in Batch, NEW i \in Nat \ {0}, ~(i > Len(names))
  PROVE  names[i] \in Event
  BY DEF Batch, Event, Outcome

LEMMA RecordLeads ==
  ASSUME NEW c \in Conn, NEW cp \in Charger, NEW f \in File \union {None}, NEW names \in Batch,
         RecordEvents(c, cp, f, names), upd \in [Charger -> Update], misled \subseteq Charger
  PROVE  Lead(upd, upd', misled, misled', cp)
<1> DEFINE event(i) == [name |-> names[i], conn |-> c, peer |-> cp, file |-> f]
           after(acc, i) == IF i > Len(names) THEN acc ELSE Handled(acc, event(i))
           start == [upd |-> upd, misled |-> misled]
<1>1. ASSUME NEW acc, acc.upd \in [Charger -> Update], acc.misled \subseteq Charger, NEW i \in Nat \ {0}
      PROVE  Lead(acc.upd, after(acc, i).upd, acc.misled, after(acc, i).misled, cp)
  <2>1. CASE i > Len(names)
    BY <1>1, <2>1, LeadSame
  <2>2. CASE ~(i > Len(names))
    <3>1. event(i) \in TransferEvent /\ event(i).peer = cp
      BY <2>2, BatchEvents DEF TransferEvent
    <3>2. after(acc, i) = Handled(acc, event(i))
      BY <2>2
    <3> HIDE DEF event, after
    <3> QED BY <1>1, <3>1, <3>2, HandledLeads
  <2> QED BY <2>1, <2>2
<1>2. PICK first, second, third : /\ first = after(start, 1) /\ second = after(first, 2) /\ third = after(second, 3)
                                  /\ upd' = third.upd /\ misled' = third.misled
  BY DEF RecordEvents
<1>3. start.upd = upd /\ start.misled = misled
  OBVIOUS
<1> HIDE DEF after, start
<1>4. Lead(upd, first.upd, misled, first.misled, cp)
  BY <1>1, <1>2, <1>3
<1>5. Lead(first.upd, second.upd, first.misled, second.misled, cp)
  BY <1>1, <1>2, <1>4 DEF Lead
<1>6. Lead(second.upd, third.upd, second.misled, third.misled, cp)
  BY <1>1, <1>2, <1>5 DEF Lead
<1>7. Lead(upd, second.upd, misled, second.misled, cp)
  BY <1>4, <1>5, LeadTwice
<1> QED BY <1>2, <1>6, <1>7, LeadTwice

\* The events that follow a cancellation.
LEMMA CancelLeads ==
  ASSUME UpdateInv, NEW cp \in Charger, CancelUpdate(cp)
  PROVE  /\ upd' \in [Charger -> Update] /\ misled \subseteq misled' /\ misled' \subseteq Charger
         /\ \A b \in Charger : Follows(upd[b], upd'[b]) /\ (InProgress(upd'[b]) => InProgress(upd[b]))
<1> DEFINE own == [upd EXCEPT ![cp] = Cancelled(@)]
<1>1. /\ upd \in [Charger -> Update] /\ misled \subseteq Charger
      /\ \A c \in downloads : c \in Conn /\ peer[c] \in Charger /\ file[c] \in File \union {None}
  BY DEF UpdateInv, Reached, ServerTypeOK
<1>2. PICK targets \in SUBSET downloads : AfterCancel(cp, targets)
  BY DEF CancelUpdate, Targets
<1>3. \A c \in targets : CancelEvent(c) \in TransferEvent /\ CancelEvent(c).name = "transfer_cancel_requested"
  BY <1>1, <1>2 DEF CancelEvent, TransferEvent, Event
<1>4. \A c \in targets : Owner(upd, CancelEvent(c)) \in Charger /\ peer[c] \in Charger
  BY <1>1, <1>3, OwnerType
<1>5. misled \subseteq misled' /\ misled' \subseteq Charger
  BY <1>1, <1>2, <1>4 DEF AfterCancel
<1>6. Follows(upd[cp], Cancelled(upd[cp])) /\ (InProgress(Cancelled(upd[cp])) => InProgress(upd[cp]))
  <2> DEFINE u == upd[cp]
             p == [u.progress EXCEPT !.moving = FALSE, !.file = IF @ = None THEN u.target ELSE @]
  <2>1. u \in Update /\ u.progress \in Progress /\ u.target \in File \union {None}
    BY <1>1, UpdateTypes
  <2>2. p \in Progress
    BY <2>1 DEF Progress
  <2>3. Cancelled(u) \in {u, [u EXCEPT !.state = "Cancelled", !.progress = p]}
    BY <2>1 DEF Cancelled, Update
  <2>4. "Cancelled" \in Final /\ "Cancelled" \notin Ongoing
    BY DEF Final, Ongoing
  <2> HIDE DEF p
  <2>5. CASE Cancelled(u) = u
    BY <2>1, <2>5 DEF Follows, Keeps
  <2>6. CASE Cancelled(u) = [u EXCEPT !.state = "Cancelled", !.progress = p]
    <3>1. Follows(u, Cancelled(u))
      BY <2>1, <2>2, <2>4, <2>6, SetState
    <3>2. Cancelled(u).state = "Cancelled"
      BY <2>1, <2>6 DEF Update
    <3>3. ~InProgress(Cancelled(u))
      BY <2>4, <3>2 DEF InProgress
    <3> QED BY <3>1, <3>3, Zenon
  <2> QED BY <2>3, <2>5, <2>6
<1>7. \A b \in Charger : Follows(upd[b], own[b]) /\ (InProgress(own[b]) => InProgress(upd[b])) /\ own[b] \in Update
  <2>1. \A b \in Charger : own[b] = IF b = cp THEN Cancelled(upd[b]) ELSE upd[b]
    BY <1>1
  <2>2. \A b \in Charger : Follows(upd[b], upd[b])
    BY <1>1 DEF Follows, Keeps
  <2> HIDE DEF own
  <2> QED BY <1>6, <2>1, <2>2 DEF Follows, Keeps
<1> HIDE DEF own
<1>8. ASSUME NEW u \in Update, NEW e \in TransferEvent, e.name = "transfer_cancel_requested"
      PROVE  After(u, e).state = u.state
  <2>1. After(u, e) \in {u, [u EXCEPT !.progress = Noted(u, e)]}
    BY <1>8 DEF After, Late, RetryEvent, TerminalError
  <2> QED BY <2>1, <1>8 DEF Update
<1>9. PICK last \in [Charger -> targets \union {None}] :
        upd' = [b \in Charger |-> IF last[b] = None THEN own[b] ELSE After(own[b], CancelEvent(last[b]))]
  BY <1>2 DEF AfterCancel, own
<1>10. ASSUME NEW b \in Charger
       PROVE  /\ Follows(upd[b], upd'[b]) /\ upd'[b] \in Update
              /\ InProgress(upd'[b]) => InProgress(upd[b])
  <2>1. CASE last[b] = None
    BY <1>7, <1>9, <2>1
  <2>2. CASE last[b] # None
    <3> DEFINE e == CancelEvent(last[b])
    <3>1. e \in TransferEvent /\ e.name = "transfer_cancel_requested" /\ upd'[b] = After(own[b], e)
      BY <1>3, <1>9, <2>2
    <3> HIDE DEF e
    <3>2. Follows(own[b], upd'[b]) /\ upd'[b].state = own[b].state
      BY <1>7, <1>8, <3>1, AfterFollows
    <3> QED BY <1>7, <3>2 DEF Follows, Keeps, InProgress
  <2> QED BY <2>1, <2>2
<1>11. upd' \in [Charger -> Update]
  BY <1>9, <1>10
<1> QED BY <1>5, <1>10, <1>11

-----------------------------------------------------------------------------
(* The steps *)

LEMMA UpdateInitial == Init => UpdateInv
<1> SUFFICES ASSUME Init PROVE UpdateInv
  OBVIOUS
<1>1. CacheInv /\ TableInv
  BY CacheInitial, TableInitial
<1>2. ServerTypeOK
  BY DEF Init, ServerInit, ServerTypeOK, Phase
<1>3. upd \in [Charger -> Update] /\ \A cp \in Charger : upd[cp].state = None
  BY DEF Init, Update, UpdateState, Progress, NoProgress
<1>4. /\ running \in [Charger -> File \union {Old}] /\ incidents \in Nat
      /\ asked \in [Charger -> File \union {None}]
      /\ misled \subseteq Charger /\ overlapped \subseteq Charger
  BY DEF Init
<1>5. Reached
  BY DEF Init, ServerInit, Reached
<1>6. Shown
  BY <1>3, UpdateAssumption DEF Init, Shown, InProgress
<1>7. Chosen
  BY DEF Init, Chosen, Busy
<1> QED BY <1>1, <1>2, <1>3, <1>4, <1>5, <1>6, <1>7 DEF UpdateInv

\* What the installations, the chargers and the server know stays true when the
\* states follow, unless a charger is shown as updating that was not asked.
LEMMA FollowStep ==
  ASSUME UpdateInv, CacheInv', TableInv', ServerTypeOK',
         upd' \in [Charger -> Update], misled \subseteq misled', misled' \subseteq Charger,
         UNCHANGED <<task, want, running, asked, overlapped>>, incidents' \in Nat,
         Reached',
         \A b \in Charger :
           /\ Keeps(upd[b], upd'[b])
           /\ InProgress(upd'[b]) /\ upd[b].target \notin Unversioned /\ b \notin misled' => asked[b] # None
  PROVE  UpdateInv'
<1>1. Shown'
  BY DEF UpdateInv, Shown, Follows, Keeps
<1>2. \A t \in Install : Busy(t) => task[t].cp \in Charger
  BY DEF UpdateInv, CacheInv, Busy, Task, Over
<1>3. Chosen'
  BY <1>2 DEF UpdateInv, Chosen, Follows, Keeps, Busy
<1> QED BY <1>1, <1>3 DEF UpdateInv

\* Events of a connection that has reached its charger.
LEMMA EventStep ==
  ASSUME UpdateInv, CacheInv', TableInv', ServerTypeOK', NEW c \in Conn, NEW names \in Batch,
         Posts(c, names), peer'[c] \in Charger, upd[peer'[c]].state # None,
         \A d \in Conn : thread'[d] # "new" =>
           peer'[d] \in Charger /\ (d = c \/ (thread[d] # "new" /\ peer'[d] = peer[d])),
         \A d \in Conn : /\ d \in whole' => file'[d] \in File
                         /\ thread'[d] \in {"requested", "registered", "serving", "closing"} => file'[d] \in File
                         /\ d \in downloads' => thread'[d] # "new"
  PROVE  UpdateInv' /\ \A b \in Charger : Follows(upd[b], upd'[b])
<1> DEFINE p == peer'[c]
<1>1. /\ upd \in [Charger -> Update] /\ misled \subseteq Charger /\ p \in Charger
      /\ file'[c] \in File \union {None}
  BY DEF UpdateInv, ServerTypeOK
<1>2. Lead(upd, upd', misled, misled', p)
  BY <1>1, RecordLeads DEF Posts
<1>3. UNCHANGED <<task, want, running, asked, overlapped, incidents>> /\ incidents' \in Nat
  BY DEF Posts, external, UpdateInv
<1>4. \A b \in Charger : Follows(upd[b], upd'[b])
  BY <1>2 DEF Lead
<1>5. Reached'
  BY <1>4 DEF UpdateInv, Reached, Follows, Keeps
<1>6. ASSUME NEW b \in Charger, InProgress(upd'[b]), upd[b].target \notin Unversioned, b \notin misled'
      PROVE  asked[b] # None
  <2>1. InProgress(upd[b])
    <3>1. CASE b # p
      BY <1>2, <1>6, <3>1 DEF Lead
    <3>2. CASE b = p
      <4>1. upd'[b] \in Update /\ ~Settled(upd'[b])
        BY <1>2, <1>6, UpdateTypes DEF Lead
      <4>2. ~Settled(upd[b])
        BY <1>4, <4>1 DEF Follows, Keeps
      <4> QED BY <1>1, <3>2, <4>2, UpdateTypes
    <3> QED BY <3>1, <3>2
  <2>2. b \notin misled
    BY <1>2, <1>6 DEF Lead
  <2> QED BY <1>6, <2>1, <2>2 DEF UpdateInv, Shown
<1> QED BY <1>2, <1>3, <1>4, <1>5, <1>6, FollowStep DEF Lead, Follows

LEMMA ThreadTypes ==
  ASSUME UpdateInv, NEW c \in Conn, NEW names, ThreadStep(c, names)
  PROVE  /\ ServerTypeOK' /\ peer' = peer /\ file' = file /\ thread[c] # "new"
         /\ \A d \in Conn : /\ thread'[d] # "new" => thread[d] # "new"
                            /\ d \in whole' => file[d] \in File
                            /\ thread'[d] \in {"requested", "registered", "serving", "closing"} => file[d] \in File
                            /\ d \in downloads' => thread'[d] # "new"
<1> USE DEF UpdateInv, ServerTypeOK, Reached, Phase
<1>1. CASE RequestMissing(c, names)
  BY <1>1 DEF RequestMissing, Ends
<1>2. CASE NotFound(c, names)
  BY <1>2 DEF NotFound, Ends
<1>3. CASE Register(c, names)
  BY <1>3 DEF Register
<1>4. CASE StartDownload(c, names)
  BY <1>4 DEF StartDownload
<1>5. CASE StartFails(c, names)
  BY <1>5 DEF StartFails, Ends
<1>6. CASE SendChunk(c, names)
  BY <1>6 DEF SendChunk, connVars
<1>7. CASE FinishDownload(c, names)
  <2>1. /\ thread[c] = "serving" /\ thread' = [thread EXCEPT ![c] = "closing"]
        /\ whole' \subseteq whole
        /\ UNCHANGED <<peer, file, open, requests, downloads, cancelled, cache>>
    BY <1>7 DEF FinishDownload
  <2> QED BY <2>1
<1>8. CASE Unregister(c, names)
  BY <1>8 DEF Unregister, Ends
<1> QED BY <1>1, <1>2, <1>3, <1>4, <1>5, <1>6, <1>7, <1>8 DEF ThreadStep

LEMMA ServerSteps ==
  ASSUME UpdateInv, [Next]_vars, NEW c \in Conn,
         (\E cp \in Charger : Connects(c, cp)) \/ Requests(c) \/ Thread(c)
  PROVE  UpdateInv' /\ \A b \in Charger : Follows(upd[b], upd'[b])
<1>0. CacheInv' /\ TableInv'
  BY CacheInductive, TableInductive DEF UpdateInv
<1>1. ASSUME NEW cp \in Charger, Connects(c, cp)
      PROVE  UpdateInv' /\ \A b \in Charger : Follows(upd[b], upd'[b])
  <2>1. PICK names \in Batch : want[cp] # None /\ Accept(c, cp, names) /\ Posts(c, names)
    BY <1>1 DEF Connects
  <2>2. upd[cp].state # None
    BY <2>1 DEF UpdateInv, Shown
  <2>3. ServerTypeOK' /\ peer'[c] = cp
    BY <2>1 DEF Accept, UpdateInv, ServerTypeOK, Phase
  <2>4. \A d \in Conn : thread'[d] # "new" =>
          peer'[d] \in Charger /\ (d = c \/ (thread[d] # "new" /\ peer'[d] = peer[d]))
    BY <2>1 DEF Accept, UpdateInv, ServerTypeOK, Reached
  <2>5. \A d \in Conn : /\ d \in whole' => file'[d] \in File
                        /\ thread'[d] \in {"requested", "registered", "serving", "closing"} => file'[d] \in File
                        /\ d \in downloads' => thread'[d] # "new"
    BY <2>1 DEF Accept, UpdateInv, ServerTypeOK, Reached
  <2> QED BY <1>0, <2>1, <2>2, <2>3, <2>4, <2>5, EventStep
<1>2. CASE Requests(c)
  <2>1. PICK names \in Batch : /\ thread[c] = "connected" /\ want[peer[c]] # None
                               /\ Request(c, want[peer[c]], names) /\ Posts(c, names)
    BY <1>2 DEF Requests
  <2>2. peer[c] \in Charger /\ upd[peer[c]].state # None /\ want[peer[c]] \in File
    BY <2>1 DEF UpdateInv, Reached, CacheInv
  <2>3. ServerTypeOK' /\ peer' = peer
    BY <2>1, <2>2 DEF Request, UpdateInv, ServerTypeOK, Phase
  <2>4. \A d \in Conn : thread'[d] # "new" =>
          peer'[d] \in Charger /\ (d = c \/ (thread[d] # "new" /\ peer'[d] = peer[d]))
    BY <2>1, <2>2, <2>3 DEF Request, UpdateInv, ServerTypeOK, Reached
  <2>5. \A d \in Conn : /\ d \in whole' => file'[d] \in File
                        /\ thread'[d] \in {"requested", "registered", "serving", "closing"} => file'[d] \in File
                        /\ d \in downloads' => thread'[d] # "new"
    BY <2>1, <2>2 DEF Request, UpdateInv, ServerTypeOK, Reached
  <2> QED BY <1>0, <2>1, <2>2, <2>3, <2>4, <2>5, EventStep
<1>3. CASE Thread(c)
  <2>1. PICK names \in Batch : ThreadStep(c, names) /\ Posts(c, names)
    BY <1>3 DEF Thread
  <2>2. /\ ServerTypeOK' /\ peer' = peer /\ file' = file /\ thread[c] # "new"
        /\ \A d \in Conn : /\ thread'[d] # "new" => thread[d] # "new"
                           /\ d \in whole' => file[d] \in File
                           /\ thread'[d] \in {"requested", "registered", "serving", "closing"} => file[d] \in File
                           /\ d \in downloads' => thread'[d] # "new"
    BY <2>1, ThreadTypes
  <2>3. /\ peer[c] \in Charger /\ upd[peer[c]].state # None
        /\ \A d \in Conn : thread'[d] # "new" => peer'[d] \in Charger
    BY <2>2 DEF UpdateInv, Reached
  <2> QED BY <1>0, <2>1, <2>2, <2>3, EventStep
<1> QED BY <1>1, <1>2, <1>3

LEMMA CancelStep ==
  ASSUME UpdateInv, [Next]_vars, NEW cp \in Charger, CancelUpdate(cp)
  PROVE  UpdateInv'
<1>0. CacheInv' /\ TableInv'
  BY CacheInductive, TableInductive DEF UpdateInv
<1>1. /\ upd' \in [Charger -> Update] /\ misled \subseteq misled' /\ misled' \subseteq Charger
      /\ \A b \in Charger : Follows(upd[b], upd'[b]) /\ (InProgress(upd'[b]) => InProgress(upd[b]))
  BY CancelLeads
<1>2. /\ UNCHANGED <<connVars, whole, requests, downloads, cache, task, external, asked, overlapped>>
      /\ incidents' = incidents + 1
      /\ \E f, c : CancelDownload(f, c)
  BY DEF CancelUpdate, CancelDownload, Counted
<1>3. ServerTypeOK'
  <2>1. PICK f, c : CancelDownload(f, c)
    BY <1>2
  <2> QED BY <1>2, <2>1 DEF CancelDownload, Targets, UpdateInv, ServerTypeOK, connVars
<1>4. Reached'
  BY <1>1, <1>2 DEF UpdateInv, Reached, Follows, Keeps, connVars
<1>5. ASSUME NEW b \in Charger, InProgress(upd'[b]), upd[b].target \notin Unversioned, b \notin misled'
      PROVE  asked[b] # None
  BY <1>1, <1>5 DEF UpdateInv, Shown
<1>6. incidents' \in Nat
  BY <1>2 DEF UpdateInv
<1> QED BY <1>0, <1>1, <1>2, <1>3, <1>4, <1>5, <1>6, FollowStep DEF external, Follows

\* One charger's update is set, and nothing of the server's tables.
LEMMA SetsStep ==
  ASSUME UpdateInv, CacheInv', TableInv', UNCHANGED serverVars,
         NEW cp \in Charger, NEW u \in Update, Sets(cp, u), Keeps(upd[cp], u),
         UNCHANGED <<task, want, running, history>>, incidents' \in Nat,
         InProgress(u) /\ cp \notin misled => asked[cp] # None
  PROVE  UpdateInv'
<1>1. upd \in [Charger -> Update] /\ upd' = [upd EXCEPT ![cp] = u]
  BY DEF UpdateInv, Sets
<1>2. upd' \in [Charger -> Update] /\ misled' = misled /\ misled \subseteq Charger
  BY <1>1 DEF history, UpdateInv
<1>3. \A b \in Charger : Keeps(upd[b], upd'[b])
  BY <1>1 DEF Keeps
<1>4. ServerTypeOK'
  BY DEF UpdateInv, ServerTypeOK, serverVars, connVars
<1>5. Reached'
  BY <1>3 DEF UpdateInv, Reached, serverVars, connVars, Follows, Keeps
<1>6. \A b \in Charger : InProgress(upd'[b]) /\ upd[b].target \notin Unversioned /\ b \notin misled' =>
        asked[b] # None
  BY <1>1, <1>2 DEF UpdateInv, Shown
<1>7. UNCHANGED <<task, want, running, asked, overlapped>>
  BY DEF history
<1> QED BY <1>2, <1>3, <1>4, <1>5, <1>6, <1>7, FollowStep

\* Notifications: a charger that was told to update was asked to.
LEMMA StatusStep ==
  ASSUME UpdateInv, [Next]_vars, NEW cp \in Charger, NEW s \in Notification, FirmwareStatus(cp, s)
  PROVE  UpdateInv'
<1> DEFINE u == upd[cp]
           v == Reported(u, s)
<1>1. u \in Update /\ u.progress \in Progress /\ asked[cp] # None /\ incidents \in Nat
  BY UpdateTypes DEF UpdateInv, FirmwareStatus, Shown
<1>2. \E state \in Ongoing \union Final, p \in Progress : v = [u EXCEPT !.state = state, !.progress = p]
  <2>1. \A m, d \in BOOLEAN : /\ [u.progress EXCEPT !.moving = m] \in Progress
                              /\ [u.progress EXCEPT !.moving = m, !.done = d] \in Progress
    BY <1>1 DEF Progress
  <2>2. \E state \in Ongoing \union Final :
          \/ v = [u EXCEPT !.state = state, !.progress = [@ EXCEPT !.moving = TRUE]]
          \/ v = [u EXCEPT !.state = state, !.progress = [@ EXCEPT !.moving = FALSE, !.done = TRUE]]
    <3>2. CASE s = "Downloading"
      BY <1>1, <3>2 DEF Reported, Ongoing, Update
    <3>3. CASE s = "Downloaded"
      BY <1>1, <3>3 DEF Reported, Ongoing, Update
    <3>4. CASE s = "Installing"
      BY <1>1, <3>4 DEF Reported, Ongoing, Update
    <3>5. CASE s = "Installed"
      BY <1>1, <3>5 DEF Reported, Final, Update
    <3>6. CASE s = "DownloadFailed"
      BY <1>1, <3>6 DEF Reported, Final, Update
    <3> QED BY <3>2, <3>3, <3>4, <3>5, <3>6 DEF Notification
  <2> QED BY <1>1, <2>1, <2>2 DEF Update
<1>3. Keeps(u, v) /\ v \in Update
  BY <1>1, <1>2, UpdateAssumption DEF Keeps, Update, UpdateState
<1>4. /\ Sets(cp, v) /\ incidents' = incidents + 1
      /\ UNCHANGED <<serverVars, task, external, history>>
  BY DEF FirmwareStatus, Counted
<1>5. CacheInv' /\ TableInv'
  BY CacheInductive, TableInductive DEF UpdateInv
<1>6. incidents' \in Nat
  BY <1>1, <1>4
<1> HIDE DEF v
<1> QED BY <1>1, <1>3, <1>4, <1>5, <1>6, SetsStep DEF external

LEMMA AnsweredStep ==
  ASSUME UpdateInv, [Next]_vars, NEW t \in Install, Answered(t)
  PROVE  UpdateInv'
<1> DEFINE cp == task[t].cp
<1>0. CacheInv' /\ TableInv'
  BY CacheInductive, TableInductive DEF UpdateInv
<1>1. /\ Busy(t) /\ task' = [task EXCEPT ![t] = Over] /\ cp \in Charger
      /\ UNCHANGED <<serverVars, external, incidents, history>>
      /\ Over.stage = "ended" /\ task \in [Install -> Task \union {None}]
  BY DEF Answered, At, Ended, Busy, Over, UpdateInv, CacheInv, Task
<1>2. upd[cp] \in Update /\ upd[cp].progress \in Progress /\ upd \in [Charger -> Update]
  BY <1>1, UpdateTypes DEF UpdateInv
<1>3. PICK u \in Update : /\ upd' = [upd EXCEPT ![cp] = u] /\ Keeps(upd[cp], u)
                          /\ InProgress(u) => InProgress(upd[cp])
  <2> DEFINE p == [upd[cp].progress EXCEPT !.moving = FALSE]
  <2>1. p \in Progress
    BY <1>2 DEF Progress
  <2>2. \/ upd' = upd
        \/ upd' = [upd EXCEPT ![cp] = [upd[cp] EXCEPT !.progress = p]]
        \/ upd' = [upd EXCEPT ![cp] = [upd[cp] EXCEPT !.state = "Failed", !.progress = p]]
    BY <1>2 DEF Answered, Sets, Update
  <2> HIDE DEF p
  <2>3. CASE upd' = upd
    BY <1>1, <1>2, <2>3 DEF Keeps
  <2>4. CASE upd' = [upd EXCEPT ![cp] = [upd[cp] EXCEPT !.progress = p]]
    <3> DEFINE v == [upd[cp] EXCEPT !.progress = p]
    <3>1. v \in Update /\ Keeps(upd[cp], v) /\ (InProgress(v) => InProgress(upd[cp]))
      BY <1>2, <2>1 DEF Keeps, Update, InProgress
    <3> HIDE DEF v
    <3> QED BY <2>4, <3>1 DEF v
  <2>5. CASE upd' = [upd EXCEPT ![cp] = [upd[cp] EXCEPT !.state = "Failed", !.progress = p]]
    <3> DEFINE v == [upd[cp] EXCEPT !.state = "Failed", !.progress = p]
    <3>1. v \in Update /\ v.state = "Failed" /\ v.target = upd[cp].target /\ v.selected = upd[cp].selected
      BY <1>2, <2>1 DEF Update, UpdateState, Final
    <3>2. Keeps(upd[cp], v) /\ ~InProgress(v)
      BY <3>1, UpdateAssumption DEF Keeps, InProgress, Ongoing, Final
    <3> HIDE DEF v
    <3> QED BY <2>5, <3>1, <3>2 DEF v
  <2> QED BY <2>2, <2>3, <2>4, <2>5
<1>4. \A b \in Charger : Keeps(upd[b], upd'[b]) /\ (InProgress(upd'[b]) => InProgress(upd[b]))
  BY <1>1, <1>2, <1>3 DEF Keeps
<1>5. upd' \in [Charger -> Update]
  BY <1>1, <1>2, <1>3
<1>6. ServerTypeOK' /\ Reached'
  BY <1>1, <1>4 DEF UpdateInv, ServerTypeOK, Reached, serverVars, connVars, Keeps
<1>7. Shown'
  BY <1>1, <1>4 DEF UpdateInv, Shown, Keeps, external, history
<1>8. \A s \in Install : Busy(s)' => Busy(s) /\ task'[s] = task[s] /\ task[s].cp \in Charger
  BY <1>1 DEF Busy, UpdateInv, CacheInv, Task, Over
<1>9. Chosen'
  BY <1>1, <1>4, <1>8 DEF UpdateInv, Chosen, Keeps, history
<1> QED BY <1>0, <1>1, <1>5, <1>6, <1>7, <1>9 DEF UpdateInv, external, history

\* An installation that has been started goes on or ends, and changes at most
\* the cache.
LEMMA StageStep ==
  ASSUME UpdateInv, [Next]_vars, NEW t \in Install, CheckCache(t) \/ Unlink(t) \/ Fetched(t)
  PROVE  UpdateInv'
<1>0. CacheInv' /\ TableInv'
  BY CacheInductive, TableInductive DEF UpdateInv
<1>1. /\ Busy(t) /\ task[t].cp \in Charger /\ task[t].file \in File /\ task \in [Install -> Task \union {None}]
      /\ (\E stage \in {"ready", "missing", "fetching"} : To(t, stage)) \/ Ended(t)
      /\ cache' \in {cache, cache \union {task[t].file}, cache \ {task[t].file}}
      /\ UNCHANGED <<connVars, open, whole, requests, downloads, cancelled, upd, external, incidents, history>>
  BY DEF CheckCache, Unlink, Fetched, At, Busy, UpdateInv, CacheInv, Task, Over, serverVars
<1>2. \A s \in Install : Busy(s)' => Busy(s) /\ task'[s].cp = task[s].cp /\ task'[s].file = task[s].file
  BY <1>1 DEF Busy, To, Ended, Over, Task
<1>3. Chosen'
  BY <1>1, <1>2 DEF UpdateInv, Chosen, history
<1>4. ServerTypeOK'
  BY <1>1 DEF UpdateInv, ServerTypeOK, connVars
<1>5. Reached' /\ Shown'
  BY <1>1 DEF UpdateInv, Reached, Shown, connVars, external, history
<1> QED BY <1>0, <1>1, <1>3, <1>4, <1>5 DEF UpdateInv, external, history

\* The request: its file is the target, unless two installations overlapped.
LEMMA AskedStep ==
  ASSUME UpdateInv, [Next]_vars, NEW t \in Install, Ask(t)
  PROVE  UpdateInv'
<1> DEFINE cp == task[t].cp
           u == upd[cp]
           f == task[t].file
           v == Session(u)
<1>0. CacheInv' /\ TableInv'
  BY CacheInductive, TableInductive DEF UpdateInv
<1>1. /\ Busy(t) /\ cp \in Charger /\ f \in File /\ task \in [Install -> Task \union {None}]
      /\ upd \in [Charger -> Update] /\ asked \in [Charger -> File \union {None}]
      /\ want \in [Charger -> File \union {None}]
      /\ UNCHANGED <<serverVars, running, incidents, misled, overlapped>>
  BY DEF Ask, At, Busy, UpdateInv, CacheInv, Task, Over
<1>2. ServerTypeOK'
  BY <1>1 DEF UpdateInv, ServerTypeOK, serverVars, connVars
<1>3. u \in Update /\ u.selected # None /\ (cp \notin overlapped => u.selected = f)
  BY <1>1 DEF UpdateInv, Chosen
<1>4. /\ v \in Update /\ v.state = "Requested" /\ v.target = u.selected /\ v.selected = u.selected
  BY <1>3 DEF Session, Update, UpdateState, Ongoing, Progress, NoProgress
<1> HIDE DEF v
<1>5. "Requested" # None /\ None \notin File
  BY UpdateAssumption, FirmwareAssumption DEF Ongoing
<1>6. Ended(t) \/ To(t, "calling")
  BY DEF Ask
<1>7. \A s \in Install : Busy(s)' => Busy(s) /\ task'[s].cp = task[s].cp /\ task'[s].file = task[s].file
                                     /\ task[s].cp \in Charger
  BY <1>1, <1>6 DEF Busy, To, Ended, Over, Task
<1>8. CASE UNCHANGED <<upd, want, asked>>
  BY <1>0, <1>1, <1>2, <1>7, <1>8 DEF UpdateInv, Reached, Shown, Chosen, serverVars, connVars
<1>9. CASE /\ upd' = [upd EXCEPT ![cp] = v] /\ asked' = [asked EXCEPT ![cp] = f]
           /\ want' = [want EXCEPT ![cp] = f] \/ want' = want
  <2>1. Reached'
    BY <1>1, <1>4, <1>5, <1>9 DEF UpdateInv, Reached, serverVars, connVars
  <2>2. Shown'
    BY <1>1, <1>3, <1>4, <1>5, <1>9 DEF UpdateInv, Shown
  <2>3. \A b \in Charger : upd'[b].selected = upd[b].selected
    BY <1>1, <1>4, <1>9
  <2>4. Chosen'
    BY <1>1, <1>7, <2>3 DEF UpdateInv, Chosen
  <2>5. upd' \in [Charger -> Update] /\ asked' \in [Charger -> File \union {None}]
    BY <1>1, <1>4, <1>9
  <2> QED BY <1>0, <1>1, <1>2, <2>1, <2>2, <2>4, <2>5 DEF UpdateInv
<1> QED BY <1>8, <1>9 DEF Ask, Sets, v

LEMMA StartedStep ==
  ASSUME UpdateInv, [Next]_vars, NEW t \in Install, NEW cp \in Charger, NEW f \in File,
         StartInstall(t, cp, f)
  PROVE  UpdateInv'
<1> DEFINE v == [upd[cp] EXCEPT !.selected = f, !.progress = [NoProgress EXCEPT !.file = f]]
           new == [cp |-> cp, file |-> f, stage |-> "checking"]
<1>0. CacheInv' /\ TableInv'
  BY CacheInductive, TableInductive DEF UpdateInv
<1>1. /\ task[t] = None /\ task' = [task EXCEPT ![t] = new] /\ upd' = [upd EXCEPT ![cp] = v]
      /\ overlapped' = IF \E s \in Install : Busy(s) /\ task[s].cp = cp
                       THEN overlapped \union {cp} ELSE overlapped
      /\ UNCHANGED <<serverVars, external, incidents, asked, misled>>
      /\ task \in [Install -> Task \union {None}] /\ upd \in [Charger -> Update] /\ overlapped \subseteq Charger
  BY DEF StartInstall, Sets, UpdateInv, CacheInv
<1>2. ServerTypeOK'
  BY <1>1 DEF UpdateInv, ServerTypeOK, serverVars, connVars
<1>3. /\ v \in Update /\ v.state = upd[cp].state /\ v.target = upd[cp].target /\ v.selected = f
  BY <1>1 DEF Update, Progress, NoProgress
<1> HIDE DEF v
<1>4. f # None
  BY FirmwareAssumption
<1>5. /\ upd' \in [Charger -> Update] /\ overlapped \subseteq overlapped' /\ overlapped' \subseteq Charger
      /\ \A b \in Charger : /\ upd'[b].state = upd[b].state /\ upd'[b].target = upd[b].target
                            /\ upd'[b].selected = IF b = cp THEN f ELSE upd[b].selected
  BY <1>1, <1>3
<1>6. Reached'
  BY <1>1, <1>5 DEF UpdateInv, Reached, serverVars, connVars
<1>7. Shown'
  BY <1>1, <1>5 DEF UpdateInv, Shown, InProgress, external
<1>8. /\ task'[t] = new /\ ~Busy(t) /\ new.cp = cp /\ new.file = f
      /\ \A s \in Install \ {t} : task'[s] = task[s] /\ (Busy(s)' <=> Busy(s))
                                  /\ (Busy(s) => task[s].cp \in Charger)
  BY <1>1 DEF Busy, Task, Over
<1> HIDE DEF new
<1>9. \A s \in Install \ {t} : Busy(s) /\ task[s].cp = cp => cp \in overlapped'
  BY <1>1
<1>10. Chosen'
  <2>1. ASSUME NEW s \in Install, Busy(s)'
        PROVE  /\ upd'[task'[s].cp].selected # None
               /\ task'[s].cp \notin overlapped' => upd'[task'[s].cp].selected = task'[s].file
    <3>1. CASE s = t
      BY <1>4, <1>5, <1>8, <3>1
    <3>2. CASE s # t
      BY <1>4, <1>5, <1>8, <1>9, <2>1, <3>2 DEF UpdateInv, Chosen
    <3> QED BY <3>1, <3>2
  <2>2. ASSUME NEW r \in Install, NEW s \in Install, r # s, Busy(r)', Busy(s)', task'[r].cp = task'[s].cp
        PROVE  task'[r].cp \in overlapped'
    <3>1. CASE r = t
      BY <1>8, <1>9, <2>2, <3>1
    <3>2. CASE s = t
      BY <1>8, <1>9, <2>2, <3>2
    <3>3. CASE r # t /\ s # t
      BY <1>5, <1>8, <2>2, <3>3 DEF UpdateInv, Chosen
    <3> QED BY <3>1, <3>2, <3>3
  <2> QED BY <2>1, <2>2 DEF Chosen, Busy
<1> QED BY <1>0, <1>1, <1>2, <1>5, <1>6, <1>7, <1>10 DEF UpdateInv, external

LEMMA BrowseStep ==
  ASSUME UpdateInv, [Next]_vars, NEW cp \in Charger, Browse(cp)
  PROVE  UpdateInv'
<1> DEFINE v == [upd[cp] EXCEPT !.selected = Latest]
<1>0. CacheInv' /\ TableInv'
  BY CacheInductive, TableInductive DEF UpdateInv
<1>1. /\ upd[cp].selected = None /\ upd' = [upd EXCEPT ![cp] = v] /\ incidents' = incidents + 1
      /\ UNCHANGED <<serverVars, task, external, history>>
      /\ upd \in [Charger -> Update] /\ incidents \in Nat /\ Latest \in File
  BY UpdateAssumption DEF Browse, Counted, Sets, UpdateInv
<1>2. v \in Update /\ v.state = upd[cp].state /\ v.target = upd[cp].target
  BY <1>1 DEF Update
<1> HIDE DEF v
<1>3. /\ upd' \in [Charger -> Update] /\ incidents' \in Nat
      /\ \A b \in Charger : /\ upd'[b].state = upd[b].state /\ upd'[b].target = upd[b].target
                            /\ upd[b].selected # None => upd'[b] = upd[b]
  BY <1>1, <1>2
<1>4. ServerTypeOK'
  BY <1>1 DEF UpdateInv, ServerTypeOK, serverVars, connVars
<1>5. Reached'
  BY <1>1, <1>3 DEF UpdateInv, Reached, serverVars, connVars
<1>6. Shown'
  BY <1>1, <1>3 DEF UpdateInv, Shown, InProgress, external, history
<1>7. \A t \in Install : Busy(t) => task[t].cp \in Charger
  BY DEF UpdateInv, CacheInv, Busy, Task, Over
<1>8. Chosen'
  BY <1>1, <1>3, <1>7 DEF UpdateInv, Chosen, Busy, history
<1> QED BY <1>0, <1>1, <1>3, <1>4, <1>5, <1>6, <1>8 DEF UpdateInv, external, history

\* A reboot settles what was asked, if it can tell the version, and revives nothing.
LEMMA RebootSettles ==
  ASSUME UpdateInv, NEW cp \in Charger, Reboot(cp)
  PROVE  /\ upd' \in [Charger -> Update] /\ Keeps(upd[cp], upd'[cp])
         /\ running' \in [Charger -> File \union {Old}]
         /\ (asked[cp] # None /\ upd[cp].target \notin Unversioned) \/ ~InProgress(upd[cp]) =>
              ~InProgress(upd'[cp])
         /\ \A b \in Charger : b # cp => upd'[b] = upd[b]
<1> DEFINE u == Restarting(upd[cp])
           v == Observed(u, running'[cp])
           p == [u.progress EXCEPT !.moving = FALSE]
           q == [u.progress EXCEPT !.moving = FALSE, !.done = TRUE]
<1>1. upd \in [Charger -> Update] /\ upd' = [upd EXCEPT ![cp] = v]
  BY DEF Reboot, Sets, UpdateInv
<1>2. Follows(upd[cp], u) /\ (InProgress(u) => InProgress(upd[cp])) /\ u \in Update /\ u.progress \in Progress
      /\ u.target = upd[cp].target
  BY <1>1, RestartingFollows, UpdateTypes DEF Follows, Keeps
<1>3. p \in Progress /\ q \in Progress
  BY <1>2 DEF Progress
<1>4. \/ v = u /\ (InProgress(u) => u.target \in Unversioned \union {None})
      \/ v = [u EXCEPT !.state = "Failed", !.progress = p]
      \/ v = [u EXCEPT !.state = "Failed", !.progress = q]
      \/ v = [u EXCEPT !.state = "Installed", !.progress = q]
  BY <1>2 DEF Observed, Update
<1> HIDE DEF u, v, p, q
<1>5. \A s \in Final, r \in Progress : LET w == [u EXCEPT !.state = s, !.progress = r]
                                      IN  Follows(u, w) /\ w.state = s
  <2> SUFFICES ASSUME NEW s \in Final, NEW r \in Progress
               PROVE  Follows(u, [u EXCEPT !.state = s, !.progress = r]) /\ [u EXCEPT !.state = s, !.progress = r].state = s
    OBVIOUS
  <2>1. s \in Ongoing \union Final
    OBVIOUS
  <2> QED BY <1>2, <2>1, SetState DEF Update
<1>6. Follows(u, v) /\ ((v = u /\ (InProgress(u) => u.target \in Unversioned \union {None})) \/ v.state \in Final)
  <2>1. Follows(u, u)
    BY <1>2 DEF Follows, Keeps
  <2>2. "Failed" \in Final /\ "Installed" \in Final
    BY DEF Final
  <2>3. \A r \in Progress : v \in {[u EXCEPT !.state = "Failed", !.progress = r],
                                  [u EXCEPT !.state = "Installed", !.progress = r]}
          => Follows(u, v) /\ v.state \in Final
    <3> TAKE r \in Progress
    <3>1. CASE v = [u EXCEPT !.state = "Failed", !.progress = r]
      BY <1>5, <2>2, <3>1, Zenon
    <3>2. CASE v = [u EXCEPT !.state = "Installed", !.progress = r]
      BY <1>5, <2>2, <3>2, Zenon
    <3> QED BY <3>1, <3>2
  <2>4. CASE v = u /\ (InProgress(u) => u.target \in Unversioned \union {None})
    BY <2>1, <2>4
  <2>5. CASE ~(v = u /\ (InProgress(u) => u.target \in Unversioned \union {None}))
    <3>1. Follows(u, v) /\ v.state \in Final
      BY <1>3, <1>4, <2>3, <2>5
    <3> QED BY <3>1
  <2> QED BY <2>4, <2>5
<1>7. v \in Update /\ Keeps(upd[cp], v)
  BY <1>2, <1>6 DEF Follows, Keeps
<1>8. (asked[cp] # None /\ upd[cp].target \notin Unversioned) \/ ~InProgress(upd[cp]) => ~InProgress(v)
  <2>1. asked[cp] # None => u.target # None
    BY <1>2 DEF UpdateInv, Shown
  <2>2. v.state \in Final => ~InProgress(v)
    BY DEF Final, InProgress, Ongoing
  <2>3. CASE v = u /\ (InProgress(u) => u.target \in Unversioned \union {None})
    BY <1>2, <2>1, <2>3
  <2> QED BY <1>6, <2>2, <2>3
<1>9. running' \in [Charger -> File \union {Old}]
  <2>1. \A c \in Conn : c \in whole => file[c] \in File
    BY DEF UpdateInv, Reached
  <2> QED BY <2>1 DEF Reboot, UpdateInv, ServerTypeOK
<1> QED BY <1>1, <1>7, <1>8, <1>9

LEMMA RebootStep ==
  ASSUME UpdateInv, [Next]_vars, NEW cp \in Charger, Reboot(cp)
  PROVE  UpdateInv'
<1>0. CacheInv' /\ TableInv'
  BY CacheInductive, TableInductive DEF UpdateInv
<1>1. /\ upd' \in [Charger -> Update] /\ Keeps(upd[cp], upd'[cp])
      /\ running' \in [Charger -> File \union {Old}]
      /\ (asked[cp] # None /\ upd[cp].target \notin Unversioned) \/ ~InProgress(upd[cp]) =>
           ~InProgress(upd'[cp])
      /\ \A b \in Charger : b # cp => upd'[b] = upd[b]
  BY RebootSettles
<1>2. /\ want' = [want EXCEPT ![cp] = None] /\ asked' = [asked EXCEPT ![cp] = None]
      /\ incidents' = incidents + 1 /\ incidents \in Nat
      /\ UNCHANGED <<serverVars, task, misled, overlapped>>
      /\ want \in [Charger -> File \union {None}] /\ asked \in [Charger -> File \union {None}]
      /\ upd \in [Charger -> Update]
  BY DEF Reboot, Counted, UpdateInv, CacheInv
<1>3. \A b \in Charger : Keeps(upd[b], upd'[b])
  BY <1>1, <1>2 DEF Keeps
<1>4. ServerTypeOK' /\ incidents' \in Nat /\ asked' \in [Charger -> File \union {None}]
  BY <1>2 DEF UpdateInv, ServerTypeOK, serverVars, connVars
<1>5. Reached'
  BY <1>2, <1>3 DEF UpdateInv, Reached, serverVars, connVars, Keeps
<1>6. Shown'
  <2>1. InProgress(upd'[cp]) /\ upd'[cp].target \notin Unversioned => cp \in misled
    BY <1>1 DEF UpdateInv, Shown, Keeps
  <2> QED BY <1>1, <1>2, <2>1 DEF UpdateInv, Shown
<1>7. \A t \in Install : Busy(t) => task[t].cp \in Charger
  BY DEF UpdateInv, CacheInv, Busy, Task, Over
<1>8. Chosen'
  BY <1>2, <1>3, <1>7 DEF UpdateInv, Chosen, Busy, Keeps
<1> QED BY <1>0, <1>1, <1>2, <1>4, <1>5, <1>6, <1>8 DEF UpdateInv

LEMMA UpdateInductive == UpdateInv /\ [Next]_vars => UpdateInv'
<1> SUFFICES ASSUME UpdateInv, [Next]_vars PROVE UpdateInv'
  OBVIOUS
<1>1. CASE UNCHANGED vars
  <2>1. CacheInv' /\ TableInv'
    BY CacheInductive, TableInductive DEF UpdateInv
  <2> QED BY <1>1, <2>1 DEF UpdateInv, ServerTypeOK, Reached, Shown, Chosen, Busy, vars, serverVars,
             connVars, external, history
<1>2. ASSUME NEW cp \in Charger, Browse(cp) \/ CancelUpdate(cp) \/ Reboot(cp) PROVE UpdateInv'
  BY <1>2, BrowseStep, CancelStep, RebootStep
<1>3. ASSUME NEW cp \in Charger, NEW s \in Notification, FirmwareStatus(cp, s) PROVE UpdateInv'
  BY <1>3, StatusStep
<1>4. ASSUME NEW t \in Install, NEW cp \in Charger, NEW f \in File, StartInstall(t, cp, f) PROVE UpdateInv'
  BY <1>4, StartedStep
<1>5. ASSUME NEW t \in Install, InstallStep(t) PROVE UpdateInv'
  BY <1>5, StageStep, AskedStep, AnsweredStep DEF InstallStep
<1>6. ASSUME NEW c \in Conn, (\E cp \in Charger : Connects(c, cp)) \/ Requests(c) \/ Thread(c)
      PROVE  UpdateInv'
  BY <1>6, ServerSteps
<1> QED BY <1>1, <1>2, <1>3, <1>4, <1>5, <1>6 DEF Next

\* Only a request or a notification takes a settled update up again.
LEMMA OnlyAskRevives ==
  ASSUME UpdateInv, [Next]_vars, NEW cp \in Charger, Settled(upd[cp]), InProgress(upd'[cp])
  PROVE  \/ \E t \in Install : Ask(t) /\ task[t].cp = cp
         \/ \E s \in Notification : FirmwareStatus(cp, s)
<1>1. upd \in [Charger -> Update] /\ ~InProgress(upd[cp]) /\ upd'[cp].state # upd[cp].state
  BY UpdateTypes DEF UpdateInv, InProgress
<1>2. UpdateInv'
  BY UpdateInductive
<1>3. upd'[cp] \in Update /\ ~Settled(upd'[cp])
  BY <1>2, UpdateTypes DEF UpdateInv
<1>4. ~UNCHANGED vars
  BY <1>1 DEF vars
<1>5. ASSUME NEW b \in Charger, Browse(b) \/ CancelUpdate(b) \/ Reboot(b) PROVE FALSE
  <2>1. CASE Browse(b)
    BY <1>1, <2>1 DEF Browse, Sets, Update
  <2>2. CASE CancelUpdate(b)
    BY <1>1, <2>2, CancelLeads
  <2>3. CASE Reboot(b)
    BY <1>1, <2>3, RebootSettles
  <2> QED BY <1>5, <2>1, <2>2, <2>3
<1>6. ASSUME NEW b \in Charger, NEW s \in Notification, FirmwareStatus(b, s) PROVE b = cp
  BY <1>1, <1>6 DEF FirmwareStatus, Sets
<1>7. ASSUME NEW t \in Install, NEW b \in Charger, NEW f \in File, StartInstall(t, b, f) PROVE FALSE
  BY <1>1, <1>7 DEF StartInstall, Sets, Update
<1>8. ASSUME NEW t \in Install, InstallStep(t) PROVE Ask(t) /\ task[t].cp = cp
  <2>1. CASE CheckCache(t) \/ Unlink(t) \/ Fetched(t)
    BY <1>1, <2>1 DEF CheckCache, Unlink, Fetched
  <2>2. CASE Ask(t)
    BY <1>1, <2>2 DEF Ask, Sets
  <2>3. CASE Answered(t)
    <3> DEFINE b == task[t].cp
               p == [upd[b].progress EXCEPT !.moving = FALSE]
    <3>1. b \in Charger
      BY <2>3 DEF Answered, At, UpdateInv, CacheInv, Task, Over
    <3>2. \/ upd' = upd
          \/ upd' = [upd EXCEPT ![b] = [upd[b] EXCEPT !.progress = p]]
          \/ upd' = [upd EXCEPT ![b] = [upd[b] EXCEPT !.state = "Failed", !.progress = p]]
      BY <1>1, <2>3, <3>1 DEF Answered, Sets, Update
    <3> HIDE DEF b, p
    <3>3. upd'[cp].state \in {upd[cp].state, "Failed"}
      BY <1>1, <3>1, <3>2 DEF Update
    <3> QED BY <1>1, <1>3, <3>3 DEF Settled, Final
  <2> QED BY <1>8, <2>1, <2>2, <2>3 DEF InstallStep
<1>9. ASSUME NEW c \in Conn, (\E b \in Charger : Connects(c, b)) \/ Requests(c) \/ Thread(c) PROVE FALSE
  BY <1>3, <1>9, ServerSteps DEF Follows
<1> QED BY <1>4, <1>5, <1>6, <1>7, <1>8, <1>9 DEF Next

-----------------------------------------------------------------------------
(* Theorems *)

\* A charger that was told to fetch a file finds it, however many installations
\* check, unlink and download it (_async_cache_firmware_file).
THEOREM WantedFileIsThere == Spec => []RequestedFileIsCached
<1>1. CacheInv => RequestedFileIsCached
  BY DEF CacheInv
<1> QED BY <1>1, CacheInitial, CacheInductive, PTL DEF Spec

\* What sends is in the table a cancellation searches (_handle_download).
THEOREM SenderIsCancellable == Spec => []ServingIsRegistered
<1>1. TableInv => ServingIsRegistered
  BY DEF TableInv, Tabled, ServingIsRegistered
<1> QED BY <1>1, TableInitial, TableInductive, PTL DEF Spec

\* For any chargers, files, connections and installations: what is shown, what
\* was asked and what is selected fit together.
THEOREM UpdateInvariance == Spec => []UpdateInv
  BY UpdateInitial, UpdateInductive, PTL DEF Spec

\* The tables, the tasks and the update fields keep their shape.
THEOREM UpdateTypeCorrect == Spec => []TypeOK
<1>1. UpdateInv => TypeOK
  BY DEF UpdateInv, CacheInv, TypeOK, Task
<1> QED BY <1>1, UpdateInvariance, PTL

\* No leftover of an older connection, late event or notification shows a charger
\* as updating that was not asked since its last restart, if a reboot can settle
\* its file; and the target a reboot is compared with is the file it was told to
\* fetch (record_firmware_transfer_event, _charge_point_id_for_firmware_event).
THEOREM InProgressIsAsked == Spec => []InProgressWasAsked
<1>1. UpdateInv => InProgressWasAsked
  BY DEF UpdateInv, Shown, InProgressWasAsked
<1> QED BY <1>1, UpdateInvariance, PTL

\* An update that has ended is under way again only when the portal asks or the
\* charger reports it: no transfer event, reboot, page view or cancellation, of
\* this charger or another one, revives it (record_firmware_transfer_event).
THEOREM SettledUpdatesStay == Spec => SettledStaysSettled
<1>1. ASSUME UpdateInv, [Next]_vars
      PROVE  [\A cp \in Charger : Settled(upd[cp]) /\ InProgress(upd'[cp]) =>
                \/ \E t \in Install : Ask(t) /\ task[t].cp = cp
                \/ \E s \in Notification : FirmwareStatus(cp, s)]_vars
  BY <1>1, OnlyAskRevives
<1> QED BY <1>1, UpdateInvariance, PTL DEF Spec, SettledStaysSettled

\* A reboot settles every update that was asked for and whose file carries a
\* version, whoever's events have moved it meanwhile
\* (_mark_firmware_result_from_observed_version).
THEOREM RebootsSettle == Spec => BootSettlesAsked
<1>1. ASSUME UpdateInv, [Next]_vars
      PROVE  [\A cp \in Charger :
                Reboot(cp) /\ asked[cp] # None /\ upd[cp].target \notin Unversioned
                  => ~InProgress(upd'[cp])]_vars
  BY <1>1, RebootSettles
<1> QED BY <1>1, UpdateInvariance, PTL DEF Spec, BootSettlesAsked
=============================================================================
