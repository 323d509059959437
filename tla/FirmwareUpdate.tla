--------------------------- MODULE FirmwareUpdate ---------------------------
(***************************************************************************)
(* A firmware update as the coordinator sees it: the portal's installation *)
(* (manifest, per-file lock, download into the cache, UpdateFirmware), the *)
(* file server's transfer events, the charger's own status notifications,  *)
(* its reboot, and the portal's cancellation.                              *)
(*                                                                         *)
(* A file stands for the version it holds.  Every charger reports  *)
(* from its own address, so an event that names no known file reaches the  *)
(* charger at the other end of its connection.  Progress is the part of    *)
(* firmware_transfer_progress a decision is taken on.                      *)
(***************************************************************************)
EXTENDS FirmwareServer, SequencesExt

CONSTANTS Install,    \* installations the portal asks for
          Latest,     \* the newest file of the manifest
          Old,        \* the version the chargers run at first
          Unversioned,  \* files whose name carries no version
          MaxIncidents  \* page views, cancellations, notifications and reboots

Ongoing == {"Requested", "Downloading", "Downloaded", "Installing"}
Final == {"Installed", "Failed", "Cancelled"}

ASSUME UpdateAssumption ==
  /\ Latest \in File /\ Old \notin File \union {None}
  /\ Unversioned \subseteq File
  /\ None \notin Ongoing \union Final
  /\ Install \subseteq Nat
  /\ MaxIncidents \in Nat

VARIABLES
  upd,      \* per charger: the update fields of its ChargerState
  task,     \* per installation: [cp, file, stage]
  want,     \* charger: the file it was told to fetch
  running,  \* charger: the version it runs
  incidents,  \* bound: how many of them there were
  asked,      \* history: the file of the last UpdateFirmware since the last boot
  misled,     \* history: chargers that were given another one's event
  overlapped  \* history: chargers with two installations at once

external == <<want, running>>
history == <<asked, misled, overlapped>>
vars == <<serverVars, upd, task, external, incidents, history>>

UpdateState == {None} \union Ongoing \union Final
InProgress(u) == u.state \in Ongoing
Settled(u) == u.state \in Final

\* moving: the last event recorded is one that a cancellation counts as a transfer
\* under way; done: bytes have been sent.
Moving == {"download_started", "request_received", "chunk_sent", "ocpp_downloading"}
Progress == [moving : BOOLEAN, done : BOOLEAN, conn : Conn \union {None},
             file : File \union {None}]
NoProgress == [moving |-> FALSE, done |-> FALSE, conn |-> None, file |-> None]
Update == [state : UpdateState, target : File \union {None}, selected : File \union {None},
           progress : Progress]

\* An installation that has ended.
Over == [cp |-> None, file |-> None, stage |-> "ended"]

TypeOK ==
  /\ ServerTypeOK
  /\ upd \in [Charger -> Update]
  /\ task \in [Install -> [cp : Charger, file : File,
               stage : {"checking", "missing", "fetching", "ready", "calling"}] \union {None, Over}]
  /\ want \in [Charger -> File \union {None}]
  /\ running \in [Charger -> File \union {Old}]
  /\ incidents \in Nat
  /\ asked \in [Charger -> File \union {None}]
  /\ misled \subseteq Charger /\ overlapped \subseteq Charger

Init ==
  /\ ServerInit
  /\ upd = [cp \in Charger |-> [state |-> None, target |-> None, selected |-> None,
                                progress |-> NoProgress]]
  /\ task = [t \in Install |-> None]
  /\ want = [cp \in Charger |-> None] /\ running = [cp \in Charger |-> Old]
  /\ incidents = 0
  /\ asked = [cp \in Charger |-> None] /\ misled = {} /\ overlapped = {}

Counted == incidents < MaxIncidents /\ incidents' = incidents + 1

Sets(cp, u) == upd' = [upd EXCEPT ![cp] = u]

-----------------------------------------------------------------------------
(* Installation *)

\* The firmware page: a refreshed manifest selects its newest file.
Browse(cp) ==
  /\ Counted
  /\ upd[cp].selected = None
  /\ Sets(cp, [upd[cp] EXCEPT !.selected = Latest])
  /\ UNCHANGED <<serverVars, task, external, history>>

Busy(t) == task[t] # None /\ task[t].stage # "ended"
At(t, stage) == task[t] # None /\ task[t].stage = stage
To(t, stage) == task' = [task EXCEPT ![t].stage = stage]
Ended(t) == task' = [task EXCEPT ![t] = Over]

\* async_install_firmware_file up to the download; what it refuses changes nothing.
StartInstall(t, cp, f) ==
  /\ task[t] = None /\ \A s \in Install : s < t => task[s] # None
  /\ task' = [task EXCEPT ![t] = [cp |-> cp, file |-> f, stage |-> "checking"]]
  /\ Sets(cp, [upd[cp] EXCEPT !.selected = f,
                 !.progress = [NoProgress EXCEPT !.file = f]])
  /\ overlapped' = IF \E s \in Install : Busy(s) /\ task[s].cp = cp
                   THEN overlapped \union {cp} ELSE overlapped
  /\ UNCHANGED <<serverVars, external, incidents, asked, misled>>

\* Mutant: no lock is taken.
LockFree_Mutant(f) == f \in File

LockFree(f) == \A t \in Install : task[t] # None /\ task[t].file = f =>
                 task[t].stage \notin {"missing", "fetching"}

\* The lock is taken and the cached file compared with the manifest.
CheckCache(t) ==
  /\ At(t, "checking") /\ LockFree(task[t].file)
  /\ To(t, IF task[t].file \in cache THEN "ready" ELSE "missing")
  /\ UNCHANGED <<serverVars, upd, external, incidents, history>>

Unlink(t) ==
  /\ At(t, "missing") /\ To(t, "fetching")
  /\ cache' = cache \ {task[t].file}
  /\ UNCHANGED <<connVars, open, whole, requests, downloads, cancelled, upd,
                 external, incidents, history>>

\* The verified file replaces the target, or the download fails and removes it.
Fetched(t) ==
  /\ At(t, "fetching")
  /\ \/ To(t, "ready") /\ cache' = cache \union {task[t].file}
     \/ Ended(t) /\ cache' = cache \ {task[t].file}
  /\ UNCHANGED <<connVars, open, whole, requests, downloads, cancelled, upd,
                 external, incidents, history>>

\* _start_firmware_update_session: the target is the file selected now.
Session(u) ==
  [u EXCEPT !.state = "Requested", !.target = u.selected,
            !.progress = [NoProgress EXCEPT !.file = u.selected]]

\* async_update_firmware up to its await.  From here on the charger may have
\* the request, whatever becomes of the answer.
Ask(t) ==
  /\ At(t, "ready")
  /\ LET cp == task[t].cp
     IN  IF InProgress(upd[cp]) THEN Ended(t) /\ UNCHANGED <<upd, want, asked>>
         ELSE /\ To(t, "calling")
              /\ Sets(cp, Session(upd[cp]))
              /\ asked' = [asked EXCEPT ![cp] = task[t].file]
              /\ \/ want' = [want EXCEPT ![cp] = task[t].file]
                 \/ UNCHANGED want
  /\ UNCHANGED <<serverVars, running, incidents, misled, overlapped>>

\* Accepted, or cancelled with its session: nothing more is recorded.  A timeout
\* keeps the request; any other error fails it, if the charger had not got it.
Answered(t) ==
  /\ At(t, "calling") /\ Ended(t)
  /\ LET cp == task[t].cp
     IN  \/ UNCHANGED upd
         \/ Sets(cp, [upd[cp] EXCEPT !.progress.moving = FALSE])
         \/ /\ want[cp] = None
            /\ Sets(cp, [upd[cp] EXCEPT !.state = "Failed", !.progress.moving = FALSE])
  /\ UNCHANGED <<serverVars, external, incidents, history>>

InstallStep(t) == CheckCache(t) \/ Unlink(t) \/ Fetched(t) \/ Ask(t) \/ Answered(t)

-----------------------------------------------------------------------------
(* Transfer events *)

Named == {"request_received", "overlapping_request", "file_not_found", "download_started",
          "checksum_ok", "checksum_mismatch", "checksum_missing", "file_sent",
          "transfer_cancelled", "transfer_cancel_requested"}
RetryEvent == {"connect", "request_received", "chunk_sent", "checksum_missing", "checksum_ok",
               "file_sent", "disconnect", "download_started", "overlapping_request", "socket_timeout"}
TerminalError == {"file_not_found", "checksum_mismatch", "client_error", "socket_timeout"}

\* _charge_point_id_for_firmware_event: the first charger that names the file or
\* whose progress carries the trace, else the one at that address.  The reader
\* of the socket puts another trace on its timeouts.
Claims(u, e) ==
  \/ e.name \in Named /\ e.file \in {u.target, u.selected}
  \/ e.name # "socket_timeout" /\ u.progress.conn = e.conn

Owner(us, e) ==
  IF \E cp \in Charger : Claims(us[cp], e)
  THEN CHOOSE cp \in Charger : Claims(us[cp], e) /\ \A b \in Charger : Claims(us[b], e) => cp <= b
  ELSE e.peer

Noted(u, e) == [u.progress EXCEPT !.moving = e.name \in Moving,
                  !.file = IF e.name \in Named THEN e.file ELSE @]
Traced(u, e) == [Noted(u, e) EXCEPT !.conn = e.conn]

Downloaded(u, e) == [u EXCEPT !.state = "Downloaded",
                       !.progress = [Noted(u, e) EXCEPT !.moving = FALSE, !.done = TRUE]]

Restarting(u) ==
  IF u.state \in {"Downloaded", "Installing"}
  THEN [u EXCEPT !.state = "Installing", !.progress.moving = FALSE, !.progress.done = TRUE]
  ELSE u

\* Mutant: only a cancelled update ignores the events of its connections.
Dropped_Mutant(u, e) == u.state = "Cancelled" /\ e.name # "transfer_cancelled"

\* Mutant: the events of a cancelled update are recorded again.
Dropped_Forgets(u, e) == u.state \in Final \ {"Cancelled"} /\ e.name # "transfer_cancelled"

\* What the guards at the head of record_firmware_transfer_event turn away.
Dropped(u, e) == Settled(u) /\ e.name # "transfer_cancelled"

Late(u, e) == u.state \in {"Downloaded", "Installing"} /\ e.name \in RetryEvent

\* record_firmware_transfer_event, for the charger it is about.
After(u, e) ==
  IF Dropped(u, e) THEN u
  ELSE IF Late(u, e) THEN IF e.name = "disconnect" THEN Restarting(u) ELSE u
  ELSE IF e.name = "download_started"
       THEN [u EXCEPT !.progress = [Traced(u, e) EXCEPT !.done = FALSE]]
  ELSE IF e.name = "request_received" THEN [u EXCEPT !.progress = Traced(u, e)]
  ELSE IF e.name = "chunk_sent"
       THEN [u EXCEPT !.progress = [Traced(u, e) EXCEPT !.done = TRUE]]
  ELSE IF e.name \in {"checksum_ok", "checksum_missing", "file_sent"} THEN Downloaded(u, e)
  ELSE IF e.name = "disconnect" /\ u.progress.done THEN Restarting(Downloaded(u, e))
  ELSE IF e.name \in TerminalError THEN [u EXCEPT !.state = "Failed", !.progress = Noted(u, e)]
  ELSE IF e.name = "transfer_cancelled"
       THEN [u EXCEPT !.state = "Cancelled", !.progress = Noted(u, e)]
  ELSE [u EXCEPT !.progress = Noted(u, e)]

\* The loop runs the events posted by connection c in their order.
Handled(acc, e) ==
  LET cp == Owner(acc.upd, e)
  IN  [upd |-> [acc.upd EXCEPT ![cp] = After(@, e)],
       misled |-> IF cp = e.peer THEN acc.misled ELSE acc.misled \union {cp}]

RecordEvents(c, cp, f, names) ==
  LET after(acc, i) == IF i > Len(names) THEN acc
        ELSE Handled(acc, [name |-> names[i], conn |-> c, peer |-> cp, file |-> f])
  IN  \E first \in {after([upd |-> upd, misled |-> misled], 1)} :
      \E second \in {after(first, 2)} : \E third \in {after(second, 3)} :
        upd' = third.upd /\ misled' = third.misled

-----------------------------------------------------------------------------
(* Cancellation, status notifications and reboots *)

\* cancel_firmware_update: refused unless a transfer is seen to be under way.
MayCancel(u) ==
  u.state = "Downloading" \/ u.progress.moving

Cancelled(u) ==
  IF u.state # "Cancelled" /\ MayCancel(u)
  THEN [u EXCEPT !.state = "Cancelled", !.progress.moving = FALSE,
                 !.progress.file = IF @ = None THEN u.target ELSE @]
  ELSE u

CancelEvent(c) ==
  [name |-> "transfer_cancel_requested", conn |-> c, peer |-> peer[c], file |-> file[c]]

\* What the loop makes of it: the coordinator's own cancellation comes first, then
\* one event for each session the server has cancelled.  These change nothing that
\* decides whom an event is about, and of several about a charger the last one shows.
AfterCancel(cp, targets) ==
  LET owner(c) == Owner(upd, CancelEvent(c))
      own == [upd EXCEPT ![cp] = Cancelled(@)]
      ends(b, c) == owner(c) = b /\ \A d \in targets : owner(d) = b => d <= c
  IN  /\ \E last \in [Charger -> targets \union {None}] :
           /\ \A b \in Charger : IF \E c \in targets : owner(c) = b
                               THEN last[b] # None /\ ends(b, last[b]) ELSE last[b] = None
           /\ upd' = [b \in Charger |-> IF last[b] = None THEN own[b]
                                        ELSE After(own[b], CancelEvent(last[b]))]
      /\ misled' = misled \union {owner(c) : c \in {d \in targets : owner(d) # peer[d]}}

\* api_firmware_cancel
CancelUpdate(cp) ==
  /\ Counted
  /\ LET u == upd[cp]
         name == IF u.progress.file = None THEN u.target ELSE u.progress.file
     IN  /\ CancelDownload(name, u.progress.conn)
         /\ AfterCancel(cp, Targets(name, u.progress.conn))
  /\ UNCHANGED <<task, external, asked, overlapped>>

Reported(u, status) ==
  IF status = "Downloaded"
  THEN [u EXCEPT !.state = "Downloaded", !.progress.moving = FALSE, !.progress.done = TRUE]
  ELSE IF status = "Downloading"
  THEN [u EXCEPT !.state = status, !.progress.moving = TRUE]
  ELSE IF status = "Installing"
  THEN [u EXCEPT !.state = status, !.progress.moving = FALSE, !.progress.done = TRUE]
  ELSE [u EXCEPT !.state = IF status = "Installed" THEN status ELSE "Failed",
                 !.progress.moving = FALSE, !.progress.done = TRUE]

\* The notifications that change the state; the failures have one effect.
Notification == {"Downloading", "Downloaded", "Installing", "Installed", "DownloadFailed"}

\* FirmwareStatusNotification, from a charger that was told to update.
FirmwareStatus(cp, status) ==
  /\ Counted
  /\ want[cp] # None
  /\ Sets(cp, Reported(upd[cp], status))
  /\ UNCHANGED <<serverVars, task, external, history>>

\* Mutant: a request that timed out is not compared with the version.
Observed_Mutant(u, version) ==
  IF u.state \notin {"Downloading", "Downloaded", "Installing", "Installed"} THEN u
  ELSE IF u.target \in Unversioned \union {None}
  THEN IF u.state \in {"Requested", "Downloading"}
       THEN [u EXCEPT !.state = "Failed", !.progress.moving = FALSE] ELSE u
  ELSE IF u.target = version
  THEN [u EXCEPT !.state = "Installed", !.progress.moving = FALSE, !.progress.done = TRUE]
  ELSE [u EXCEPT !.state = "Failed", !.progress.moving = FALSE, !.progress.done = TRUE]

\* _mark_firmware_result_from_observed_version
Observed(u, version) ==
  IF ~InProgress(u) /\ u.state # "Installed" THEN u
  ELSE IF u.target \in Unversioned \union {None}
  THEN IF u.state \in {"Requested", "Downloading"}
       THEN [u EXCEPT !.state = "Failed", !.progress.moving = FALSE] ELSE u
  ELSE IF u.target = version
  THEN [u EXCEPT !.state = "Installed", !.progress.moving = FALSE, !.progress.done = TRUE]
  ELSE [u EXCEPT !.state = "Failed", !.progress.moving = FALSE, !.progress.done = TRUE]

\* The charger restarts, on the new version if it got the whole file: its
\* session closes, a new one opens and it sends BootNotification.
Reboot(cp) ==
  /\ Counted
  /\ want' = [want EXCEPT ![cp] = None]
  /\ running' = [running EXCEPT ![cp] =
       IF \E c \in whole : peer[c] = cp /\ file[c] = want[cp] THEN want[cp] ELSE @]
  /\ Sets(cp, Observed(Restarting(upd[cp]), running'[cp]))
  /\ asked' = [asked EXCEPT ![cp] = None]
  /\ UNCHANGED <<serverVars, task, misled, overlapped>>

\* What a step of connection c's thread leaves alone once its events are handled.
Posts(c, names) ==
  /\ RecordEvents(c, peer'[c], file'[c], names)
  /\ UNCHANGED <<task, external, incidents, asked, overlapped>>

\* A charger that was told to update opens a connection and asks for its file,
\* and may do so again.
Connects(c, cp) ==
  \E names \in Batch : want[cp] # None /\ Accept(c, cp, names) /\ Posts(c, names)

Requests(c) ==
  \E names \in Batch :
    /\ thread[c] = "connected" /\ want[peer[c]] # None
    /\ Request(c, want[peer[c]], names) /\ Posts(c, names)

Thread(c) == \E names \in Batch : ThreadStep(c, names) /\ Posts(c, names)

Next ==
  \/ \E cp \in Charger : Browse(cp) \/ CancelUpdate(cp) \/ Reboot(cp)
  \/ \E cp \in Charger, s \in Notification : FirmwareStatus(cp, s)
  \/ \E t \in Install, cp \in Charger, f \in File : StartInstall(t, cp, f)
  \/ \E t \in Install : InstallStep(t)
  \/ \E c \in Conn, cp \in Charger : Connects(c, cp)
  \/ \E c \in Conn : Requests(c) \/ Thread(c)

Spec == Init /\ [][Next]_vars

-----------------------------------------------------------------------------
(* Properties *)

\* No charger is shown as updating unless it was asked to update and has not
\* restarted since, as long as it was given no other charger's events and a
\* reboot can settle its file: leftovers of older connections start nothing.
\* Without two installations at once, the version a reboot is compared with is
\* the one it was told to fetch.
InProgressWasAsked ==
  \A cp \in Charger \ misled :
    InProgress(upd[cp]) /\ upd[cp].target \notin Unversioned =>
      /\ asked[cp] # None
      /\ cp \notin overlapped => upd[cp].target = asked[cp]

\* A charger told to fetch a file finds it in the cache, however many
\* installations of that file check, unlink and download it.
RequestedFileIsCached == \A cp \in Charger : want[cp] # None => want[cp] \in cache

\* A download the table still lists after its thread has ended failed before the
\* first chunk: no file is sent by a session that can no longer be cancelled.
ServingIsRegistered ==
  \A c \in Conn : /\ thread[c] = "serving" => c \in downloads
                  /\ thread[c] = "ended" /\ c \in downloads => c \notin whole

\* An update that ended, cancelled, failed or installed, is under way again only
\* when the portal asks anew or the charger itself reports it: the download a
\* cancellation came too early to find goes on, and its events revive nothing
\* (record_firmware_transfer_event, cancel_download).
SettledStaysSettled ==
  [][\A cp \in Charger : Settled(upd[cp]) /\ InProgress(upd'[cp]) =>
       \/ \E t \in Install : Ask(t) /\ task[t].cp = cp
       \/ \E s \in Notification : FirmwareStatus(cp, s)]_vars

\* A reboot settles an update that was asked for, whatever events have moved it
\* meanwhile, if the name of its file carries a version to compare with
\* (_mark_firmware_result_from_observed_version).
BootSettlesAsked ==
  [][\A cp \in Charger :
       Reboot(cp) /\ asked[cp] # None /\ upd[cp].target \notin Unversioned
         => ~InProgress(upd'[cp])]_vars

\* "... post-reboot firmware version are used to mark installed/failed"
\* (docs/MULTI_USER_API_PLAN.md:174): a reboot settles whatever was asked for.
\* Not kept by the code: counterexample by BootSettles.cfg.
BootSettles ==
  [][\A cp \in Charger : Reboot(cp) /\ asked[cp] # None => ~InProgress(upd'[cp])]_vars

\* "Reconnected firmware version is checked against the requested target"
\* (docs/MULTI_USER_API_PLAN.md:490): the verdict on an update under way is
\* Installed just when the charger runs the file it was told to fetch.
\* Not kept by the code: counterexample by BootChecksRequested.cfg.
BootChecksRequested ==
  [][\A cp \in Charger : Reboot(cp) /\ asked[cp] # None /\ InProgress(upd[cp]) =>
       (upd'[cp].state = "Installed" <=> running'[cp] = asked[cp])]_vars

\* "Two users/chargers can connect concurrently without state bleeding"
\* (docs/MULTI_USER_API_PLAN.md:475): a charger is shown as updating only if it
\* was asked to, also while another one updates with the same file.
\* Not kept by the code: counterexample by UpdatesAreOwn.cfg.
UpdatesAreOwn == \A cp \in Charger : InProgress(upd[cp]) => asked[cp] # None
=============================================================================
