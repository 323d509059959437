--------------------------- MODULE ChargerSessions ---------------------------
(***************************************************************************)
(* The life of a charger's WebSocket: OcppServer._handle_websocket, the    *)
(* connection registry of OcppCoordinator, and the charger rows and        *)
(* snapshots of AuthStore they read and write.                             *)
(*                                                                         *)
(* Everything runs on one asyncio loop, so a step is the code between two  *)
(* awaits that can suspend.  Two of them matter here.                      *)
(*   - A handshake that finds an open session closes it and awaits the     *)
(*     close.  aiohttp wakes the old handler first; only when that handler *)
(*     is suspended in a frame write does the wait end (peer's close frame *)
(*     or the 10 s close timeout) while the old session still exists.      *)
(*   - websocket.prepare.  aiohttp 3.11 suspends there only when the write *)
(*     buffer is full; PrepareMaySuspend says whether a run considers it.  *)
(* AuthStore calls are synchronous and belong to the step that makes them. *)
(*                                                                         *)
(* With an AuthStore every accepted connection is stateful, so the         *)
(* "unmanaged" branches of the handler never run and have no action.       *)
(* A refused connection (400, 401, 403) changes nothing and has none       *)
(* either.  Display fields, timestamps and the primary selection are       *)
(* abstracted away.                                                        *)
(***************************************************************************)
EXTENDS Naturals

CONSTANTS
  Conn,              \* connection attempts, each used once
  ChargePoint,       \* charge point identities
  ChargePointOf,     \* the identity in the URL path of each connection
  NoConn,            \* None
  PrepareMaySuspend, \* whether websocket.prepare is a suspension point
  MaxCrashes         \* bound on process deaths

ASSUME SessionAssumption ==
  /\ ChargePointOf \in [Conn -> ChargePoint]
  /\ NoConn \notin Conn
  /\ PrepareMaySuspend \in BOOLEAN
  /\ MaxCrashes \in Nat

VARIABLES
  handler,       \* where each connection's _handle_websocket task stands
  replaced,      \* the session a handshake waits to see closed
  closed,        \* session.websocket.closed
  stalled,       \* the session's task is suspended writing a frame
  sessions,      \* OcppServer._sessions
  callers,       \* OcppCoordinator._ocpp_callers
  registered,    \* keys of OcppCoordinator._connected_charge_points
  live,          \* keys of OcppCoordinator._charger_states
  connected,     \* ChargerState.connected of the live chargers
  snapshot,      \* the connection flag in charger_state_snapshots
  adoption,      \* the charger's row in the chargers table
  kicks,         \* chargers with a scheduled kick_charge_point task
  overlap,       \* history: two sessions of the charger have coexisted since
                 \* it last had none
  crashes

connVars  == <<handler, replaced, closed, stalled>>
regVars   == <<sessions, callers, registered>>
stateVars == <<live, connected, snapshot>>
vars == <<handler, replaced, closed, stalled, sessions, callers, registered,
          live, connected, snapshot, adoption, kicks, overlap, crashes>>

HandlerState  == {"idle", "replacing", "preparing", "running", "done"}
AdoptionState == {"unclaimed", "adopted", "removed", "ownerGone"}

TypeOK ==
  /\ handler \in [Conn -> HandlerState]
  /\ replaced \in [Conn -> Conn \union {NoConn}]
  /\ closed \in [Conn -> BOOLEAN]
  /\ stalled \in [Conn -> BOOLEAN]
  /\ sessions \in [ChargePoint -> Conn \union {NoConn}]
  /\ callers \in [ChargePoint -> Conn \union {NoConn}]
  /\ registered \in SUBSET Conn
  /\ live \in SUBSET ChargePoint
  /\ connected \in [ChargePoint -> BOOLEAN]
  /\ snapshot \in [ChargePoint -> {"none", "connected", "disconnected"}]
  /\ adoption \in [ChargePoint -> AdoptionState]
  /\ kicks \in SUBSET ChargePoint
  /\ overlap \in [ChargePoint -> BOOLEAN]
  /\ crashes \in Nat

-----------------------------------------------------------------------------
Adopted(cp) == adoption[cp] = "adopted"

Running(c) == handler[c] = "running"

\* The registered session of a charger, when its socket is still open.
HasOpenSession(cp) == sessions[cp] # NoConn /\ ~closed[sessions[cp]]

RunningOf(cp) == {c \in Conn : Running(c) /\ ChargePointOf[c] = cp}

\* _state_to_dict(state)["connected"]
Flag(b) == IF b THEN "connected" ELSE "disconnected"

Init ==
  /\ handler = [c \in Conn |-> "idle"]
  /\ replaced = [c \in Conn |-> NoConn]
  /\ closed = [c \in Conn |-> FALSE]
  /\ stalled = [c \in Conn |-> FALSE]
  /\ sessions = [cp \in ChargePoint |-> NoConn]
  /\ callers = [cp \in ChargePoint |-> NoConn]
  /\ registered = {}
  /\ live = {}
  /\ connected = [cp \in ChargePoint |-> FALSE]
  /\ snapshot = [cp \in ChargePoint |-> "none"]
  /\ adoption \in [ChargePoint -> {"unclaimed", "adopted"}]
  /\ kicks = {}
  /\ overlap = [cp \in ChargePoint |-> FALSE]
  /\ crashes = 0

-----------------------------------------------------------------------------
(* Connecting                                                              *)

\* Mutant: the consumed onboarding session's status lands in the charger row.
AuthoriseStoresStatus(cp) == adoption' = [adoption EXCEPT ![cp] = "consumed"]

\* verify_charger_password for an adopted charger; otherwise a pending
\* onboarding session is consumed and the charger becomes adopted.
Authorise(cp) == adoption' = [adoption EXCEPT ![cp] = "adopted"]

\* Mutant: a live state that already exists is not marked connected again.
OpenKeepsOldFlag(c) ==
  LET cp == ChargePointOf[c] IN
  /\ handler' = [handler EXCEPT ![c] = "running"]
  /\ sessions' = [sessions EXCEPT ![cp] = c]
  /\ callers' = [callers EXCEPT ![cp] = c]
  /\ registered' = registered \union {c}
  /\ live' = live \union {cp}
  /\ connected' = IF cp \in live THEN connected
                                 ELSE [connected EXCEPT ![cp] = TRUE]
  /\ snapshot' = [snapshot EXCEPT ![cp] = "connected"]
  /\ overlap' = [overlap EXCEPT ![cp] = @ \/ RunningOf(cp) # {}]

\* The synchronous end of the handshake: the session enters the registry and
\* the coordinator, whatever the registry held when the handshake looked.
Open(c) ==
  LET cp == ChargePointOf[c] IN
  /\ handler' = [handler EXCEPT ![c] = "running"]
  /\ sessions' = [sessions EXCEPT ![cp] = c]
  /\ callers' = [callers EXCEPT ![cp] = c]
  /\ registered' = registered \union {c}
  /\ live' = live \union {cp}
  /\ connected' = [connected EXCEPT ![cp] = TRUE]
  /\ snapshot' = [snapshot EXCEPT ![cp] = "connected"]
  /\ overlap' = [overlap EXCEPT ![cp] = @ \/ RunningOf(cp) # {}]

\* await websocket.prepare(request), suspending or not.
PrepareOrOpen(c) ==
  \/ Open(c)
  \/ /\ PrepareMaySuspend
     /\ handler' = [handler EXCEPT ![c] = "preparing"]
     /\ UNCHANGED <<regVars, stateVars, overlap>>

\* No session, or one whose socket is already closed: nothing to wait for.
Connect(c) ==
  LET cp == ChargePointOf[c] IN
  /\ handler[c] = "idle"
  /\ ~HasOpenSession(cp)
  /\ Authorise(cp)
  /\ PrepareOrOpen(c)
  /\ UNCHANGED <<replaced, closed, stalled, kicks, crashes>>

\* await existing.async_close("Replacing existing OCPP session")
ConnectReplacing(c) ==
  LET cp == ChargePointOf[c] IN
  /\ handler[c] = "idle"
  /\ HasOpenSession(cp)
  /\ Authorise(cp)
  /\ handler' = [handler EXCEPT ![c] = "replacing"]
  /\ replaced' = [replaced EXCEPT ![c] = sessions[cp]]
  /\ closed' = [closed EXCEPT ![sessions[cp]] = TRUE]
  /\ UNCHANGED <<stalled, regVars, stateVars, kicks, overlap, crashes>>

\* Mutant: the wait ends only when the registry entry has gone.
ReplacementAwaitsEmptyRegistry(c) ==
  /\ handler[c] = "replacing"
  /\ sessions[ChargePointOf[c]] = NoConn
  /\ replaced' = [replaced EXCEPT ![c] = NoConn]
  /\ PrepareOrOpen(c)
  /\ UNCHANGED <<closed, stalled, adoption, kicks, crashes>>

\* The close has been awaited: the old handler has finished, or it cannot
\* because it is stalled.  The registry is not looked at again.
ReplacementClosed(c) ==
  /\ handler[c] = "replacing"
  /\ replaced[c] # NoConn
  /\ handler[replaced[c]] = "done" \/ stalled[replaced[c]]
  /\ replaced' = [replaced EXCEPT ![c] = NoConn]
  /\ PrepareOrOpen(c)
  /\ UNCHANGED <<closed, stalled, adoption, kicks, crashes>>

PrepareDone(c) ==
  /\ handler[c] = "preparing"
  /\ Open(c)
  /\ UNCHANGED <<replaced, closed, stalled, adoption, kicks, crashes>>

\* prepare raises: not an upgrade request, or the client is already gone.
HandshakeFails(c) ==
  /\ \/ handler[c] = "preparing"
     \/ /\ handler[c] = "replacing"
        /\ replaced[c] # NoConn
        /\ handler[replaced[c]] = "done" \/ stalled[replaced[c]]
  /\ handler' = [handler EXCEPT ![c] = "done"]
  /\ replaced' = [replaced EXCEPT ![c] = NoConn]
  /\ UNCHANGED <<closed, stalled, regVars, stateVars, adoption, kicks,
                 overlap, crashes>>

-----------------------------------------------------------------------------
(* A running session                                                       *)

\* Any inbound call of a stateful session persists the charger's state; the
\* reply may suspend on a transport that has stopped draining.
InboundCall(c) ==
  LET cp == ChargePointOf[c] IN
  /\ Running(c) /\ ~closed[c] /\ ~stalled[c]
  /\ snapshot' = [snapshot EXCEPT ![cp] = Flag(connected[cp])]
  /\ \E s \in BOOLEAN : stalled' = [stalled EXCEPT ![c] = s]
  /\ UNCHANGED <<handler, replaced, closed, regVars, live, connected, adoption,
                 kicks, overlap, crashes>>

\* The write goes through or fails; either way the task runs again.
WriteResumes(c) ==
  /\ stalled[c]
  /\ stalled' = [stalled EXCEPT ![c] = FALSE]
  /\ UNCHANGED <<handler, replaced, closed, regVars, stateVars, adoption,
                 kicks, overlap, crashes>>

\* aiohttp's heartbeat marks the socket closed; the task learns of it later.
HeartbeatLost(c) ==
  /\ Running(c) /\ ~closed[c]
  /\ closed' = [closed EXCEPT ![c] = TRUE]
  /\ UNCHANGED <<handler, replaced, stalled, regVars, stateVars, adoption,
                 kicks, overlap, crashes>>

\* Mutant: the shared state keeps connected = True.
ConnectionClosedKeepsFlag(c) ==
  /\ registered' = registered \ {c}
  /\ UNCHANGED <<connected, snapshot>>

\* Mutant: the state is updated but not persisted.
ConnectionClosedUnsaved(c) ==
  /\ registered' = registered \ {c}
  /\ connected' = [connected EXCEPT ![ChargePointOf[c]] = FALSE]
  /\ UNCHANGED snapshot

\* async_connection_closed(session_id)
ConnectionClosed(c) ==
  LET cp == ChargePointOf[c] IN
  /\ registered' = registered \ {c}
  /\ IF c \in registered /\ cp \in live
     THEN /\ connected' = [connected EXCEPT ![cp] = FALSE]
          /\ snapshot' = [snapshot EXCEPT ![cp] = "disconnected"]
     ELSE UNCHANGED <<connected, snapshot>>

\* Mutant: cleanup pops both entries without "if ... is session".
UnregisterAnyone(c) ==
  /\ sessions' = [sessions EXCEPT ![ChargePointOf[c]] = NoConn]
  /\ callers' = [callers EXCEPT ![ChargePointOf[c]] = NoConn]

\* Mutant: the caller stays registered.
UnregisterSessionOnly(c) ==
  LET cp == ChargePointOf[c] IN
  /\ sessions' = IF sessions[cp] = c THEN [sessions EXCEPT ![cp] = NoConn]
                                     ELSE sessions
  /\ UNCHANGED callers

\* pop(session_key) and unregister_ocpp_caller, each only "if ... is session"
Unregister(c) ==
  LET cp == ChargePointOf[c] IN
  /\ sessions' = IF sessions[cp] = c THEN [sessions EXCEPT ![cp] = NoConn]
                                     ELSE sessions
  /\ callers' = IF callers[cp] = c THEN [callers EXCEPT ![cp] = NoConn]
                                   ELSE callers

\* run() returns, because the socket is closed or the peer has gone, and the
\* finally block cleans up without suspending.
RunEnds(c) ==
  LET cp == ChargePointOf[c] IN
  /\ Running(c) /\ ~stalled[c]
  /\ handler' = [handler EXCEPT ![c] = "done"]
  /\ closed' = [closed EXCEPT ![c] = TRUE]
  /\ Unregister(c)
  /\ ConnectionClosed(c)
  /\ overlap' = [overlap EXCEPT ![cp] = @ /\ RunningOf(cp) # {c}]
  /\ UNCHANGED <<replaced, stalled, live, adoption, kicks, crashes>>

-----------------------------------------------------------------------------
(* The portal                                                              *)

\* DELETE /api/chargers/{id}: soft-delete, then ensure_future(kick)
DeleteCharger(cp) ==
  /\ Adopted(cp)
  /\ adoption' = [adoption EXCEPT ![cp] = "removed"]
  /\ kicks' = kicks \union {cp}
  /\ UNCHANGED <<connVars, regVars, stateVars, overlap, crashes>>

\* delete_user cascades to the charger rows; nobody is kicked.
DeleteOwner(cp) ==
  /\ Adopted(cp)
  /\ adoption' = [adoption EXCEPT ![cp] = "ownerGone"]
  /\ UNCHANGED <<connVars, regVars, stateVars, kicks, overlap, crashes>>

\* Mutant: the kick gives up when the charger is no longer adopted.
KickAdoptedOnly(cp) ==
  /\ cp \in kicks
  /\ kicks' = kicks \ {cp}
  /\ closed' = IF HasOpenSession(cp) /\ Adopted(cp)
               THEN [closed EXCEPT ![sessions[cp]] = TRUE]
               ELSE closed
  /\ UNCHANGED <<handler, replaced, stalled, regVars, stateVars, adoption,
                 overlap, crashes>>

\* kick_charge_point: close whatever session is registered now
Kick(cp) ==
  /\ cp \in kicks
  /\ kicks' = kicks \ {cp}
  /\ closed' = IF HasOpenSession(cp)
               THEN [closed EXCEPT ![sessions[cp]] = TRUE]
               ELSE closed
  /\ UNCHANGED <<handler, replaced, stalled, regVars, stateVars, adoption,
                 overlap, crashes>>

\* Mutant: promote any running session of the charger.
RegisterAnySession(cp) ==
  IF RunningOf(cp) = {} THEN UNCHANGED callers
  ELSE \E c \in RunningOf(cp) : callers' = [callers EXCEPT ![cp] = c]

\* register_ocpp_caller(cp, _sessions[cp]) when that session is open
RegisterOpenSession(cp) ==
  callers' = IF HasOpenSession(cp) THEN [callers EXCEPT ![cp] = sessions[cp]]
                                   ELSE callers

\* async_select_active_charge_point: seed the live state from the snapshot,
\* mark it connected if any of its sessions is registered, persist it.
SelectActive(cp) ==
  LET seeded == IF cp \in live THEN connected[cp]
                               ELSE snapshot[cp] = "connected"
      flag == seeded \/ \E c \in registered : ChargePointOf[c] = cp
  IN /\ live' = live \union {cp}
     /\ connected' = [connected EXCEPT ![cp] = flag]
     /\ snapshot' = [snapshot EXCEPT ![cp] = Flag(flag)]

\* mark_connected_charge_point_adopted
MarkAdopted(cp) ==
  /\ snapshot' = IF \E c \in registered : ChargePointOf[c] = cp
                 THEN [snapshot EXCEPT ![cp] = "connected"]
                 ELSE snapshot
  /\ UNCHANGED <<live, connected>>

\* POST /api/chargers/{id}/switch
SwitchActive(cp) ==
  /\ Adopted(cp)
  /\ RegisterOpenSession(cp)
  /\ SelectActive(cp)
  /\ UNCHANGED <<connVars, sessions, registered, adoption, kicks, overlap,
                 crashes>>

\* An admin assigns a connected charger that has no owner, then
\* promote_adopted_charge_point, with or without making it active.
AssignUnadopted(cp) ==
  /\ ~Adopted(cp)
  /\ \E c \in registered : ChargePointOf[c] = cp
  /\ adoption' = [adoption EXCEPT ![cp] = "adopted"]
  /\ RegisterOpenSession(cp)
  /\ SelectActive(cp) \/ MarkAdopted(cp)
  /\ UNCHANGED <<connVars, sessions, registered, kicks, overlap, crashes>>

\* purge_orphaned_data deletes the snapshots of chargers nobody owns.
PurgeOrphaned ==
  /\ snapshot' = [cp \in ChargePoint |->
                    IF Adopted(cp) THEN snapshot[cp] ELSE "none"]
  /\ UNCHANGED <<connVars, regVars, live, connected, adoption, kicks, overlap,
                 crashes>>

\* The process dies (SIGTERM is not handled) and starts again: memory is
\* rebuilt by load() from the snapshots of the adopted chargers.
Crash ==
  /\ crashes < MaxCrashes
  /\ crashes' = crashes + 1
  /\ handler' = [c \in Conn |-> IF handler[c] = "idle" THEN "idle" ELSE "done"]
  /\ replaced' = [c \in Conn |-> NoConn]
  /\ closed' = [c \in Conn |-> handler[c] # "idle"]
  /\ stalled' = [c \in Conn |-> FALSE]
  /\ sessions' = [cp \in ChargePoint |-> NoConn]
  /\ callers' = [cp \in ChargePoint |-> NoConn]
  /\ registered' = {}
  /\ live' = {cp \in ChargePoint : Adopted(cp) /\ snapshot[cp] # "none"}
  /\ connected' = [cp \in ChargePoint |->
                     Adopted(cp) /\ snapshot[cp] = "connected"]
  /\ kicks' = {}
  /\ overlap' = [cp \in ChargePoint |-> FALSE]
  /\ UNCHANGED <<snapshot, adoption>>

-----------------------------------------------------------------------------
ConnNext(c) ==
  \/ Connect(c) \/ ConnectReplacing(c) \/ ReplacementClosed(c)
  \/ PrepareDone(c) \/ HandshakeFails(c)
  \/ InboundCall(c) \/ WriteResumes(c) \/ HeartbeatLost(c) \/ RunEnds(c)

PortalNext(cp) ==
  \/ DeleteCharger(cp) \/ DeleteOwner(cp) \/ Kick(cp)
  \/ SwitchActive(cp) \/ AssignUnadopted(cp)

Next ==
  \/ \E c \in Conn : ConnNext(c)
  \/ \E cp \in ChargePoint : PortalNext(cp)
  \/ PurgeOrphaned
  \/ Crash

Spec == Init /\ [][Next]_vars

\* What the event loop and the network timeouts guarantee: a ready task runs,
\* a blocked write ends (TCP or heartbeat timeout), a closed socket's task
\* gets to its cleanup.  Clients, users and crashes are not fair.
Fairness ==
  /\ \A c \in Conn :
       /\ WF_vars(ReplacementClosed(c))
       /\ WF_vars(PrepareDone(c))
       /\ WF_vars(WriteResumes(c))
       /\ WF_vars(closed[c] /\ RunEnds(c))
  /\ \A cp \in ChargePoint : WF_vars(Kick(cp))

FairSpec == Spec /\ Fairness

-----------------------------------------------------------------------------
(* Properties                                                              *)

\* _sessions and _ocpp_callers always name the same session, and it is one of
\* that charger whose handler has not finished: no command is ever written to
\* a session that has been cleaned up, in whatever order replaced, kicked and
\* promoted sessions come and go (server.py _handle_websocket, finally).
RegistryNamesRunningSession ==
  \A cp \in ChargePoint :
    /\ callers[cp] = sessions[cp]
    /\ sessions[cp] # NoConn => sessions[cp] \in RunningOf(cp)

\* Until the process dies once, a charger marked connected has a running
\* session: no sequence of replacements, kicks, deletions, adoptions and
\* purges leaves a phantom "connected" behind.
NoPhantomConnected ==
  crashes = 0 =>
    \A cp \in ChargePoint : connected[cp] => RunningOf(cp) # {}

\* A charger whose sessions have not overlapped is marked connected for as
\* long as it has one.
SoleSessionIsConnected ==
  \A cp \in ChargePoint :
    ~overlap[cp] /\ RunningOf(cp) # {} => cp \in live /\ connected[cp]

\* What is on disk is what is in memory: unless sessions overlapped, the
\* persisted connection flag equals the live one, so a restart reads the truth
\* as of the crash.
SnapshotAgrees ==
  \A cp \in ChargePoint :
    ~overlap[cp] /\ cp \in live /\ snapshot[cp] # "none"
      => snapshot[cp] = Flag(connected[cp])

\* A session's cleanup never evicts the session that replaced it: a charger
\* loses its registration only when the registered session's own handler ends.
RegistrationLostOnlyByOwnExit ==
  [][\A cp \in ChargePoint :
       sessions[cp] # NoConn /\ sessions'[cp] = NoConn
         => handler'[sessions[cp]] = "done"]_vars

\* A session that lost its registration to a newer one never becomes the
\* target of commands again, not even through a switch or a promotion.
SupersededStaysSuperseded ==
  [][\A c \in Conn :
       Running(c) /\ sessions[ChargePointOf[c]] # c
         => /\ sessions'[ChargePointOf[c]] # c
            /\ callers'[ChargePointOf[c]] # c]_vars

\* A handshake ends: no two connections of a charger wait for each other.
HandshakeEnds ==
  \A c \in Conn :
    handler[c] \in {"replacing", "preparing"} ~> handler[c] \in {"running", "done"}

\* Deleting a charger ends the session registered when it is deleted, unless
\* another connection takes its place first (api_delete_charger,
\* kick_charge_point).
KickEndsSession ==
  \A c \in Conn :
    LET cp == ChargePointOf[c]
    IN (cp \in kicks /\ sessions[cp] = c) ~> (~Running(c) \/ sessions[cp] # c)

\* "Duplicate sessions for the same charge point id are replaced
\* deterministically" (docs/MULTI_USER_API_PLAN.md:142): of two running sessions
\* of a charger at most one still has its socket open, whatever the order in
\* which handshakes found, closed and waited for the session before them.
\* Not kept by the code: counterexample by DuplicatesReplaced.cfg.
DuplicatesReplaced ==
  \A c, d \in Conn :
    c # d /\ ChargePointOf[c] = ChargePointOf[d] /\ Running(c) /\ Running(d)
      => closed[c] \/ closed[d]

\* "Deleting a charger immediately disconnects it" (README.md:307): once the
\* kick has run, a deleted charger has no session with an open socket, also when
\* a connection was being accepted while it was deleted.
\* Not kept by the code: counterexample by DeletedIsDisconnected.cfg.
DeletedIsDisconnected ==
  \A cp \in ChargePoint :
    adoption[cp] = "removed" /\ cp \notin kicks
      => \A c \in RunningOf(cp) : closed[c]
=============================================================================
