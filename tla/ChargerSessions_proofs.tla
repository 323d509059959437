------------------------ MODULE ChargerSessions_proofs ------------------------
(***************************************************************************)
(* Theorems about ChargerSessions, for any number of connections, chargers *)
(* and crashes.  The inductive invariant IInv adds to the checked          *)
(* properties what makes them inductive: the connection list is exactly    *)
(* the running sessions, a running session's charger has live state, a     *)
(* snapshot exists only for live chargers before the first crash, and a    *)
(* charger without overlap has at most one running session.                *)
(***************************************************************************)
EXTENDS ChargerSessions, TLAPS

RegisteredAreRunning == registered = {c \in Conn : Running(c)}

RunningIsLive == \A c \in Conn : Running(c) => ChargePointOf[c] \in live

SnapshotOnlyOfLive ==
  crashes = 0 => \A cp \in ChargePoint : snapshot[cp] # "none" => cp \in live

SoleIsAlone ==
  \A c, d \in Conn :
    /\ Running(c) /\ Running(d)
    /\ ChargePointOf[c] = ChargePointOf[d]
    /\ ~overlap[ChargePointOf[c]]
    => c = d

IInv ==
  /\ TypeOK
  /\ RegistryNamesRunningSession
  /\ RegisteredAreRunning
  /\ RunningIsLive
  /\ SnapshotOnlyOfLive
  /\ SoleIsAlone
  /\ NoPhantomConnected
  /\ SoleSessionIsConnected
  /\ SnapshotAgrees

-----------------------------------------------------------------------------
\* No step of the connection lifecycle breaks a variable's type.
LEMMA TypeStep == TypeOK /\ [Next]_vars => TypeOK'
<1> USE SessionAssumption
<1> SUFFICES ASSUME TypeOK, [Next]_vars PROVE TypeOK'
  OBVIOUS
<1> USE DEF TypeOK, HandlerState, AdoptionState
<1>1. ASSUME NEW c \in Conn, ConnNext(c) PROVE TypeOK'
  <2> USE DEF Authorise, PrepareOrOpen, Open, connVars, regVars, stateVars
  <2>1. CASE Connect(c)
    <3>1. CASE Open(c)
      BY <2>1, <3>1 DEF Connect
    <3>2. CASE ~Open(c)
      BY <2>1, <3>2 DEF Connect
    <3> QED
      BY <3>1, <3>2
  <2>2. CASE ConnectReplacing(c)
    BY <2>2 DEF ConnectReplacing, HasOpenSession
  <2>3. CASE ReplacementClosed(c)
    <3>1. CASE Open(c)
      BY <2>3, <3>1 DEF ReplacementClosed
    <3>2. CASE ~Open(c)
      BY <2>3, <3>2 DEF ReplacementClosed
    <3> QED
      BY <3>1, <3>2
  <2>4. CASE PrepareDone(c)
    BY <2>4 DEF PrepareDone
  <2>5. CASE HandshakeFails(c)
    BY <2>5 DEF HandshakeFails
  <2>6. CASE InboundCall(c)
    BY <2>6 DEF InboundCall, Flag
  <2>7. CASE WriteResumes(c)
    BY <2>7 DEF WriteResumes
  <2>8. CASE HeartbeatLost(c)
    BY <2>8 DEF HeartbeatLost
  <2>9. CASE RunEnds(c)
    BY <2>9 DEF RunEnds, Unregister, ConnectionClosed
  <2> QED
    BY <1>1, <2>1, <2>2, <2>3, <2>4, <2>5, <2>6, <2>7, <2>8, <2>9
    DEF ConnNext
<1>2. ASSUME NEW cp \in ChargePoint, PortalNext(cp) PROVE TypeOK'
  <2> USE DEF connVars, regVars, stateVars
  <2>1. CASE DeleteCharger(cp)
    BY <2>1 DEF DeleteCharger
  <2>2. CASE DeleteOwner(cp)
    BY <2>2 DEF DeleteOwner
  <2>3. CASE Kick(cp)
    BY <2>3 DEF Kick, HasOpenSession
  <2>4. CASE SwitchActive(cp)
    BY <2>4 DEF SwitchActive, RegisterOpenSession, SelectActive, Flag
  <2>5. CASE AssignUnadopted(cp)
    BY <2>5 DEF AssignUnadopted, RegisterOpenSession, SelectActive,
                MarkAdopted, Flag
  <2> QED
    BY <1>2, <2>1, <2>2, <2>3, <2>4, <2>5 DEF PortalNext
<1>3. CASE PurgeOrphaned
  BY <1>3 DEF PurgeOrphaned, connVars, regVars
<1>4. CASE Crash
  BY <1>4 DEF Crash
<1>5. CASE UNCHANGED vars
  BY <1>5 DEF vars
<1> QED
  BY <1>1, <1>2, <1>3, <1>4, <1>5 DEF Next

\* Every variable keeps its type (server.py and coordinator.py, all handlers
\* of the connection lifecycle).
THEOREM TypeCorrect == Spec => []TypeOK
<1>1. Init => TypeOK
  BY SessionAssumption DEF Init, TypeOK, HandlerState, AdoptionState
<1> QED
  BY <1>1, TypeStep, PTL DEF Spec

-----------------------------------------------------------------------------
\* A step that changes neither who runs nor the registries and the live state.
LEMMA Frame ==
  ASSUME IInv, TypeOK',
         \A c \in Conn : Running(c)' <=> Running(c),
         UNCHANGED <<regVars, stateVars, overlap, crashes>>
  PROVE  IInv'
<1> USE SessionAssumption DEF IInv, regVars, stateVars
<1>1. \A cp \in ChargePoint : RunningOf(cp)' = RunningOf(cp)
  BY DEF RunningOf
<1>2. RegistryNamesRunningSession'
  BY <1>1 DEF RegistryNamesRunningSession
<1>3. RegisteredAreRunning' /\ RunningIsLive' /\ SoleIsAlone'
  BY DEF RegisteredAreRunning, RunningIsLive, SoleIsAlone
<1>4. NoPhantomConnected' /\ SoleSessionIsConnected'
  BY <1>1 DEF NoPhantomConnected, SoleSessionIsConnected
<1>5. SnapshotOnlyOfLive' /\ SnapshotAgrees'
  BY DEF SnapshotOnlyOfLive, SnapshotAgrees
<1> QED
  BY <1>2, <1>3, <1>4, <1>5

\* Entering the registry, whatever it holds.
LEMMA OpenPreserves ==
  ASSUME IInv, TypeOK', NEW c \in Conn, ~Running(c), Open(c), UNCHANGED crashes
  PROVE  IInv'
<1> DEFINE cp == ChargePointOf[c]
<1> USE SessionAssumption DEF IInv, TypeOK, Running
<1>1. cp \in ChargePoint
  OBVIOUS
<1>2. /\ handler' = [handler EXCEPT ![c] = "running"]
      /\ sessions' = [sessions EXCEPT ![cp] = c]
      /\ callers' = [callers EXCEPT ![cp] = c]
      /\ registered' = registered \union {c}
      /\ live' = live \union {cp}
      /\ connected' = [connected EXCEPT ![cp] = TRUE]
      /\ snapshot' = [snapshot EXCEPT ![cp] = "connected"]
      /\ overlap' = [overlap EXCEPT ![cp] = @ \/ RunningOf(cp) # {}]
  BY DEF Open
<1> HIDE DEF cp
<1>3. \A d \in Conn : Running(d)' <=> d = c \/ Running(d)
  BY <1>2
<1>4. /\ RunningOf(cp)' = RunningOf(cp) \union {c}
      /\ \A q \in ChargePoint \ {cp} : RunningOf(q)' = RunningOf(q)
  BY <1>3 DEF RunningOf, cp
<1>5. RegistryNamesRunningSession'
  BY <1>1, <1>2, <1>4 DEF RegistryNamesRunningSession
<1>6. RegisteredAreRunning' /\ RunningIsLive'
  BY <1>1, <1>2, <1>3 DEF RegisteredAreRunning, RunningIsLive, cp
<1>7. SoleIsAlone'
  <2> SUFFICES ASSUME NEW d \in Conn, NEW e \in Conn,
                      Running(d)', Running(e)',
                      ChargePointOf[d] = ChargePointOf[e],
                      ~overlap'[ChargePointOf[d]]
               PROVE  d = e
    BY DEF SoleIsAlone
  <2>1. CASE ChargePointOf[d] = cp
    <3>1. RunningOf(cp) = {}
      BY <1>1, <1>2, <2>1
    <3> QED
      BY <3>1, <1>3, <2>1 DEF RunningOf
  <2>2. CASE ChargePointOf[d] # cp
    BY <1>2, <1>3, <2>2 DEF SoleIsAlone, cp
  <2> QED
    BY <2>1, <2>2
<1>8. NoPhantomConnected'
  BY <1>1, <1>2, <1>4 DEF NoPhantomConnected
<1>9. SoleSessionIsConnected'
  <2> SUFFICES ASSUME NEW q \in ChargePoint, ~overlap'[q], RunningOf(q)' # {}
               PROVE  q \in live' /\ connected'[q]
    BY DEF SoleSessionIsConnected
  <2>1. CASE q = cp
    BY <1>1, <1>2, <2>1
  <2>2. CASE q # cp
    BY <1>2, <1>4, <2>2 DEF SoleSessionIsConnected
  <2> QED
    BY <2>1, <2>2
<1>10. SnapshotOnlyOfLive' /\ SnapshotAgrees'
  BY <1>1, <1>2 DEF SnapshotOnlyOfLive, SnapshotAgrees, Flag
<1> QED
  BY <1>5, <1>6, <1>7, <1>8, <1>9, <1>10
\* The end of a session's handler, in any order with the other sessions.
LEMMA RunEndsPreserves ==
  ASSUME IInv, TypeOK', NEW c \in Conn, RunEnds(c)
  PROVE  IInv'
<1> DEFINE cp == ChargePointOf[c]
<1> USE SessionAssumption DEF IInv, TypeOK, Running
<1>1. cp \in ChargePoint
  OBVIOUS
<1>2. /\ Running(c)
      /\ handler' = [handler EXCEPT ![c] = "done"]
      /\ overlap' = [overlap EXCEPT ![cp] = @ /\ RunningOf(cp) # {c}]
      /\ registered' = registered \ {c}
      /\ UNCHANGED <<live, crashes>>
  BY DEF RunEnds, ConnectionClosed
<1>3. /\ connected' = [connected EXCEPT ![cp] = FALSE]
      /\ snapshot' = [snapshot EXCEPT ![cp] = "disconnected"]
  BY DEF RunEnds, ConnectionClosed, RegisteredAreRunning, RunningIsLive
<1>4. /\ sessions' = IF sessions[cp] = c THEN [sessions EXCEPT ![cp] = NoConn]
                                         ELSE sessions
      /\ callers' = IF callers[cp] = c THEN [callers EXCEPT ![cp] = NoConn]
                                       ELSE callers
  BY DEF RunEnds, Unregister
<1>5. cp \in live
  BY <1>2 DEF RunningIsLive, cp
<1> HIDE DEF cp
<1>6. \A d \in Conn : Running(d)' <=> d # c /\ Running(d)
  BY <1>2
<1>7. /\ RunningOf(cp)' = RunningOf(cp) \ {c}
      /\ \A q \in ChargePoint \ {cp} : RunningOf(q)' = RunningOf(q)
  BY <1>6 DEF RunningOf, cp
<1>8. RegistryNamesRunningSession'
  <2> SUFFICES ASSUME NEW q \in ChargePoint
               PROVE  /\ callers'[q] = sessions'[q]
                      /\ sessions'[q] # NoConn => sessions'[q] \in RunningOf(q)'
    BY DEF RegistryNamesRunningSession
  <2>1. CASE q = cp
    BY <1>1, <1>4, <1>7, <2>1 DEF RegistryNamesRunningSession
  <2>2. CASE q # cp
    BY <1>4, <1>7, <2>2 DEF RegistryNamesRunningSession
  <2> QED
    BY <2>1, <2>2
<1>9. RegisteredAreRunning' /\ RunningIsLive'
  BY <1>2, <1>6 DEF RegisteredAreRunning, RunningIsLive
<1>10. \A q \in ChargePoint : ~overlap'[q] => ~overlap[q] \/ RunningOf(q)' = {}
  BY <1>1, <1>2, <1>7
<1>11. SoleIsAlone'
  <2> SUFFICES ASSUME NEW d \in Conn, NEW e \in Conn,
                      Running(d)', Running(e)',
                      ChargePointOf[d] = ChargePointOf[e],
                      ~overlap'[ChargePointOf[d]]
               PROVE  d = e
    BY DEF SoleIsAlone
  <2>1. d \in RunningOf(ChargePointOf[d])'
    BY DEF RunningOf
  <2>2. ~overlap[ChargePointOf[d]]
    BY <1>10, <2>1
  <2> QED
    BY <1>6, <2>2 DEF SoleIsAlone
<1>12. NoPhantomConnected'
  <2> SUFFICES ASSUME crashes = 0, NEW q \in ChargePoint, connected'[q]
               PROVE  RunningOf(q)' # {}
    BY <1>2 DEF NoPhantomConnected
  <2>1. q # cp
    BY <1>1, <1>3
  <2> QED
    BY <1>3, <1>7, <2>1 DEF NoPhantomConnected
<1>13. SoleSessionIsConnected'
  <2> SUFFICES ASSUME NEW q \in ChargePoint, ~overlap'[q], RunningOf(q)' # {}
               PROVE  q \in live' /\ connected'[q]
    BY DEF SoleSessionIsConnected
  <2>1. ~overlap[q]
    BY <1>10
  <2>2. q # cp
    <3> SUFFICES ASSUME q = cp PROVE FALSE
      OBVIOUS
    <3>1. PICK d \in Conn : Running(d)' /\ ChargePointOf[d] = cp
      BY DEF RunningOf
    <3>2. Running(d) /\ d # c
      BY <1>6, <3>1
    <3> QED
      BY <1>2, <2>1, <3>1, <3>2 DEF SoleIsAlone, cp
  <2> QED
    BY <1>2, <1>3, <1>7, <2>1, <2>2 DEF SoleSessionIsConnected
<1>14. SnapshotOnlyOfLive'
  BY <1>1, <1>2, <1>3, <1>5 DEF SnapshotOnlyOfLive
<1>15. SnapshotAgrees'
  <2> SUFFICES ASSUME NEW q \in ChargePoint, ~overlap'[q], q \in live,
                      snapshot'[q] # "none"
               PROVE  snapshot'[q] = Flag(connected'[q])
    BY <1>2 DEF SnapshotAgrees, Flag
  <2>1. CASE q = cp
    BY <1>1, <1>3, <2>1 DEF Flag
  <2>2. CASE q # cp
    BY <1>2, <1>3, <2>2 DEF SnapshotAgrees
  <2> QED
    BY <2>1, <2>2
<1> QED
  BY <1>8, <1>9, <1>11, <1>12, <1>13, <1>14, <1>15

\* A step that writes live state and snapshot of one charger while nobody
\* connects or leaves: it may set the flag of a charger that has a session,
\* and must write to disk what it leaves in memory.
LEMMA StateWritePreserves ==
  ASSUME IInv, TypeOK', NEW cp \in ChargePoint,
         UNCHANGED <<handler, sessions, registered, overlap, crashes>>,
         callers' = sessions,
         live' \in {live, live \union {cp}},
         \A q \in ChargePoint \ {cp} : /\ connected'[q] = connected[q]
                                       /\ snapshot'[q] = snapshot[q],
         RunningOf(cp) # {} /\ connected[cp] => connected'[cp],
         crashes = 0 /\ connected'[cp] => RunningOf(cp) # {},
         crashes = 0 /\ snapshot'[cp] # "none" => cp \in live',
         ~overlap[cp] /\ cp \in live' /\ snapshot'[cp] # "none"
           => snapshot'[cp] = Flag(connected'[cp])
  PROVE  IInv'
<1> USE SessionAssumption DEF IInv, TypeOK
<1>1. \A q \in ChargePoint : RunningOf(q)' = RunningOf(q)
  BY DEF RunningOf, Running
<1>2. RegistryNamesRunningSession'
  BY <1>1 DEF RegistryNamesRunningSession
<1>3. RegisteredAreRunning' /\ RunningIsLive' /\ SoleIsAlone'
  BY DEF RegisteredAreRunning, RunningIsLive, SoleIsAlone, Running
<1>4. NoPhantomConnected'
  <2> SUFFICES ASSUME crashes = 0, NEW q \in ChargePoint, connected'[q]
               PROVE  RunningOf(q) # {}
    BY <1>1 DEF NoPhantomConnected
  <2> QED
    BY DEF NoPhantomConnected
<1>5. SoleSessionIsConnected'
  <2> SUFFICES ASSUME NEW q \in ChargePoint, ~overlap[q], RunningOf(q) # {}
               PROVE  q \in live' /\ connected'[q]
    BY <1>1 DEF SoleSessionIsConnected
  <2> QED
    BY DEF SoleSessionIsConnected
<1>6. SnapshotOnlyOfLive'
  <2> SUFFICES ASSUME crashes = 0, NEW q \in ChargePoint, snapshot'[q] # "none"
               PROVE  q \in live'
    BY DEF SnapshotOnlyOfLive
  <2> QED
    BY DEF SnapshotOnlyOfLive
<1>7. SnapshotAgrees'
  <2> SUFFICES ASSUME NEW q \in ChargePoint, ~overlap[q], q \in live',
                      snapshot'[q] # "none"
               PROVE  snapshot'[q] = Flag(connected'[q])
    BY DEF SnapshotAgrees, Flag
  <2>1. CASE q = cp
    BY <2>1
  <2>2. CASE q # cp
    BY <2>2 DEF SnapshotAgrees
  <2> QED
    BY <2>1, <2>2
<1> QED
  BY <1>2, <1>3, <1>4, <1>5, <1>6, <1>7
-----------------------------------------------------------------------------
LEMMA Initial == Init => IInv
<1> SUFFICES ASSUME Init PROVE IInv
  OBVIOUS
<1> USE SessionAssumption DEF Init, Running
<1>1. TypeOK
  BY DEF TypeOK, HandlerState, AdoptionState
<1>2. \A cp \in ChargePoint : RunningOf(cp) = {}
  BY DEF RunningOf
<1>3. RegistryNamesRunningSession /\ RegisteredAreRunning /\ RunningIsLive
  BY DEF RegistryNamesRunningSession, RegisteredAreRunning, RunningIsLive
<1>4. SnapshotOnlyOfLive /\ SoleIsAlone /\ SnapshotAgrees
  BY DEF SnapshotOnlyOfLive, SoleIsAlone, SnapshotAgrees
<1>5. NoPhantomConnected /\ SoleSessionIsConnected
  BY <1>2 DEF NoPhantomConnected, SoleSessionIsConnected
<1> QED
  BY <1>1, <1>3, <1>4, <1>5 DEF IInv

\* One case per action; the lemmas above carry the arguments.
LEMMA Inductive == IInv /\ [Next]_vars => IInv'
<1> SUFFICES ASSUME IInv, [Next]_vars PROVE IInv'
  OBVIOUS
<1>0. TypeOK /\ TypeOK'
  BY TypeStep DEF IInv
<1> USE SessionAssumption, <1>0
<1>1. ASSUME NEW c \in Conn, ConnNext(c) PROVE IInv'
  <2>1. ASSUME Open(c), ~Running(c), UNCHANGED crashes PROVE IInv'
    BY <2>1, OpenPreserves
  <2>2. ASSUME ~Running(c), UNCHANGED <<regVars, stateVars, overlap, crashes>>,
               \E h \in {"preparing", "replacing", "done"} :
                 handler' = [handler EXCEPT ![c] = h]
        PROVE  IInv'
    <3>1. \A d \in Conn : Running(d)' <=> Running(d)
      BY <2>2 DEF TypeOK, Running
    <3> QED
      BY <2>2, <3>1, Frame
  <2>3. ASSUME UNCHANGED <<handler, regVars, stateVars, overlap, crashes>>
        PROVE  IInv'
    <3>1. \A d \in Conn : Running(d)' <=> Running(d)
      BY <2>3 DEF Running
    <3> QED
      BY <2>3, <3>1, Frame
  <2>4. CASE Connect(c)
    <3>1. ~Running(c) /\ UNCHANGED crashes
      BY <2>4 DEF Connect, Running
    <3>2. CASE Open(c)
      BY <2>1, <3>1, <3>2
    <3>3. CASE ~Open(c)
      BY <2>2, <2>4, <3>1, <3>3 DEF Connect, PrepareOrOpen
    <3> QED
      BY <3>2, <3>3
  <2>5. CASE ConnectReplacing(c)
    BY <2>2, <2>5 DEF ConnectReplacing, Running
  <2>6. CASE ReplacementClosed(c)
    <3>1. ~Running(c) /\ UNCHANGED crashes
      BY <2>6 DEF ReplacementClosed, Running
    <3>2. CASE Open(c)
      BY <2>1, <3>1, <3>2
    <3>3. CASE ~Open(c)
      BY <2>2, <2>6, <3>1, <3>3 DEF ReplacementClosed, PrepareOrOpen
    <3> QED
      BY <3>2, <3>3
  <2>7. CASE PrepareDone(c)
    BY <2>1, <2>7 DEF PrepareDone, Running
  <2>8. CASE HandshakeFails(c)
    BY <2>2, <2>8 DEF HandshakeFails, Running
  <2>9. CASE InboundCall(c)
    <3> DEFINE cp == ChargePointOf[c]
    <3>1. cp \in ChargePoint /\ cp \in live /\ RunningOf(cp) # {}
      BY <2>9 DEF InboundCall, IInv, RunningIsLive, RunningOf
    <3>2. /\ UNCHANGED <<handler, regVars, live, connected, overlap, crashes>>
          /\ snapshot' = [snapshot EXCEPT ![cp] = Flag(connected[cp])]
      BY <2>9 DEF InboundCall
    <3> HIDE DEF cp
    <3>3. callers' = sessions
      BY <3>2 DEF regVars, IInv, RegistryNamesRunningSession, TypeOK
    <3>4. snapshot'[cp] = Flag(connected'[cp])
      BY <3>1, <3>2 DEF TypeOK
    <3>5. \A q \in ChargePoint \ {cp} : /\ connected'[q] = connected[q]
                                        /\ snapshot'[q] = snapshot[q]
      BY <3>2 DEF TypeOK
    <3>6. crashes = 0 /\ connected'[cp] => RunningOf(cp) # {}
      BY <3>1
    <3> QED
      BY <3>1, <3>2, <3>3, <3>4, <3>5, <3>6, StateWritePreserves DEF regVars
  <2>10. CASE WriteResumes(c)
    BY <2>3, <2>10 DEF WriteResumes
  <2>11. CASE HeartbeatLost(c)
    BY <2>3, <2>11 DEF HeartbeatLost
  <2>12. CASE RunEnds(c)
    BY <2>12, RunEndsPreserves
  <2> QED
    BY <1>1, <2>4, <2>5, <2>6, <2>7, <2>8, <2>9, <2>10, <2>11, <2>12
    DEF ConnNext
<1>2. ASSUME NEW cp \in ChargePoint, PortalNext(cp) PROVE IInv'
  <2>1. ASSUME UNCHANGED <<handler, regVars, stateVars, overlap, crashes>>
        PROVE  IInv'
    <3>1. \A d \in Conn : Running(d)' <=> Running(d)
      BY <2>1 DEF Running
    <3> QED
      BY <2>1, <3>1, Frame
  <2>2. ASSUME RegisterOpenSession(cp) PROVE callers' = sessions
    BY <2>2 DEF RegisterOpenSession, IInv, RegistryNamesRunningSession,
                TypeOK, HasOpenSession
  <2>3. (\E c \in registered : ChargePointOf[c] = cp) <=> RunningOf(cp) # {}
    BY DEF IInv, RegisteredAreRunning, RunningOf
  <2>4. ASSUME SelectActive(cp), callers' = sessions,
               UNCHANGED <<handler, sessions, registered, overlap, crashes>>
        PROVE  IInv'
    <3> DEFINE seeded == IF cp \in live THEN connected[cp]
                                        ELSE snapshot[cp] = "connected"
               flag == seeded \/ \E c \in registered : ChargePointOf[c] = cp
    <3>1. /\ live' = live \union {cp}
          /\ connected' = [connected EXCEPT ![cp] = flag]
          /\ snapshot' = [snapshot EXCEPT ![cp] = Flag(flag)]
      BY <2>4 DEF SelectActive
    <3>2. flag \in BOOLEAN
      BY DEF TypeOK
    <3>3. crashes = 0 /\ flag => RunningOf(cp) # {}
      BY <2>3 DEF IInv, NoPhantomConnected, SnapshotOnlyOfLive
    <3>4. cp \in live /\ connected[cp] => flag
      OBVIOUS
    <3>5. RunningOf(cp) # {} => flag
      BY <2>3
    <3> HIDE DEF flag
    <3>6. connected'[cp] = flag /\ snapshot'[cp] = Flag(flag)
      BY <3>1, <3>2 DEF TypeOK
    <3>7. \A q \in ChargePoint \ {cp} : /\ connected'[q] = connected[q]
                                        /\ snapshot'[q] = snapshot[q]
      BY <3>1 DEF TypeOK
    <3> QED
      BY <2>4, <3>1, <3>3, <3>5, <3>6, <3>7, StateWritePreserves
  <2>5. ASSUME MarkAdopted(cp), RunningOf(cp) # {}, callers' = sessions,
               UNCHANGED <<handler, sessions, registered, overlap, crashes>>
        PROVE  IInv'
    <3>1. /\ snapshot' = [snapshot EXCEPT ![cp] = "connected"]
          /\ UNCHANGED <<live, connected>>
      BY <2>3, <2>5 DEF MarkAdopted
    <3>2. snapshot'[cp] = "connected"
      BY <3>1 DEF TypeOK
    <3>3. \A q \in ChargePoint \ {cp} : /\ connected'[q] = connected[q]
                                        /\ snapshot'[q] = snapshot[q]
      BY <3>1 DEF TypeOK
    <3>4. cp \in live
      BY <2>5 DEF IInv, RunningIsLive, RunningOf
    <3>5. ~overlap[cp] => connected[cp]
      BY <2>5 DEF IInv, SoleSessionIsConnected
    <3> QED
      BY <2>5, <3>1, <3>2, <3>3, <3>4, <3>5, StateWritePreserves DEF Flag
  <2>6. CASE DeleteCharger(cp)
    BY <2>1, <2>6 DEF DeleteCharger, connVars
  <2>7. CASE DeleteOwner(cp)
    BY <2>1, <2>7 DEF DeleteOwner, connVars
  <2>8. CASE Kick(cp)
    BY <2>1, <2>8 DEF Kick
  <2>9. CASE SwitchActive(cp)
    BY <2>2, <2>4, <2>9 DEF SwitchActive, connVars
  <2>10. CASE AssignUnadopted(cp)
    BY <2>2, <2>3, <2>4, <2>5, <2>10 DEF AssignUnadopted, connVars
  <2> QED
    BY <1>2, <2>6, <2>7, <2>8, <2>9, <2>10 DEF PortalNext
<1>3. CASE PurgeOrphaned
  <2>1. /\ UNCHANGED <<handler, regVars, live, connected, overlap, crashes>>
        /\ \A cp \in ChargePoint : snapshot'[cp] \in {snapshot[cp], "none"}
    BY <1>3 DEF PurgeOrphaned, connVars
  <2>2. \A cp \in ChargePoint : RunningOf(cp)' = RunningOf(cp)
    BY <2>1 DEF RunningOf, Running
  <2>3. RegistryNamesRunningSession' /\ NoPhantomConnected'
        /\ SoleSessionIsConnected'
    BY <2>1, <2>2 DEF IInv, regVars, RegistryNamesRunningSession,
                      NoPhantomConnected, SoleSessionIsConnected
  <2>4. RegisteredAreRunning' /\ RunningIsLive' /\ SoleIsAlone'
    BY <2>1 DEF IInv, regVars, RegisteredAreRunning, RunningIsLive,
                SoleIsAlone, Running
  <2>5. SnapshotOnlyOfLive' /\ SnapshotAgrees'
    BY <2>1 DEF IInv, SnapshotOnlyOfLive, SnapshotAgrees, Flag
  <2> QED
    BY <2>3, <2>4, <2>5 DEF IInv
<1>4. CASE Crash
  <2>1. \A c \in Conn : ~Running(c)'
    BY <1>4 DEF Crash, Running
  <2>2. \A cp \in ChargePoint : RunningOf(cp)' = {}
    BY <2>1 DEF RunningOf
  <2>3. crashes' # 0
    BY <1>4 DEF Crash, TypeOK
  <2>4. RegistryNamesRunningSession' /\ RegisteredAreRunning'
    BY <1>4, <2>1 DEF Crash, RegistryNamesRunningSession, RegisteredAreRunning
  <2>5. RunningIsLive' /\ SoleIsAlone'
    BY <2>1 DEF RunningIsLive, SoleIsAlone
  <2>6. SnapshotOnlyOfLive' /\ NoPhantomConnected' /\ SoleSessionIsConnected'
    BY <2>2, <2>3 DEF SnapshotOnlyOfLive, NoPhantomConnected,
                      SoleSessionIsConnected
  <2>7. SnapshotAgrees'
    BY <1>4 DEF Crash, SnapshotAgrees, Flag, TypeOK
  <2> QED
    BY <2>4, <2>5, <2>6, <2>7 DEF IInv
<1>5. CASE UNCHANGED vars
  <2>1. \A d \in Conn : Running(d)' <=> Running(d)
    BY <1>5 DEF vars, Running
  <2> QED
    BY <1>5, <2>1, Frame DEF vars, regVars, stateVars
<1> QED
  BY <1>1, <1>2, <1>3, <1>4, <1>5 DEF Next

-----------------------------------------------------------------------------
\* The registry and the caller table name one running session, through every
\* interleaving of handshakes, cleanups, kicks, promotions and crashes.
THEOREM TablesAgree == Spec => []RegistryNamesRunningSession
<1>1. IInv => RegistryNamesRunningSession
  BY DEF IInv
<1> QED
  BY <1>1, Initial, Inductive, PTL DEF Spec

\* Until the process dies once, no charger stays connected without a session
\* (async_connection_opened, async_connection_closed).
THEOREM NoPhantoms == Spec => []NoPhantomConnected
<1>1. IInv => NoPhantomConnected
  BY DEF IInv
<1> QED
  BY <1>1, Initial, Inductive, PTL DEF Spec

\* The cleanup of an older session never clears the flag of a charger whose
\* sessions have not overlapped (async_connection_closed).
THEOREM SoleSessionShown == Spec => []SoleSessionIsConnected
<1>1. IInv => SoleSessionIsConnected
  BY DEF IInv
<1> QED
  BY <1>1, Initial, Inductive, PTL DEF Spec

\* The stored connection flag is the live one (save_charger_snapshot).
THEOREM SnapshotIsLive == Spec => []SnapshotAgrees
<1>1. IInv => SnapshotAgrees
  BY DEF IInv
<1> QED
  BY <1>1, Initial, Inductive, PTL DEF Spec

-----------------------------------------------------------------------------
\* The only writers of the registry: a handshake that completes, a session
\* that ends, and the death of the process.
LEMMA RegistryWriters ==
  ASSUME IInv, [Next]_vars
  PROVE  \/ UNCHANGED sessions /\ callers' = sessions
         \/ \E c \in Conn : Open(c) /\ ~Running(c)
         \/ \E c \in Conn : RunEnds(c)
         \/ Crash
<1> USE SessionAssumption
<1>1. callers = sessions
  BY DEF IInv, RegistryNamesRunningSession, TypeOK
<1>2. ASSUME NEW c \in Conn, ConnNext(c)
      PROVE  \/ UNCHANGED sessions /\ callers' = sessions
             \/ Open(c) /\ ~Running(c)
             \/ RunEnds(c)
  <2> USE DEF regVars, PrepareOrOpen, Running
  <2>1. CASE Connect(c)
    BY <1>1, <2>1 DEF Connect
  <2>2. CASE ConnectReplacing(c)
    BY <1>1, <2>2 DEF ConnectReplacing
  <2>3. CASE ReplacementClosed(c)
    BY <1>1, <2>3 DEF ReplacementClosed
  <2>4. CASE PrepareDone(c)
    BY <2>4 DEF PrepareDone
  <2>5. CASE HandshakeFails(c) \/ InboundCall(c) \/ WriteResumes(c) \/ HeartbeatLost(c)
    BY <1>1, <2>5 DEF HandshakeFails, InboundCall, WriteResumes, HeartbeatLost
  <2> QED
    BY <1>2, <2>1, <2>2, <2>3, <2>4, <2>5 DEF ConnNext
<1>3. ASSUME NEW cp \in ChargePoint, PortalNext(cp)
      PROVE  UNCHANGED sessions /\ callers' = sessions
  <2>1. RegisterOpenSession(cp) => callers' = sessions
    BY <1>1 DEF RegisterOpenSession, IInv, TypeOK, HasOpenSession
  <2> QED
    BY <1>1, <1>3, <2>1 DEF PortalNext, regVars, DeleteCharger, DeleteOwner,
                            Kick, SwitchActive, AssignUnadopted
<1> QED
  BY <1>1, <1>2, <1>3 DEF Next, PurgeOrphaned, vars, regVars

\* A stale handler's cleanup never costs a newer session its registration.
THEOREM RegistrationLost == Spec => RegistrationLostOnlyByOwnExit
<1> DEFINE Kept == \A cp \in ChargePoint :
                     sessions[cp] # NoConn /\ sessions'[cp] = NoConn
                       => handler'[sessions[cp]] = "done"
<1>1. ASSUME IInv, [Next]_vars, NEW cp \in ChargePoint,
             sessions[cp] # NoConn, sessions'[cp] = NoConn
      PROVE  handler'[sessions[cp]] = "done"
  <2> USE SessionAssumption
  <2>1. sessions \in [ChargePoint -> Conn \union {NoConn}]
        /\ handler \in [Conn -> HandlerState]
    BY <1>1 DEF IInv, TypeOK
  <2>2. sessions[cp] \in Conn /\ Running(sessions[cp])
    BY <1>1 DEF IInv, RegistryNamesRunningSession, RunningOf
  <2>3. ASSUME NEW c \in Conn, Open(c) PROVE FALSE
    BY <1>1, <2>1, <2>3 DEF Open
  <2>4. ASSUME NEW c \in Conn, RunEnds(c) PROVE handler'[sessions[cp]] = "done"
    BY <1>1, <2>1, <2>2, <2>4 DEF RunEnds, Unregister
  <2>5. CASE Crash
    BY <2>2, <2>5 DEF Crash, Running
  <2> QED
    BY <1>1, <2>3, <2>4, <2>5, RegistryWriters
<1>2. IInv /\ [Next]_vars => [Kept]_vars
  BY <1>1
<1> QED
  BY <1>2, Initial, Inductive, PTL DEF Spec, RegistrationLostOnlyByOwnExit

\* A replaced session is never written a command again.
THEOREM Superseded == Spec => SupersededStaysSuperseded
<1> DEFINE Stays == \A c \in Conn :
                      Running(c) /\ sessions[ChargePointOf[c]] # c
                        => /\ sessions'[ChargePointOf[c]] # c
                           /\ callers'[ChargePointOf[c]] # c
<1>1. ASSUME IInv, [Next]_vars, NEW c \in Conn,
             Running(c), sessions[ChargePointOf[c]] # c
      PROVE  sessions'[ChargePointOf[c]] # c /\ callers'[ChargePointOf[c]] # c
  <2> USE SessionAssumption
  <2>1. sessions \in [ChargePoint -> Conn \union {NoConn}] /\ callers = sessions
    BY <1>1 DEF IInv, TypeOK, RegistryNamesRunningSession
  <2>2. ASSUME NEW d \in Conn, Open(d), ~Running(d)
        PROVE  sessions'[ChargePointOf[c]] # c /\ callers'[ChargePointOf[c]] # c
    BY <1>1, <2>1, <2>2 DEF Open
  <2>3. ASSUME NEW d \in Conn, RunEnds(d)
        PROVE  sessions'[ChargePointOf[c]] # c /\ callers'[ChargePointOf[c]] # c
    BY <1>1, <2>1, <2>3 DEF RunEnds, Unregister
  <2>4. CASE Crash
    BY <2>4 DEF Crash
  <2> QED
    BY <1>1, <2>2, <2>3, <2>4, RegistryWriters
<1>2. IInv /\ [Next]_vars => [Stays]_vars
  BY <1>1
<1> QED
  BY <1>2, Initial, Inductive, PTL DEF Spec, SupersededStaysSuperseded
=============================================================================
