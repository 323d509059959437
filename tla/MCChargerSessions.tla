-------------------------- MODULE MCChargerSessions --------------------------
(* Small instances of ChargerSessions: a few connections of one charger.   *)
EXTENDS ChargerSessions

CONSTANTS c1, c2, c3, cpA

OneCharger == [c \in Conn |-> cpA]
=============================================================================
