-------------------------- MODULE MCSchedulePeriods --------------------------
(* SchedulePeriods for TLC: a zone at UTC, one east of it, one west.       *)
EXTENDS SchedulePeriods

MCOffsets == -1..1
=============================================================================
