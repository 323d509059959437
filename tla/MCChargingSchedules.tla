-------------------------- MODULE MCChargingSchedules --------------------------
(* ChargingSchedules on a small instance for TLC.                          *)
EXTENDS ChargingSchedules, TLC

CONSTANTS t1, t2, a, b

Symmetry == Permutations({t1, t2}) \union Permutations({a, b})
=============================================================================
