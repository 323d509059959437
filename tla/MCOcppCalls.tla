----------------------------- MODULE MCOcppCalls -----------------------------
(* OcppCalls on a small instance for TLC.                                  *)
EXTENDS OcppCalls, TLC

CONSTANTS k1, k2

CallSymmetry == Permutations({k1, k2})
=============================================================================
