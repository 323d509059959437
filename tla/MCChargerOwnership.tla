------------------------- MODULE MCChargerOwnership -------------------------
EXTENDS ChargerOwnership, TLC

Symmetry ==
  Permutations(User) \union Permutations(ChargePoint) \union Permutations(Row)
    \union Permutations(Onboarding)
=============================================================================
