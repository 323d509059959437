--------------------------- MODULE MCLocalAuthList ---------------------------
(* Three changes of two tags, interchangeable both. *)
EXTENDS LocalAuthList, TLC
Symmetry == Permutations(Tag) \union Permutations(Job)
=============================================================================
