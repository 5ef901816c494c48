--------------------------- MODULE MCHousehold ---------------------------
(* TLC instances of Household. *)
EXTENDS Household, TLC

Symmetry == Permutations(Residents) \cup Permutations(Workers)
=============================================================================
