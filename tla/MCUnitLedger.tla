-------------------------- MODULE MCUnitLedger --------------------------
(* The TLC instances of UnitLedger: bills of 1 and 3 paise. *)
EXTENDS UnitLedger, TLC

Bills == [i \in 1..N |-> 2 * i - 1]

Symmetry ==
  Permutations(Workers) \cup Permutations(Payments) \cup Permutations(Payers) \cup Permutations(Tails)
=============================================================================
