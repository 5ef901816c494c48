-------------------------- MODULE MCVisitorGate --------------------------
(* TLC instances of VisitorGate. *)
EXTENDS VisitorGate, TLC

Symmetry == Permutations(Workers) \cup Permutations(Visits) \cup Permutations(Submits)
=============================================================================
