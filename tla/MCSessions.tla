----------------------------- MODULE MCSessions -----------------------------
(* The TLC instance of Sessions: two tabs of one browser, two calls at once. *)
EXTENDS Sessions, TLC

Symmetry == Permutations(Tabs) \cup Permutations(Calls) \cup Permutations(Tokens)
              \cup Permutations(Families)
=============================================================================
