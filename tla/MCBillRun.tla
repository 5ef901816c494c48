----------------------------- MODULE MCBillRun -----------------------------
(* The TLC instance of BillRun: a flat in tower A and one in tower B; a     *)
(* template of one taxed line by area, and one with a fixed line besides     *)
(* that comes to more than MaxInt for a flat of known area.                  *)
EXTENDS BillRun, TLC

MCTowerOf == [a1 |-> "A", b1 |-> "B"]
MCUnits == DOMAIN MCTowerOf
MCMethod == [maintenance |-> "AREA_BASED", water |-> "FIXED"]
MCHeads == DOMAIN MCMethod
MCTaxRate == [maintenance |-> 1800, water |-> 0]

ByArea == [head |-> "maintenance", price |-> 3]
Fixed == [head |-> "water", price |-> 100]
MCTemplates == {<<ByArea>>, <<ByArea, Fixed>>}

MCScopes ==
  {[kind |-> "ALL_UNITS"], [kind |-> "TOWER", tower |-> "A"],
   [kind |-> "SELECTED_UNITS", units |-> {"b1"}]}

Symmetry == Permutations(Passes)
=============================================================================
