CONSTANTS
  Units <- MCUnits
  TowerOf <- MCTowerOf
  Areas = {0, 1050}
  Heads <- MCHeads
  Method <- MCMethod
  TaxRate <- MCTaxRate
  Runs = {r1}
  Templates <- MCTemplates
  Scopes <- MCScopes
  MaxInt = 120
  Passes = {p1, p2}
SYMMETRY Symmetry
SPECIFICATION BillRunSpec
INVARIANTS
  BillRunTypeOK
  RerunNeverDuplicates
  RunBillsItsScope
