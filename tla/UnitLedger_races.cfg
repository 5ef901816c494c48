CONSTANTS
  N = 2
  Total <- Bills
  Payers = {u1}
  Payments = {p1, p2}
  Tails = {r1, r2}
  Workers = {w1, w2}
  MaxPaise = 1000
  CanCrash = FALSE
SYMMETRY Symmetry
SPECIFICATION Spec
INVARIANTS
  StatusFollowsMoney
  AllocationsFit
PROPERTIES
  CreditOnce
CHECK_DEADLOCK FALSE
