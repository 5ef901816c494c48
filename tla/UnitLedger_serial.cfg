CONSTANTS
  N = 2
  Total <- Bills
  Payers = {u1}
  Payments = {p1, p2}
  Tails = {r1, r2}
  Workers = {w1}
  MaxPaise = 1000
  CanCrash = TRUE
SPECIFICATION FairSpec
INVARIANTS
  PaidIsAllocated
  CancelledIsUnpaid
PROPERTIES
  CapturedIsSettledOrPartial
CHECK_DEADLOCK FALSE
