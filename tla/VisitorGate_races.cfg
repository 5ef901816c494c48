CONSTANTS
  Invitations = {i1}
  Visits = {v1, v2}
  Submits = {s1}
  Workers = {w1, w2}
  NoSubmit = NoSubmit
  CanCrash = FALSE
SPECIFICATION FairSpec
INVARIANTS
  EntryIsApproved
  OneVisitPerEvent
PROPERTIES
  OnlyStaleWritesBreakTheTable
  WaitingIsResolved
