CONSTANTS
  Tickets = {t1, t2}
  Events = {e1}
  NoEvent = NoEvent
  Bounds <- MCBounds
  t1 = t1
  w1 = w1
  e1 = e1
  resident = resident
  admin = admin
  vendor = vendor
  People = {resident, admin, vendor}
  Assignees = {vendor}
  Role <- MCRole
  Nobody = Nobody
  Categories <- MCCategories
  Workers = {w1, w2}
  Take = 1
  FollowAll = FALSE
  Patient = TRUE
CHECK_DEADLOCK FALSE
SPECIFICATION FairSpec
INVARIANTS
  ResolvedAtFollowsStatus
  OneTicketPerEvent
PROPERTIES
  LifecycleSpec
  OverdueIsAnnounced
