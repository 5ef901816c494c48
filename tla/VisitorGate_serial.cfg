CONSTANTS
  Invitations = {i1, i2}
  Visits = {v1, v2}
  Submits = {s1}
  Workers = {w1, w2}
  NoSubmit = NoSubmit
  CanCrash = TRUE
SYMMETRY Symmetry
SPECIFICATION SerialSpec
INVARIANTS
  SingleEntry
PROPERTIES
  LifecycleSpec
