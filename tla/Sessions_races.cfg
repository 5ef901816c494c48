CONSTANTS
  Tabs = {b1, b2}
  Tokens = {k1, k2, k3}
  Families = {f1, f2}
  None = None
  Nobody = Nobody
  Persists = TRUE
  Calls = {c1, c2}
SYMMETRY Symmetry
SPECIFICATION Spec
INVARIANTS
  OneLiveTokenPerFamily
  EndedFamilyStaysDead
  OnlyRacesLoseTheSession
