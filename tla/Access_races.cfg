SPECIFICATION Spec
CONSTANTS
  c1 = c1
  c2 = c2
  w1 = w1
  w2 = w2
  Communities = {c1, c2}
  Clients = {"tab"}
  Workers = {w1, w2}
  MaxCodes = 2
  MaxAttempts = 2
  MaxRecent = 3
  Seeded <- MCSeeded
  Kinds <- MCKinds
CONSTRAINT MCBound
SYMMETRY MCSymmetry
INVARIANTS
  OneDefault
  SwitchTakesEffect
  OnlyASwitchRefuses
  GuessesAreBounded
  CodeLogsInOnce
