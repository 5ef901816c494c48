CONSTANTS
  MaxEntries = 3
  Flushes = {f1, f2}
SPECIFICATION FairDeviceSpec
INVARIANTS
  KeptUntilAnswered
PROPERTIES
  QueueDrains
