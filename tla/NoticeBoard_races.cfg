CONSTANTS
  Notices = {n1}
  Workers = {w1, w2}
  Ticks = {t1, t2}
  MaxAttempts = 2
  MaxFaults = 1
SPECIFICATION FairSpec
INVARIANTS
  TypeOK
  AnnouncedIsAccounted
  OneRunner
PROPERTIES
  PublishedIsAnnounced
  EnqueuedIsAnnounced
