CONSTANTS
  g1 = g1
  g2 = g2
  None = None
  Gens = {g1, g2}
  Owned = {g1}
  Hooked = {g1}
  Window = 1
  MaxAttempts = 2
  MaxCrashes = 1
SPECIFICATION FairSpec
INVARIANTS NoticesTrue AnnouncedOnce ResultsReal
PROPERTIES Settles NoticesEnd
CHECK_DEADLOCK FALSE
