CONSTANTS
  p1 = p1
  p2 = p2
  r1 = r1
  r2 = r2
  Providers = {p1, p2}
  Requests = {r1, r2}
  Plans <- MCPlans
  Threshold = 2
  OpenFor = 2
  MaxRetries = 1
  Nil = Nil
SPECIFICATION Spec
PROPERTY StreakOpens
CHECK_DEADLOCK FALSE
