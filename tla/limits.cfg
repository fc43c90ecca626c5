CONSTANTS
  key = key
  org = org
  member = member
  r1 = r1
  r2 = r2
  m = m
  x = x
  Principals = {key, org, member}
  Requests = {r1, r2}
  Models = {m, x}
  NoRow = NoRow
  Nil = Nil
  Routes <- MCRoutes
  Estimate <- MCEstimate
  Actuals <- MCActuals
  Rows0 <- MCRows0
  MaxParallel = 2
  MaxNow = 2
SPECIFICATION FairSpec
INVARIANTS SpendExact CapHolds AlertOnce
PROPERTIES RequestsEnd
CHECK_DEADLOCK FALSE
