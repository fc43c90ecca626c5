CONSTANTS
  key = key
  org = org
  r1 = r1
  r2 = r2
  a1 = a1
  a2 = a2
  m = m
  Principals = {key}
  Requests = {r1, r2}
  Admins = {a1}
  Models = {m}
  NoRow = NoRow
  Nil = Nil
  Routes <- MCRoutes
  Estimate <- MCEstimate
  Actuals <- MCActuals
  Rows0 <- MCLifetime
  Inputs <- MCInputs
  EndUsers <- MCEndUsers
  DefaultMax = 2
  DefaultDur = 1
  MaxParallel = 2
  MaxNow = 2
SPECIFICATION PutSpec
INVARIANT SpendSurvivesEdit
CHECK_DEADLOCK FALSE
