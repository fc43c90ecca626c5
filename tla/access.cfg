SPECIFICATION Spec
CONSTANTS
  Callers <- MCCallers
  Deployments <- MCDeployments
  Names <- MCNames
  NewRoles = {"none", "member"}
  MaxOthers = 2
  MaxFaults = 1
INVARIANTS
  ActedWithRights
  NoStrays
  VerdictTimely
  AuditTold
  OkMeansDone
CHECK_DEADLOCK FALSE
