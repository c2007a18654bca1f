CONSTANTS
  Request <- MCRequest
  Policy <- MCPolicy
  Result <- MCResult
  AuditResult <- MCAuditResult
  MaxPackages = 2
SPECIFICATION Spec
INVARIANTS
  PassIsEarned
  FindingsSurface
PROPERTY PostureOnlyWorsens
CHECK_DEADLOCK FALSE
