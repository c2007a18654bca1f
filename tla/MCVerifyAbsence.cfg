CONSTANTS
  Request <- MCRequest
  Policy <- MCPolicy
  Result <- MCResult
  AuditResult <- MCAuditResult
  MaxPackages = 2
SPECIFICATION Spec
INVARIANTS
  AbsenceIsNeverAPass
CHECK_DEADLOCK FALSE
