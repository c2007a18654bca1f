SPECIFICATION Spec
CONSTANTS
  None = None
  A = A
  B = B
  C = C
  X = X
  File = {A, B, C}
  Queried = A
  Outside = X
  MaxOps = 3
  MaxWeight = 3
SYMMETRY Symmetry

CHECK_DEADLOCK FALSE
INVARIANTS
  StraightAppliedInOrder
  BuffersFollowTheDisk
  AuditNamesWhatLanded
  NothingIsClobbered
