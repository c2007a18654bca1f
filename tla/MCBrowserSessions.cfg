CONSTANTS
  s1 = s1
  s2 = s2
  c1 = c1
  c2 = c2
  reaperId = reaperId
  noSession = noSession
  Session <- MCSession
  Caller <- MCCaller
  Reaper <- reaperId
  NoSession <- noSession
  MaxContexts = 1
  IdleTtl = 1
  MayHang <- MCNoSession
SPECIFICATION Spec
INVARIANTS
  ClosedByOne
  FlushedOnce
  RegistryIsAccountedFor
CHECK_DEADLOCK FALSE
SYMMETRY Symmetry
