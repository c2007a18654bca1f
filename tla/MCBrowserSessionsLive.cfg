CONSTANTS
  s1 = s1
  s2 = s2
  c1 = c1
  c2 = c2
  reaperId = reaperId
  noSession = noSession
  Session <- MCOneSession
  Caller <- MCCaller
  Reaper <- reaperId
  NoSession <- noSession
  MaxContexts = 1
  IdleTtl = 1
  MayHang <- MCOneSession
SPECIFICATION FairSpec
PROPERTIES
  CallsComplete
  IdleContextsAreReleased
CHECK_DEADLOCK FALSE
