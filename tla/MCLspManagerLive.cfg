CONSTANTS
  c1 = c1
  c2 = c2
  c3 = c3
  ts = ts
  ra = ra
  rb = rb
  rx = rx
  Caller <- MCCaller3
  Language <- MCLanguage
  Root <- MCOneRoot
  AllowedRoots <- MCOneRoot
  GrowLanguage <- MCLanguage
  NumUris = 2
  MaxProcs = 1
  MaxServers = 2
  IdleTtl = 1
SPECIFICATION FairSpec
PROPERTIES
  WaitersAreServed
  IdleServersAreReaped
CHECK_DEADLOCK FALSE
