CONSTANTS
  c1 = c1
  c2 = c2
  c3 = c3
  ts = ts
  ra = ra
  rb = rb
  rx = rx
  Caller <- MCCaller
  Language <- MCLanguage
  Root <- MCRoot
  AllowedRoots <- MCAllowedRoots
  GrowLanguage <- MCLanguage
  NumUris = 2
  MaxProcs = 2
  MaxServers = 2
  IdleTtl = 1
SPECIFICATION Spec
INVARIANTS
  TypeOK
  UriMutex
  ServesRequest
  InFlightExact
PROPERTIES
  ReaperSparesUsers
CHECK_DEADLOCK FALSE
SYMMETRY Symmetry
