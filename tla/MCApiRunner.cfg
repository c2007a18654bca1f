CONSTANTS
  Entry <- MCEntry
  Run <- MCRun
  Host <- MCHost
  AddressOf <- MCAddressOf
  Var <- MCVar
  Environment <- MCEnvironment
  Status <- MCStatus
SPECIFICATION Spec
INVARIANTS
  CredentialsStayHome
  EveryHopWithinPolicy
  ArchiveIsTheTraffic
  ResultsMatchTheWire
CHECK_DEADLOCK FALSE
