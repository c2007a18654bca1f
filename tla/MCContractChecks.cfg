SPECIFICATION Spec
CONSTANTS
  None = None
  Params <- MCParams
  Bodies <- MCBodies
  Sent <- MCSent
  Lists <- MCLists
  FormFields <- MCFormFields
  Traffics <- MCTraffics
  Contracts <- MCContracts
INVARIANTS
  ConformingIsNotFaulted
  SilenceIsVerified
  SuccessMeansConforming
  FaultsAreReal
