SPECIFICATION Spec
CONSTANTS
  None = None
  D1 = D1
  D2 = D2
  Doc = {D1}
  Calls = 2
  Loads = 2
  Timeout = 2
  MaxTime = 2
  MaxWire = 2
  MaxEdits = 1
CHECK_DEADLOCK FALSE
INVARIANT
  DefiniteAnswersAreWhole
PROPERTIES
  CleanMeansReported
  CallsReturn
