SPECIFICATION Spec
CONSTANTS
  None = None
  Zero = Zero
  NumberBase = 10
  m1 = m1
  m2 = m2
  f1 = f1
  f2 = f2
  Root = Root
  Elsewhere = Elsewhere
  r1 = r1
  r2 = r2
  r3 = r3
  har = har
  log = log
  MutateCalls = {m1, m2}
  FlakeCalls = {f1, f2}
  LastInstant = 3
  DefaultMinRuns = 2
  MaxLines = 6
  MutationSuites <- MCMutationSuites
  CoverageSuites <- MCCoverageSuites
  FlakeSuites <- MCFlakeSuites
  AuditSuites <- MCAuditSuites
  StoreSuites <- MCStoreSuites
INVARIANTS
  RequestedWasMutated
  SurvivorsAreTheRuns
  OkMeansHit
  VerdictsMatchExecutions
  AuditsMatchAdvisories
  QuietMeansUnaffected
  ChangesAreInScope
  NothingIsInvented
  AnswersAreHonest
  SweepsTakeTheOldest
