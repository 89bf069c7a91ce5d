SPECIFICATION Spec
CONSTANTS
  a = a
  w1 = w1
  None = None
  Provider = Provider
  Tasks <- OneTask
  Workers <- OneWorker
  Kinds <- ThreeKinds
  MaxRuns = 2
  TokenBudget = 2
  MaxTokens = 2
  Totals = {2}
  MaxHistory = 1
  MaxDeaths = 2
  MaxFailures = 1
INVARIANTS StateLoads UsageAccounted RecoveryWaits ContextCurrent NoClaimBlocks
PROPERTIES ReviewedAfterInterruption
CHECK_DEADLOCK FALSE
