SPECIFICATION Spec
CONSTANTS
  NumCircuits <- MCNumCircuits
  Works <- MCWorks
  Candidate <- MCCandidate
  Source <- MCSource
  SeedFrontier <- MCSeedFrontier
  Frontier <- MCFrontier
  Gates <- MCGates
  Meaning <- MCMeaning
  Safe <- MCSafe
  Restructured <- MCRestructured
  Budgets = {1}
  GrowthNum = 1
  GrowthDen = 1
  MaxGeneratedBudget = 2

  Aags <- OneShifting
  Unsolved = "hard"
  Jobs = 1
  MicrobatchSize = 1
  RetryMicrobatchSize = 1
  RetryTiers = 1
  DeadlineMayCome = FALSE
  Faults = {"late_barrier_death"}
  MaxRuns = 2
INVARIANTS CompleteIsIrredundant
CHECK_DEADLOCK FALSE
