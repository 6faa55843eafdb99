SPECIFICATION Spec
CONSTANTS
  NumCircuits <- MCNumCircuits
  Works <- MCWorks
  Candidate <- MCCandidate
  Source <- MCSource
  SeedFrontier <- MCSeedFrontier
  Frontier <- MCFrontier
  Gates <- MCGates
  Meaning <- MCMeaning
  Safe <- MCSafe
  Restructured <- MCRestructured
  Budgets = {1}
  GrowthNum = 2
  GrowthDen = 1
  MaxGeneratedBudget = 2

  Aags <- Contending
  Unsolved = "hard"
  Jobs = 2
  MicrobatchSize = 2
  RetryMicrobatchSize = 2
  RetryTiers = 2
  DeadlineMayCome = FALSE
  Faults = {}
  MaxRuns = 1
INVARIANTS WithinCapacity
PROPERTIES Settles
CHECK_DEADLOCK FALSE
