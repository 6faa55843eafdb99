SPECIFICATION Spec
CONSTANTS
  NumCircuits <- MCNumCircuits
  Works <- MCWorks
  Candidate <- MCCandidate
  Source <- MCSource
  SeedFrontier <- MCSeedFrontier
  Frontier <- MCFrontier
  Gates <- MCGates
  Meaning <- MCMeaning
  Safe <- MCSafe
  Restructured <- MCRestructured
  Budgets = {1}
  GrowthNum = 2
  GrowthDen = 1
  MaxGeneratedBudget = 2

  Aags <- OneDuplicate
  Unsolved = "hard"
  Jobs = 2
  MicrobatchSize = 2
  RetryMicrobatchSize = 1
  RetryTiers = 2
  DeadlineMayCome = TRUE
  Faults = {"crash","barrier_error"}
  MaxRuns = 2
INVARIANTS NothingLost SavedFrontierCovers CompleteIsIrredundant HigherBudgetOnly
PROPERTIES CleanRestart RestartPointKept ImplementsRemoval
CHECK_DEADLOCK FALSE
