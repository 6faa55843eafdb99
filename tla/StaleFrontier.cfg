SPECIFICATION Spec
CONSTANTS
  Works <- MCWorks
  Candidate <- MCCandidate
  Frontier <- MCFrontier
  Gates <- MCGates
  Meaning <- MCMeaning
  Safe <- MCSafe
  Restructured <- MCRestructured
  Sources <- MCSources
  Seeds <- MCSeeds
  Hard <- MCHard
  WorkerEngine = "tfo"
  Budgets = {1}
  GrowthNum = 2
  GrowthDen = 1
  MaxGeneratedBudget = 2

  Aags <- OneShifting
  SeedKinds = {}
  Policy = "gates"
  BatchSize = 6
  ContinueUntilDeadline = FALSE
  MaxGenerations = 4
  Deadlines = {1, 2, 3, 4}
  Faults = {"torn_save"}
INVARIANTS FrontierKeepsARedundancy
CHECK_DEADLOCK FALSE
