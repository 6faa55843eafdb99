SPECIFICATION Spec
CONSTANTS
  Works <- MCWorks
  Candidate <- MCCandidate
  Frontier <- MCFrontier
  Gates <- MCGates
  Meaning <- MCMeaning
  Safe <- MCSafe
  Restructured <- MCRestructured
  Sources <- MCSources
  Seeds <- MCSeeds
  Hard <- MCCandidate
  WorkerEngine = "tfo"
  Budgets = {1}
  GrowthNum = 2
  GrowthDen = 1
  MaxGeneratedBudget = 2

  Aags <- OneGuarded
  SeedKinds = {}
  Policy = "unresolved"
  BatchSize = 5
  ContinueUntilDeadline = FALSE
  MaxGenerations = 4
  Deadlines = {}
  Faults = {}
INVARIANTS CommitIsCheckpointed
CHECK_DEADLOCK FALSE
