SPECIFICATION Spec
CONSTANTS
  Works <- MCWorks
  Candidate <- MCCandidate
  Frontier <- MCFrontier
  Gates <- MCGates
  Meaning <- MCMeaning
  Safe <- MCSafe
  Restructured <- MCRestructured
  Sources <- MCSources
  Seeds <- MCSeeds
  Hard <- MCHard
  WorkerEngine = "tfo"
  Budgets = {1}
  GrowthNum = 2
  GrowthDen = 1
  MaxGeneratedBudget = 2

  Aags <- DuplicateAndDangling
  SeedKinds = {"tier", "other_engine", "torn"}
  Policy = "gates"
  BatchSize = 2
  ContinueUntilDeadline = TRUE
  MaxGenerations = 4
  Deadlines = {2, 3, 4}
  Faults = {"worker_error", "recheck_timeout", "cec_timeout", "crash", "torn_save"}
INVARIANTS TypeOK FrontierKeepsARedundancy GenerationAdvances CommitIsCheckpointed
PROPERTIES ImplementsRemoval
CHECK_DEADLOCK FALSE
