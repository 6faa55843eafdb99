SPECIFICATION WaveSpec
CONSTANTS
  Works <- MCWorks
  Candidate <- MCCandidate
  Frontier <- MCFrontier
  Gates <- MCGates
  Meaning <- MCMeaning
  Safe <- MCSafe
  Restructured <- MCRestructured
  Sources <- MCSources
  Seeds <- MCSeeds
  Hard <- MCHard
  TargetSources <- MCTargets
  Outputs <- MCOutputs
  WorkerEngine = "tfo"
  Budgets = {1}
  GrowthNum = 2
  GrowthDen = 1
  MaxGeneratedBudget = 2

  Aags <- DuplicateAndAbsorption
  SeedKinds = {"own_engine", "output"}
  Policy = "gates"
  BatchSize = 4
  ContinueUntilDeadline = TRUE
  MaxGenerations = 2
  Deadlines = {1, 2}
  Faults = {"worker_error", "cec_timeout"}
INVARIANTS CampaignTypeOK
PROPERTIES TargetsImplementRemoval EveryTargetSettles
CHECK_DEADLOCK FALSE
