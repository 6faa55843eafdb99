SPECIFICATION Spec
CONSTANTS
  NumCircuits <- MCNumCircuits
  Works <- MCWorks
  Candidate <- MCCandidate
  Source <- MCSource
  SeedFrontier <- MCSeedFrontier
  Frontier <- MCFrontier
  Gates <- MCGates
  Meaning <- MCMeaning
  Safe <- MCSafe
  Restructured <- MCRestructured
  Budgets = {1}
  GrowthNum = 2
  GrowthDen = 1
  MaxGeneratedBudget = 2

  Aags <- OneDuplicate
  Unsolved = "hard"
  Jobs = 2
  MicrobatchSize = 2
  RetryMicrobatchSize = 1
  RetryTiers = 1
  DeadlineMayCome = TRUE
  Faults = {"worker_error","worker_death","barrier_error","barrier_death","cec_timeout","source_change","crash","late_barrier_death","torn_save"}
  MaxRuns = 1
INVARIANTS TypeOK InflightExact NeverStale BarrierExclusive
PROPERTIES CampaignEnds
CHECK_DEADLOCK FALSE
