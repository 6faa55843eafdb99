SPECIFICATION Spec
CONSTANTS
  Works <- MCWorks
  Candidate <- MCCandidate
  Frontier <- MCFrontier
  Gates <- MCGates
  Meaning <- MCMeaning
  Safe <- MCSafe
  Restructured <- MCRestructured
  Source <- MCSource
  Constant <- MCConstant
  Simulated = {}
  GrowthNum = 2
  GrowthDen = 1
  MaxGeneratedBudget = 0
  Policy = "gates"

  Aags <- OneGuarded
  Rank <- MCAscent
  Tiers = {"tfi", "window", "cone", "global"}
  ExactResume = TRUE
  RebuildAfter = 2
  MaxPhases = 6
  MaxStreak = 0
  Hard <- MCHard
  Budgets = {1}
  Faults = {"deadline"}
INVARIANTS FrontierIsSaved
CHECK_DEADLOCK FALSE
