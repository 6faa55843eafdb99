SPECIFICATION EngineSpec
CONSTANTS
  Sources <- MCSources
  MaxProposals = 3
  MaxPasses = 2
  RebuildAfter = 2
  RebuildRounds = 2
INVARIANTS EngineTypeOK AcceptedTogetherSafe CandidateWellFormed TfoExact AuditNeverRaises NoProofIsWasted OutputKeepsFunction QuietPassLeavesNothing
PROPERTIES CommitShrinks ImplementsRemoval
CHECK_DEADLOCK FALSE
