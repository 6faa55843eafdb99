--------------------------- MODULE MCWaveCampaign ---------------------------
(***************************************************************************)
(* Campaigns over the circuits of MCCircuits, in list order.               *)
(***************************************************************************)
EXTENDS MCCommitCoordinator, WaveCampaign

TheTargets == Table(LAMBDA i : IdOf(Aags[i]), DOMAIN Aags)

MCTargets == LET value == TheTargets IN value
MCOutputs == LET value == {ck \in TheSeeds : ck.resume = {}} IN value
=============================================================================
