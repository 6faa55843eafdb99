---------------------------- MODULE PoolRemoval ----------------------------
(***************************************************************************)
(* The pool as a removal of redundancies from each of its circuits: what   *)
(* RedundancyRemoval promises of one circuit holds of all of them, however *)
(* the scheduler, the workers and the commit process interleave and        *)
(* whenever a campaign ends, dies and is started again.                    *)
(***************************************************************************)
EXTENDS DynamicPool

MeaningOf(w) == Meaning[w]
GatesOf(w) == Gates[w]
Irredundant(w) == Redundant(w) = {}

Removal(c) == INSTANCE RedundancyRemoval WITH
  circuit <- work[c], kept <- RestartPoint(c), complete <- complete[c]

Step(c) == Removal(c)!Next \/ UNCHANGED <<work[c], RestartPoint(c), complete[c]>>

(* A circuit of the pool only shrinks within its function, is complete only*)
(* when irredundant and starts again no further back than its best         *)
(* checkpoint (run_dynamic_campaign, discover_best_targets).  This is      *)
(* \A c \in Circuits : Removal(c)!Spec, with one box as TLC reads it.      *)
ImplementsRemoval ==
  (\A c \in Circuits : Removal(c)!Init) /\ [][\A c \in Circuits : Step(c)]_vars
=============================================================================
