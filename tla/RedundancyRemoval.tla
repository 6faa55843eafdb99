------------------------- MODULE RedundancyRemoval -------------------------
(***************************************************************************)
(* What every engine of the repository promises of one circuit, whatever   *)
(* its workers, budgets and files: the AAG it holds only ever shrinks      *)
(* within the function of the original, COMPLETE is said only of an AAG    *)
(* without redundancy, and a restart goes back no further than the last    *)
(* AAG that was kept.                                                      *)
(***************************************************************************)
EXTENDS Integers

CONSTANTS
  MeaningOf(_),     \* the function an AAG computes
  GatesOf(_),       \* its AND gates
  Irredundant(_)    \* no single stuck-at replacement keeps its function

VARIABLES
  circuit,    \* the AAG the engine works on
  kept,       \* the AAG a restart would begin with
  complete    \* whether the engine says the circuit is complete

vars == <<circuit, kept, complete>>

(* The first circuit is the original.  Earlier runs may have left another  *)
(* AAG to begin with.                                                      *)
Init ==
  /\ MeaningOf(kept) = MeaningOf(circuit)
  /\ complete = FALSE

(* A commit makes the circuit smaller; it may be kept at once.             *)
Commit ==
  /\ MeaningOf(circuit') = MeaningOf(circuit)
  /\ GatesOf(circuit') < GatesOf(circuit)
  /\ kept' \in {kept, circuit'}
  /\ complete' = FALSE

(* Keeping the circuit never gives up a reduction.                         *)
Keep ==
  /\ kept' = circuit
  /\ GatesOf(circuit) <= GatesOf(kept)
  /\ UNCHANGED <<circuit, complete>>

Finish ==
  /\ Irredundant(circuit)
  /\ complete' = TRUE
  /\ kept' = kept \/ (kept' = circuit /\ GatesOf(circuit) <= GatesOf(kept))
  /\ UNCHANGED circuit

Restart ==
  /\ circuit' = kept
  /\ complete' = FALSE
  /\ UNCHANGED kept

Next == Commit \/ Keep \/ Finish \/ Restart

Spec == Init /\ [][Next]_vars
=============================================================================
