---------------------------- MODULE CircuitData ----------------------------
(***************************************************************************)
(* What the processes around the engines can observe of a circuit.  Works  *)
(* is the set of AAGs a run can meet, given with their candidates and what *)
(* solvers and equivalence checker answer about them.  The same data on    *)
(* concrete gates is computed with AIG (module MCCircuits).                *)
(***************************************************************************)
EXTENDS Integers, FiniteSets

CONSTANTS
  Works,                \* work AAGs
  Candidate,            \* <<gate index, stuck value>> pairs
  Frontier,             \* all candidates of a work AAG
  Gates,                \* AND gates of a work AAG
  Meaning,              \* the function a work AAG computes
  Safe,                 \* sets of replacements that together preserve it
  Restructured          \* the AAG a safe set of replacements leads to

Redundant(w) == {k \in Candidate : {k} \in Safe[w]}

ASSUME CandidatesAssumption == Candidate \subseteq Nat \X {0, 1} /\ IsFiniteSet(Candidate)

ASSUME WorksAssumption ==
  /\ Frontier \in [Works -> SUBSET Candidate]
  /\ Gates \in [Works -> Nat]
  /\ Safe \in [Works -> SUBSET SUBSET Candidate]
  /\ \A w \in Works : Redundant(w) \subseteq Frontier[w]

(* _candidate_order ranks two stuck values per gate, and adds none.        *)
ASSUME CandidateOrderAssumption ==
  \A w \in Works : Cardinality(Frontier[w]) <= 2 * Gates[w]

(* What strash guarantees of an accepted rewrite (SerialCommit checks it   *)
(* on gates): same function, fewer gates.                                  *)
ASSUME RestructuredAssumption ==
  \A w \in Works : \A A \in Safe[w] \ {{}} :
    /\ Restructured[w][A] \in Works
    /\ Meaning[Restructured[w][A]] = Meaning[w]
    /\ Gates[Restructured[w][A]] < Gates[w]
=============================================================================
