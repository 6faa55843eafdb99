-------------------------------- MODULE AIG --------------------------------
(***************************************************************************)
(* And-inverter graphs as the optimizers hold them after parse_aag, what a *)
(* circuit computes, and the structural traversals and rewrites that the   *)
(* redundancy engines are built from.                                      *)
(*                                                                         *)
(* A literal is an AIGER integer: 2*v, or 2*v+1 for the complement of v;   *)
(* 0 and 1 are the constants.  A circuit is a record                       *)
(*    inputs  : sequence of even literals                                  *)
(*    latches : sequence of <<current, next>> literal pairs                *)
(*    outputs : sequence of literals                                       *)
(*    gates   : sequence of <<lhs, r0, r1>>, fanins before their users.    *)
(* Positions in the sequences start at 1 where the code counts from 0.     *)
(*                                                                         *)
(* A Boolean function is represented by the set of primary assignments for *)
(* which it is 1, an assignment by the set of primaries that are 1, so AND *)
(* is intersection and NOT is complement.                                  *)
(***************************************************************************)
EXTENDS Integers, Sequences, FiniteSets, SequencesExt

(* The function f with the value v at x, f being defined there or not.     *)
With(f, x, v) == [y \in DOMAIN f \cup {x} |-> IF y = x THEN v ELSE f[y]]

Base(lit) == lit - (lit % 2)

Not(lit) == IF lit % 2 = 0 THEN lit + 1 ELSE lit - 1

Complemented(lit, flag) == IF flag = 1 THEN Not(lit) ELSE lit

Lhs(gate) == gate[1]

Fanins(gate) == {gate[2], gate[3]}

(* Outputs first, then the next-state literal of every latch: the points   *)
(* at which two combinational views of a circuit are compared.             *)
Roots(c) == c.outputs \o [i \in DOMAIN c.latches |-> c.latches[i][2]]

Primaries(c) == ToSet(c.inputs) \cup {c.latches[i][1] : i \in DOMAIN c.latches}

Assignments(c) == SUBSET Primaries(c)

(* Truth sets of the literals that need no gate.                           *)
PrimaryTruths(c) ==
  [lit \in {0} \cup Primaries(c) |-> {a \in Assignments(c) : lit \in a}]

LitTruth(c, truths, lit) ==
  IF lit % 2 = 0 THEN truths[lit] ELSE Assignments(c) \ truths[Base(lit)]

AndTruth(c, truths, gate) ==
  LitTruth(c, truths, gate[2]) \cap LitTruth(c, truths, gate[3])

(* What is known and, in their order, the truths of the gates at S.        *)
TruthsOver(c, known, S) ==
  LET truths[n \in 0 .. Len(c.gates)] ==
        IF n = 0 THEN known
        ELSE LET before == truths[n - 1]
                 gate   == c.gates[n]
             IN  IF n \in S THEN With(before, Lhs(gate), AndTruth(c, before, gate))
                            ELSE before
  IN  truths[Len(c.gates)]

Truths(c) == TruthsOver(c, PrimaryTruths(c), DOMAIN c.gates)

Function(c) ==
  LET truths == Truths(c)
  IN  [r \in DOMAIN Roots(c) |-> LitTruth(c, truths, Roots(c)[r])]

(* The verdict of the equivalence checker when it answers within its time. *)
Equivalent(c, d) == Function(c) = Function(d)

-----------------------------------------------------------------------------
(* Stuck-at candidates and their application to the gate list.             *)

Candidates(c) == (1 .. Len(c.gates)) \X {0, 1}

(* constants maps gate positions to the constants that replace their       *)
(* outputs.  The gate keeps its place and its lhs, so positions stay valid.*)
ApplyAccepts(gates, constants) ==
  [i \in DOMAIN gates |->
     IF i \in DOMAIN constants THEN <<Lhs(gates[i]), constants[i], constants[i]>>
                              ELSE gates[i]]

\* Mutant of Rewritten: the replacements are not applied.
RewriteForgotten(c, constants) == c

Rewritten(c, constants) == [c EXCEPT !.gates = ApplyAccepts(@, constants)]

StuckAt(idx, value) == [i \in {idx} |-> value]

(* Reference meaning of "the output of gate cand[1] is redundant at value  *)
(* cand[2]": no assignment tells the two circuits apart.                   *)
Redundant(c, cand) == Equivalent(c, Rewritten(c, StuckAt(cand[1], cand[2])))

-----------------------------------------------------------------------------
(* Structure: fanout graph, affected roots, good cone and TFO slice.       *)

Fanout(gates) ==
  [i \in DOMAIN gates |->
     {j \in DOMAIN gates :
        \E lit \in Fanins(gates[j]) : Base(lit) = Lhs(gates[i])}]

GateAt(gates, lit) == {i \in DOMAIN gates : Lhs(gates[i]) = Base(lit)}

(* Everything reachable from a set of positions: the stack walks of the    *)
(* code, which visit each position once.                                   *)
Reach(succ, from) ==
  LET within[n \in 0 .. Cardinality(DOMAIN succ)] ==
        IF n = 0 THEN from
        ELSE LET seen == within[n - 1] IN seen \cup UNION {succ[i] : i \in seen}
  IN  within[Cardinality(DOMAIN succ)]

(* The gates that literals depend on, walked over the fanins.              *)
Cone(gates, lits) ==
  LET drivers(S) == UNION {GateAt(gates, lit) : lit \in S}
  IN  Reach([i \in DOMAIN gates |-> drivers(Fanins(gates[i]))], drivers(lits))

\* Mutant of AffectedRoots: the next states of latches are not observed.
AffectedOutputs(c, idx) ==
  {r \in DOMAIN c.outputs :
     GateAt(c.gates, c.outputs[r]) \cap Reach(Fanout(c.gates), {idx}) # {}}

(* Positions (in Roots) of the roots driven by a gate in the transitive    *)
(* fanout of the target.                                                   *)
AffectedRoots(c, idx) ==
  LET affected == Reach(Fanout(c.gates), {idx})
  IN  {r \in DOMAIN Roots(c) : GateAt(c.gates, Roots(c)[r]) \cap affected # {}}

\* Mutant of GoodCone: only the gates that drive the roots.
ConeOfDrivers(c, roots) ==
  UNION {GateAt(c.gates, Roots(c)[r]) : r \in roots}

GoodCone(c, roots) == Cone(c.gates, {Roots(c)[r] : r \in roots})

(* The target's fanout walk, never leaving the good cone.                  *)
TfoSlice(gates, idx, cone) ==
  LET fanout == Fanout(gates)
  IN  IF idx \notin cone THEN {}
      ELSE Reach([i \in DOMAIN gates |-> fanout[i] \cap cone], {idx})

(* The same slice derived from fanins, in gate order, without the fanout   *)
(* graph.                                                                  *)
FaninDependencySlice(gates, idx, cone) ==
  LET slice[n \in 0 .. Len(gates)] ==
        IF n = 0 THEN {}
        ELSE LET dep == slice[n - 1]
             IN  IF n \in cone /\ (\/ n = idx
                                   \/ \E lit \in Fanins(gates[n]) :
                                        GateAt(gates, lit) \cap dep # {})
                 THEN dep \cup {n} ELSE dep
  IN  slice[Len(gates)]

(* What _audit_tfo_slice insists on before a slice may be encoded.         *)
AuditPasses(c, affected, idx, cone, slice) ==
  /\ idx \in cone /\ idx \in slice
  /\ slice = TfoSlice(c.gates, idx, cone)
  /\ FaninDependencySlice(c.gates, idx, cone) \subseteq slice
  /\ \A r \in affected : GateAt(c.gates, Roots(c)[r]) \cap slice # {}
-----------------------------------------------------------------------------
(* The exact single-fault miter over the good cone and the TFO slice.      *)

GoodTruths(c, cone) == TruthsOver(c, PrimaryTruths(c), cone)

(* A faulty literal is the slice's copy where there is one, and the good   *)
(* literal otherwise; the target itself is the constant.                   *)
FaultyTruths(c, good, idx, value, slice) ==
  TruthsOver(Rewritten(c, StuckAt(idx, value)), good, slice)

NoRootDiffers(c, affected, idx, value) ==
  LET cone   == GoodCone(c, affected)
      slice  == TfoSlice(c.gates, idx, cone)
      good   == GoodTruths(c, cone)
      faulty == FaultyTruths(c, good, idx, value, slice)
  IN  \A r \in affected :
        LitTruth(c, good, Roots(c)[r]) = LitTruth(c, faulty, Roots(c)[r])

\* Mutant of TfoVerdict: a target that reaches no root is not redundant.
UnobservedIsSat(c, idx, value) ==
  IF AffectedRoots(c, idx) # {} /\ NoRootDiffers(c, AffectedRoots(c, idx), idx, value)
  THEN "UNSAT" ELSE "SAT"

(* The verdict of a completed solve: UNSAT when no affected root can       *)
(* differ.  A target that reaches no root needs no solver at all.          *)
TfoVerdict(c, idx, value) ==
  IF NoRootDiffers(c, AffectedRoots(c, idx), idx, value) THEN "UNSAT" ELSE "SAT"

-----------------------------------------------------------------------------
(* pure_python_forward_strash: one forward pass that propagates constants, *)
(* merges structurally equal gates and keeps surviving ids, then a         *)
(* collection of what the roots no longer reach.                           *)

(* Follow substitutions until a constant or a literal that stands for      *)
(* itself.                                                                 *)
Resolve(subst, lit) ==
  LET follow[l \in Nat] ==
        IF l <= 1 \/ Base(l) \notin DOMAIN subst \/ subst[Base(l)] = Base(l)
        THEN l
        ELSE follow[Complemented(subst[Base(l)], l % 2)]
  IN  follow[lit]

(* The literal an AND of two resolved fanins folds to, as a set of at most *)
(* one element.                                                            *)
Folded(e0, e1) ==
  IF e0 = 0 \/ e1 = 0 THEN {0}
  ELSE IF e0 = 1 THEN {e1}
  ELSE IF e1 = 1 THEN {e0}
  ELSE IF e0 = e1 THEN {e0}
  ELSE IF e0 = Not(e1) THEN {0}
  ELSE {}

(* Survivors keep the larger fanin first, so that equal gates are equal    *)
(* tuples; kept doubles as the hash table and the list of unique gates.    *)
StrashGate(st, gate) ==
  LET lhs  == Lhs(gate)
      e0   == Resolve(st.subst, gate[2])
      e1   == Resolve(st.subst, gate[3])
      key  == IF e0 < e1 THEN <<e1, e0>> ELSE <<e0, e1>>
      fold == IF gate[2] = gate[3] /\ gate[2] \in {0, 1} THEN {gate[2]}
              ELSE Folded(e0, e1)
      same == {k \in ToSet(st.kept) : <<k[2], k[3]>> = key}
      into(lit) == [st EXCEPT !.subst = With(@, lhs, lit)]
  IN  IF fold # {} THEN into(CHOOSE lit \in fold : TRUE)
      ELSE IF same # {} THEN into(Lhs(CHOOSE k \in same : TRUE))
      ELSE [into(lhs) EXCEPT !.kept = Append(@, <<lhs>> \o key)]

\* Mutant of Collected: gates in reverse order, dead ones included.
LastFirst(kept, roots) == Reverse(kept)

(* The elements of S by increasing key, a function that tells them apart.  *)
ByKey(S, key) ==
  [n \in 1 .. Cardinality(S) |->
     CHOOSE x \in S : Cardinality({y \in S : key[y] < key[x]}) = n - 1]

(* Gates the roots still need, in increasing id as the writer emits them.  *)
Collected(kept, roots) ==
  LET live == {kept[i] : i \in Cone(kept, roots)}
  IN  ByKey(live, [k \in live |-> Lhs(k)])

(* The substitution and the unique gates after all gates.                  *)
StrashPass(c) ==
  LET start == [subst |-> [lit \in {0} \cup Primaries(c) |-> lit], kept |-> <<>>]
      pass[n \in 0 .. Len(c.gates)] ==
        IF n = 0 THEN start ELSE StrashGate(pass[n - 1], c.gates[n])
  IN  pass[Len(c.gates)]

Strash(c) ==
  LET st      == StrashPass(c)
      outputs == [o \in DOMAIN c.outputs |-> Resolve(st.subst, c.outputs[o])]
      latches == [l \in DOMAIN c.latches |->
                    <<c.latches[l][1], Resolve(st.subst, c.latches[l][2])>>]
      roots   == ToSet(outputs) \cup {latches[l][2] : l \in DOMAIN latches}
  IN  [inputs |-> c.inputs, latches |-> latches, outputs |-> outputs,
       gates |-> Collected(st.kept, roots)]

(* strash refuses a gate that reads an id defined only later.              *)
FaninsDefined(c) ==
  \A i \in DOMAIN c.gates : \A lit \in Fanins(c.gates[i]) :
    \/ Base(lit) \in {0} \cup Primaries(c)
    \/ \E j \in 1 .. i - 1 : Lhs(c.gates[j]) = Base(lit)

(* What the optimizers rely on in an AAG: even ids, one definition for each*)
(* and one for every literal that is read, and gates by increasing id, as  *)
(* the AIGER writers of the benchmark preparation emit them.               *)
WellFormed(c) ==
  /\ c \in [inputs : Seq(Nat), latches : Seq(Nat \X Nat), outputs : Seq(Nat),
            gates : Seq(Nat \X Nat \X Nat)]
  /\ \A lit \in Primaries(c) : lit % 2 = 0 /\ lit # 0
  /\ \A i \in DOMAIN c.gates :
       /\ Lhs(c.gates[i]) % 2 = 0
       /\ Lhs(c.gates[i]) \notin {0} \cup Primaries(c)
  /\ \A i, j \in DOMAIN c.gates : i < j => Lhs(c.gates[i]) < Lhs(c.gates[j])
  /\ FaninsDefined(c)
  /\ \A r \in DOMAIN Roots(c) :
       \/ Base(Roots(c)[r]) \in {0} \cup Primaries(c)
       \/ GateAt(c.gates, Roots(c)[r]) # {}
=============================================================================
