----------------------------- MODULE MCCircuits -----------------------------
(***************************************************************************)
(* Circuit data for the instances of the process models, from real circuits*)
(* of a few gates.  The works of an instance are all the AAGs that accepted*)
(* rewrites can make of its sources; their candidates, redundancies and    *)
(* rewrites are computed with the operators of AIG, so the data a process  *)
(* meets is what the engines would really answer.                          *)
(***************************************************************************)
EXTENDS Integers, Sequences, TLC

A == INSTANCE AIG
LOCAL INSTANCE SequencesExt
LOCAL INSTANCE FiniteSetsExt

CONSTANT Aags   \* the sources of the instance, in list order

Aag(outputs, gates) ==
  [inputs |-> <<2, 4>>, latches |-> <<>>, outputs |-> outputs, gates |-> gates]

(* o = a and b, irredundant.                                               *)
Conjunction == Aag(<<6>>, <<<<6, 4, 2>>>>)

(* o = a or (a and b): one redundancy, and no gate is left.                *)
Absorption == Aag(<<9>>, <<<<6, 4, 2>>, <<8, 7, 3>>>>)

(* o = (a or (a and b)) and b: one redundancy, one gate is left.           *)
Guarded == Aag(<<10>>, <<<<6, 4, 2>>, <<8, 7, 3>>, <<10, 9, 4>>>>)

(* The same AND twice, or-ed: each copy is redundant, both are not.        *)
Duplicate == Aag(<<11>>, <<<<6, 4, 2>>, <<8, 4, 2>>, <<10, 9, 7>>>>)

(* An absorption inside an absorption: redundancies that can be committed  *)
(* one generation after the other.                                         *)
Nested ==
  Aag(<<14>>, <<<<6, 4, 2>>, <<8, 5, 2>>, <<10, 9, 7>>, <<12, 10, 3>>, <<14, 13, 4>>>>)

(* Two absorptions apart, with an irredundant gate between them: removing  *)
(* the first moves the redundant gate of the second to another index.      *)
Shifting ==
  Aag(<<8, 13, 15>>,
      <<<<6, 4, 2>>, <<8, 5, 3>>, <<10, 4, 3>>, <<12, 11, 5>>, <<14, 7, 3>>>>)

(* The duplicate beside an absorption of its own.                          *)
Mixed ==
  Aag(<<11, 15>>, <<<<6, 4, 2>>, <<8, 4, 2>>, <<10, 9, 7>>, <<12, 5, 2>>, <<14, 13, 3>>>>)

(* An unused gate and an absorption, with an irredundant gate between:     *)
(* dropping the unused gate alone moves the redundancy to an index that was*)
(* not redundant before.                                                   *)
Dangling == Aag(<<8, 13>>, <<<<6, 5, 3>>, <<8, 4, 3>>, <<10, 5, 2>>, <<12, 11, 3>>>>)

OneMixed       == <<Mixed>>
OneGuarded     == <<Guarded>>
OneDuplicate   == <<Duplicate>>
OneNested      == <<Nested>>
OneShifting    == <<Shifting>>
DuplicateAndAbsorption == <<Duplicate, Absorption>>
DuplicateAndDangling == <<Duplicate, Dangling>>
Contending     == <<Absorption, Conjunction>>

(* Sets of replacements with one value per gate, as functions.             *)
AsFunction(S) == [i \in {k[1] : k \in S} |-> (CHOOSE k \in S : k[1] = i)[2]]

(* The value 2 leaves a gate alone.                                        *)
SafeFor(aag) ==
  LET function == A!Function(aag)
  IN  {S \in {{<<i, f[i]>> : i \in {j \in DOMAIN f : f[j] # 2}} :
                f \in [DOMAIN aag.gates -> 0 .. 2]} :
         A!Function(A!Rewritten(aag, AsFunction(S))) = function}

Successors(aag) == {A!Strash(A!Rewritten(aag, AsFunction(S))) : S \in SafeFor(aag) \ {{}}}

Reachable ==
  LET first  == {Aags[i] : i \in DOMAIN Aags}
      second == UNION {Successors(aag) : aag \in first}
      third  == UNION {Successors(aag) : aag \in second}
  IN  first \cup second \cup third

(* Works are named by their place in this sequence.                        *)
AagOf == FoldSet(LAMBDA aag, seq : Append(seq, aag), <<>>, Reachable)
IdOf(aag) == CHOOSE i \in DOMAIN AagOf : AagOf[i] = aag

(* A function as a table, so that TLC computes its values only once.  It   *)
(* computes a definition with folds in it again at each use, hence the LETs.*)
Table(Op(_), S) == FoldSet(LAMBDA x, f : (x :> Op(x)) @@ f, <<>>, S)

TheWorks == DOMAIN AagOf
TheFrontier == LET aags == AagOf IN Table(LAMBDA w : A!Candidates(aags[w]), DOMAIN aags)
TheCandidates == LET frontier == TheFrontier IN UNION {frontier[w] : w \in DOMAIN frontier}
TheGates == LET aags == AagOf IN Table(LAMBDA w : Len(aags[w].gates), DOMAIN aags)
TheMeaning == LET aags == AagOf IN Table(LAMBDA w : A!Function(aags[w]), DOMAIN aags)
TheSafe == LET aags == AagOf IN Table(LAMBDA w : SafeFor(aags[w]), DOMAIN aags)
TheRestructured ==
  LET aags == AagOf
      safe == TheSafe
      named(aag) == CHOOSE w \in DOMAIN aags : aags[w] = aag
  IN  Table(LAMBDA w : Table(LAMBDA S : LET result == A!Strash(A!Rewritten(aags[w], AsFunction(S)))
                                        IN  named(result),
                             safe[w]),
            DOMAIN aags)

(* What the configurations give to the constants.  TLC evaluates a constant*)
(* definition once, but the right side of a constant's <- each time; and   *)
(* its coverage statistics unfold an applied operator on the right side at *)
(* every use of the constant, but not a LET.                               *)
MCWorks == LET value == TheWorks IN value
MCFrontier == LET value == TheFrontier IN value
MCCandidate == LET value == TheCandidates IN value
MCGates == LET value == TheGates IN value
MCMeaning == LET value == TheMeaning IN value
MCSafe == LET value == TheSafe IN value
MCRestructured == LET value == TheRestructured IN value
=============================================================================
