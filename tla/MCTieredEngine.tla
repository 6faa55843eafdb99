--------------------------- MODULE MCTieredEngine ---------------------------
(***************************************************************************)
(* Instances of the sequential engine on the circuits of MCCircuits.       *)
(***************************************************************************)
EXTENDS TieredEngine, MCCircuits

TheSource == IdOf(Aags[1])

TheConstants ==
  LET aags == AagOf
  IN  Table(LAMBDA w :
              LET aag == aags[w]
              IN  {k \in A!Candidates(aag) :
                     A!Truths(aag)[A!Lhs(aag.gates[k[1]])] =
                       IF k[2] = 1 THEN A!Assignments(aag) ELSE {}},
            DOMAIN aags)

(* Last gates first, as in the depth order, or first gates first.          *)
TheAscent == Table(LAMBDA k : 2 * k[1] + k[2], TheCandidates)
TheDescent == Table(LAMBDA k : 100 - 2 * k[1] + k[2], TheCandidates)

TheRedundant ==
  LET safe == TheSafe
  IN  {k \in TheCandidates : \E w \in DOMAIN safe : {k} \in safe[w]}

(* Simulation may reject the candidates of the first gate.                 *)
TheSimulated == {k \in TheCandidates : k[1] = 1}

MCSource == LET value == TheSource IN value
MCConstant == LET value == TheConstants IN value
MCAscent == LET value == TheAscent IN value
MCDescent == LET value == TheDescent IN value
MCHard == LET value == TheRedundant IN value
MCSimulated == LET value == TheSimulated IN value
=============================================================================
