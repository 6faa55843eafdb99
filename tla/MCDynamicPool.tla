--------------------------- MODULE MCDynamicPool ---------------------------
(***************************************************************************)
(* Instances of the dynamic pool on the circuits of MCCircuits.            *)
(***************************************************************************)
EXTENDS PoolRemoval, MCCircuits

CONSTANT
  Unsolved   \* what earlier campaigns left: "all" of the source's frontier,
             \* or only its "hard" part with one candidate that is not redundant

TheNumCircuits == Len(Aags)
TheSource == Table(LAMBDA c : IdOf(Aags[c]), 1 .. TheNumCircuits)

HardPart(all, safe) ==
  LET redundant == {k \in all : {k} \in safe}
  IN  redundant \cup {k \in all \ redundant : k[1] = 1}

TheSeedFrontier ==
  LET all    == TheFrontier
      safe   == TheSafe
      source == TheSource
  IN  Table(LAMBDA c : IF Unsolved = "all" THEN all[source[c]]
                       ELSE HardPart(all[source[c]], safe[source[c]]),
            DOMAIN source)

(* As in MCCircuits, what the configurations give to the constants.        *)
MCNumCircuits == LET value == TheNumCircuits IN value
MCSource == LET value == TheSource IN value
MCSeedFrontier == LET value == TheSeedFrontier IN value
=============================================================================
