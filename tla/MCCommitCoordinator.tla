------------------------ MODULE MCCommitCoordinator ------------------------
(***************************************************************************)
(* Instances of the coordinator on the circuits of MCCircuits.             *)
(***************************************************************************)
EXTENDS CommitCoordinator, MCCircuits

CONSTANT SeedKinds   \* which checkpoints the extra directory may hold

TheSources == {IdOf(Aags[i]) : i \in DOMAIN Aags}

(* The redundant candidates and those of the first gate.                   *)
HardPart(frontier, safe) == {k \in frontier : {k} \in safe \/ k[1] = 1}

(* A smaller AAG that an accepted rewrite leads to, if there is one.       *)
Reduced(w, restructured) ==
  IF DOMAIN restructured = {{}} THEN w
  ELSE restructured[CHOOSE S \in DOMAIN restructured \ {{}} : TRUE]

TheSeeds ==
  LET frontier     == TheFrontier
      safe         == TheSafe
      restructured == TheRestructured
      all          == UNION {frontier[w] : w \in DOMAIN frontier}
      seed(w, about, engine, b) ==
        LET hard == HardPart(frontier[about], safe[about])
        IN  [work |-> w, about |-> about, open |-> Cardinality(hard),
             resume |-> {[pending |-> hard, escalated |-> {},
                          hist |-> [k \in all |-> IF k \in hard THEN b ELSE 0],
                          engine |-> engine]}]
  IN  UNION {{seed(w, w, "cone", 0) : x \in SeedKinds \cap {"tier"}}
               \cup {seed(w, w, "global", 1) : x \in SeedKinds \cap {"other_engine"}}
               \cup {seed(w, w, "tfo", 0) : x \in SeedKinds \cap {"own_engine"}}
               \cup {seed(Reduced(w, restructured[w]), w, "tfo", 0) :
                       x \in SeedKinds \cap {"torn"}}
               \cup {LET r == Reduced(w, restructured[w])
                     IN  [work |-> r, about |-> r, open |-> Cardinality(frontier[r]),
                          resume |-> {}] : x \in SeedKinds \cap {"output"}} :
             w \in TheSources}

(* In the larger circuits only the queries that matter time out.           *)
TheHard ==
  LET frontier == TheFrontier
      safe     == TheSafe
  IN  UNION {HardPart(frontier[w], safe[w]) : w \in DOMAIN frontier}

MCHard == LET value == TheHard IN value
MCSources == LET value == TheSources IN value
MCSeeds == LET value == TheSeeds IN value
=============================================================================
