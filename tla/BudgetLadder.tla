---------------------------- MODULE BudgetLadder ----------------------------
(***************************************************************************)
(* Conflict budgets of the retry ladder.  A candidate whose query timed    *)
(* out is queried again only at a strictly larger budget: first through    *)
(* the configured budgets, then through generated ones that grow by a      *)
(* factor, up to an optional cap.  The answer 0 means that no budget is    *)
(* left.  The growth factor, a float in the code, is the fraction          *)
(* GrowthNum / GrowthDen.                                                  *)
(***************************************************************************)
EXTENDS Integers, FiniteSets

CONSTANTS
  Budgets,             \* configured conflict budgets
  GrowthNum,           \* budget_growth = GrowthNum / GrowthDen
  GrowthDen,
  MaxGeneratedBudget   \* max_generated_budget; 0 means no cap

ASSUME BudgetsAssumption == Budgets \subseteq Nat \ {0} /\ IsFiniteSet(Budgets)
ASSUME GrowthAssumption == GrowthNum \in Nat \ {0} /\ GrowthDen \in Nat \ {0}
ASSUME CapAssumption == MaxGeneratedBudget \in Nat

Least(S) == CHOOSE x \in S : \A y \in S : x <= y

Greatest(S) == CHOOSE x \in S : \A y \in S : y <= x

Larger(a, b) == IF a < b THEN b ELSE a

Smaller(a, b) == IF a < b THEN a ELSE b

\* Mutant of Ahead: the budget that timed out is tried again.
AheadOrSame(previous) == {b \in Budgets : previous <= b}

(* The configured budgets above what was already tried.                    *)
Ahead(previous) == {b \in Budgets : previous < b}

(* The next rung above the configured ones: the growth factor rounded up,  *)
(* and at least one more than its base.                                    *)
Generated(base) ==
  Larger(base + 1, (base * GrowthNum + GrowthDen - 1) \div GrowthDen)

Capped(budget, previous) ==
  LET limited == Smaller(budget, MaxGeneratedBudget)
  IN  IF MaxGeneratedBudget = 0 THEN budget
      ELSE IF limited <= previous THEN 0 ELSE limited

NextBudget(previous) ==
  IF Ahead(previous) # {} THEN Least(Ahead(previous))
  ELSE IF Budgets = {} \/ GrowthNum <= GrowthDen THEN 0
  ELSE Capped(Generated(Larger(previous, Greatest(Budgets))), previous)

(* The budgets a persistent retry climbs inside one worker task: the first *)
(* one and up to tiers - 1 further rungs.                                  *)
RetryTargets(budget, tiers) ==
  LET climb[n \in Nat] ==
        IF n = 0 THEN {budget}
        ELSE LET below == climb[n - 1]
                 next  == NextBudget(Greatest(below))
             IN  IF next <= Greatest(below) THEN below ELSE below \cup {next}
  IN  climb[tiers - 1]
=============================================================================
