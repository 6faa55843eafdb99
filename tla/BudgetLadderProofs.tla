------------------------- MODULE BudgetLadderProofs -------------------------
(***************************************************************************)
(* The ladder ascends: for every configuration of budgets, growth factor   *)
(* and cap, a next budget is either absent or strictly above the one that  *)
(* timed out.  The proof needs that a nonempty set of naturals has a least *)
(* element and, when it is bounded, a greatest one.                        *)
(***************************************************************************)
EXTENDS BudgetLadder, NaturalsInduction, WellFoundedInduction, TLAPS

(* A nonempty set of naturals has a least element, and Least names it.     *)
LEMMA LeastOfNaturals ==
  ASSUME NEW S \in SUBSET Nat, S # {}
  PROVE  /\ Least(S) \in S
         /\ \A y \in S : Least(S) <= y
<1>1. \E x \in S : \A y \in S : x <= y
  <2>1. PICK x \in S : \A y \in S : <<y, x>> \notin OpToRel(<, Nat)
    BY NatLessThanWellFounded, WFMin
  <2>2. OpToRel(<, Nat) = {ss \in Nat \X Nat : ss[1] < ss[2]}
    BY Zenon DEF OpToRel
  <2>3. \A y \in S : ~ (y < x)
    BY <2>1, <2>2
  <2> QED BY <2>3
<1> QED BY <1>1 DEF Least

(* A nonempty set of naturals with an upper bound has a greatest element,  *)
(* and Greatest names it: the one at the least distance from the bound.    *)
LEMMA GreatestOfBounded ==
  ASSUME NEW S \in SUBSET Nat, S # {},
         NEW n \in Nat, \A y \in S : y <= n
  PROVE  /\ Greatest(S) \in S
         /\ \A y \in S : y <= Greatest(S)
<1> DEFINE distances == {n - y : y \in S}
<1>1. distances \in SUBSET Nat /\ distances # {}
  <2>1. \A y \in S : n - y \in Nat
    OBVIOUS
  <2>2. distances # {}
    BY Zenon
  <2> QED BY <2>1, <2>2, Zenon
<1>2. /\ Least(distances) \in distances
      /\ \A d \in distances : Least(distances) <= d
  BY <1>1, LeastOfNaturals
<1>3. PICK x \in S : Least(distances) = n - x
  BY <1>2
<1>4. \A y \in S : y <= x
  BY <1>2, <1>3
<1> QED BY <1>4 DEF Greatest

(* next_budget never repeats or lowers a budget: a timed-out candidate is  *)
(* retried with strictly more conflicts or not at all.                     *)
THEOREM NextBudgetAscends ==
  ASSUME NEW previous \in Nat
  PROVE  /\ NextBudget(previous) \in Nat
         /\ NextBudget(previous) = 0 \/ previous < NextBudget(previous)
<1>1. CASE Ahead(previous) # {}
  <2>1. Ahead(previous) \in SUBSET Nat
    BY BudgetsAssumption DEF Ahead
  <2>2. Least(Ahead(previous)) \in Ahead(previous)
    BY <1>1, <2>1, LeastOfNaturals
  <2> QED BY <1>1, <2>2, BudgetsAssumption DEF NextBudget, Ahead
<1>2. CASE Ahead(previous) = {} /\ (Budgets = {} \/ GrowthNum <= GrowthDen)
  BY <1>2 DEF NextBudget
<1>3. CASE Ahead(previous) = {} /\ Budgets # {} /\ ~(GrowthNum <= GrowthDen)
  <2> DEFINE base      == Larger(previous, Greatest(Budgets))
             generated == Generated(base)
  <2>1. Greatest(Budgets) \in Nat
    <3>1. Budgets \in SUBSET Nat /\ \A y \in Budgets : y <= previous
      BY <1>3, BudgetsAssumption DEF Ahead
    <3> QED BY <1>3, <3>1, GreatestOfBounded
  <2>2. base \in Nat /\ previous <= base
    BY <2>1 DEF Larger
  <2>3. (base * GrowthNum + GrowthDen - 1) \div GrowthDen \in Int
    BY <2>2, GrowthAssumption
  <2>4. generated \in Nat /\ base < generated
    BY <2>2, <2>3 DEF Generated, Larger
  <2>5. /\ Capped(generated, previous) \in Nat
        /\ \/ Capped(generated, previous) = 0
           \/ previous < Capped(generated, previous)
    BY <2>2, <2>4, CapAssumption DEF Capped, Smaller
  <2>6. NextBudget(previous) = Capped(generated, previous)
    BY <1>3 DEF NextBudget
  <2> QED BY <2>5, <2>6
<1> QED BY <1>1, <1>2, <1>3

-----------------------------------------------------------------------------
(* One rung of the climb of a persistent retry, and the climb of the first *)
(* n + 1 rungs as a function of its own.                                   *)
Climbed(below) ==
  LET next == NextBudget(Greatest(below))
  IN  IF next <= Greatest(below) THEN below ELSE below \cup {next}

ClimbTo(g, budget, n) ==
  g = [m \in 0 .. n |-> IF m = 0 THEN {budget} ELSE Climbed(g[m - 1])]

(* Climbs agree where they overlap: at the least position where they would *)
(* not, they agree one position below.                                     *)
LEMMA ClimbUnique ==
  ASSUME NEW budget, NEW n \in Nat, NEW m \in Nat, NEW g, NEW h,
         ClimbTo(g, budget, n), ClimbTo(h, budget, m), n <= m
  PROVE  \A i \in 0 .. n : g[i] = h[i]
<1> DEFINE differing == {i \in 0 .. n : g[i] # h[i]}
<1> SUFFICES ASSUME differing # {} PROVE FALSE
  OBVIOUS
<1>1. differing \in SUBSET Nat
  OBVIOUS
<1>2. PICK least \in differing : \A i \in differing : least <= i
  BY <1>1, LeastOfNaturals
<1> HIDE DEF differing
<1>3. least \in 0 .. n /\ g[least] # h[least]
  BY <1>2 DEF differing
<1>4. \A i \in 0 .. n :
        /\ g[i] = IF i = 0 THEN {budget} ELSE Climbed(g[i - 1])
        /\ h[i] = IF i = 0 THEN {budget} ELSE Climbed(h[i - 1])
  <2>1. 0 .. n \subseteq 0 .. m
    OBVIOUS
  <2> QED BY <2>1, Zenon DEF ClimbTo
<1>5. least # 0
  BY <1>3, <1>4
<1>6. least - 1 \in 0 .. n /\ g[least - 1] = h[least - 1]
  BY <1>1, <1>2, <1>3, <1>5 DEF differing
<1>7. g[least] = Climbed(g[least - 1]) /\ h[least] = Climbed(h[least - 1])
  BY <1>3, <1>4, <1>5
<1> QED BY <1>3, <1>6, <1>7

(* There is a climb of every length.                                       *)
LEMMA ClimbExists ==
  ASSUME NEW budget, NEW n \in Nat
  PROVE  \E g : ClimbTo(g, budget, n)
<1> DEFINE missing == {i \in Nat : ~ \E g : ClimbTo(g, budget, i)}
<1> SUFFICES ASSUME missing # {} PROVE FALSE
  OBVIOUS
<1>1. missing \in SUBSET Nat
  OBVIOUS
<1>2. PICK least \in missing : \A i \in missing : least <= i
  BY <1>1, LeastOfNaturals
<1>3. CASE least = 0
  <2> DEFINE first == [m \in 0 .. 0 |-> {budget}]
  <2>1. first = [m \in 0 .. 0 |-> IF m = 0 THEN {budget} ELSE Climbed(first[m - 1])]
    OBVIOUS
  <2> HIDE DEF first
  <2> QED BY <1>2, <1>3, <2>1 DEF ClimbTo
<1>4. CASE least # 0
  <2>1. least - 1 \in Nat /\ least - 1 \notin missing
    BY <1>1, <1>2, <1>4
  <2>2. PICK g : ClimbTo(g, budget, least - 1)
    BY <2>1
  <2> DEFINE longer == [m \in 0 .. least |-> IF m = least THEN Climbed(g[m - 1]) ELSE g[m]]
  <2>3. ASSUME NEW m \in 0 .. least
        PROVE  longer[m] = IF m = 0 THEN {budget} ELSE Climbed(longer[m - 1])
    <3>1. \A i \in 0 .. least - 1 : g[i] = IF i = 0 THEN {budget} ELSE Climbed(g[i - 1])
      BY <2>2, Zenon DEF ClimbTo
    <3>2. CASE m = 0
      <4>1. longer[m] = g[0]
        BY <1>4, <3>2
      <4> QED BY <2>1, <3>1, <3>2, <4>1
    <3>3. CASE m # 0
      <4>1. m \in Nat /\ m - 1 \in 0 .. least /\ m - 1 # least
        BY <1>1, <1>2, <3>3
      <4>2. longer[m - 1] = g[m - 1]
        BY <4>1
      <4>3. longer[m] = Climbed(g[m - 1])
        BY <1>1, <1>2, <3>1, <3>3
      <4> QED BY <3>3, <4>2, <4>3
    <3> QED BY <3>2, <3>3
  <2>4. longer = [m \in 0 .. least |-> longer[m]]
    OBVIOUS
  <2> HIDE DEF longer
  <2>5. ClimbTo(longer, budget, least)
    BY <2>3, <2>4, Zenon DEF ClimbTo
  <2> QED BY <1>2, <2>5
<1> QED BY <1>3, <1>4

(* A persistent retry climbs through budgets that are all at least the one *)
(* it was dispatched with, and there is a highest one among them.          *)
THEOREM RetryTargetsAscend ==
  ASSUME NEW budget \in Nat, NEW tiers \in Nat \ {0}
  PROVE  /\ RetryTargets(budget, tiers) \in SUBSET Nat
         /\ budget \in RetryTargets(budget, tiers)
         /\ \A b \in RetryTargets(budget, tiers) :
              budget <= b /\ b <= Greatest(RetryTargets(budget, tiers))
         /\ Greatest(RetryTargets(budget, tiers)) \in RetryTargets(budget, tiers)
<1> DEFINE Rec(f) == f = [n \in Nat |-> IF n = 0 THEN {budget} ELSE Climbed(f[n - 1])]
           full   == [n \in Nat |-> (CHOOSE g : ClimbTo(g, budget, n))[n]]
           climb  == CHOOSE f : Rec(f)
           Good(S) == /\ S \in SUBSET Nat
                      /\ budget \in S
                      /\ \E top \in S : \A b \in S : budget <= b /\ b <= top
<1>1. Rec(full)
  <2>1. ASSUME NEW n \in Nat
        PROVE  full[n] = IF n = 0 THEN {budget} ELSE Climbed(full[n - 1])
    <3> DEFINE g == CHOOSE x : ClimbTo(x, budget, n)
               h == CHOOSE x : ClimbTo(x, budget, n - 1)
    <3>1. ClimbTo(g, budget, n)
      BY ClimbExists
    <3>2. full[n] = g[n]
      OBVIOUS
    <3>3. g[n] = IF n = 0 THEN {budget} ELSE Climbed(g[n - 1])
      <4> HIDE DEF g
      <4>1. n \in 0 .. n
        OBVIOUS
      <4> QED BY <3>1, <4>1, Zenon DEF ClimbTo
    <3>4. CASE n = 0
      BY <3>2, <3>3, <3>4
    <3>5. CASE n # 0
      <4>1. n - 1 \in Nat /\ n - 1 <= n /\ n - 1 \in 0 .. n - 1
        BY <3>5
      <4>2. ClimbTo(h, budget, n - 1)
        BY <4>1, ClimbExists
      <4>3. full[n - 1] = h[n - 1]
        BY <4>1
      <4>4. h[n - 1] = g[n - 1]
        <5> HIDE DEF g, h
        <5> QED BY <3>1, <4>1, <4>2, ClimbUnique
      <4> QED BY <3>2, <3>3, <3>5, <4>3, <4>4
    <3> QED BY <3>4, <3>5
  <2>2. full = [n \in Nat |-> full[n]]
    OBVIOUS
  <2> HIDE DEF full
  <2> QED BY <2>1, <2>2, Zenon
<1>2. Rec(climb)
  <2> HIDE DEF Rec, full
  <2> QED BY <1>1, Zenon
<1>3. \A n \in Nat : climb[n] = IF n = 0 THEN {budget} ELSE Climbed(climb[n - 1])
  <2> HIDE DEF climb
  <2> QED BY <1>2, Zenon
<1>4. ASSUME NEW S, Good(S) PROVE Good(Climbed(S))
  <2>1. PICK top \in S : \A b \in S : budget <= b /\ b <= top
    BY <1>4
  <2>2. Greatest(S) \in S /\ \A y \in S : y <= Greatest(S)
    BY <1>4, <2>1, GreatestOfBounded
  <2>3. Greatest(S) \in Nat /\ budget <= Greatest(S)
    BY <1>4, <2>2
  <2>4. NextBudget(Greatest(S)) \in Nat
    BY <2>3, NextBudgetAscends
  <2>5. CASE NextBudget(Greatest(S)) <= Greatest(S)
    BY <1>4, <2>5 DEF Climbed
  <2>6. CASE ~(NextBudget(Greatest(S)) <= Greatest(S))
    <3> DEFINE next == NextBudget(Greatest(S))
    <3>1. Climbed(S) = S \cup {next}
      BY <2>6 DEF Climbed
    <3>2. next \in Nat /\ budget <= next /\ \A b \in S : b <= next
      BY <1>4, <2>2, <2>3, <2>4, <2>6
    <3> HIDE DEF next
    <3>3. \A b \in Climbed(S) : budget <= b /\ b <= next
      BY <2>1, <3>1, <3>2
    <3>4. Climbed(S) \in SUBSET Nat /\ budget \in Climbed(S) /\ next \in Climbed(S)
      BY <1>4, <3>1, <3>2
    <3> QED BY <3>3, <3>4
  <2> QED BY <2>5, <2>6
<1>5. ASSUME NEW n \in Nat PROVE Good(climb[n])
  <2> DEFINE bad == {i \in Nat : ~Good(climb[i])}
  <2> SUFFICES ASSUME bad # {} PROVE FALSE
    OBVIOUS
  <2> HIDE DEF climb, Good
  <2>1. PICK least \in bad : \A i \in bad : least <= i
    BY LeastOfNaturals
  <2>2. CASE least = 0
    <3>1. climb[least] = {budget}
      BY <1>3, <2>2
    <3>2. Good({budget})
      BY DEF Good
    <3> QED BY <2>1, <3>1, <3>2
  <2>3. CASE least # 0
    <3>1. least - 1 \in Nat /\ least - 1 \notin bad
      BY <2>1, <2>3
    <3>2. Good(climb[least - 1])
      BY <3>1
    <3>3. Good(Climbed(climb[least - 1]))
      BY <1>4, <3>2
    <3>4. climb[least] = Climbed(climb[least - 1])
      BY <1>3, <2>1, <2>3
    <3> QED BY <2>1, <3>3, <3>4
  <2> QED BY <2>2, <2>3
<1>6. RetryTargets(budget, tiers) = climb[tiers - 1]
  BY Zenon DEF RetryTargets, Climbed
<1>7. Good(RetryTargets(budget, tiers))
  <2>1. tiers - 1 \in Nat
    OBVIOUS
  <2> HIDE DEF climb, Good
  <2> QED BY <1>5, <1>6, <2>1
<1>8. /\ Greatest(RetryTargets(budget, tiers)) \in RetryTargets(budget, tiers)
      /\ \A b \in RetryTargets(budget, tiers) : b <= Greatest(RetryTargets(budget, tiers))
  <2>1. PICK top \in RetryTargets(budget, tiers) : \A b \in RetryTargets(budget, tiers) : b <= top
    BY <1>7
  <2> HIDE DEF Rec, full, climb
  <2> QED BY <1>7, <2>1, GreatestOfBounded
<1> QED BY <1>7, <1>8
=============================================================================
