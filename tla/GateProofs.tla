----------------------------- MODULE GateProofs -----------------------------
(***************************************************************************)
(* Theorems about the gate level: what the operators of AIG compute for    *)
(* every well-formed circuit, and what follows for the engines of          *)
(* GateEngines whatever the sources and bounds.                            *)
(*                                                                         *)
(* The recursive functions of AIG are pinned down step by step (an exists  *)
(* lemma, then induction over the step number with the claim as a set).    *)
(* Truths is the only evaluation of a circuit; cone and slice are closed   *)
(* under fanin and fanout; so the query on them decides redundancy and its *)
(* audit passes. Strash keeps, gate after gate, a flat substitution by     *)
(* literals of equal truth. The inductive invariant IInv then ties what is *)
(* accepted, the working gates and what is still to be asked to the        *)
(* function of the work AAG.                                               *)
(***************************************************************************)
EXTENDS GateEngines, FiniteSetTheorems, WellFoundedInduction, NaturalsInduction, TLAPS

(* Induction over the naturals with the property as a set.                 *)
LEMMA SetInduction ==
  ASSUME NEW S, 0 \in S, \A n \in Nat : n \in S => n + 1 \in S
  PROVE  \A n \in Nat : n \in S
<1> SUFFICES ASSUME NEW m \in Nat, m \notin S PROVE FALSE
  OBVIOUS
<1> DEFINE missing == {n \in Nat : n \notin S}
<1>1. PICK x \in missing : \A y \in missing : <<y, x>> \notin OpToRel(<, Nat)
  BY NatLessThanWellFounded, WFMin
<1>2. OpToRel(<, Nat) = {ss \in Nat \X Nat : ss[1] < ss[2]}
  BY Zenon DEF OpToRel
<1>3. \A y \in missing : ~ (y < x)
  BY <1>1, <1>2
<1>4. x # 0 /\ x - 1 \in Nat /\ x - 1 \notin missing
  BY <1>3
<1> QED BY <1>4

(* Course-of-values induction over a range of positions.                   *)
LEMMA PositionInduction ==
  ASSUME NEW N \in Nat, NEW S,
         \A i \in 1 .. N : (\A j \in 1 .. i - 1 : j \in S) => i \in S
  PROVE  \A i \in 1 .. N : i \in S
<1> DEFINE upTo == {n \in Nat : \A i \in 1 .. N : i <= n => i \in S}
<1>1. 0 \in upTo
  OBVIOUS
<1>2. ASSUME NEW n \in Nat, n \in upTo PROVE n + 1 \in upTo
  <2> SUFFICES ASSUME NEW i \in 1 .. N, i <= n + 1 PROVE i \in S
    OBVIOUS
  <2>1. \A j \in 1 .. i - 1 : j \in S
    BY <1>2
  <2> QED BY <2>1
<1> HIDE DEF upTo
<1>3. N \in upTo
  BY <1>1, <1>2, SetInduction
<1> QED BY <1>3 DEF upTo

-----------------------------------------------------------------------------
(* Literals.                                                               *)

(* A base is the even one of a literal and its complement.                 *)
LEMMA LiteralArithmetic ==
  ASSUME NEW lit \in Nat
  PROVE  /\ lit % 2 \in {0, 1}
         /\ Base(lit) \in Nat /\ Base(lit) % 2 = 0 /\ Base(lit) <= lit
         /\ lit = Base(lit) + (lit % 2)
         /\ Base(Base(lit)) = Base(lit)
         /\ Not(lit) \in Nat /\ Base(Not(lit)) = Base(lit) /\ Not(lit) # lit
         /\ Not(lit) % 2 = 1 - (lit % 2) /\ Not(Not(lit)) = lit
         /\ (Base(lit) = 0 <=> lit \in {0, 1})
<1>1. lit % 2 \in {0, 1}
  OBVIOUS
<1>2. CASE lit % 2 = 0
  <2>1. PICK k \in Nat : lit = 2 * k
    BY <1>2
  <2>2. Base(lit) = lit /\ Not(lit) = lit + 1
    BY <1>2 DEF Base, Not
  <2>3. (lit + 1) % 2 = 1
    BY <2>1
  <2>4. Base(lit + 1) = lit /\ Not(lit + 1) = lit
    BY <2>3 DEF Base, Not
  <2>5. lit # 1
    BY <2>1
  <2> QED BY <1>2, <2>2, <2>3, <2>4, <2>5
<1>3. CASE lit % 2 = 1
  <2>1. PICK k \in Nat : lit = 2 * k + 1
    BY <1>3
  <2>2. Base(lit) = lit - 1 /\ Not(lit) = lit - 1
    BY <1>3 DEF Base, Not
  <2>3. (lit - 1) % 2 = 0
    BY <2>1
  <2>4. Base(lit - 1) = lit - 1 /\ Not(lit - 1) = lit
    BY <2>3, <2>1 DEF Base, Not
  <2>5. lit - 1 \in Nat /\ lit - 1 = Base(lit) /\ lit # 0
    BY <2>1, <2>2
  <2>6. Base(lit) = 0 <=> lit \in {0, 1}
    BY <2>1, <2>2
  <2> QED BY <1>3, <2>2, <2>3, <2>4, <2>5, <2>6
<1> QED BY <1>1, <1>2, <1>3

(* An even literal is its own base.                                        *)
LEMMA EvenIsBase ==
  ASSUME NEW lit \in Nat, lit % 2 = 0
  PROVE  Base(lit) = lit
BY DEF Base

-----------------------------------------------------------------------------
(* Evaluation of a gate list.                                              *)
TruthStep(c, before, S, n) ==
  IF n \in S
  THEN With(before, Lhs(c.gates[n]), AndTruth(c, before, c.gates[n]))
  ELSE before

TruthsTo(T, c, known, S, n) ==
  T = [m \in 0 .. n |-> IF m = 0 THEN known ELSE TruthStep(c, T[m - 1], S, m)]

(* There are such rounds of every number.                                  *)
LEMMA TruthsToExist ==
  ASSUME NEW c, NEW known, NEW S
  PROVE  \A n \in Nat : \E T : TruthsTo(T, c, known, S, n)
<1> DEFINE P == {n \in Nat : \E T : TruthsTo(T, c, known, S, n)}
<1>1. 0 \in P
  <2> DEFINE T == [m \in 0 .. 0 |-> known]
  <2>1. TruthsTo(T, c, known, S, 0)
    BY DEF TruthsTo
  <2> QED BY <2>1
<1>2. ASSUME NEW n \in Nat, n \in P PROVE n + 1 \in P
  <2>1. PICK T : TruthsTo(T, c, known, S, n)
    BY <1>2
  <2> DEFINE U == [m \in 0 .. n + 1 |->
                     IF m = n + 1 THEN TruthStep(c, T[n], S, n + 1) ELSE T[m]]
  <2>2. ASSUME NEW m \in 0 .. n + 1
        PROVE  U[m] = IF m = 0 THEN known ELSE TruthStep(c, U[m - 1], S, m)
    <3>1. CASE m = n + 1
      BY <3>1
    <3>2. CASE m # n + 1
      <4>1. m \in 0 .. n /\ (m # 0 => m - 1 \in 0 .. n)
        BY <3>2
      <4>2. T[m] = IF m = 0 THEN known ELSE TruthStep(c, T[m - 1], S, m)
        BY <2>1, <4>1, Zenon DEF TruthsTo
      <4> QED BY <3>2, <4>1, <4>2
    <3> QED BY <3>1, <3>2
  <2>3. U = [m \in 0 .. n + 1 |-> U[m]]
    OBVIOUS
  <2> HIDE DEF U
  <2>4. TruthsTo(U, c, known, S, n + 1)
    BY <2>2, <2>3, Zenon DEF TruthsTo
  <2> QED BY <2>4
<1> HIDE DEF P
<1>3. \A n \in Nat : n \in P
  BY <1>1, <1>2, SetInduction
<1> QED BY <1>3 DEF P

(* The states TruthsOver goes through.                                     *)
TruthRun(T, c, known, S) ==
  /\ T[0] = known
  /\ \A n \in 1 .. Len(c.gates) : T[n] = TruthStep(c, T[n - 1], S, n)

(* TruthsOver is the last of its rounds.                                   *)
LEMMA TruthsOverSteps ==
  ASSUME NEW c, NEW known, NEW S, Len(c.gates) \in Nat
  PROVE  \E T : TruthRun(T, c, known, S) /\ TruthsOver(c, known, S) = T[Len(c.gates)]
<1> DEFINE N == Len(c.gates)
           T == CHOOSE T : TruthsTo(T, c, known, S, N)
<1>1. TruthsTo(T, c, known, S, N)
  BY TruthsToExist
<1>2. TruthsOver(c, known, S) = T[N]
  BY Zenon DEF TruthsOver, TruthsTo, TruthStep
<1> HIDE DEF T
<1>3. \A m \in 0 .. N : T[m] = IF m = 0 THEN known ELSE TruthStep(c, T[m - 1], S, m)
  BY <1>1, Zenon DEF TruthsTo
<1>4. T[0] = known
  BY <1>3
<1>5. \A n \in 1 .. N : T[n] = TruthStep(c, T[n - 1], S, n)
  BY <1>3
<1> QED BY <1>2, <1>4, <1>5 DEF TruthRun

-----------------------------------------------------------------------------
(* What WellFormed gives to the positions of a gate list.                  *)

(* A gate list is a sequence of triples with increasing even ids, none of  *)
(* them a constant or a primary.                                           *)
LEMMA GateShape ==
  ASSUME NEW c, WellFormed(c)
  PROVE  /\ Len(c.gates) \in Nat /\ DOMAIN c.gates = 1 .. Len(c.gates)
         /\ \A i \in 1 .. Len(c.gates) :
              /\ c.gates[i] \in Nat \X Nat \X Nat
              /\ Lhs(c.gates[i]) \in Nat /\ Base(Lhs(c.gates[i])) = Lhs(c.gates[i])
              /\ Lhs(c.gates[i]) # 0 /\ Lhs(c.gates[i]) \notin Primaries(c)
              /\ Fanins(c.gates[i]) \subseteq Nat
<1> DEFINE gates == c.gates
<1>1. gates \in Seq(Nat \X Nat \X Nat)
  BY DEF WellFormed
<1>2. Len(gates) \in Nat /\ DOMAIN gates = 1 .. Len(gates)
  BY <1>1
<1>3. ASSUME NEW i \in 1 .. Len(gates)
      PROVE  /\ gates[i] \in Nat \X Nat \X Nat
             /\ Lhs(gates[i]) \in Nat /\ Base(Lhs(gates[i])) = Lhs(gates[i])
             /\ Lhs(gates[i]) # 0 /\ Lhs(gates[i]) \notin Primaries(c)
             /\ Fanins(gates[i]) \subseteq Nat
  <2>1. gates[i] \in Nat \X Nat \X Nat
    BY <1>1
  <2>2. Lhs(gates[i]) \in Nat /\ Fanins(gates[i]) \subseteq Nat
    BY <2>1 DEF Lhs, Fanins
  <2>3. Lhs(gates[i]) % 2 = 0 /\ Lhs(gates[i]) \notin {0} \cup Primaries(c)
    BY <1>2 DEF WellFormed
  <2> QED BY <2>1, <2>2, <2>3, EvenIsBase
<1> QED BY <1>2, <1>3

(* No two gates have an id in common.                                      *)
LEMMA GateOrder ==
  ASSUME NEW c, WellFormed(c), NEW i \in 1 .. Len(c.gates), NEW j \in 1 .. Len(c.gates)
  PROVE  /\ i < j => Lhs(c.gates[i]) < Lhs(c.gates[j])
         /\ Lhs(c.gates[i]) = Lhs(c.gates[j]) => i = j
         /\ \A lit \in Fanins(c.gates[i]) : Base(lit) = Lhs(c.gates[j]) => j < i
<1>1. Len(c.gates) \in Nat /\ DOMAIN c.gates = 1 .. Len(c.gates)
  BY GateShape
<1>2. \A k, l \in 1 .. Len(c.gates) : k < l => Lhs(c.gates[k]) < Lhs(c.gates[l])
  BY <1>1 DEF WellFormed
<1>3. \A k, l \in 1 .. Len(c.gates) : Lhs(c.gates[k]) = Lhs(c.gates[l]) => k = l
  <2> SUFFICES ASSUME NEW k \in 1 .. Len(c.gates), NEW l \in 1 .. Len(c.gates),
                      Lhs(c.gates[k]) = Lhs(c.gates[l]), k # l
               PROVE  FALSE
    OBVIOUS
  <2>1. k < l \/ l < k
    OBVIOUS
  <2>2. Lhs(c.gates[k]) \in Nat
    BY GateShape
  <2> QED BY <1>2, <2>1, <2>2
<1>4. ASSUME NEW lit \in Fanins(c.gates[i]), Base(lit) = Lhs(c.gates[j])
      PROVE  j < i
  <2>1. \/ Base(lit) \in {0} \cup Primaries(c)
        \/ \E k \in 1 .. i - 1 : Lhs(c.gates[k]) = Base(lit)
    BY <1>1 DEF WellFormed, FaninsDefined
  <2>2. Base(lit) \notin {0} \cup Primaries(c)
    BY <1>4, GateShape
  <2>3. PICK k \in 1 .. i - 1 : Lhs(c.gates[k]) = Base(lit)
    BY <2>1, <2>2
  <2>4. k = j
    BY <1>1, <1>3, <1>4, <2>3
  <2> QED BY <2>3, <2>4
<1> QED BY <1>2, <1>3, <1>4

(* A fanin is a constant, a primary or a gate before.                      *)
LEMMA FaninKnown ==
  ASSUME NEW c, WellFormed(c), NEW i \in 1 .. Len(c.gates), NEW lit \in Fanins(c.gates[i])
  PROVE  /\ lit \in Nat /\ Base(lit) \in Nat /\ Base(Base(lit)) = Base(lit)
         /\ \/ Base(lit) \in {0} \cup Primaries(c)
            \/ \E j \in 1 .. i - 1 : Lhs(c.gates[j]) = Base(lit)
<1>1. lit \in Nat
  BY GateShape
<1>2. i \in DOMAIN c.gates
  BY GateShape
<1>3. \/ Base(lit) \in {0} \cup Primaries(c)
      \/ \E j \in 1 .. i - 1 : Lhs(c.gates[j]) = Base(lit)
  BY <1>2 DEF WellFormed, FaninsDefined
<1> QED BY <1>1, <1>3, LiteralArithmetic

(* The gates whose output a literal names: at most one.                    *)
LEMMA GateAtIs ==
  ASSUME NEW c, WellFormed(c), NEW lit
  PROVE  /\ GateAt(c.gates, lit) = {i \in 1 .. Len(c.gates) : Lhs(c.gates[i]) = Base(lit)}
         /\ \A i \in 1 .. Len(c.gates) :
              Lhs(c.gates[i]) = Base(lit) => GateAt(c.gates, lit) = {i}
<1>1. GateAt(c.gates, lit) = {i \in 1 .. Len(c.gates) : Lhs(c.gates[i]) = Base(lit)}
  BY GateShape DEF GateAt
<1> QED BY <1>1, GateOrder

-----------------------------------------------------------------------------
(* What truths depend on.                                                  *)

(* The truth of a literal depends on the truth of its base only.           *)
LEMMA TruthOfBase ==
  ASSUME NEW c, NEW T, NEW U, NEW lit \in Nat, T[Base(lit)] = U[Base(lit)]
  PROVE  LitTruth(c, T, lit) = LitTruth(c, U, lit)
<1>1. CASE lit % 2 = 0
  BY <1>1, EvenIsBase DEF LitTruth
<1>2. CASE lit % 2 # 0
  BY <1>2 DEF LitTruth
<1> QED BY <1>1, <1>2

AgreeBelow(T, U, gate) ==
  /\ Fanins(gate) \subseteq Nat
  /\ \A lit \in Fanins(gate) : T[Base(lit)] = U[Base(lit)]

(* So does the truth of a gate.                                            *)
LEMMA TruthOfGate ==
  ASSUME NEW c, NEW T, NEW U, NEW gate, AgreeBelow(T, U, gate)
  PROVE  AndTruth(c, T, gate) = AndTruth(c, U, gate)
<1>1. gate[2] \in Fanins(gate) /\ gate[3] \in Fanins(gate)
  BY DEF Fanins
<1>2. \A lit \in Fanins(gate) : LitTruth(c, T, lit) = LitTruth(c, U, lit)
  BY TruthOfBase DEF AgreeBelow
<1> QED BY <1>1, <1>2 DEF AndTruth

(* Once set, a truth stays as it is until a gate of the same id.           *)
Unmoved(T, c, S, m, n) ==
  /\ \A b : b \in DOMAIN T[n] <=>
       b \in DOMAIN T[m] \/ \E i \in S : m < i /\ i <= n /\ Lhs(c.gates[i]) = b
  /\ \A b \in DOMAIN T[m] :
       (\A i \in S : m < i /\ i <= n => Lhs(c.gates[i]) # b) => T[n][b] = T[m][b]

(* A truth changes in the round of its own gate only.                      *)
LEMMA TruthsStay ==
  ASSUME NEW c, WellFormed(c), NEW known, NEW S, S \subseteq 1 .. Len(c.gates), NEW T,
         TruthRun(T, c, known, S),
         NEW m \in 0 .. Len(c.gates), NEW n \in 0 .. Len(c.gates), m <= n
  PROVE  Unmoved(T, c, S, m, n)
<1> DEFINE N == Len(c.gates)
           P == {k \in Nat : m + k <= N => Unmoved(T, c, S, m, m + k)}
<1>1. N \in Nat /\ \A i \in S : i \in 1 .. N
  BY GateShape
<1>2. 0 \in P
  BY DEF Unmoved
<1>3. ASSUME NEW k \in Nat, k \in P PROVE k + 1 \in P
  <2> SUFFICES ASSUME m + (k + 1) <= N PROVE Unmoved(T, c, S, m, m + (k + 1))
    OBVIOUS
  <2>1. PICK o \in 1 .. N : o = m + (k + 1) /\ o - 1 = m + k /\ m < o
    BY <1>1
  <2>2. Unmoved(T, c, S, m, m + k)
    BY <1>1, <1>3
  <2>3. T[o] = TruthStep(c, T[m + k], S, o)
    BY <2>1 DEF TruthRun
  <2>4. \A i \in S : m < i /\ i <= o <=> (m < i /\ i <= m + k) \/ i = o
    BY <1>1, <2>1
  <2>5. CASE o \notin S
    <3>1. T[o] = T[m + k]
      BY <2>3, <2>5 DEF TruthStep
    <3>2. \A i \in S : m < i /\ i <= o <=> m < i /\ i <= m + k
      BY <2>4, <2>5
    <3>3. Unmoved(T, c, S, m, o)
      BY <2>2, <3>1, <3>2 DEF Unmoved
    <3> QED BY <2>1, <3>3
  <2>6. CASE o \in S
    <3> DEFINE l == Lhs(c.gates[o])
    <3>1. /\ \A b : b \in DOMAIN T[o] <=> b \in DOMAIN T[m + k] \/ b = l
          /\ \A b \in DOMAIN T[m + k] : b # l => T[o][b] = T[m + k][b]
      <4>1. T[o] = With(T[m + k], l, AndTruth(c, T[m + k], c.gates[o]))
        BY <2>3, <2>6 DEF TruthStep
      <4> QED BY <4>1 DEF With
    <3>2. Unmoved(T, c, S, m, o)
      BY <2>2, <2>4, <2>6, <3>1 DEF Unmoved
    <3> QED BY <2>1, <3>2
  <2> QED BY <2>5, <2>6
<1> HIDE DEF P
<1>4. n - m \in Nat /\ \A k \in Nat : k \in P
  BY <1>1, <1>2, <1>3, SetInduction
<1>5. Unmoved(T, c, S, m, n)
  <2>1. m + (n - m) = n /\ n <= N
    BY <1>1
  <2>2. n - m \in P
    BY <1>4
  <2> QED BY <2>1, <2>2 DEF P
<1> QED BY <1>5

(* TruthsOver keeps what is known and solves the equations of the gates it *)
(* runs over, when they read only each other and what is known.            *)
Readable(c, known, S) ==
  /\ S \subseteq 1 .. Len(c.gates)
  /\ \A i \in S : \A lit \in Fanins(c.gates[i]) :
       Base(lit) \in DOMAIN known \/ \E j \in S : Base(lit) = Lhs(c.gates[j])

Solves(T, c, known, S) ==
  /\ \A b : b \in DOMAIN T <=> b \in DOMAIN known \/ \E i \in S : Lhs(c.gates[i]) = b
  /\ \A b \in DOMAIN known : (\A i \in S : Lhs(c.gates[i]) # b) => T[b] = known[b]
  /\ \A i \in S : T[Lhs(c.gates[i])] = AndTruth(c, T, c.gates[i])

(* After all rounds, every gate of the set has the truth of its fanins,    *)
(* nothing else has changed, and nothing has come in but these gates.      *)
LEMMA TruthsOverIs ==
  ASSUME NEW c, WellFormed(c), NEW known, NEW S, Readable(c, known, S),
         NEW T, T = TruthsOver(c, known, S)
  PROVE  Solves(T, c, known, S)
<1>0. /\ S \subseteq 1 .. Len(c.gates)
      /\ \A i \in S : \A lit \in Fanins(c.gates[i]) :
           Base(lit) \in DOMAIN known \/ \E j \in S : Base(lit) = Lhs(c.gates[j])
  BY DEF Readable
<1> DEFINE N == Len(c.gates)
<1>1. N \in Nat /\ \A i \in S : i \in 1 .. N
  BY <1>0, GateShape
<1>2. PICK R : TruthRun(R, c, known, S) /\ T = R[N]
  BY <1>1, TruthsOverSteps
<1>3. ASSUME NEW m \in 0 .. N, NEW n \in 0 .. N, m <= n
      PROVE  /\ \A b : b \in DOMAIN R[n] <=>
                  b \in DOMAIN R[m] \/ \E i \in S : m < i /\ i <= n /\ Lhs(c.gates[i]) = b
             /\ \A b \in DOMAIN R[m] :
                  (\A i \in S : m < i /\ i <= n => Lhs(c.gates[i]) # b) => R[n][b] = R[m][b]
  <2>1. Unmoved(R, c, S, m, n)
    BY <1>0, <1>2, <1>3, TruthsStay
  <2> QED BY <2>1 DEF Unmoved
<1>4. R[0] = known /\ \A n \in 1 .. N : R[n] = TruthStep(c, R[n - 1], S, n)
  BY <1>2 DEF TruthRun
<1>5. /\ \A b : b \in DOMAIN T <=>
                 b \in DOMAIN known \/ \E i \in S : Lhs(c.gates[i]) = b
      /\ \A b \in DOMAIN known : (\A i \in S : Lhs(c.gates[i]) # b) => T[b] = known[b]
  <2>1. 0 \in 0 .. N /\ N \in 0 .. N /\ 0 <= N /\ \A i \in S : 0 < i /\ i <= N
    BY <1>1
  <2> QED BY <1>2, <1>3, <1>4, <2>1
<1>6. ASSUME NEW i \in S PROVE T[Lhs(c.gates[i])] = AndTruth(c, T, c.gates[i])
  <2>1. PICK gate : gate = c.gates[i]
    OBVIOUS
  <2>2. i \in 1 .. N /\ i - 1 \in 0 .. N /\ i \in 0 .. N /\ N \in 0 .. N /\ i <= N /\ i - 1 <= N
    BY <1>1
  <2>3. R[i] = With(R[i - 1], Lhs(gate), AndTruth(c, R[i - 1], gate))
    BY <1>4, <2>1, <2>2 DEF TruthStep
  <2>4. Lhs(gate) \in DOMAIN R[i] /\ R[i][Lhs(gate)] = AndTruth(c, R[i - 1], gate)
    BY <2>3 DEF With
  <2>5. \A j \in S : i < j => Lhs(c.gates[j]) # Lhs(gate)
    BY <1>1, <2>1, <2>2, GateOrder
  <2>6. T[Lhs(gate)] = R[i][Lhs(gate)]
    BY <1>2, <1>3, <2>2, <2>4, <2>5
  <2>7. ASSUME NEW lit \in Fanins(gate) PROVE T[Base(lit)] = R[i - 1][Base(lit)]
    <3>1. \A j \in S : Base(lit) = Lhs(c.gates[j]) => j < i
      BY <1>1, <2>1, <2>2, GateOrder
    <3>2. Base(lit) \in DOMAIN known \/ \E j \in S : Base(lit) = Lhs(c.gates[j])
      BY <1>0, <2>1
    <3>3. 0 \in 0 .. N /\ 0 <= i - 1 /\ \A j \in S : j < i => 0 < j /\ j <= i - 1
      BY <1>1, <2>2
    <3>4. Base(lit) \in DOMAIN R[i - 1]
      BY <1>3, <1>4, <2>2, <3>1, <3>2, <3>3
    <3>5. \A j \in S : i - 1 < j /\ j <= N => Lhs(c.gates[j]) # Base(lit)
      BY <1>1, <2>2, <3>1
    <3> QED BY <1>2, <1>3, <2>2, <3>4, <3>5
  <2>8. Fanins(gate) \subseteq Nat
    BY <2>1, <2>2, GateShape
  <2>9. AndTruth(c, T, gate) = AndTruth(c, R[i - 1], gate)
    <3>1. AgreeBelow(T, R[i - 1], gate)
      BY <2>7, <2>8 DEF AgreeBelow
    <3> QED BY <3>1, TruthOfGate
  <2> QED BY <2>1, <2>4, <2>6, <2>9
<1> QED BY <1>5, <1>6 DEF Solves

-----------------------------------------------------------------------------
(* Walks.                                                                  *)
Spread(succ, seen) == seen \cup UNION {succ[i] : i \in seen}

ReachTo(w, succ, from, n) ==
  w = [m \in 0 .. n |-> IF m = 0 THEN from ELSE Spread(succ, w[m - 1])]

(* There are such rounds of every number.                                  *)
LEMMA ReachToExist ==
  ASSUME NEW succ, NEW from
  PROVE  \A n \in Nat : \E w : ReachTo(w, succ, from, n)
<1> DEFINE P == {n \in Nat : \E w : ReachTo(w, succ, from, n)}
<1>1. 0 \in P
  <2> DEFINE w == [m \in 0 .. 0 |-> from]
  <2>1. ReachTo(w, succ, from, 0)
    BY DEF ReachTo
  <2> QED BY <2>1
<1>2. ASSUME NEW n \in Nat, n \in P PROVE n + 1 \in P
  <2>1. PICK w : ReachTo(w, succ, from, n)
    BY <1>2
  <2> DEFINE v == [m \in 0 .. n + 1 |-> IF m = n + 1 THEN Spread(succ, w[n]) ELSE w[m]]
  <2>2. ASSUME NEW m \in 0 .. n + 1
        PROVE  v[m] = IF m = 0 THEN from ELSE Spread(succ, v[m - 1])
    <3>1. CASE m = n + 1
      BY <3>1
    <3>2. CASE m # n + 1
      <4>1. m \in 0 .. n /\ (m # 0 => m - 1 \in 0 .. n)
        BY <3>2
      <4>2. w[m] = IF m = 0 THEN from ELSE Spread(succ, w[m - 1])
        BY <2>1, <4>1, Zenon DEF ReachTo
      <4> QED BY <3>2, <4>1, <4>2
    <3> QED BY <3>1, <3>2
  <2>3. v = [m \in 0 .. n + 1 |-> v[m]]
    OBVIOUS
  <2> HIDE DEF v
  <2>4. ReachTo(v, succ, from, n + 1)
    BY <2>2, <2>3, Zenon DEF ReachTo
  <2> QED BY <2>4
<1> HIDE DEF P
<1>3. \A n \in Nat : n \in P
  BY <1>1, <1>2, SetInduction
<1> QED BY <1>3 DEF P

ReachRun(w, succ, from, N) ==
  /\ w[0] = from
  /\ \A n \in 1 .. N : w[n] = Spread(succ, w[n - 1])

(* The rounds Reach goes through.                                          *)
LEMMA ReachRuns ==
  ASSUME NEW succ, NEW from, NEW N \in Nat, N = Cardinality(DOMAIN succ)
  PROVE  \E w : ReachRun(w, succ, from, N) /\ Reach(succ, from) = w[N]
<1> DEFINE w == CHOOSE w : ReachTo(w, succ, from, N)
<1>1. ReachTo(w, succ, from, N)
  BY ReachToExist
<1>2. Reach(succ, from) = w[N]
  BY Zenon DEF Reach, ReachTo, Spread
<1> HIDE DEF w
<1>3. \A m \in 0 .. N : w[m] = IF m = 0 THEN from ELSE Spread(succ, w[m - 1])
  BY <1>1, Zenon DEF ReachTo
<1>4. w[0] = from
  BY <1>3
<1>5. \A n \in 1 .. N : w[n] = Spread(succ, w[n - 1])
  BY <1>3
<1> QED BY <1>2, <1>4, <1>5 DEF ReachRun

ClosedUnder(succ, X) == \A i \in X : succ[i] \subseteq X

(* A walk never leaves a closed set it begins in.                          *)
LEMMA ReachLeast ==
  ASSUME NEW succ, Cardinality(DOMAIN succ) \in Nat, NEW from, NEW X, from \subseteq X,
         ClosedUnder(succ, X)
  PROVE  Reach(succ, from) \subseteq X
<1> DEFINE N == Cardinality(DOMAIN succ)
<1>1. PICK w : ReachRun(w, succ, from, N) /\ Reach(succ, from) = w[N]
  BY ReachRuns
<1> DEFINE P == {n \in Nat : n <= N => w[n] \subseteq X}
<1>2. 0 \in P
  BY <1>1 DEF ReachRun
<1>3. ASSUME NEW n \in Nat, n \in P PROVE n + 1 \in P
  <2> SUFFICES ASSUME n + 1 <= N PROVE w[n + 1] \subseteq X
    OBVIOUS
  <2>1. w[n] \subseteq X
    BY <1>3
  <2>2. n + 1 \in 1 .. N /\ (n + 1) - 1 = n
    OBVIOUS
  <2>3. w[n + 1] = Spread(succ, w[n])
    BY <1>1, <2>2 DEF ReachRun
  <2>4. UNION {succ[i] : i \in w[n]} \subseteq X
    BY <2>1 DEF ClosedUnder
  <2> QED BY <2>1, <2>3, <2>4 DEF Spread
<1> HIDE DEF P
<1>4. N \in P
  BY <1>2, <1>3, SetInduction
<1> QED BY <1>1, <1>4 DEF P

(* A walk on finitely many positions goes as far as it can: a round that   *)
(* adds nothing is the last, and the others add a position each.           *)
LEMMA ReachClosed ==
  ASSUME NEW D, IsFiniteSet(D), NEW succ \in [D -> SUBSET D], NEW from, from \subseteq D
  PROVE  /\ from \subseteq Reach(succ, from)
         /\ Reach(succ, from) \subseteq D
         /\ ClosedUnder(succ, Reach(succ, from))
<1> DEFINE N == Cardinality(D)
<1>1. N \in Nat /\ DOMAIN succ = D
  BY FS_CardinalityType
<1>2. PICK w : ReachRun(w, succ, from, N) /\ Reach(succ, from) = w[N]
  BY <1>1, ReachRuns
<1> DEFINE P == {n \in Nat : n <= N =>
                   /\ from \subseteq w[n] /\ w[n] \subseteq D
                   /\ ClosedUnder(succ, w[n]) \/ Cardinality(w[n]) >= n}
<1>3. 0 \in P
  <2>1. Cardinality(w[0]) \in Nat
    BY <1>2, FS_Subset, FS_CardinalityType DEF ReachRun
  <2> QED BY <1>2, <2>1 DEF ReachRun
<1>4. ASSUME NEW n \in Nat, n \in P PROVE n + 1 \in P
  <2> SUFFICES ASSUME n + 1 <= N
               PROVE  /\ from \subseteq w[n + 1] /\ w[n + 1] \subseteq D
                      /\ ClosedUnder(succ, w[n + 1]) \/ Cardinality(w[n + 1]) >= n + 1
    OBVIOUS
  <2>1. /\ from \subseteq w[n] /\ w[n] \subseteq D
        /\ ClosedUnder(succ, w[n]) \/ Cardinality(w[n]) >= n
    BY <1>1, <1>4
  <2>2. w[n + 1] = Spread(succ, w[n])
    <3>1. n + 1 \in 1 .. N /\ (n + 1) - 1 = n
      BY <1>1
    <3> QED BY <1>2, <3>1 DEF ReachRun
  <2>3. w[n] \subseteq w[n + 1] /\ w[n + 1] \subseteq D
    BY <2>1, <2>2 DEF Spread
  <2>4. CASE ClosedUnder(succ, w[n])
    <3>1. w[n + 1] = w[n]
      BY <2>2, <2>4 DEF Spread, ClosedUnder
    <3> QED BY <2>1, <2>4, <3>1
  <2>5. CASE ~ClosedUnder(succ, w[n])
    <3>1. w[n + 1] # w[n]
      BY <2>2, <2>5 DEF Spread, ClosedUnder
    <3>2. IsFiniteSet(w[n + 1])
      BY <2>3, FS_Subset
    <3>3. Cardinality(w[n]) \in Nat /\ Cardinality(w[n + 1]) \in Nat
      BY <2>3, <3>2, FS_Subset, FS_CardinalityType
    <3>4. /\ Cardinality(w[n]) <= Cardinality(w[n + 1])
          /\ Cardinality(w[n + 1]) = Cardinality(w[n]) => w[n + 1] = w[n]
      <4>1. w[n] \in SUBSET w[n + 1]
        BY <2>3
      <4> QED BY <3>2, <4>1, FS_Subset
    <3> QED BY <2>1, <2>3, <2>5, <3>1, <3>3, <3>4
  <2> QED BY <2>4, <2>5
<1> HIDE DEF P
<1>5. N \in P
  BY <1>1, <1>3, <1>4, SetInduction
<1>6. /\ from \subseteq w[N] /\ w[N] \subseteq D
      /\ ClosedUnder(succ, w[N]) \/ Cardinality(w[N]) >= N
  BY <1>1, <1>5 DEF P
<1>7. CASE Cardinality(w[N]) >= N
  <2>1. w[N] = D
    <3>1. Cardinality(w[N]) \in Nat /\ Cardinality(w[N]) <= N /\ (w[N] # D => Cardinality(w[N]) < N)
      BY <1>6, FS_Subset, FS_CardinalityType
    <3> QED BY <1>1, <1>7, <3>1
  <2> QED BY <1>2, <1>6, <2>1 DEF ClosedUnder
<1> QED BY <1>2, <1>6, <1>7

-----------------------------------------------------------------------------
(* Circuits and their replacements.                                        *)

(* Roots are literals with a definition.                                   *)
LEMMA RootShape ==
  ASSUME NEW c, WellFormed(c)
  PROVE  /\ Roots(c) \in Seq(Nat)
         /\ \A r \in DOMAIN Roots(c) :
              /\ Roots(c)[r] \in Nat
              /\ \/ Base(Roots(c)[r]) \in {0} \cup Primaries(c)
                 \/ \E j \in 1 .. Len(c.gates) : Lhs(c.gates[j]) = Base(Roots(c)[r])
<1>1. c.outputs \in Seq(Nat) /\ c.latches \in Seq(Nat \X Nat)
  BY DEF WellFormed
<1>2. [i \in DOMAIN c.latches |-> c.latches[i][2]] \in Seq(Nat)
  <2>1. Len(c.latches) \in Nat /\ DOMAIN c.latches = 1 .. Len(c.latches)
    BY <1>1
  <2>2. \A i \in 1 .. Len(c.latches) : c.latches[i][2] \in Nat
    BY <1>1
  <2> QED BY <2>1, <2>2
<1>3. Roots(c) \in Seq(Nat)
  BY <1>1, <1>2 DEF Roots
<1>4. ASSUME NEW r \in DOMAIN Roots(c)
      PROVE  /\ Roots(c)[r] \in Nat
             /\ \/ Base(Roots(c)[r]) \in {0} \cup Primaries(c)
                \/ \E j \in 1 .. Len(c.gates) : Lhs(c.gates[j]) = Base(Roots(c)[r])
  <2>1. Roots(c)[r] \in Nat
    BY <1>3
  <2>2. \/ Base(Roots(c)[r]) \in {0} \cup Primaries(c)
        \/ GateAt(c.gates, Roots(c)[r]) # {}
    BY DEF WellFormed
  <2>3. DOMAIN c.gates = 1 .. Len(c.gates)
    BY GateShape
  <2> QED BY <2>1, <2>2, <2>3 DEF GateAt
<1> QED BY <1>3, <1>4

(* Primaries are even and have their own truths.                           *)
LEMMA PrimaryEven ==
  ASSUME NEW c, WellFormed(c), NEW lit \in {0} \cup Primaries(c)
  PROVE  lit \in Nat /\ lit % 2 = 0 /\ Base(lit) = lit
<1>1. CASE lit = 0
  <2>1. 0 % 2 = 0
    OBVIOUS
  <2> QED BY <1>1, <2>1, EvenIsBase
<1>2. CASE lit \in Primaries(c)
  <2>1. c.inputs \in Seq(Nat) /\ c.latches \in Seq(Nat \X Nat)
    BY DEF WellFormed
  <2>2. lit \in Nat
    BY <1>2, <2>1 DEF Primaries, ToSet
  <2>3. lit % 2 = 0
    BY <1>2 DEF WellFormed
  <2> QED BY <2>2, <2>3, EvenIsBase
<1> QED BY <1>1, <1>2

(* Replacing outputs by constants leaves a circuit well formed, with the   *)
(* same inputs, roots and ids.                                             *)
LEMMA RewrittenIs ==
  ASSUME NEW c, WellFormed(c), NEW constants, \A i \in DOMAIN constants : constants[i] \in {0, 1},
         NEW d, d = Rewritten(c, constants)
  PROVE  /\ WellFormed(d)
         /\ Roots(d) = Roots(c) /\ Primaries(d) = Primaries(c)
         /\ Len(d.gates) = Len(c.gates)
         /\ \A i \in 1 .. Len(c.gates) :
              /\ Lhs(d.gates[i]) = Lhs(c.gates[i])
              /\ i \notin DOMAIN constants => d.gates[i] = c.gates[i]
              /\ i \in DOMAIN constants =>
                   d.gates[i] = <<Lhs(c.gates[i]), constants[i], constants[i]>>
<1> DEFINE N == Len(c.gates)
<1>1. c \in [inputs : Seq(Nat), latches : Seq(Nat \X Nat), outputs : Seq(Nat),
             gates : Seq(Nat \X Nat \X Nat)]
  BY DEF WellFormed
<1>2. N \in Nat /\ DOMAIN c.gates = 1 .. N
  BY GateShape
<1>3. d.inputs = c.inputs /\ d.latches = c.latches /\ d.outputs = c.outputs
      /\ d.gates = ApplyAccepts(c.gates, constants)
  BY <1>1 DEF Rewritten
<1>4. DOMAIN d.gates = 1 .. N
  BY <1>2, <1>3 DEF ApplyAccepts
<1>5. ASSUME NEW i \in 1 .. N
      PROVE  /\ d.gates[i] \in Nat \X Nat \X Nat
             /\ Lhs(d.gates[i]) = Lhs(c.gates[i])
             /\ i \notin DOMAIN constants => d.gates[i] = c.gates[i]
             /\ i \in DOMAIN constants =>
                  d.gates[i] = <<Lhs(c.gates[i]), constants[i], constants[i]>>
  <2>1. c.gates[i] \in Nat \X Nat \X Nat /\ Lhs(c.gates[i]) \in Nat
    BY GateShape
  <2>2. d.gates[i] = IF i \in DOMAIN constants THEN <<Lhs(c.gates[i]), constants[i], constants[i]>>
                                               ELSE c.gates[i]
    BY <1>2, <1>3 DEF ApplyAccepts
  <2>3. CASE i \in DOMAIN constants
    <3>1. constants[i] \in Nat
      BY <2>3
    <3> QED BY <2>1, <2>2, <2>3, <3>1 DEF Lhs
  <2>4. CASE i \notin DOMAIN constants
    BY <2>1, <2>2, <2>4
  <2> QED BY <2>3, <2>4
<1>6. d.gates \in Seq(Nat \X Nat \X Nat) /\ Len(d.gates) = N
  <2> DEFINE Gate(i) == IF i \in DOMAIN constants
                        THEN <<Lhs(c.gates[i]), constants[i], constants[i]>> ELSE c.gates[i]
  <2>1. d.gates = [i \in 1 .. N |-> Gate(i)]
    BY <1>2, <1>3 DEF ApplyAccepts
  <2>2. \A i \in 1 .. N : Gate(i) \in Nat \X Nat \X Nat
    BY <1>5, <2>1
  <2> HIDE DEF Gate
  <2> QED BY <1>2, <2>1, <2>2
<1>7. d \in [inputs : Seq(Nat), latches : Seq(Nat \X Nat), outputs : Seq(Nat),
             gates : Seq(Nat \X Nat \X Nat)]
  <2>1. d = [inputs |-> c.inputs, latches |-> c.latches, outputs |-> c.outputs, gates |-> d.gates]
    BY <1>1, <1>3 DEF Rewritten
  <2> QED BY <1>1, <1>6, <2>1
<1>8. Roots(d) = Roots(c) /\ Primaries(d) = Primaries(c)
  BY <1>3 DEF Roots, Primaries
<1>9. FaninsDefined(d)
  <2> SUFFICES ASSUME NEW i \in 1 .. N, NEW lit \in Fanins(d.gates[i])
               PROVE  \/ Base(lit) \in {0} \cup Primaries(d)
                      \/ \E j \in 1 .. i - 1 : Lhs(d.gates[j]) = Base(lit)
    BY <1>4 DEF FaninsDefined
  <2>1. CASE i \in DOMAIN constants
    <3>1. lit \in {0, 1}
      <4>1. d.gates[i] = <<Lhs(c.gates[i]), constants[i], constants[i]>>
        BY <1>5, <2>1
      <4>2. lit = constants[i]
        BY <4>1 DEF Fanins
      <4> QED BY <2>1, <4>2
    <3>2. Base(lit) = 0
      BY <3>1 DEF Base
    <3> QED BY <3>2
  <2>2. CASE i \notin DOMAIN constants
    <3>1. d.gates[i] = c.gates[i]
      BY <1>5, <2>2
    <3>2. \/ Base(lit) \in {0} \cup Primaries(c)
          \/ \E j \in 1 .. i - 1 : Lhs(c.gates[j]) = Base(lit)
      BY <3>1, FaninKnown
    <3> QED BY <1>2, <1>5, <1>8, <3>2
  <2> QED BY <2>1, <2>2
<1>10. \A r \in DOMAIN Roots(d) :
         \/ Base(Roots(d)[r]) \in {0} \cup Primaries(d)
         \/ GateAt(d.gates, Roots(d)[r]) # {}
  <2> SUFFICES ASSUME NEW r \in DOMAIN Roots(c), Base(Roots(c)[r]) \notin {0} \cup Primaries(c)
               PROVE  GateAt(d.gates, Roots(c)[r]) # {}
    BY <1>8
  <2>1. PICK j \in 1 .. N : Lhs(c.gates[j]) = Base(Roots(c)[r])
    BY RootShape
  <2>2. j \in GateAt(d.gates, Roots(c)[r])
    BY <1>4, <1>5, <2>1 DEF GateAt
  <2> QED BY <2>2
<1>11. \A i \in DOMAIN d.gates :
         Lhs(d.gates[i]) % 2 = 0 /\ Lhs(d.gates[i]) \notin {0} \cup Primaries(d)
  BY <1>2, <1>4, <1>5, <1>8 DEF WellFormed
<1>12. \A i, j \in DOMAIN d.gates : i < j => Lhs(d.gates[i]) < Lhs(d.gates[j])
  BY <1>4, <1>5, GateOrder
<1>13. \A lit \in Primaries(d) : lit % 2 = 0 /\ lit # 0
  BY <1>8 DEF WellFormed
<1>14. WellFormed(d)
  BY <1>7, <1>9, <1>10, <1>11, <1>12, <1>13 DEF WellFormed
<1> QED BY <1>5, <1>6, <1>8, <1>14

(* Circuits with the same primaries read truths alike.                     *)
LEMMA SamePrimaries ==
  ASSUME NEW c, NEW d, Primaries(c) = Primaries(d)
  PROVE  /\ Assignments(c) = Assignments(d) /\ PrimaryTruths(c) = PrimaryTruths(d)
         /\ \A T, lit : LitTruth(c, T, lit) = LitTruth(d, T, lit)
         /\ \A T, gate : AndTruth(c, T, gate) = AndTruth(d, T, gate)
<1>1. Assignments(c) = Assignments(d)
  BY DEF Assignments
<1>2. PrimaryTruths(c) = PrimaryTruths(d)
  BY <1>1 DEF PrimaryTruths
<1>3. \A T, lit : LitTruth(c, T, lit) = LitTruth(d, T, lit)
  BY <1>1 DEF LitTruth
<1> QED BY <1>1, <1>2, <1>3 DEF AndTruth

-----------------------------------------------------------------------------
(* T gives the gates at S their truths.                                    *)
Evaluates(c, T, S) ==
  /\ \A b \in {0} \cup Primaries(c) : T[b] = PrimaryTruths(c)[b]
  /\ \A i \in S : T[Lhs(c.gates[i])] = AndTruth(c, T, c.gates[i])

(* No gate at S reads one elsewhere.                                       *)
SelfContained(c, S) ==
  /\ S \subseteq 1 .. Len(c.gates)
  /\ \A i \in S : \A lit \in Fanins(c.gates[i]) : \A j \in 1 .. Len(c.gates) :
       Base(lit) = Lhs(c.gates[j]) => j \in S

(* All gates together read no others.                                      *)
LEMMA AllSelfContained ==
  ASSUME NEW c
  PROVE  SelfContained(c, 1 .. Len(c.gates))
BY DEF SelfContained

(* There is one evaluation of a set of gates that reads no others.         *)
LEMMA EvaluationUnique ==
  ASSUME NEW c, WellFormed(c), NEW S, SelfContained(c, S), NEW T, NEW U,
         Evaluates(c, T, S), Evaluates(c, U, S)
  PROVE  \A i \in S : T[Lhs(c.gates[i])] = U[Lhs(c.gates[i])]
<1> DEFINE N == Len(c.gates)
           P == {i \in 1 .. N : i \in S => T[Lhs(c.gates[i])] = U[Lhs(c.gates[i])]}
<1>1. N \in Nat
  BY GateShape
<1>2. ASSUME NEW i \in 1 .. N, \A j \in 1 .. i - 1 : j \in P PROVE i \in P
  <2> SUFFICES ASSUME i \in S PROVE T[Lhs(c.gates[i])] = U[Lhs(c.gates[i])]
    OBVIOUS
  <2>1. ASSUME NEW lit \in Fanins(c.gates[i]) PROVE T[Base(lit)] = U[Base(lit)]
    <3>1. CASE Base(lit) \in {0} \cup Primaries(c)
      BY <3>1 DEF Evaluates
    <3>2. CASE \E j \in 1 .. i - 1 : Lhs(c.gates[j]) = Base(lit)
      <4>1. PICK j \in 1 .. i - 1 : Lhs(c.gates[j]) = Base(lit)
        BY <3>2
      <4>2. j \in 1 .. N /\ j \in P
        BY <1>1, <1>2
      <4>3. j \in S
        BY <4>1, <4>2 DEF SelfContained
      <4> QED BY <4>1, <4>2, <4>3
    <3> QED BY <3>1, <3>2, FaninKnown
  <2>2. Fanins(c.gates[i]) \subseteq Nat
    BY GateShape
  <2>3. AgreeBelow(T, U, c.gates[i])
    BY <2>1, <2>2 DEF AgreeBelow
  <2>4. AndTruth(c, T, c.gates[i]) = AndTruth(c, U, c.gates[i])
    BY <2>3, TruthOfGate
  <2> QED BY <2>4 DEF Evaluates
<1> HIDE DEF P
<1>3. \A i \in 1 .. N : i \in P
  BY <1>1, <1>2, PositionInduction
<1> QED BY <1>3 DEF P, SelfContained

(* TruthsOver, begun with the primaries, evaluates such a set.             *)
LEMMA TruthsOverEvaluates ==
  ASSUME NEW c, WellFormed(c), NEW S, SelfContained(c, S),
         NEW T, T = TruthsOver(c, PrimaryTruths(c), S)
  PROVE  /\ Evaluates(c, T, S)
         /\ \A b : b \in DOMAIN T <=>
              b \in {0} \cup Primaries(c) \/ \E i \in S : Lhs(c.gates[i]) = b
<1>1. DOMAIN PrimaryTruths(c) = {0} \cup Primaries(c)
  BY DEF PrimaryTruths
<1>2. S \subseteq 1 .. Len(c.gates)
  BY DEF SelfContained
<1>3. ASSUME NEW i \in S, NEW lit \in Fanins(c.gates[i])
      PROVE  Base(lit) \in DOMAIN PrimaryTruths(c) \/ \E j \in S : Base(lit) = Lhs(c.gates[j])
  <2>1. i \in 1 .. Len(c.gates) /\ Len(c.gates) \in Nat
    BY <1>2, GateShape
  <2>2. \/ Base(lit) \in {0} \cup Primaries(c)
        \/ \E j \in 1 .. i - 1 : Lhs(c.gates[j]) = Base(lit)
    BY <2>1, FaninKnown
  <2>3. \A j \in 1 .. i - 1 : j \in 1 .. Len(c.gates)
    BY <2>1
  <2> QED BY <1>1, <2>2, <2>3 DEF SelfContained
<1> DEFINE known == PrimaryTruths(c)
<1> HIDE DEF known
<1>4. Solves(T, c, known, S)
  <2>1. Readable(c, known, S)
    BY <1>2, <1>3 DEF known, Readable
  <2>2. T = TruthsOver(c, known, S)
    BY DEF known
  <2> QED BY <2>1, <2>2, TruthsOverIs
<1>5. \A b \in {0} \cup Primaries(c) : \A i \in S : Lhs(c.gates[i]) # b
  BY <1>2, GateShape
<1> QED BY <1>1, <1>4, <1>5 DEF Evaluates, Solves, known

(* Truths is the evaluation of all gates.                                  *)
LEMMA TruthsEvaluate ==
  ASSUME NEW c, WellFormed(c)
  PROVE  Evaluates(c, Truths(c), 1 .. Len(c.gates))
<1>1. DOMAIN c.gates = 1 .. Len(c.gates)
  BY GateShape
<1>2. Truths(c) = TruthsOver(c, PrimaryTruths(c), 1 .. Len(c.gates))
  BY <1>1 DEF Truths
<1> QED BY <1>2, AllSelfContained, TruthsOverEvaluates

(* Circuits are equivalent when the literals of their roots have the same  *)
(* truths.                                                                 *)
LEMMA EquivalentIs ==
  ASSUME NEW c, NEW d, WellFormed(c), WellFormed(d), Primaries(c) = Primaries(d),
         DOMAIN Roots(c) = DOMAIN Roots(d)
  PROVE  Equivalent(c, d) <=>
           \A r \in DOMAIN Roots(c) :
             LitTruth(c, Truths(c), Roots(c)[r]) = LitTruth(c, Truths(d), Roots(d)[r])
<1> DEFINE F == [r \in DOMAIN Roots(c) |-> LitTruth(c, Truths(c), Roots(c)[r])]
           G == [r \in DOMAIN Roots(c) |-> LitTruth(c, Truths(d), Roots(d)[r])]
<1>1. Function(c) = F
  BY DEF Function
<1>2. Function(d) = G
  BY SamePrimaries DEF Function
<1>3. F = G <=> \A r \in DOMAIN Roots(c) : F[r] = G[r]
  OBVIOUS
<1> QED BY <1>1, <1>2, <1>3 DEF Equivalent

-----------------------------------------------------------------------------
(* The walks over a gate list, as sets closed under fanout and fanin.      *)

(* The fanout of a position is made of positions.                          *)
LEMMA FanoutIs ==
  ASSUME NEW gates, NEW N \in Nat, DOMAIN gates = 1 .. N
  PROVE  /\ Fanout(gates) \in [1 .. N -> SUBSET (1 .. N)]
         /\ \A i, j \in 1 .. N : j \in Fanout(gates)[i] <=>
              \E lit \in Fanins(gates[j]) : Base(lit) = Lhs(gates[i])
<1>1. Fanout(gates) =
        [i \in 1 .. N |-> {j \in 1 .. N : \E lit \in Fanins(gates[j]) : Base(lit) = Lhs(gates[i])}]
  BY DEF Fanout
<1> QED BY <1>1

(* Positions are finitely many.                                            *)
LEMMA PositionsFinite ==
  ASSUME NEW N \in Nat
  PROVE  IsFiniteSet(1 .. N) /\ Cardinality(1 .. N) = N
BY FS_Interval

(* What is affected by a gate is closed under fanout.                      *)
LEMMA AffectedClosed ==
  ASSUME NEW gates, NEW N \in Nat, DOMAIN gates = 1 .. N, NEW idx \in 1 .. N,
         NEW A, A = Reach(Fanout(gates), {idx})
  PROVE  /\ idx \in A /\ A \subseteq 1 .. N
         /\ \A i \in A : \A j \in 1 .. N : \A lit \in Fanins(gates[j]) :
              Base(lit) = Lhs(gates[i]) => j \in A
<1> DEFINE succ == Fanout(gates)
           from == {idx}
<1>1. succ \in [1 .. N -> SUBSET (1 .. N)]
  BY FanoutIs
<1>2. from \subseteq 1 .. N
  OBVIOUS
<1> HIDE DEF succ
<1>3. from \subseteq A /\ A \subseteq 1 .. N /\ ClosedUnder(succ, A)
  <2>1. A = Reach(succ, from)
    BY DEF succ
  <2>2. PICK D : D = 1 .. N
    OBVIOUS
  <2>3. IsFiniteSet(D)
    BY <2>2, PositionsFinite
  <2>4. succ \in [D -> SUBSET D] /\ from \subseteq D
    BY <1>1, <1>2, <2>2
  <2> HIDE DEF from
  <2>5. from \subseteq A /\ A \subseteq D /\ ClosedUnder(succ, A)
    BY <2>1, <2>3, <2>4, ReachClosed
  <2> QED BY <2>2, <2>5
<1>4. ASSUME NEW i \in A, NEW j \in 1 .. N, NEW lit \in Fanins(gates[j]),
             Base(lit) = Lhs(gates[i])
      PROVE  j \in A
  <2>1. i \in 1 .. N
    BY <1>3
  <2>2. j \in succ[i]
    BY <1>4, <2>1, FanoutIs DEF succ
  <2> QED BY <1>3, <2>2 DEF ClosedUnder
<1> QED BY <1>3, <1>4

(* Every set that has the gate and is closed under fanout has all of it.   *)
LEMMA AffectedLeast ==
  ASSUME NEW gates, NEW N \in Nat, DOMAIN gates = 1 .. N, NEW idx \in 1 .. N,
         NEW X, idx \in X, X \subseteq 1 .. N,
         \A i \in X : \A j \in 1 .. N : \A lit \in Fanins(gates[j]) :
           Base(lit) = Lhs(gates[i]) => j \in X
  PROVE  Reach(Fanout(gates), {idx}) \subseteq X
<1> DEFINE succ == Fanout(gates)
           from == {idx}
<1>1. DOMAIN succ = 1 .. N /\ Cardinality(DOMAIN succ) \in Nat
  <2>1. DOMAIN succ = 1 .. N
    BY FanoutIs
  <2> QED BY <2>1, PositionsFinite
<1>2. from \subseteq X
  OBVIOUS
<1>3. ClosedUnder(succ, X)
  <2> SUFFICES ASSUME NEW i \in X PROVE succ[i] \subseteq X
    BY DEF ClosedUnder
  <2>1. i \in 1 .. N /\ succ[i] \subseteq 1 .. N
    BY FanoutIs
  <2> QED BY <2>1, FanoutIs
<1> HIDE DEF succ, from
<1>4. Reach(succ, from) \subseteq X
  BY <1>1, <1>2, <1>3, ReachLeast
<1> QED BY <1>4 DEF succ, from

(* A cone has what drives its literals and is closed under fanin.          *)
LEMMA ConeIs ==
  ASSUME NEW gates, NEW N \in Nat, DOMAIN gates = 1 .. N, NEW lits,
         NEW C, C = Cone(gates, lits)
  PROVE  /\ C \subseteq 1 .. N
         /\ \A lit \in lits : \A j \in 1 .. N : Lhs(gates[j]) = Base(lit) => j \in C
         /\ \A i \in C : \A lit \in Fanins(gates[i]) : \A j \in 1 .. N :
              Base(lit) = Lhs(gates[j]) => j \in C
<1> DEFINE drivers(S) == UNION {GateAt(gates, lit) : lit \in S}
           succ == [i \in 1 .. N |-> drivers(Fanins(gates[i]))]
           from == drivers(lits)
<1>1. \A S : \A j : j \in drivers(S) <=> j \in 1 .. N /\ \E lit \in S : Lhs(gates[j]) = Base(lit)
  BY DEF GateAt
<1>2. C = Reach(succ, from)
  BY DEF Cone
<1> HIDE DEF drivers
<1>3. succ \in [1 .. N -> SUBSET (1 .. N)] /\ from \subseteq 1 .. N
  BY <1>1
<1>4. \A i \in 1 .. N : succ[i] = drivers(Fanins(gates[i]))
  OBVIOUS
<1>5. from \subseteq C /\ C \subseteq 1 .. N /\ ClosedUnder(succ, C)
  <2> HIDE DEF succ, from
  <2>1. PICK D : D = 1 .. N
    OBVIOUS
  <2>2. IsFiniteSet(D)
    BY <2>1, PositionsFinite
  <2>3. succ \in [D -> SUBSET D] /\ from \subseteq D
    BY <1>3, <2>1
  <2>4. from \subseteq C /\ C \subseteq D /\ ClosedUnder(succ, C)
    BY <1>2, <2>2, <2>3, ReachClosed
  <2> QED BY <2>1, <2>4
<1>6. \A lit \in lits : \A j \in 1 .. N : Lhs(gates[j]) = Base(lit) => j \in C
  BY <1>1, <1>5
<1> HIDE DEF succ
<1>7. ASSUME NEW i \in C, NEW lit \in Fanins(gates[i]), NEW j \in 1 .. N,
             Base(lit) = Lhs(gates[j])
      PROVE  j \in C
  <2>1. j \in succ[i]
    BY <1>1, <1>4, <1>5, <1>7
  <2> QED BY <1>5, <2>1 DEF ClosedUnder
<1> QED BY <1>5, <1>6, <1>7

(* The slice of a gate in the cone is closed under fanout within the cone; *)
(* of a gate outside of it, it is empty.                                   *)
LEMMA SliceIs ==
  ASSUME NEW gates, NEW N \in Nat, DOMAIN gates = 1 .. N, NEW idx \in 1 .. N,
         NEW cone, cone \subseteq 1 .. N, NEW S, S = TfoSlice(gates, idx, cone)
  PROVE  /\ S \subseteq cone
         /\ idx \in cone => idx \in S
         /\ \A i \in S : \A j \in cone : \A lit \in Fanins(gates[j]) :
              Base(lit) = Lhs(gates[i]) => j \in S
<1>1. CASE idx \notin cone
  BY <1>1 DEF TfoSlice
<1>2. CASE idx \in cone
  <2> DEFINE fanout == Fanout(gates)
             succ == [i \in 1 .. N |-> fanout[i] \cap cone]
             from == {idx}
  <2>1. S = Reach(succ, from)
    BY <1>2 DEF TfoSlice
  <2>2. \A i \in 1 .. N : fanout[i] \subseteq 1 .. N
    BY FanoutIs
  <2>3. succ \in [1 .. N -> SUBSET (1 .. N)] /\ from \subseteq 1 .. N
    BY <2>2
  <2>4. \A i \in 1 .. N : succ[i] = fanout[i] \cap cone
    OBVIOUS
  <2>5. DOMAIN succ = 1 .. N /\ Cardinality(DOMAIN succ) \in Nat
    BY PositionsFinite
  <2>6. from \subseteq cone /\ ClosedUnder(succ, cone)
    BY <1>2, <2>4 DEF ClosedUnder
  <2> HIDE DEF succ, fanout
  <2>7. from \subseteq S /\ ClosedUnder(succ, S)
    <3>1. PICK D : D = 1 .. N
      OBVIOUS
    <3>2. IsFiniteSet(D)
      BY <3>1, PositionsFinite
    <3>3. succ \in [D -> SUBSET D] /\ from \subseteq D
      BY <2>3, <3>1
    <3> HIDE DEF from
    <3> QED BY <2>1, <3>2, <3>3, ReachClosed
  <2>8. S \subseteq cone
    <3> HIDE DEF from
    <3> QED BY <2>1, <2>5, <2>6, ReachLeast
  <2>9. ASSUME NEW i \in S, NEW j \in cone, NEW lit \in Fanins(gates[j]),
               Base(lit) = Lhs(gates[i])
        PROVE  j \in S
    <3>1. i \in 1 .. N /\ j \in 1 .. N
      BY <2>8
    <3>2. j \in fanout[i]
      BY <2>9, <3>1, FanoutIs DEF fanout
    <3>3. j \in succ[i]
      BY <2>4, <3>1, <3>2
    <3> QED BY <2>7, <3>3 DEF ClosedUnder
  <2> QED BY <2>7, <2>8, <2>9
<1> QED BY <1>1, <1>2

-----------------------------------------------------------------------------
(* A single replacement.                                                   *)
IsStuck(c, d, idx, value) ==
  /\ WellFormed(d) /\ Roots(d) = Roots(c) /\ Primaries(d) = Primaries(c)
  /\ Len(d.gates) = Len(c.gates)
  /\ \A i \in 1 .. Len(c.gates) :
       /\ Lhs(d.gates[i]) = Lhs(c.gates[i])
       /\ i # idx => d.gates[i] = c.gates[i]
  /\ d.gates[idx] = <<Lhs(c.gates[idx]), value, value>>

(* One output replaced by a constant.                                      *)
LEMMA StuckIs ==
  ASSUME NEW c, WellFormed(c), NEW idx \in 1 .. Len(c.gates), NEW value \in {0, 1},
         NEW d, d = Rewritten(c, StuckAt(idx, value))
  PROVE  IsStuck(c, d, idx, value)
<1> DEFINE constants == StuckAt(idx, value)
<1>1. DOMAIN constants = {idx} /\ constants[idx] = value
  BY DEF StuckAt
<1>2. \A i \in DOMAIN constants : constants[i] \in {0, 1}
  BY <1>1
<1>3. d = Rewritten(c, constants)
  OBVIOUS
<1> HIDE DEF constants
<1> QED BY <1>1, <1>2, <1>3, RewrittenIs DEF IsStuck

(* A root that no affected gate drives keeps its truth.                    *)
LEMMA UnaffectedKept ==
  ASSUME NEW c, WellFormed(c), NEW idx \in 1 .. Len(c.gates), NEW value \in {0, 1},
         NEW d, d = Rewritten(c, StuckAt(idx, value)),
         NEW r \in DOMAIN Roots(c), r \notin AffectedRoots(c, idx)
  PROVE  LitTruth(c, Truths(c), Roots(c)[r]) = LitTruth(c, Truths(d), Roots(c)[r])
<1> DEFINE N == Len(c.gates)
           A == Reach(Fanout(c.gates), {idx})
           S == (1 .. N) \ A
           T == Truths(c)
           U == Truths(d)
           lit == Roots(c)[r]
<1>1. N \in Nat /\ DOMAIN c.gates = 1 .. N
  BY GateShape
<1>2. /\ idx \in A /\ A \subseteq 1 .. N
      /\ \A i \in A : \A j \in 1 .. N : \A l \in Fanins(c.gates[j]) :
           Base(l) = Lhs(c.gates[i]) => j \in A
  <2>1. PICK gates : gates = c.gates
    OBVIOUS
  <2>2. A = Reach(Fanout(gates), {idx})
    BY <2>1
  <2>3. DOMAIN gates = 1 .. N
    BY <1>1, <2>1
  <2> HIDE DEF A, N
  <2>4. idx \in 1 .. N /\ N \in Nat
    BY <1>1 DEF N
  <2>5. /\ idx \in A /\ A \subseteq 1 .. N
        /\ \A i \in A : \A j \in 1 .. N : \A l \in Fanins(gates[j]) :
             Base(l) = Lhs(gates[i]) => j \in A
    BY <2>2, <2>3, <2>4, AffectedClosed
  <2> QED BY <2>1, <2>5
<1> HIDE DEF A
<1>3. SelfContained(c, S)
  BY <1>2 DEF SelfContained
<1>4. /\ Primaries(d) = Primaries(c) /\ Len(d.gates) = N /\ WellFormed(d)
      /\ \A i \in S : d.gates[i] = c.gates[i]
  <2>1. /\ Primaries(d) = Primaries(c) /\ Len(d.gates) = N /\ WellFormed(d)
        /\ \A i \in 1 .. N : i # idx => d.gates[i] = c.gates[i]
    BY StuckIs DEF IsStuck
  <2> QED BY <1>2, <2>1
<1>5. Evaluates(c, T, S) /\ Evaluates(c, U, S)
  <2>1. Evaluates(c, T, 1 .. N)
    BY TruthsEvaluate
  <2>2. Evaluates(d, U, 1 .. N)
    BY <1>4, TruthsEvaluate
  <2>3. PrimaryTruths(d) = PrimaryTruths(c)
    BY <1>4, SamePrimaries
  <2>4. ASSUME NEW i \in S PROVE U[Lhs(c.gates[i])] = AndTruth(c, U, c.gates[i])
    <3>1. AndTruth(c, U, c.gates[i]) = AndTruth(d, U, c.gates[i])
      BY <1>4, SamePrimaries
    <3> QED BY <1>4, <2>2, <3>1 DEF Evaluates
  <2>5. Evaluates(c, T, S)
    BY <2>1 DEF Evaluates
  <2> HIDE DEF S, T, U
  <2> QED BY <1>4, <2>2, <2>3, <2>4, <2>5 DEF Evaluates
<1>6. T[Base(lit)] = U[Base(lit)]
  <2>1. CASE Base(lit) \in {0} \cup Primaries(c)
    BY <1>5, <2>1 DEF Evaluates
  <2>2. CASE \E j \in 1 .. N : Lhs(c.gates[j]) = Base(lit)
    <3>1. PICK j \in 1 .. N : Lhs(c.gates[j]) = Base(lit)
      BY <2>2
    <3>2. j \notin A
      <4>1. j \in GateAt(c.gates, lit)
        BY <1>1, <3>1 DEF GateAt
      <4> QED BY <4>1 DEF AffectedRoots, A
    <3>3. \A i \in S : T[Lhs(c.gates[i])] = U[Lhs(c.gates[i])]
      BY <1>3, <1>5, EvaluationUnique
    <3> QED BY <3>1, <3>2, <3>3
  <2> QED BY <2>1, <2>2, RootShape
<1>7. lit \in Nat
  BY RootShape
<1> HIDE DEF lit
<1> QED BY <1>6, <1>7, TruthOfBase DEF lit

(* On the cone of some roots, the good half of the miter has the truths of *)
(* the circuit, and the faulty half those of the replaced one.             *)
LEMMA MiterIs ==
  ASSUME NEW c, WellFormed(c), NEW idx \in 1 .. Len(c.gates), NEW value \in {0, 1},
         NEW d, d = Rewritten(c, StuckAt(idx, value)),
         NEW roots, roots \subseteq DOMAIN Roots(c),
         NEW C, C = GoodCone(c, roots),
         NEW good, good = GoodTruths(c, C),
         NEW faulty, faulty = FaultyTruths(c, good, idx, value, TfoSlice(c.gates, idx, C)),
         NEW r \in roots
  PROVE  /\ LitTruth(c, good, Roots(c)[r]) = LitTruth(c, Truths(c), Roots(c)[r])
         /\ LitTruth(c, faulty, Roots(c)[r]) = LitTruth(c, Truths(d), Roots(c)[r])
<1> DEFINE N == Len(c.gates)
           lits == {Roots(c)[q] : q \in roots}
<1>1. N \in Nat /\ DOMAIN c.gates = 1 .. N
  BY GateShape
<1>2. /\ C \subseteq 1 .. N
      /\ \A lit \in lits : \A j \in 1 .. N : Lhs(c.gates[j]) = Base(lit) => j \in C
      /\ \A i \in C : \A lit \in Fanins(c.gates[i]) : \A j \in 1 .. N :
           Base(lit) = Lhs(c.gates[j]) => j \in C
  <2>1. PICK gates : gates = c.gates
    OBVIOUS
  <2>2. C = Cone(gates, lits)
    BY <2>1 DEF GoodCone
  <2>3. DOMAIN gates = 1 .. N
    BY <1>1, <2>1
  <2> HIDE DEF lits, N
  <2>4. N \in Nat
    BY <1>1 DEF N
  <2>5. /\ C \subseteq 1 .. N
        /\ \A lit \in lits : \A j \in 1 .. N : Lhs(gates[j]) = Base(lit) => j \in C
        /\ \A i \in C : \A lit \in Fanins(gates[i]) : \A j \in 1 .. N :
             Base(lit) = Lhs(gates[j]) => j \in C
    BY <2>2, <2>3, <2>4, ConeIs
  <2> QED BY <2>1, <2>5
<1>3. PICK S : S = TfoSlice(c.gates, idx, C)
  OBVIOUS
<1>4. /\ S \subseteq C
      /\ idx \in C => idx \in S
      /\ \A i \in S : \A j \in C : \A lit \in Fanins(c.gates[j]) :
           Base(lit) = Lhs(c.gates[i]) => j \in S
  BY <1>1, <1>2, <1>3, SliceIs
<1>5. SelfContained(c, C)
  BY <1>2 DEF SelfContained
<1>6. /\ WellFormed(d) /\ Primaries(d) = Primaries(c) /\ Len(d.gates) = N
      /\ \A i \in 1 .. N : Lhs(d.gates[i]) = Lhs(c.gates[i])
      /\ \A i \in 1 .. N : i # idx => d.gates[i] = c.gates[i]
      /\ d.gates[idx] = <<Lhs(c.gates[idx]), value, value>>
  <2>1. IsStuck(c, d, idx, value)
    BY StuckIs
  <2> QED BY <2>1 DEF IsStuck
<1>7. /\ Evaluates(c, good, C)
      /\ \A b : b \in DOMAIN good <=>
           b \in {0} \cup Primaries(c) \/ \E i \in C : Lhs(c.gates[i]) = b
  BY <1>5, TruthsOverEvaluates DEF GoodTruths
<1>8. \A lit \in Fanins(d.gates[idx]) : Base(lit) = 0
  <2>1. Fanins(d.gates[idx]) = {value}
    BY <1>6 DEF Fanins
  <2> QED BY <2>1 DEF Base
<1>9. ASSUME NEW i \in C, NEW lit \in Fanins(d.gates[i])
      PROVE  Base(lit) \in {0} \cup Primaries(c) \/ \E j \in C : Base(lit) = Lhs(c.gates[j])
  <2>1. CASE i = idx
    BY <1>8, <2>1
  <2>2. CASE i # idx
    <3>1. lit \in Fanins(c.gates[i]) /\ i \in 1 .. N
      BY <1>2, <1>6, <2>2
    <3>2. Base(lit) \in {0} \cup Primaries(c) \/ \E j \in 1 .. i - 1 : Lhs(c.gates[j]) = Base(lit)
      BY <3>1, FaninKnown
    <3>3. \A j \in 1 .. i - 1 : j \in 1 .. N
      BY <1>1, <3>1
    <3> QED BY <1>2, <3>1, <3>2, <3>3
  <2> QED BY <2>1, <2>2
<1>10. /\ \A b \in DOMAIN good : (\A i \in S : Lhs(d.gates[i]) # b) => faulty[b] = good[b]
       /\ \A i \in S : faulty[Lhs(d.gates[i])] = AndTruth(d, faulty, d.gates[i])
  <2>1. S \subseteq 1 .. Len(d.gates)
    BY <1>2, <1>4, <1>6
  <2>2. \A i \in S : \A lit \in Fanins(d.gates[i]) :
          Base(lit) \in DOMAIN good \/ \E j \in S : Base(lit) = Lhs(d.gates[j])
    BY <1>4, <1>7, <1>9
  <2>3. faulty = TruthsOver(d, good, S)
    BY <1>3 DEF FaultyTruths
  <2>4. WellFormed(d)
    BY <1>6
  <2>5. Readable(d, good, S)
    BY <2>1, <2>2 DEF Readable
  <2>6. Solves(faulty, d, good, S)
    BY <2>3, <2>4, <2>5, TruthsOverIs
  <2> QED BY <2>6 DEF Solves
<1>11. \A b \in {0} \cup Primaries(c) : faulty[b] = good[b]
  <2>1. \A b \in {0} \cup Primaries(c) : \A i \in S : Lhs(d.gates[i]) # b
    BY <1>2, <1>4, <1>6, GateShape
  <2> QED BY <1>7, <1>10, <2>1
<1>12. ASSUME NEW i \in C PROVE faulty[Lhs(c.gates[i])] = AndTruth(d, faulty, d.gates[i])
  <2>1. i \in 1 .. N
    BY <1>2
  <2>2. CASE i \in S
    BY <1>6, <1>10, <2>1, <2>2
  <2>3. CASE i \notin S
    <3>1. i # idx /\ d.gates[i] = c.gates[i]
      BY <1>4, <1>6, <2>1, <2>3
    <3>2. faulty[Lhs(c.gates[i])] = good[Lhs(c.gates[i])]
      <4>1. \A j \in S : Lhs(d.gates[j]) # Lhs(c.gates[i])
        BY <1>2, <1>4, <1>6, <2>1, <2>3, GateOrder
      <4> QED BY <1>7, <1>10, <4>1
    <3>3. ASSUME NEW lit \in Fanins(c.gates[i]) PROVE faulty[Base(lit)] = good[Base(lit)]
      <4>1. CASE Base(lit) \in {0} \cup Primaries(c)
        BY <1>11, <4>1
      <4>2. CASE Base(lit) \notin {0} \cup Primaries(c)
        <5>1. PICK j \in C : Base(lit) = Lhs(c.gates[j])
          BY <1>9, <3>1, <4>2
        <5>2. j \notin S
          BY <1>4, <2>3, <5>1
        <5>3. \A k \in S : Lhs(d.gates[k]) # Base(lit)
          BY <1>2, <1>4, <1>6, <5>1, <5>2, GateOrder
        <5>4. Base(lit) \in DOMAIN good
          BY <1>7, <5>1
        <5> QED BY <1>10, <5>3, <5>4
      <4> QED BY <4>1, <4>2
    <3>4. AgreeBelow(faulty, good, c.gates[i])
      BY <2>1, <3>3, GateShape DEF AgreeBelow
    <3>5. AndTruth(c, faulty, c.gates[i]) = AndTruth(c, good, c.gates[i])
      BY <3>4, TruthOfGate
    <3>6. AndTruth(d, faulty, c.gates[i]) = AndTruth(c, faulty, c.gates[i])
      BY <1>6, SamePrimaries
    <3> QED BY <1>7, <3>1, <3>2, <3>5, <3>6 DEF Evaluates
  <2> QED BY <2>2, <2>3
<1>13. Evaluates(d, faulty, C)
  <2>1. PrimaryTruths(d) = PrimaryTruths(c)
    BY <1>6, SamePrimaries
  <2>2. \A b \in {0} \cup Primaries(d) : faulty[b] = PrimaryTruths(d)[b]
    BY <1>6, <1>7, <1>11, <2>1 DEF Evaluates
  <2>3. \A i \in C : faulty[Lhs(d.gates[i])] = AndTruth(d, faulty, d.gates[i])
    BY <1>2, <1>6, <1>12
  <2> QED BY <2>2, <2>3 DEF Evaluates
<1>14. SelfContained(d, C)
  <2> SUFFICES ASSUME NEW i \in C, NEW lit \in Fanins(d.gates[i]), NEW j \in 1 .. N,
                      Base(lit) = Lhs(d.gates[j])
               PROVE  j \in C
    BY <1>2, <1>6 DEF SelfContained
  <2>1. Base(lit) = Lhs(c.gates[j]) /\ Base(lit) \notin {0} \cup Primaries(c)
    BY <1>6, GateShape
  <2>2. PICK k \in C : Base(lit) = Lhs(c.gates[k])
    BY <1>9, <2>1
  <2>3. k = j
    BY <1>2, <2>1, <2>2, GateOrder
  <2> QED BY <2>3
<1>15. /\ \A i \in C : good[Lhs(c.gates[i])] = Truths(c)[Lhs(c.gates[i])]
       /\ \A b \in {0} \cup Primaries(c) : good[b] = Truths(c)[b]
  <2>1. Evaluates(c, Truths(c), C)
    BY <1>2, TruthsEvaluate DEF Evaluates
  <2>2. \A i \in C : good[Lhs(c.gates[i])] = Truths(c)[Lhs(c.gates[i])]
    BY <1>5, <1>7, <2>1, EvaluationUnique
  <2> QED BY <1>7, <2>1, <2>2 DEF Evaluates
<1>16. /\ \A i \in C : faulty[Lhs(c.gates[i])] = Truths(d)[Lhs(c.gates[i])]
       /\ \A b \in {0} \cup Primaries(c) : faulty[b] = Truths(d)[b]
  <2>1. Evaluates(d, Truths(d), C)
    <3>1. Evaluates(d, Truths(d), 1 .. N)
      BY <1>6, TruthsEvaluate
    <3> QED BY <1>2, <3>1 DEF Evaluates
  <2>2. \A i \in C : faulty[Lhs(d.gates[i])] = Truths(d)[Lhs(d.gates[i])]
    BY <1>6, <1>13, <1>14, <2>1, EvaluationUnique
  <2>3. \A i \in C : Lhs(d.gates[i]) = Lhs(c.gates[i])
    BY <1>2, <1>6
  <2>4. \A b \in {0} \cup Primaries(c) : faulty[b] = Truths(d)[b]
    BY <1>6, <1>13, <2>1 DEF Evaluates
  <2> QED BY <2>2, <2>3, <2>4
<1>17. PICK lit \in Nat : lit = Roots(c)[r]
  BY RootShape
<1>18. Base(lit) \in {0} \cup Primaries(c) \/ \E j \in C : Lhs(c.gates[j]) = Base(lit)
  BY <1>2, <1>17, RootShape
<1>19. good[Base(lit)] = Truths(c)[Base(lit)] /\ faulty[Base(lit)] = Truths(d)[Base(lit)]
  BY <1>15, <1>16, <1>18
<1> QED BY <1>17, <1>19, TruthOfBase

(* The query of a worker decides redundancy on every circuit: good cone,   *)
(* TFO slice and affected roots leave nothing out, and a target that       *)
(* reaches no root is redundant (_solve_items).                            *)
THEOREM TfoDecides ==
  ASSUME NEW c, WellFormed(c), NEW idx \in 1 .. Len(c.gates), NEW value \in {0, 1},
         NEW d, d = Rewritten(c, StuckAt(idx, value))
  PROVE  TfoVerdict(c, idx, value) = "UNSAT" <=> Equivalent(c, d)
<1>1. PICK affected : affected = AffectedRoots(c, idx)
  OBVIOUS
<1>2. affected \subseteq DOMAIN Roots(c)
  BY <1>1 DEF AffectedRoots
<1>3. PICK C : C = GoodCone(c, affected)
  OBVIOUS
<1>4. PICK good : good = GoodTruths(c, C)
  OBVIOUS
<1>5. PICK faulty : faulty = FaultyTruths(c, good, idx, value, TfoSlice(c.gates, idx, C))
  OBVIOUS
<1>6. TfoVerdict(c, idx, value) = "UNSAT" <=>
        \A r \in affected : LitTruth(c, good, Roots(c)[r]) = LitTruth(c, faulty, Roots(c)[r])
  BY <1>1, <1>3, <1>4, <1>5 DEF TfoVerdict, NoRootDiffers
<1>7. \A r \in affected :
        /\ LitTruth(c, good, Roots(c)[r]) = LitTruth(c, Truths(c), Roots(c)[r])
        /\ LitTruth(c, faulty, Roots(c)[r]) = LitTruth(c, Truths(d), Roots(c)[r])
  BY <1>2, <1>3, <1>4, <1>5, MiterIs
<1>8. \A r \in DOMAIN Roots(c) : r \notin affected =>
        LitTruth(c, Truths(c), Roots(c)[r]) = LitTruth(c, Truths(d), Roots(c)[r])
  BY <1>1, UnaffectedKept
<1>9. WellFormed(d) /\ Primaries(d) = Primaries(c) /\ Roots(d) = Roots(c)
  BY StuckIs DEF IsStuck
<1>10. Equivalent(c, d) <=>
         \A r \in DOMAIN Roots(c) :
           LitTruth(c, Truths(c), Roots(c)[r]) = LitTruth(c, Truths(d), Roots(c)[r])
  BY <1>9, EquivalentIs
<1> QED BY <1>2, <1>6, <1>7, <1>8, <1>10

-----------------------------------------------------------------------------
(* The slice that is derived from fanins.                                  *)
SliceStep(gates, idx, cone, dep, n) ==
  IF n \in cone /\ (\/ n = idx
                    \/ \E lit \in Fanins(gates[n]) : GateAt(gates, lit) \cap dep # {})
  THEN dep \cup {n} ELSE dep

SliceTo(w, gates, idx, cone, n) ==
  w = [m \in 0 .. n |-> IF m = 0 THEN {} ELSE SliceStep(gates, idx, cone, w[m - 1], m)]

(* There are such rounds of every number.                                  *)
LEMMA SliceToExist ==
  ASSUME NEW gates, NEW idx, NEW cone
  PROVE  \A n \in Nat : \E w : SliceTo(w, gates, idx, cone, n)
<1> DEFINE P == {n \in Nat : \E w : SliceTo(w, gates, idx, cone, n)}
<1>1. 0 \in P
  <2> DEFINE w == [m \in 0 .. 0 |-> {}]
  <2>1. SliceTo(w, gates, idx, cone, 0)
    BY DEF SliceTo
  <2> QED BY <2>1
<1>2. ASSUME NEW n \in Nat, n \in P PROVE n + 1 \in P
  <2>1. PICK w : SliceTo(w, gates, idx, cone, n)
    BY <1>2
  <2> DEFINE v == [m \in 0 .. n + 1 |->
                     IF m = n + 1 THEN SliceStep(gates, idx, cone, w[n], n + 1) ELSE w[m]]
  <2>2. ASSUME NEW m \in 0 .. n + 1
        PROVE  v[m] = IF m = 0 THEN {} ELSE SliceStep(gates, idx, cone, v[m - 1], m)
    <3>1. CASE m = n + 1
      BY <3>1
    <3>2. CASE m # n + 1
      <4>1. m \in 0 .. n /\ (m # 0 => m - 1 \in 0 .. n)
        BY <3>2
      <4>2. w[m] = IF m = 0 THEN {} ELSE SliceStep(gates, idx, cone, w[m - 1], m)
        BY <2>1, <4>1, Zenon DEF SliceTo
      <4> QED BY <3>2, <4>1, <4>2
    <3> QED BY <3>1, <3>2
  <2>3. v = [m \in 0 .. n + 1 |-> v[m]]
    OBVIOUS
  <2> HIDE DEF v
  <2>4. SliceTo(v, gates, idx, cone, n + 1)
    BY <2>2, <2>3, Zenon DEF SliceTo
  <2> QED BY <2>4
<1> HIDE DEF P
<1>3. \A n \in Nat : n \in P
  BY <1>1, <1>2, SetInduction
<1> QED BY <1>3 DEF P

(* It stays within every set that is closed under fanout in the cone.      *)
LEMMA DependencyWithin ==
  ASSUME NEW gates, NEW N \in Nat, N = Len(gates), NEW idx \in 1 .. N,
         NEW cone, NEW S, idx \in cone => idx \in S,
         \A i \in S : \A j \in cone : \A lit \in Fanins(gates[j]) :
           Base(lit) = Lhs(gates[i]) => j \in S
  PROVE  FaninDependencySlice(gates, idx, cone) \subseteq S
<1> DEFINE w == CHOOSE w : SliceTo(w, gates, idx, cone, N)
<1>1. SliceTo(w, gates, idx, cone, N)
  BY SliceToExist
<1>2. FaninDependencySlice(gates, idx, cone) = w[N]
  BY Zenon DEF FaninDependencySlice, SliceTo, SliceStep
<1> HIDE DEF w
<1>3. \A m \in 0 .. N : w[m] = IF m = 0 THEN {} ELSE SliceStep(gates, idx, cone, w[m - 1], m)
  BY <1>1, Zenon DEF SliceTo
<1> DEFINE P == {n \in Nat : n <= N => w[n] \subseteq S}
<1>4. 0 \in P
  BY <1>3
<1>5. ASSUME NEW n \in Nat, n \in P PROVE n + 1 \in P
  <2> SUFFICES ASSUME n + 1 <= N PROVE w[n + 1] \subseteq S
    OBVIOUS
  <2>1. w[n] \subseteq S
    BY <1>5
  <2>2. w[n + 1] = SliceStep(gates, idx, cone, w[n], n + 1)
    <3>1. n + 1 \in 0 .. N /\ n + 1 # 0 /\ (n + 1) - 1 = n
      OBVIOUS
    <3> QED BY <1>3, <3>1
  <2>3. PICK k \in Nat : k = n + 1
    OBVIOUS
  <2>4. ASSUME k \in cone, k # idx, NEW lit \in Fanins(gates[k]),
               GateAt(gates, lit) \cap w[n] # {}
        PROVE  k \in S
    <3>1. PICK i \in w[n] : Lhs(gates[i]) = Base(lit)
      BY <2>4 DEF GateAt
    <3> QED BY <2>1, <2>4, <3>1
  <2>5. w[n + 1] = SliceStep(gates, idx, cone, w[n], k)
    BY <2>2, <2>3
  <2>6. CASE k \in S
    BY <2>1, <2>5, <2>6 DEF SliceStep
  <2>7. CASE k \notin S
    <3>1. ~(k \in cone /\ (\/ k = idx
                            \/ \E lit \in Fanins(gates[k]) : GateAt(gates, lit) \cap w[n] # {}))
      BY <2>4, <2>7
    <3>2. w[n + 1] = w[n]
      BY <2>5, <3>1 DEF SliceStep
    <3> QED BY <2>1, <3>2
  <2> QED BY <2>6, <2>7
<1> HIDE DEF P
<1>6. N \in P
  BY <1>4, <1>5, SetInduction
<1> QED BY <1>2, <1>6 DEF P

(* On every circuit, for every gate that reaches a root, the slice passes  *)
(* its audit: fanout walk and fanin derivation agree (_audit_tfo_slice).   *)
THEOREM AuditHolds ==
  ASSUME NEW c, WellFormed(c), NEW idx \in 1 .. Len(c.gates),
         NEW affected, affected = AffectedRoots(c, idx), affected # {},
         NEW cone, cone = GoodCone(c, affected),
         NEW slice, slice = TfoSlice(c.gates, idx, cone)
  PROVE  AuditPasses(c, affected, idx, cone, slice)
<1>1. PICK N : N = Len(c.gates)
  OBVIOUS
<1>2. PICK gates : gates = c.gates
  OBVIOUS
<1>3. N \in Nat /\ DOMAIN gates = 1 .. N /\ idx \in 1 .. N /\ N = Len(gates)
  BY <1>1, <1>2, GateShape
<1>4. PICK lits : lits = {Roots(c)[r] : r \in affected}
  OBVIOUS
<1>5. /\ cone \subseteq 1 .. N
      /\ \A lit \in lits : \A j \in 1 .. N : Lhs(gates[j]) = Base(lit) => j \in cone
      /\ \A i \in cone : \A lit \in Fanins(gates[i]) : \A j \in 1 .. N :
           Base(lit) = Lhs(gates[j]) => j \in cone
  <2>1. cone = Cone(gates, lits)
    BY <1>2, <1>4 DEF GoodCone
  <2> QED BY <1>3, <2>1, ConeIs
<1>6. slice = TfoSlice(gates, idx, cone)
  BY <1>2
<1>7. /\ slice \subseteq cone
      /\ idx \in cone => idx \in slice
      /\ \A i \in slice : \A j \in cone : \A lit \in Fanins(gates[j]) :
           Base(lit) = Lhs(gates[i]) => j \in slice
  BY <1>3, <1>5, <1>6, SliceIs
<1>8. PICK A : A = Reach(Fanout(gates), {idx})
  OBVIOUS
<1>9. \A r \in affected : GateAt(gates, Roots(c)[r]) \cap A # {}
  BY <1>2, <1>8 DEF AffectedRoots
<1>10. \A r \in affected : \E j \in 1 .. N : Lhs(gates[j]) = Base(Roots(c)[r]) /\ j \in A /\ j \in cone
  BY <1>3, <1>4, <1>5, <1>9 DEF GateAt
<1>11. idx \in cone
  <2> DEFINE X == {i \in 1 .. N : i \in cone => idx \in cone}
  <2>1. idx \in X /\ X \subseteq 1 .. N
    BY <1>3
  <2>2. \A i \in X : \A j \in 1 .. N : \A lit \in Fanins(gates[j]) :
          Base(lit) = Lhs(gates[i]) => j \in X
    BY <1>5
  <2>3. \A i \in X : i \in cone => idx \in cone
    OBVIOUS
  <2> HIDE DEF X
  <2>4. Reach(Fanout(gates), {idx}) \subseteq X
    BY <1>3, <2>1, <2>2, AffectedLeast
  <2> QED BY <1>8, <1>10, <2>3, <2>4
<1>12. \A j \in A : j \in cone => j \in slice
  <2> DEFINE X == {i \in 1 .. N : i \in cone => i \in slice}
  <2>1. idx \in X /\ X \subseteq 1 .. N
    BY <1>3, <1>7
  <2>2. \A i \in X : \A j \in 1 .. N : \A lit \in Fanins(gates[j]) :
          Base(lit) = Lhs(gates[i]) => j \in X
    BY <1>5, <1>7
  <2>3. \A i \in X : i \in cone => i \in slice
    OBVIOUS
  <2> HIDE DEF X
  <2>4. Reach(Fanout(gates), {idx}) \subseteq X
    BY <1>3, <2>1, <2>2, AffectedLeast
  <2> QED BY <1>8, <2>3, <2>4
<1>13. FaninDependencySlice(gates, idx, cone) \subseteq slice
  BY <1>3, <1>7, DependencyWithin
<1>14. \A r \in affected : GateAt(gates, Roots(c)[r]) \cap slice # {}
  <2> SUFFICES ASSUME NEW r \in affected PROVE GateAt(gates, Roots(c)[r]) \cap slice # {}
    OBVIOUS
  <2>1. PICK j \in 1 .. N : Lhs(gates[j]) = Base(Roots(c)[r]) /\ j \in A /\ j \in cone
    BY <1>10
  <2>2. j \in GateAt(gates, Roots(c)[r]) /\ j \in slice
    BY <1>3, <1>12, <2>1 DEF GateAt
  <2> QED BY <2>2
<1> QED BY <1>2, <1>7, <1>11, <1>13, <1>14 DEF AuditPasses

-----------------------------------------------------------------------------
(* What strash knows about literals.                                       *)

(* The base of a literal does not depend on its complement.                *)
LEMMA ComplementedIs ==
  ASSUME NEW lit \in Nat, NEW flag \in {0, 1}
  PROVE  /\ Complemented(lit, flag) \in Nat
         /\ Base(Complemented(lit, flag)) = Base(lit)
BY LiteralArithmetic DEF Complemented

(* A truth is a set of assignments.                                        *)
Within(c, T, lit) == T[Base(lit)] \subseteq Assignments(c)

(* The complement of a literal has the complement of its truth.            *)
LEMMA TruthOfNot ==
  ASSUME NEW c, NEW T, NEW lit \in Nat, Within(c, T, lit)
  PROVE  /\ LitTruth(c, T, lit) \subseteq Assignments(c)
         /\ LitTruth(c, T, Not(lit)) = Assignments(c) \ LitTruth(c, T, lit)
<1>1. Base(Not(lit)) = Base(lit) /\ Not(lit) \in Nat /\ Not(lit) % 2 = 1 - (lit % 2)
  BY LiteralArithmetic
<1>2. CASE lit % 2 = 0
  <2>1. Base(lit) = lit
    BY <1>2, EvenIsBase
  <2>2. Not(lit) % 2 # 0
    BY <1>1, <1>2
  <2>3. LitTruth(c, T, lit) = T[Base(lit)]
    BY <1>2, <2>1 DEF LitTruth
  <2>4. LitTruth(c, T, Not(lit)) = Assignments(c) \ T[Base(lit)]
    BY <1>1, <2>2 DEF LitTruth
  <2> QED BY <2>3, <2>4 DEF Within
<1>3. CASE lit % 2 # 0
  <2>1. Not(lit) % 2 = 0
    BY <1>1, <1>3, LiteralArithmetic
  <2>2. Base(Not(lit)) = Not(lit)
    BY <1>1, <2>1, EvenIsBase
  <2>3. LitTruth(c, T, Not(lit)) = T[Base(lit)]
    BY <1>1, <2>1, <2>2 DEF LitTruth
  <2>4. LitTruth(c, T, lit) = Assignments(c) \ T[Base(lit)]
    BY <1>3 DEF LitTruth
  <2> QED BY <2>3, <2>4 DEF Within
<1> QED BY <1>2, <1>3

(* A literal stands for its base, complemented or not.                     *)
LEMMA TruthOfComplemented ==
  ASSUME NEW c, NEW T, NEW lit \in Nat, NEW to \in Nat, Within(c, T, to),
         T[Base(lit)] = LitTruth(c, T, to)
  PROVE  LitTruth(c, T, Complemented(to, lit % 2)) = LitTruth(c, T, lit)
<1>1. lit % 2 \in {0, 1}
  BY LiteralArithmetic
<1>2. CASE lit % 2 = 0
  <2>1. Base(lit) = lit
    BY <1>2, EvenIsBase
  <2>2. LitTruth(c, T, lit) = T[Base(lit)]
    BY <1>2, <2>1 DEF LitTruth
  <2>3. Complemented(to, lit % 2) = to
    BY <1>2 DEF Complemented
  <2> QED BY <2>2, <2>3
<1>3. CASE lit % 2 = 1
  <2>1. LitTruth(c, T, lit) = Assignments(c) \ T[Base(lit)]
    BY <1>3 DEF LitTruth
  <2>2. Complemented(to, lit % 2) = Not(to)
    BY <1>3 DEF Complemented
  <2> QED BY <2>1, <2>2, TruthOfNot
<1> QED BY <1>1, <1>2, <1>3

(* The constants.                                                          *)
LEMMA TruthOfConstants ==
  ASSUME NEW c, NEW T, T[0] = {}
  PROVE  LitTruth(c, T, 0) = {} /\ LitTruth(c, T, 1) = Assignments(c)
<1>1. 0 % 2 = 0 /\ 1 % 2 = 1 /\ Base(1) = 0
  BY DEF Base
<1> QED BY <1>1 DEF LitTruth

(* What an AND folds to has its truth.                                     *)
FoldsTo(c, T, e0, e1, lit) ==
  /\ lit \in {0, e0, e1}
  /\ LitTruth(c, T, lit) = LitTruth(c, T, e0) \cap LitTruth(c, T, e1)

(* What an AND folds to has the truth of the AND.                          *)
LEMMA FoldedIs ==
  ASSUME NEW c, NEW T, T[0] = {}, NEW e0 \in Nat, NEW e1 \in Nat, Within(c, T, e0), Within(c, T, e1),
         NEW lit \in Folded(e0, e1)
  PROVE  FoldsTo(c, T, e0, e1, lit)
<1> SUFFICES /\ lit \in {0, e0, e1}
             /\ LitTruth(c, T, lit) = LitTruth(c, T, e0) \cap LitTruth(c, T, e1)
  BY DEF FoldsTo
<1>1. /\ LitTruth(c, T, e0) \subseteq Assignments(c)
      /\ LitTruth(c, T, e1) \subseteq Assignments(c)
      /\ LitTruth(c, T, Not(e1)) = Assignments(c) \ LitTruth(c, T, e1)
  BY TruthOfNot
<1>2. LitTruth(c, T, 0) = {} /\ LitTruth(c, T, 1) = Assignments(c)
  BY TruthOfConstants
<1>3. CASE e0 = 0 \/ e1 = 0
  <2>1. lit = 0
    BY <1>3 DEF Folded
  <2> QED BY <1>2, <1>3, <2>1
<1>4. CASE e0 # 0 /\ e1 # 0 /\ e0 = 1
  <2>1. lit = e1
    BY <1>4 DEF Folded
  <2> QED BY <1>1, <1>2, <1>4, <2>1
<1>5. CASE e0 # 0 /\ e1 # 0 /\ e0 # 1 /\ e1 = 1
  <2>1. lit = e0
    BY <1>5 DEF Folded
  <2> QED BY <1>1, <1>2, <1>5, <2>1
<1>6. CASE e0 # 0 /\ e1 # 0 /\ e0 # 1 /\ e1 # 1
  <2>1. CASE e0 = e1
    <3>1. lit = e0
      BY <1>6, <2>1 DEF Folded
    <3> QED BY <2>1, <3>1
  <2>2. CASE e0 # e1
    <3>1. Folded(e0, e1) = IF e0 = Not(e1) THEN {0} ELSE {}
      BY <1>6, <2>2 DEF Folded
    <3>2. lit = 0 /\ e0 = Not(e1)
      BY <3>1
    <3> QED BY <1>1, <1>2, <3>2
  <2> QED BY <2>1, <2>2
<1> QED BY <1>3, <1>4, <1>5, <1>6

-----------------------------------------------------------------------------
(* A substitution that is followed in one step.                            *)
Flat(subst) ==
  /\ 0 \in DOMAIN subst /\ subst[0] = 0
  /\ \A b \in DOMAIN subst :
       /\ subst[b] \in Nat
       /\ Base(subst[b]) \in DOMAIN subst
       /\ subst[Base(subst[b])] = Base(subst[b])

Stops(subst, l) == l <= 1 \/ Base(l) \notin DOMAIN subst \/ subst[Base(l)] = Base(l)

Follows(f, subst) ==
  f = [l \in Nat |-> IF Stops(subst, l) THEN l ELSE f[Complemented(subst[Base(l)], l % 2)]]

(* Following a flat substitution takes one step.                           *)
LEMMA ResolveIs ==
  ASSUME NEW subst, Flat(subst), NEW lit \in Nat, Base(lit) \in DOMAIN subst
  PROVE  /\ Resolve(subst, lit) = Complemented(subst[Base(lit)], lit % 2)
         /\ Resolve(subst, lit) \in Nat
         /\ Base(Resolve(subst, lit)) = Base(subst[Base(lit)])
         /\ Base(Resolve(subst, lit)) \in DOMAIN subst
         /\ subst[Base(Resolve(subst, lit))] = Base(Resolve(subst, lit))
<1> DEFINE Next1(l) == Complemented(subst[Base(l)], l % 2)
<1>1. ASSUME NEW l \in Nat, Base(l) \in DOMAIN subst
      PROVE  Next1(l) \in Nat /\ Base(Next1(l)) = Base(subst[Base(l)]) /\ Stops(subst, Next1(l))
  <2>1. l % 2 \in {0, 1}
    BY LiteralArithmetic
  <2>2. PICK to \in Nat : to = subst[Base(l)]
    BY <1>1 DEF Flat
  <2>3. Next1(l) \in Nat /\ Base(Next1(l)) = Base(to)
    BY <2>1, <2>2, ComplementedIs
  <2>4. subst[Base(to)] = Base(to)
    BY <1>1, <2>2 DEF Flat
  <2> QED BY <2>2, <2>3, <2>4 DEF Stops
<1> HIDE DEF Next1
<1>2. \E f : Follows(f, subst)
  <2> DEFINE f == [l \in Nat |-> IF Stops(subst, l) THEN l ELSE Next1(l)]
  <2>1. ASSUME NEW l \in Nat
        PROVE  f[l] = IF Stops(subst, l) THEN l ELSE f[Next1(l)]
    <3>1. CASE Stops(subst, l)
      BY <3>1
    <3>2. CASE ~Stops(subst, l)
      <4>1. Base(l) \in DOMAIN subst
        BY <3>2 DEF Stops
      <4>2. Next1(l) \in Nat /\ Stops(subst, Next1(l))
        BY <1>1, <4>1
      <4> QED BY <3>2, <4>2
    <3> QED BY <3>1, <3>2
  <2>2. f = [l \in Nat |-> f[l]]
    OBVIOUS
  <2> HIDE DEF f
  <2>3. Follows(f, subst)
    BY <2>1, <2>2, Zenon DEF Follows, Next1
  <2> QED BY <2>3
<1> DEFINE f == CHOOSE f : Follows(f, subst)
<1>3. Follows(f, subst)
  BY <1>2
<1>4. Resolve(subst, lit) = f[lit]
  BY Zenon DEF Resolve, Follows, Stops
<1> HIDE DEF f
<1>5. \A l \in Nat : f[l] = IF Stops(subst, l) THEN l ELSE f[Next1(l)]
  BY <1>3, Zenon DEF Follows, Next1
<1>6. f[lit] = Next1(lit)
  <2>1. CASE ~Stops(subst, lit)
    BY <1>1, <1>5, <2>1
  <2>2. CASE Stops(subst, lit)
    <3>1. subst[Base(lit)] = Base(lit)
      <4>1. CASE lit <= 1
        <5>1. lit \in {0, 1}
          BY <4>1
        <5>2. Base(lit) = 0
          BY <5>1, LiteralArithmetic
        <5> QED BY <5>2 DEF Flat
      <4> QED BY <2>2, <4>1 DEF Stops
    <3>2. Complemented(Base(lit), lit % 2) = lit
      <4>1. lit % 2 \in {0, 1} /\ Base(lit) % 2 = 0 /\ lit = Base(lit) + (lit % 2) /\ Base(lit) \in Nat
        BY LiteralArithmetic
      <4> QED BY <4>1 DEF Complemented, Not
    <3> QED BY <1>5, <2>2, <3>1, <3>2 DEF Next1
  <2> QED BY <2>1, <2>2
<1>7. Next1(lit) \in Nat /\ Base(Next1(lit)) = Base(subst[Base(lit)])
  BY <1>1
<1>8. Base(subst[Base(lit)]) \in DOMAIN subst
      /\ subst[Base(subst[Base(lit)])] = Base(subst[Base(lit)])
  BY DEF Flat
<1> QED BY <1>4, <1>6, <1>7, <1>8 DEF Next1

-----------------------------------------------------------------------------
(* Truths as sets of assignments.                                          *)

(* The truths of a circuit are sets of assignments, that of 0 is empty.    *)
LEMMA TruthRange ==
  ASSUME NEW c, WellFormed(c), NEW T, T = Truths(c)
  PROVE  /\ T[0] = {}
         /\ \A b \in {0} \cup Primaries(c) : T[b] \subseteq Assignments(c)
         /\ \A i \in 1 .. Len(c.gates) : T[Lhs(c.gates[i])] \subseteq Assignments(c)
<1> DEFINE N == Len(c.gates)
<1>1. N \in Nat
  BY GateShape
<1>2. Evaluates(c, T, 1 .. N)
  BY TruthsEvaluate
<1>3. \A b \in {0} \cup Primaries(c) : T[b] = {a \in Assignments(c) : b \in a}
  BY <1>2 DEF Evaluates, PrimaryTruths
<1>4. T[0] = {}
  <2>1. 0 \notin Primaries(c)
    BY DEF WellFormed
  <2> QED BY <1>3, <2>1 DEF Assignments
<1>5. \A b \in {0} \cup Primaries(c) : T[b] \subseteq Assignments(c)
  BY <1>3
<1> DEFINE P == {i \in 1 .. N : T[Lhs(c.gates[i])] \subseteq Assignments(c)}
<1>6. ASSUME NEW i \in 1 .. N, \A j \in 1 .. i - 1 : j \in P PROVE i \in P
  <2>1. PICK lit \in Nat : lit = c.gates[i][2] /\ lit \in Fanins(c.gates[i])
    BY GateShape DEF Fanins
  <2>2. T[Base(lit)] \subseteq Assignments(c)
    <3>1. \/ Base(lit) \in {0} \cup Primaries(c)
          \/ \E j \in 1 .. i - 1 : Lhs(c.gates[j]) = Base(lit)
      BY <2>1, FaninKnown
    <3> QED BY <1>5, <1>6, <3>1
  <2>3. LitTruth(c, T, lit) \subseteq Assignments(c)
    BY <2>2, TruthOfNot DEF Within
  <2>4. T[Lhs(c.gates[i])] = AndTruth(c, T, c.gates[i])
    BY <1>2 DEF Evaluates
  <2> QED BY <2>1, <2>3, <2>4 DEF AndTruth
<1> HIDE DEF P
<1>7. \A i \in 1 .. N : i \in P
  BY <1>1, <1>6, PositionInduction
<1> QED BY <1>4, <1>5, <1>7 DEF P

-----------------------------------------------------------------------------
(* The forward pass of strash.  In a substitution that gates 1 to n have   *)
(* gone into, every id stands for a literal of the same truth whose base   *)
(* stands for itself, and a base that does is a primary or a kept gate.    *)
Substitutes(c, T, subst, n) ==
  /\ \A b : b \in DOMAIN subst <=>
       b \in {0} \cup Primaries(c) \/ \E i \in 1 .. n : Lhs(c.gates[i]) = b
  /\ Flat(subst)
  /\ \A b \in {0} \cup Primaries(c) : subst[b] = b
  /\ \A b \in DOMAIN subst :
       T[b] \subseteq Assignments(c) /\ T[b] = LitTruth(c, T, subst[b])

IsConstant(gate) == gate[2] = gate[3] /\ gate[2] \in {0, 1}

Keeps(c, T, kept, n) ==
  /\ kept \in Seq(Nat \X Nat \X Nat)
  /\ \A k \in 1 .. Len(kept) :
       /\ \E i \in 1 .. n : Lhs(c.gates[i]) = Lhs(kept[k]) /\ ~IsConstant(c.gates[i])
       /\ T[Lhs(kept[k])] = AndTruth(c, T, kept[k])
       /\ \A lit \in Fanins(kept[k]) :
            \/ Base(lit) \in {0} \cup Primaries(c)
            \/ \E l \in 1 .. k - 1 : Lhs(kept[l]) = Base(lit)
  /\ \A k, l \in 1 .. Len(kept) : k < l => Lhs(kept[k]) < Lhs(kept[l])

(* Settled: the bases that stand for themselves.                           *)
Settles(c, subst, kept) ==
  \A b \in DOMAIN subst :
    subst[b] = b <=>
      b \in {0} \cup Primaries(c) \/ \E k \in 1 .. Len(kept) : Lhs(kept[k]) = b

StrashState(c, T, st, n) ==
  /\ st = [subst |-> st.subst, kept |-> st.kept]
  /\ Substitutes(c, T, st.subst, n)
  /\ Keeps(c, T, st.kept, n)
  /\ Settles(c, st.subst, st.kept)

(* A literal that is resolved keeps its truth.                             *)
LEMMA ResolvedTruth ==
  ASSUME NEW c, NEW T, NEW subst, NEW n, Substitutes(c, T, subst, n),
         NEW lit \in Nat, Base(lit) \in DOMAIN subst, NEW e, e = Resolve(subst, lit)
  PROVE  /\ e \in Nat /\ Base(e) \in DOMAIN subst /\ subst[Base(e)] = Base(e)
         /\ LitTruth(c, T, e) = LitTruth(c, T, lit) /\ Within(c, T, e)
<1>1. Flat(subst)
  BY DEF Substitutes
<1>2. /\ e = Complemented(subst[Base(lit)], lit % 2)
      /\ e \in Nat /\ Base(e) \in DOMAIN subst /\ subst[Base(e)] = Base(e)
      /\ Base(e) = Base(subst[Base(lit)])
  BY <1>1, ResolveIs
<1>3. Within(c, T, e)
  BY <1>2 DEF Substitutes, Within
<1>4. PICK to \in Nat : to = subst[Base(lit)]
  BY <1>1 DEF Flat
<1>5. Within(c, T, to)
  BY <1>2, <1>3, <1>4 DEF Within
<1>6. T[Base(lit)] = LitTruth(c, T, to)
  BY <1>4 DEF Substitutes
<1>7. LitTruth(c, T, Complemented(to, lit % 2)) = LitTruth(c, T, lit)
  BY <1>5, <1>6, TruthOfComplemented
<1> QED BY <1>2, <1>3, <1>4, <1>7

(* Gate n goes into a settled literal of its truth.                        *)
LEMMA SubstitutedKeeps ==
  ASSUME NEW c, WellFormed(c), NEW T, NEW n \in 1 .. Len(c.gates), NEW subst,
         Substitutes(c, T, subst, n - 1),
         NEW id, id = Lhs(c.gates[n]), NEW lit \in Nat,
         (Base(lit) \in DOMAIN subst /\ subst[Base(lit)] = Base(lit)) \/ lit = id,
         T[id] = LitTruth(c, T, lit), T[id] \subseteq Assignments(c)
  PROVE  Substitutes(c, T, With(subst, id, lit), n)
<1> DEFINE W == With(subst, id, lit)
<1>1. /\ id \notin {0} \cup Primaries(c) /\ Base(id) = id
      /\ \A i \in 1 .. n - 1 : Lhs(c.gates[i]) # id
  <2>1. id \notin {0} \cup Primaries(c) /\ Base(id) = id /\ Len(c.gates) \in Nat
    BY GateShape
  <2>2. ASSUME NEW i \in 1 .. n - 1 PROVE Lhs(c.gates[i]) # id
    <3>1. i \in 1 .. Len(c.gates) /\ i # n
      BY <2>1
    <3> QED BY <3>1, GateOrder
  <2> QED BY <2>1, <2>2
<1>2. id \notin DOMAIN subst
  BY <1>1 DEF Substitutes
<1>3. /\ \A b : b \in DOMAIN W <=> b \in DOMAIN subst \/ b = id
      /\ W[id] = lit
      /\ \A b \in DOMAIN subst : W[b] = subst[b]
  BY <1>2 DEF With
<1> HIDE DEF W
<1>4. \A b : b \in DOMAIN W <=>
        b \in {0} \cup Primaries(c) \/ \E i \in 1 .. n : Lhs(c.gates[i]) = b
  <2>1. \A i : i \in 1 .. n <=> i \in 1 .. n - 1 \/ i = n
    OBVIOUS
  <2> QED BY <1>3, <2>1 DEF Substitutes
<1>5. Flat(W)
  <2>1. 0 \in DOMAIN W /\ W[0] = 0
    BY <1>3 DEF Substitutes, Flat
  <2>2. ASSUME NEW b \in DOMAIN W
        PROVE  W[b] \in Nat /\ Base(W[b]) \in DOMAIN W /\ W[Base(W[b])] = Base(W[b])
    <3>1. CASE b \in DOMAIN subst
      BY <1>3, <3>1 DEF Substitutes, Flat
    <3>2. CASE b = id
      BY <1>1, <1>3, <3>2
    <3> QED BY <1>3, <3>1, <3>2
  <2> QED BY <2>1, <2>2 DEF Flat
<1>6. \A b \in {0} \cup Primaries(c) : W[b] = b
  BY <1>3 DEF Substitutes
<1>7. \A b \in DOMAIN W : T[b] \subseteq Assignments(c) /\ T[b] = LitTruth(c, T, W[b])
  BY <1>3 DEF Substitutes
<1> QED BY <1>4, <1>5, <1>6, <1>7 DEF Substitutes, W

(* Without a new gate, what is kept stays right.                           *)
LEMMA KeepsLater ==
  ASSUME NEW c, NEW T, NEW kept, NEW n \in Nat, n # 0, Keeps(c, T, kept, n - 1)
  PROVE  Keeps(c, T, kept, n)
<1>1. \A i : i \in 1 .. n - 1 => i \in 1 .. n
  OBVIOUS
<1> QED BY <1>1 DEF Keeps

(* Without a new gate, what is settled stays settled but for the gate      *)
(* itself.                                                                 *)
LEMMA SettlesLater ==
  ASSUME NEW c, NEW subst, NEW kept, Settles(c, subst, kept), NEW id, id \notin DOMAIN subst,
         NEW lit, id # lit, id \notin {0} \cup Primaries(c),
         \A k \in 1 .. Len(kept) : Lhs(kept[k]) \in DOMAIN subst
  PROVE  Settles(c, With(subst, id, lit), kept)
BY DEF Settles, With

(* A gate that goes into a settled literal is not kept.                    *)
LEMMA GoesInto ==
  ASSUME NEW c, WellFormed(c), NEW T, NEW n \in 1 .. Len(c.gates), NEW st,
         StrashState(c, T, st, n - 1), NEW id, id = Lhs(c.gates[n]), NEW lit \in Nat,
         Base(lit) \in DOMAIN st.subst, st.subst[Base(lit)] = Base(lit),
         T[id] = LitTruth(c, T, lit), T[id] \subseteq Assignments(c),
         NEW t, t = [st EXCEPT !.subst = With(@, id, lit)]
  PROVE  StrashState(c, T, t, n)
<1>1. st = [subst |-> st.subst, kept |-> st.kept]
  BY DEF StrashState
<1>2. t = [subst |-> With(st.subst, id, lit), kept |-> st.kept]
  BY <1>1
<1>3. Substitutes(c, T, st.subst, n - 1) /\ Keeps(c, T, st.kept, n - 1)
      /\ Settles(c, st.subst, st.kept)
  BY DEF StrashState
<1>4. Substitutes(c, T, With(st.subst, id, lit), n)
  BY <1>3, SubstitutedKeeps
<1>5. n \in Nat /\ n # 0
  BY GateShape
<1>6. Keeps(c, T, st.kept, n)
  BY <1>3, <1>5, KeepsLater
<1>7. Settles(c, With(st.subst, id, lit), st.kept)
  <2>1. id \notin {0} \cup Primaries(c) /\ Base(id) = id /\ Len(c.gates) \in Nat
    BY GateShape
  <2>2. \A i \in 1 .. n - 1 : Lhs(c.gates[i]) # id
    <3>1. \A i \in 1 .. n - 1 : i \in 1 .. Len(c.gates) /\ i # n
      BY <2>1
    <3> QED BY <3>1, GateOrder
  <2>3. id \notin DOMAIN st.subst
    BY <1>3, <2>1, <2>2 DEF Substitutes
  <2>4. id # lit
    BY <2>1, <2>3
  <2>5. \A k \in 1 .. Len(st.kept) : Lhs(st.kept[k]) \in DOMAIN st.subst
    BY <1>3 DEF Keeps, Substitutes
  <2> QED BY <1>3, <2>1, <2>3, <2>4, <2>5, SettlesLater
<1> QED BY <1>2, <1>4, <1>6, <1>7 DEF StrashState

(* A gate that is kept stands for itself.                                  *)
LEMMA IsKept ==
  ASSUME NEW c, WellFormed(c), NEW T, NEW n \in 1 .. Len(c.gates), NEW st,
         StrashState(c, T, st, n - 1), NEW id, id = Lhs(c.gates[n]), ~IsConstant(c.gates[n]),
         NEW gate, gate \in Nat \X Nat \X Nat, Lhs(gate) = id,
         T[id] = AndTruth(c, T, gate), T[id] \subseteq Assignments(c),
         \A lit \in Fanins(gate) :
           Base(lit) \in DOMAIN st.subst /\ st.subst[Base(lit)] = Base(lit),
         NEW t, t = [subst |-> With(st.subst, id, id), kept |-> Append(st.kept, gate)]
  PROVE  StrashState(c, T, t, n)
<1> DEFINE L == Len(st.kept)
           K == Append(st.kept, gate)
           W == With(st.subst, id, id)
<1>2. t.subst = W /\ t.kept = K /\ t = [subst |-> t.subst, kept |-> t.kept]
  OBVIOUS
<1>3. Substitutes(c, T, st.subst, n - 1) /\ Keeps(c, T, st.kept, n - 1)
      /\ Settles(c, st.subst, st.kept)
  BY DEF StrashState
<1>4. id \in Nat /\ id \notin {0} \cup Primaries(c) /\ Base(id) = id /\ n \in Nat /\ Len(c.gates) \in Nat
  BY GateShape
<1>5. Substitutes(c, T, W, n)
  <2>1. LitTruth(c, T, id) = T[id]
    <3>1. id % 2 = 0
      <4>1. Base(id) % 2 = 0
        BY <1>4, LiteralArithmetic
      <4> QED BY <1>4, <4>1, Zenon
    <3> QED BY <3>1 DEF LitTruth
  <2> HIDE DEF W
  <2> QED BY <1>3, <1>4, <2>1, SubstitutedKeeps DEF W
<1>6. id \notin DOMAIN st.subst
  <2>1. \A i \in 1 .. n - 1 : Lhs(c.gates[i]) # id
    <3>1. \A i \in 1 .. n - 1 : i \in 1 .. Len(c.gates) /\ i # n
      BY <1>4
    <3> QED BY <3>1, GateOrder
  <2> QED BY <1>3, <1>4, <2>1 DEF Substitutes
<1>7. /\ \A b : b \in DOMAIN W <=> b \in DOMAIN st.subst \/ b = id
      /\ W[id] = id
      /\ \A b \in DOMAIN st.subst : W[b] = st.subst[b]
  BY <1>6 DEF With
<1>8. st.kept \in Seq(Nat \X Nat \X Nat) /\ L \in Nat
  BY <1>3 DEF Keeps
<1>9. /\ K \in Seq(Nat \X Nat \X Nat) /\ Len(K) = L + 1 /\ K[L + 1] = gate
      /\ \A k \in 1 .. L : K[k] = st.kept[k]
  BY <1>8
<1> HIDE DEF K, W, L
<1>10. \A k : k \in 1 .. Len(K) <=> k \in 1 .. L \/ k = L + 1
  <2>1. PICK m \in Nat : m = L
    BY <1>8
  <2>2. \A k : k \in 1 .. m + 1 <=> k \in 1 .. m \/ k = m + 1
    BY <2>1
  <2> QED BY <1>9, <2>1, <2>2, Zenon
<1>11. \A k \in 1 .. L :
         /\ \E i \in 1 .. n - 1 : Lhs(c.gates[i]) = Lhs(K[k]) /\ ~IsConstant(c.gates[i])
         /\ T[Lhs(K[k])] = AndTruth(c, T, K[k])
         /\ \A lit \in Fanins(K[k]) :
              \/ Base(lit) \in {0} \cup Primaries(c)
              \/ \E l \in 1 .. k - 1 : Lhs(K[l]) = Base(lit)
  <2> SUFFICES ASSUME NEW k \in 1 .. L
               PROVE  /\ \E i \in 1 .. n - 1 : Lhs(c.gates[i]) = Lhs(K[k]) /\ ~IsConstant(c.gates[i])
                      /\ T[Lhs(K[k])] = AndTruth(c, T, K[k])
                      /\ \A lit \in Fanins(K[k]) :
                           \/ Base(lit) \in {0} \cup Primaries(c)
                           \/ \E l \in 1 .. k - 1 : Lhs(K[l]) = Base(lit)
    OBVIOUS
  <2>1. /\ \E i \in 1 .. n - 1 : Lhs(c.gates[i]) = Lhs(st.kept[k]) /\ ~IsConstant(c.gates[i])
        /\ T[Lhs(st.kept[k])] = AndTruth(c, T, st.kept[k])
        /\ \A lit \in Fanins(st.kept[k]) :
             \/ Base(lit) \in {0} \cup Primaries(c)
             \/ \E l \in 1 .. k - 1 : Lhs(st.kept[l]) = Base(lit)
    BY <1>3 DEF Keeps, L
  <2>2. \A l \in 1 .. k - 1 : l \in 1 .. L
    BY <1>8
  <2>3. K[k] = st.kept[k] /\ \A l \in 1 .. k - 1 : K[l] = st.kept[l]
    BY <1>9, <2>2
  <2> QED BY <2>1, <2>3
<1>12. /\ \E i \in 1 .. n : Lhs(c.gates[i]) = Lhs(gate) /\ ~IsConstant(c.gates[i])
       /\ \A lit \in Fanins(gate) :
            \/ Base(lit) \in {0} \cup Primaries(c)
            \/ \E l \in 1 .. L : Lhs(K[l]) = Base(lit)
  <2>1. n \in 1 .. n
    BY <1>4
  <2>2. \A b \in DOMAIN st.subst : st.subst[b] = b =>
          b \in {0} \cup Primaries(c) \/ \E l \in 1 .. L : Lhs(K[l]) = b
    BY <1>3, <1>9 DEF Settles, L
  <2> QED BY <2>1, <2>2
<1>13. \A k \in 1 .. L : Lhs(K[k]) \in DOMAIN st.subst /\ Lhs(K[k]) < id
  <2> SUFFICES ASSUME NEW k \in 1 .. L PROVE Lhs(K[k]) \in DOMAIN st.subst /\ Lhs(K[k]) < id
    OBVIOUS
  <2>1. PICK i \in 1 .. n - 1 : Lhs(c.gates[i]) = Lhs(K[k])
    BY <1>11
  <2>2. i \in 1 .. Len(c.gates) /\ i < n
    BY <1>4
  <2> QED BY <1>3, <2>1, <2>2, GateOrder DEF Substitutes
<1>14. Keeps(c, T, K, n)
  <2>1. \A i : i \in 1 .. n - 1 => i \in 1 .. n
    BY <1>4
  <2>2. ASSUME NEW k \in 1 .. Len(K)
        PROVE  /\ \E i \in 1 .. n : Lhs(c.gates[i]) = Lhs(K[k]) /\ ~IsConstant(c.gates[i])
               /\ T[Lhs(K[k])] = AndTruth(c, T, K[k])
               /\ \A lit \in Fanins(K[k]) :
                    \/ Base(lit) \in {0} \cup Primaries(c)
                    \/ \E l \in 1 .. k - 1 : Lhs(K[l]) = Base(lit)
    <3>1. CASE k \in 1 .. L
      BY <1>11, <2>1, <3>1
    <3>2. CASE k = L + 1
      <4>1. K[k] = gate /\ k - 1 = L
        BY <1>8, <1>9, <3>2
      <4> QED BY <1>12, <4>1
    <3> QED BY <1>10, <3>1, <3>2
  <2>3. \A k, l \in 1 .. Len(K) : k < l => Lhs(K[k]) < Lhs(K[l])
    <3> SUFFICES ASSUME NEW k \in 1 .. Len(K), NEW l \in 1 .. Len(K), k < l
                 PROVE  Lhs(K[k]) < Lhs(K[l])
      OBVIOUS
    <3>1. k \in 1 .. L
      BY <1>8, <1>9
    <3>2. CASE l = L + 1
      BY <1>9, <1>13, <3>1, <3>2
    <3>3. CASE l \in 1 .. L
      <4>1. K[k] = st.kept[k] /\ K[l] = st.kept[l]
        BY <1>9, <3>1, <3>3
      <4>2. Lhs(st.kept[k]) < Lhs(st.kept[l])
        BY <1>3, <3>1, <3>3 DEF Keeps, L
      <4> QED BY <4>1, <4>2
    <3> QED BY <1>10, <3>2, <3>3
  <2> QED BY <1>9, <2>2, <2>3 DEF Keeps
<1>15. Settles(c, W, K)
  <2> SUFFICES ASSUME NEW b \in DOMAIN W
               PROVE  W[b] = b <=>
                        b \in {0} \cup Primaries(c) \/ \E k \in 1 .. Len(K) : Lhs(K[k]) = b
    BY DEF Settles
  <2>1. CASE b = id
    <3>1. L + 1 \in 1 .. Len(K) /\ Lhs(K[L + 1]) = id
      BY <1>9, <1>10
    <3> QED BY <1>7, <2>1, <3>1
  <2>2. CASE b # id
    <3>1. b \in DOMAIN st.subst /\ W[b] = st.subst[b]
      BY <1>7, <2>2
    <3>2. st.subst[b] = b <=>
            b \in {0} \cup Primaries(c) \/ \E k \in 1 .. L : Lhs(K[k]) = b
      BY <1>3, <1>9, <3>1 DEF Settles, L
    <3>3. (\E k \in 1 .. Len(K) : Lhs(K[k]) = b) <=> \E k \in 1 .. L : Lhs(K[k]) = b
      BY <1>9, <1>10, <2>2
    <3> QED BY <3>1, <3>2, <3>3
  <2> QED BY <2>1, <2>2
<1> QED BY <1>2, <1>5, <1>14, <1>15 DEF StrashState

(* What StrashGate reads of a gate.                                        *)
LEMMA GateOf ==
  ASSUME NEW id \in Nat, NEW a \in Nat, NEW b \in Nat
  PROVE  <<id>> \o <<a, b>> = <<id, a, b>>
<1> DEFINE s == <<id>> \o <<a, b>>
<1>1. <<id>> \in Seq(Nat) /\ <<a, b>> \in Seq(Nat) /\ Len(<<id>>) = 1 /\ Len(<<a, b>>) = 2
  OBVIOUS
<1>2. s \in Seq(Nat) /\ Len(s) = 3 /\ s[1] = id /\ s[2] = a /\ s[3] = b
  BY <1>1
<1> HIDE DEF s
<1>3. s = <<s[1], s[2], s[3]>>
  BY <1>2
<1> QED BY <1>2, <1>3 DEF s

(* One gate of the pass.                                                   *)
LEMMA StrashGateKeeps ==
  ASSUME NEW c, WellFormed(c), NEW T, T = Truths(c), NEW n \in 1 .. Len(c.gates), NEW st,
         StrashState(c, T, st, n - 1), NEW t, t = StrashGate(st, c.gates[n])
  PROVE  StrashState(c, T, t, n)
<1>1. PICK gate : gate = c.gates[n]
  OBVIOUS
<1>2. PICK id : id = Lhs(gate)
  OBVIOUS
<1>3. PICK subst : subst = st.subst
  OBVIOUS
<1>4. PICK kept : kept = st.kept
  OBVIOUS
<1>5. st = [subst |-> subst, kept |-> kept] /\ Substitutes(c, T, subst, n - 1)
      /\ Keeps(c, T, kept, n - 1) /\ Settles(c, subst, kept)
  BY <1>3, <1>4 DEF StrashState
<1>6. PICK x \in Nat, y \in Nat : x = gate[2] /\ y = gate[3] /\ Fanins(gate) = {x, y}
  <2>1. gate \in Nat \X Nat \X Nat
    BY <1>1, GateShape
  <2> QED BY <2>1 DEF Fanins
<1>7. Base(x) \in DOMAIN subst /\ Base(y) \in DOMAIN subst
  BY <1>1, <1>5, <1>6, FaninKnown DEF Substitutes
<1>8. PICK e0 : e0 = Resolve(subst, x)
  OBVIOUS
<1>9. PICK e1 : e1 = Resolve(subst, y)
  OBVIOUS
<1>10. /\ e0 \in Nat /\ Base(e0) \in DOMAIN subst /\ subst[Base(e0)] = Base(e0)
       /\ LitTruth(c, T, e0) = LitTruth(c, T, x) /\ Within(c, T, e0)
  BY <1>5, <1>7, <1>8, ResolvedTruth
<1>11. /\ e1 \in Nat /\ Base(e1) \in DOMAIN subst /\ subst[Base(e1)] = Base(e1)
       /\ LitTruth(c, T, e1) = LitTruth(c, T, y) /\ Within(c, T, e1)
  BY <1>5, <1>7, <1>9, ResolvedTruth
<1>12. /\ T[id] = LitTruth(c, T, x) \cap LitTruth(c, T, y)
       /\ T[id] = LitTruth(c, T, e0) \cap LitTruth(c, T, e1)
       /\ T[id] \subseteq Assignments(c) /\ T[0] = {}
  <2>1. T[id] = AndTruth(c, T, gate)
    BY <1>1, <1>2, TruthsEvaluate DEF Evaluates
  <2>2. T[id] \subseteq Assignments(c) /\ T[0] = {}
    BY <1>1, <1>2, TruthRange
  <2> QED BY <1>6, <1>10, <1>11, <2>1, <2>2 DEF AndTruth
<1> DEFINE key  == IF e0 < e1 THEN <<e1, e0>> ELSE <<e0, e1>>
           fold == IF x = y /\ x \in {0, 1} THEN {x} ELSE Folded(e0, e1)
           same == {k \in ToSet(kept) : <<k[2], k[3]>> = key}
           into(lit) == [st EXCEPT !.subst = With(@, id, lit)]
<1>13. t = IF fold # {} THEN into(CHOOSE lit \in fold : TRUE)
           ELSE IF same # {} THEN into(Lhs(CHOOSE k \in same : TRUE))
           ELSE [into(id) EXCEPT !.kept = Append(@, <<id>> \o key)]
  BY <1>1, <1>2, <1>3, <1>4, <1>6, <1>8, <1>9 DEF StrashGate
<1>14. ASSUME NEW lit \in Nat, Base(lit) \in DOMAIN subst, subst[Base(lit)] = Base(lit),
              T[id] = LitTruth(c, T, lit), t = into(lit)
       PROVE  StrashState(c, T, t, n)
  BY <1>1, <1>2, <1>3, <1>12, <1>14, GoesInto
<1>15. CASE fold # {}
  <2>1. PICK lit \in fold : t = into(lit)
    <3> HIDE DEF fold, into, same
    <3> QED BY <1>13, <1>15
  <2>2. CASE x = y /\ x \in {0, 1}
    <3>1. lit = x
      BY <2>1, <2>2
    <3>2. Base(x) = 0
      BY <2>2 DEF Base
    <3>3. subst[0] = 0 /\ 0 \in DOMAIN subst
      BY <1>5 DEF Substitutes, Flat
    <3>4. T[id] = LitTruth(c, T, x)
      BY <1>12, <2>2
    <3> QED BY <1>14, <2>1, <3>1, <3>2, <3>3, <3>4
  <2>3. CASE ~(x = y /\ x \in {0, 1})
    <3>1. lit \in Folded(e0, e1)
      BY <2>1, <2>3
    <3>2. lit \in {0, e0, e1} /\ T[id] = LitTruth(c, T, lit)
      <4> HIDE DEF fold, into, same
      <4>0. /\ T[0] = {} /\ e0 \in Nat /\ e1 \in Nat
            /\ Within(c, T, e0) /\ Within(c, T, e1)
        BY <1>10, <1>11, <1>12
      <4>1. FoldsTo(c, T, e0, e1, lit)
        BY <3>1, <4>0, FoldedIs
      <4> QED BY <1>12, <4>1 DEF FoldsTo
    <3>3. subst[0] = 0 /\ 0 \in DOMAIN subst /\ Base(0) = 0
      BY <1>5 DEF Substitutes, Flat, Base
    <3>4. lit \in Nat /\ Base(lit) \in DOMAIN subst /\ subst[Base(lit)] = Base(lit)
      BY <1>10, <1>11, <3>2, <3>3
    <3> QED BY <1>14, <2>1, <3>2, <3>4
  <2> QED BY <2>2, <2>3
<1>16. CASE fold = {} /\ same # {}
  <2>1. PICK g \in same : t = into(Lhs(g))
    <3> HIDE DEF fold, into, same
    <3> QED BY <1>13, <1>16
  <2>2. PICK k \in 1 .. Len(kept) : g = kept[k] /\ <<kept[k][2], kept[k][3]>> = key
    <3>1. kept \in Seq(Nat \X Nat \X Nat)
      BY <1>5 DEF Keeps
    <3>2. g \in ToSet(kept) /\ <<g[2], g[3]>> = key
      BY <2>1
    <3>3. PICK k \in 1 .. Len(kept) : g = kept[k]
      <4>1. DOMAIN kept = 1 .. Len(kept)
        BY <3>1
      <4> HIDE DEF key, same, fold, into
      <4> QED BY <3>2, <4>1 DEF ToSet
    <3> QED BY <3>2, <3>3
  <2>3. /\ T[Lhs(kept[k])] = AndTruth(c, T, kept[k])
        /\ \E i \in 1 .. n - 1 : Lhs(c.gates[i]) = Lhs(kept[k])
    BY <1>5 DEF Keeps
  <2>4. PICK lit \in Nat : lit = Lhs(g)
    <3>1. \A i \in 1 .. n - 1 : i \in 1 .. Len(c.gates)
      BY GateShape
    <3> QED BY <2>2, <2>3, <3>1, GateShape
  <2>5. Base(lit) = lit /\ lit % 2 = 0
    <3>1. \A i \in 1 .. n - 1 : i \in 1 .. Len(c.gates)
      BY GateShape
    <3>2. Base(lit) = lit
      BY <2>2, <2>3, <2>4, <3>1, GateShape
    <3> QED BY <3>2, LiteralArithmetic
  <2>6. lit \in DOMAIN subst /\ subst[lit] = lit
    <3>1. lit \in DOMAIN subst
      BY <1>5, <2>2, <2>3, <2>4 DEF Substitutes
    <3> QED BY <1>5, <2>2, <2>4, <3>1 DEF Settles
  <2>7. T[id] = LitTruth(c, T, lit)
    <3>1. LitTruth(c, T, lit) = T[lit]
      BY <2>5 DEF LitTruth
    <3>2. T[lit] = AndTruth(c, T, g)
      BY <2>2, <2>3, <2>4
    <3>3. AndTruth(c, T, g) = LitTruth(c, T, e0) \cap LitTruth(c, T, e1)
      BY <2>2 DEF AndTruth
    <3> QED BY <1>12, <3>1, <3>2, <3>3
  <2>8. t = into(lit)
    BY <2>1, <2>4
  <2> HIDE DEF into
  <2> QED BY <1>14, <2>5, <2>6, <2>7, <2>8
<1>17. CASE fold = {} /\ same = {}
  <2>1. t = [subst |-> With(subst, id, id), kept |-> Append(kept, <<id>> \o key)]
    <3>1. t = [into(id) EXCEPT !.kept = Append(@, <<id>> \o key)]
      <4> HIDE DEF fold, same
      <4> QED BY <1>13, <1>17
    <3>2. into(id) = [subst |-> With(subst, id, id), kept |-> kept]
      BY <1>5
    <3> HIDE DEF into
    <3>3. PICK s : s = into(id)
      OBVIOUS
    <3>4. s = [subst |-> With(subst, id, id), kept |-> kept]
      BY <3>2, <3>3
    <3>5. t = [s EXCEPT !.kept = Append(@, <<id>> \o key)]
      BY <3>1, <3>3
    <3> HIDE DEF key
    <3> QED BY <3>4, <3>5
  <2>2. PICK a \in {e0, e1}, b \in {e0, e1} : key = <<a, b>> /\ {a, b} = {e0, e1}
    OBVIOUS
  <2>3. PICK g : g = <<id, a, b>>
    OBVIOUS
  <2>4. <<id>> \o key = g
    <3>1. id \in Nat /\ a \in Nat /\ b \in Nat
      BY <1>1, <1>2, <1>10, <1>11, GateShape
    <3> HIDE DEF key
    <3> QED BY <2>2, <2>3, <3>1, GateOf
  <2>5. /\ id \in Nat /\ g \in Nat \X Nat \X Nat /\ Lhs(g) = id /\ Fanins(g) = {e0, e1}
        /\ AndTruth(c, T, g) = LitTruth(c, T, a) \cap LitTruth(c, T, b)
    <3>1. id \in Nat
      BY <1>1, <1>2, GateShape
    <3> QED BY <1>10, <1>11, <2>2, <2>3, <3>1 DEF Lhs, Fanins, AndTruth
  <2>6. T[id] = AndTruth(c, T, g)
    BY <1>12, <2>2, <2>5
  <2>7. ~IsConstant(c.gates[n])
    BY <1>1, <1>6, <1>17 DEF IsConstant
  <2>8. \A lit \in Fanins(g) : Base(lit) \in DOMAIN st.subst /\ st.subst[Base(lit)] = Base(lit)
    BY <1>3, <1>10, <1>11, <2>5
  <2>9. t = [subst |-> With(st.subst, id, id), kept |-> Append(st.kept, g)]
    BY <1>3, <1>4, <2>1, <2>4
  <2> HIDE DEF key, fold, same, into
  <2> QED BY <1>1, <1>2, <1>12, <2>5, <2>6, <2>7, <2>8, <2>9, IsKept
<1> QED BY <1>15, <1>16, <1>17

(* The states of the pass.                                                 *)
StrashStart(c) == [subst |-> [lit \in {0} \cup Primaries(c) |-> lit], kept |-> <<>>]

PassTo(w, c, n) ==
  w = [m \in 0 .. n |-> IF m = 0 THEN StrashStart(c) ELSE StrashGate(w[m - 1], c.gates[m])]

(* There are such passes of every length.                                  *)
LEMMA PassToExist ==
  ASSUME NEW c
  PROVE  \A n \in Nat : \E w : PassTo(w, c, n)
<1> DEFINE P == {n \in Nat : \E w : PassTo(w, c, n)}
<1>1. 0 \in P
  <2> DEFINE w == [m \in 0 .. 0 |-> StrashStart(c)]
  <2>1. PassTo(w, c, 0)
    BY DEF PassTo
  <2> QED BY <2>1
<1>2. ASSUME NEW n \in Nat, n \in P PROVE n + 1 \in P
  <2>1. PICK w : PassTo(w, c, n)
    BY <1>2
  <2> DEFINE v == [m \in 0 .. n + 1 |-> IF m = n + 1 THEN StrashGate(w[n], c.gates[n + 1]) ELSE w[m]]
  <2>2. ASSUME NEW m \in 0 .. n + 1
        PROVE  v[m] = IF m = 0 THEN StrashStart(c) ELSE StrashGate(v[m - 1], c.gates[m])
    <3>1. CASE m = n + 1
      BY <3>1
    <3>2. CASE m # n + 1
      <4>1. m \in 0 .. n /\ (m # 0 => m - 1 \in 0 .. n)
        BY <3>2
      <4>2. w[m] = IF m = 0 THEN StrashStart(c) ELSE StrashGate(w[m - 1], c.gates[m])
        BY <2>1, <4>1, Zenon DEF PassTo
      <4> QED BY <3>2, <4>1, <4>2
    <3> QED BY <3>1, <3>2
  <2>3. v = [m \in 0 .. n + 1 |-> v[m]]
    OBVIOUS
  <2> HIDE DEF v
  <2>4. PassTo(v, c, n + 1)
    BY <2>2, <2>3, Zenon DEF PassTo
  <2> QED BY <2>4
<1> HIDE DEF P
<1>3. \A n \in Nat : n \in P
  BY <1>1, <1>2, SetInduction
<1> QED BY <1>3 DEF P

(* The pass begins in a right state.                                       *)
LEMMA StartKeeps ==
  ASSUME NEW c, WellFormed(c), NEW T, T = Truths(c)
  PROVE  StrashState(c, T, StrashStart(c), 0)
<1>1. PICK subst : subst = [lit \in {0} \cup Primaries(c) |-> lit]
  OBVIOUS
<1>2. PICK kept : kept = <<>>
  OBVIOUS
<1>3. /\ \A b : b \in DOMAIN subst <=> b \in {0} \cup Primaries(c)
      /\ \A b \in DOMAIN subst : subst[b] = b
  BY <1>1
<1>4. \A b \in DOMAIN subst : b \in Nat /\ b % 2 = 0 /\ Base(b) = b
  BY <1>3, PrimaryEven
<1>5. Flat(subst)
  BY <1>3, <1>4 DEF Flat
<1>6. \A b \in DOMAIN subst : T[b] \subseteq Assignments(c)
  BY <1>3, TruthRange
<1>7. \A b \in DOMAIN subst : T[b] = LitTruth(c, T, subst[b])
  BY <1>3, <1>4 DEF LitTruth
<1>8. Substitutes(c, T, subst, 0)
  BY <1>3, <1>5, <1>6, <1>7 DEF Substitutes
<1>9. kept \in Seq(Nat \X Nat \X Nat) /\ Len(kept) = 0
  BY <1>2
<1>10. Keeps(c, T, kept, 0) /\ Settles(c, subst, kept)
  BY <1>3, <1>9 DEF Keeps, Settles
<1>11. StrashStart(c) = [subst |-> subst, kept |-> kept]
  BY <1>1, <1>2 DEF StrashStart
<1>12. StrashStart(c).subst = subst /\ StrashStart(c).kept = kept
  BY <1>11
<1> QED BY <1>8, <1>10, <1>11, <1>12 DEF StrashState

(* After the pass, every gate of the circuit is substituted by a literal of*)
(* its truth.                                                              *)
LEMMA StrashPassKeeps ==
  ASSUME NEW c, WellFormed(c), NEW T, T = Truths(c), NEW st, st = StrashPass(c)
  PROVE  StrashState(c, T, st, Len(c.gates))
<1> DEFINE N == Len(c.gates)
           w == CHOOSE w : PassTo(w, c, N)
<1>1. N \in Nat
  BY GateShape
<1>2. PassTo(w, c, N)
  BY <1>1, PassToExist
<1>3. StrashPass(c) = w[N]
  BY Zenon DEF StrashPass, PassTo, StrashStart
<1> HIDE DEF w
<1>4. \A m \in 0 .. N : w[m] = IF m = 0 THEN StrashStart(c) ELSE StrashGate(w[m - 1], c.gates[m])
  BY <1>2, Zenon DEF PassTo
<1> DEFINE P == {n \in Nat : n <= N => StrashState(c, T, w[n], n)}
<1>5. 0 \in P
  <2>1. w[0] = StrashStart(c)
    BY <1>1, <1>4
  <2> QED BY <2>1, StartKeeps
<1>6. ASSUME NEW n \in Nat, n \in P PROVE n + 1 \in P
  <2> SUFFICES ASSUME n + 1 <= N PROVE StrashState(c, T, w[n + 1], n + 1)
    OBVIOUS
  <2>1. PICK k \in 1 .. N : k = n + 1 /\ k - 1 = n
    BY <1>1
  <2>2. w[k] = StrashGate(w[k - 1], c.gates[k])
    BY <1>1, <1>4, <2>1
  <2>3. StrashState(c, T, w[k - 1], k - 1)
    BY <1>1, <1>6, <2>1
  <2>4. StrashState(c, T, w[k], k)
    BY <2>2, <2>3, StrashGateKeeps
  <2> QED BY <2>1, <2>4
<1> HIDE DEF P
<1>7. N \in P
  BY <1>1, <1>5, <1>6, SetInduction
<1> QED BY <1>1, <1>3, <1>7 DEF P

-----------------------------------------------------------------------------
(* ByKey enumerates a set by increasing key.                               *)
Rank(S, key, x) == Cardinality({y \in S : key[y] < key[x]})

Enumerates(q, S, key) ==
  /\ q \in Seq(S) /\ Len(q) = Cardinality(S)
  /\ \A x \in S : \E n \in 1 .. Len(q) : q[n] = x
  /\ \A m, n \in 1 .. Len(q) : m < n => key[q[m]] < key[q[n]]

(* A rank is smaller than another exactly when its key is.                 *)
LEMMA RankIs ==
  ASSUME NEW S, IsFiniteSet(S), NEW key \in [S -> Nat], NEW x \in S
  PROVE  /\ Rank(S, key, x) \in 0 .. Cardinality(S) - 1
         /\ \A y \in S : key[x] < key[y] => Rank(S, key, x) < Rank(S, key, y)
<1> DEFINE B(y) == {z \in S : key[z] < key[y]}
<1>1. \A y \in S : IsFiniteSet(B(y)) /\ Cardinality(B(y)) \in Nat /\ B(y) \subseteq S
  BY FS_Subset, FS_CardinalityType
<1>2. x \notin B(x)
  OBVIOUS
<1>3. Cardinality(B(x)) < Cardinality(S) /\ Cardinality(S) \in Nat
  <2>1. B(x) # S
    BY <1>2
  <2> HIDE DEF B
  <2> QED BY <1>1, <2>1, FS_Subset, FS_CardinalityType
<1>4. ASSUME NEW y \in S, key[x] < key[y] PROVE Cardinality(B(x)) < Cardinality(B(y))
  <2>1. B(x) \subseteq B(y) /\ x \in B(y)
    BY <1>4
  <2>2. B(x) # B(y)
    BY <1>2, <2>1
  <2> HIDE DEF B
  <2>3. B(x) \in SUBSET B(y)
    BY <2>1
  <2>4. /\ Cardinality(B(x)) <= Cardinality(B(y))
        /\ Cardinality(B(y)) = Cardinality(B(x)) <=> B(y) = B(x)
    BY <1>1, <2>3, FS_Subset
  <2>5. Cardinality(B(x)) \in Nat /\ Cardinality(B(y)) \in Nat
    BY <1>1
  <2> QED BY <2>2, <2>4, <2>5
<1>5. \A y \in S : Rank(S, key, y) = Cardinality(B(y))
  BY DEF Rank
<1> HIDE DEF B
<1> QED BY <1>1, <1>3, <1>4, <1>5

(* ByKey enumerates a finite set by increasing key.                        *)
LEMMA ByKeyIs ==
  ASSUME NEW S, IsFiniteSet(S), NEW key \in [S -> Nat],
         \A x, y \in S : key[x] = key[y] => x = y,
         NEW q, q = ByKey(S, key)
  PROVE  Enumerates(q, S, key)
<1> DEFINE N == Cardinality(S)
           rank == [x \in S |-> Rank(S, key, x)]
           D == 0 .. N - 1
<1>1. N \in Nat
  BY FS_CardinalityType
<1>2. /\ rank \in [S -> D]
      /\ \A x, y \in S : key[x] < key[y] => rank[x] < rank[y]
  BY RankIs
<1>3. \A x, y \in S : rank[x] = rank[y] => x = y
  <2> SUFFICES ASSUME NEW x \in S, NEW y \in S, rank[x] = rank[y] PROVE x = y
    OBVIOUS
  <2>1. rank[x] \in Nat /\ rank[y] \in Nat /\ key[x] \in Nat /\ key[y] \in Nat
    BY <1>2
  <2> HIDE DEF rank
  <2>2. ~(key[x] < key[y]) /\ ~(key[y] < key[x])
    BY <1>2, <2>1
  <2> QED BY <2>1, <2>2
<1>4. \A d \in D : \E x \in S : rank[x] = d
  <2>1. IsFiniteSet(D) /\ Cardinality(D) = N
    <3>1. PICK a \in Int, b \in Int : a = 0 /\ b = N - 1
      BY <1>1
    <3>2. IsFiniteSet(a .. b) /\ Cardinality(a .. b) = IF a > b THEN 0 ELSE b - a + 1
      BY <3>1, FS_Interval
    <3> QED BY <1>1, <3>1, <3>2
  <2> HIDE DEF D, rank
  <2>2. rank \in Injection(S, D)
    BY <1>2, <1>3 DEF Injection, IsInjective
  <2> QED BY <2>1, <2>2, FS_Injection DEF Surjection
<1>5. ASSUME NEW n \in 1 .. N PROVE q[n] \in S /\ rank[q[n]] = n - 1
  <2>1. PICK x \in S : rank[x] = n - 1
    BY <1>1, <1>4
  <2>2. q[n] = CHOOSE y \in S : Rank(S, key, y) = n - 1
    BY DEF ByKey, Rank
  <2>3. Rank(S, key, x) = n - 1
    BY <2>1
  <2> QED BY <2>2, <2>3
<1>6. q = [n \in 1 .. N |-> q[n]]
  <2> DEFINE F(n) == CHOOSE x \in S : Cardinality({y \in S : key[y] < key[x]}) = n - 1
  <2>1. q = [n \in 1 .. N |-> F(n)]
    BY DEF ByKey
  <2> HIDE DEF F
  <2> QED BY <2>1
<1>7. q \in Seq(S) /\ Len(q) = N
  <2>1. \A n \in 1 .. N : q[n] \in S
    BY <1>5
  <2> HIDE DEF N, rank
  <2> QED BY <1>1, <1>6, <2>1
<1>8. \A x \in S : \E n \in 1 .. N : q[n] = x
  <2> SUFFICES ASSUME NEW x \in S PROVE \E n \in 1 .. N : q[n] = x
    OBVIOUS
  <2>1. rank[x] \in D
    BY <1>2
  <2> HIDE DEF rank
  <2>2. PICK n \in 1 .. N : n - 1 = rank[x]
    BY <1>1, <2>1
  <2> QED BY <1>3, <1>5, <2>2
<1>9. \A m, n \in 1 .. N : m < n => key[q[m]] < key[q[n]]
  <2> SUFFICES ASSUME NEW m \in 1 .. N, NEW n \in 1 .. N, m < n PROVE key[q[m]] < key[q[n]]
    OBVIOUS
  <2> HIDE DEF rank
  <2>1. rank[q[m]] < rank[q[n]] /\ q[m] \in S /\ q[n] \in S
    BY <1>1, <1>5
  <2>2. key[q[m]] \in Nat /\ key[q[n]] \in Nat /\ rank[q[m]] \in Nat /\ rank[q[n]] \in Nat
    BY <1>1, <1>2, <2>1
  <2>3. ~(key[q[n]] < key[q[m]])
    BY <1>2, <2>1, <2>2
  <2>4. key[q[n]] # key[q[m]]
    BY <2>1, <2>2
  <2> QED BY <2>2, <2>3, <2>4
<1> QED BY <1>7, <1>8, <1>9 DEF Enumerates

-----------------------------------------------------------------------------
(* What is collected: the gates in the cone of the roots, by their ids.    *)
Collects(q, kept, C) ==
  /\ q \in Seq(Nat \X Nat \X Nat)
  /\ Len(q) = Cardinality({kept[i] : i \in C})
  /\ \A n \in 1 .. Len(q) : \E i \in C : q[n] = kept[i]
  /\ \A i \in C : \E n \in 1 .. Len(q) : q[n] = kept[i]
  /\ \A m, n \in 1 .. Len(q) : m < n => Lhs(q[m]) < Lhs(q[n])

(* What is collected is the cone of the roots, by increasing id.           *)
LEMMA CollectedIs ==
  ASSUME NEW kept \in Seq(Nat \X Nat \X Nat),
         \A k, l \in 1 .. Len(kept) : k < l => Lhs(kept[k]) < Lhs(kept[l]),
         NEW roots, NEW C, C = Cone(kept, roots), C \subseteq 1 .. Len(kept),
         NEW q, q = Collected(kept, roots)
  PROVE  Collects(q, kept, C)
<1> DEFINE L == Len(kept)
           live == {kept[i] : i \in C}
           key == [k \in live |-> Lhs(k)]
<1>1. \A i \in 1 .. L : kept[i] \in Nat \X Nat \X Nat /\ Lhs(kept[i]) \in Nat
  BY DEF Lhs
<1>2. IsFiniteSet(live)
  <2>1. IsFiniteSet(C)
    <3>1. L \in Nat
      OBVIOUS
    <3>2. IsFiniteSet(1 .. L)
      BY <3>1, PositionsFinite
    <3> QED BY <3>2, FS_Subset
  <2> DEFINE f == [i \in C |-> kept[i]]
  <2>2. f \in Surjection(C, live)
    BY DEF Surjection
  <2> HIDE DEF f, live
  <2> QED BY <2>1, <2>2, FS_Surjection
<1>3. key \in [live -> Nat] /\ \A k \in live : key[k] = Lhs(k)
  BY <1>1
<1>4. \A x, y \in live : key[x] = key[y] => x = y
  <2> SUFFICES ASSUME NEW x \in live, NEW y \in live, key[x] = key[y] PROVE x = y
    OBVIOUS
  <2>1. PICK i \in C : x = kept[i]
    OBVIOUS
  <2>2. PICK j \in C : y = kept[j]
    OBVIOUS
  <2>3. Lhs(kept[i]) = Lhs(kept[j])
    BY <1>3, <2>1, <2>2
  <2>4. i \in 1 .. Len(kept) /\ j \in 1 .. Len(kept)
    OBVIOUS
  <2>5. i \in Nat /\ j \in Nat /\ Lhs(kept[i]) \in Nat /\ Lhs(kept[j]) \in Nat
    BY <1>1, <2>4
  <2> HIDE DEF live, key
  <2>6. ~(i < j) /\ ~(j < i)
    <3>1. /\ i < j => Lhs(kept[i]) < Lhs(kept[j])
          /\ j < i => Lhs(kept[j]) < Lhs(kept[i])
      BY <2>4
    <3> QED BY <2>3, <2>5, <3>1
  <2> QED BY <2>1, <2>2, <2>5, <2>6
<1>5. q = ByKey(live, key)
  BY DEF Collected
<1> HIDE DEF key
<1>6. Enumerates(q, live, key)
  <2> HIDE DEF live
  <2> QED BY <1>2, <1>3, <1>4, <1>5, ByKeyIs
<1>7. q \in Seq(Nat \X Nat \X Nat)
  <2>1. q \in Seq(live) /\ live \subseteq Nat \X Nat \X Nat
    BY <1>1, <1>6 DEF Enumerates
  <2> HIDE DEF live
  <2> QED BY <2>1
<1>8. /\ q \in Seq(live) /\ Len(q) = Cardinality(live)
      /\ \A x \in live : \E n \in 1 .. Len(q) : q[n] = x
      /\ \A m, n \in 1 .. Len(q) : m < n => key[q[m]] < key[q[n]]
  BY <1>6 DEF Enumerates
<1>9. \A n \in 1 .. Len(q) : q[n] \in live
  <2> HIDE DEF live
  <2> QED BY <1>8
<1>10. \A m, n \in 1 .. Len(q) : m < n => Lhs(q[m]) < Lhs(q[n])
  <2> HIDE DEF live
  <2> QED BY <1>3, <1>8, <1>9
<1> QED BY <1>7, <1>8, <1>9, <1>10 DEF Collects

-----------------------------------------------------------------------------
(* What strash makes of the roots.                                         *)

(* The elements of two sequences after one another.                        *)
LEMMA ConcatIs ==
  ASSUME NEW s \in Seq(Nat), NEW t \in Seq(Nat), NEW u, u = s \o t
  PROVE  /\ u \in Seq(Nat) /\ DOMAIN u = 1 .. Len(s) + Len(t)
         /\ \A r \in DOMAIN u :
              \/ r \in DOMAIN s /\ u[r] = s[r]
              \/ r \notin DOMAIN s /\ r - Len(s) \in DOMAIN t /\ u[r] = t[r - Len(s)]
OBVIOUS

(* A function on the first positions is a sequence.                        *)
LEMMA SequenceOf ==
  ASSUME NEW n \in Nat, NEW S, NEW f, DOMAIN f = 1 .. n, f = [i \in 1 .. n |-> f[i]],
         \A i \in 1 .. n : f[i] \in S
  PROVE  f \in Seq(S) /\ Len(f) = n
OBVIOUS

(* d has the primaries of c, and at the roots what they resolve to.        *)
RootsResolved(c, d, subst) ==
  /\ d.inputs = c.inputs
  /\ d.outputs = [o \in DOMAIN c.outputs |-> Resolve(subst, c.outputs[o])]
  /\ d.latches = [l \in DOMAIN c.latches |->
                    <<c.latches[l][1], Resolve(subst, c.latches[l][2])>>]

(* The roots of the restructured circuit are the resolved ones.            *)
LEMMA ResolvedRoots ==
  ASSUME NEW c, WellFormed(c), NEW subst, NEW d, RootsResolved(c, d, subst),
         \A r \in DOMAIN Roots(c) : Resolve(subst, Roots(c)[r]) \in Nat
  PROVE  /\ Primaries(d) = Primaries(c)
         /\ d.inputs \in Seq(Nat) /\ d.latches \in Seq(Nat \X Nat) /\ d.outputs \in Seq(Nat)
         /\ DOMAIN Roots(d) = DOMAIN Roots(c)
         /\ \A r \in DOMAIN Roots(c) : Roots(d)[r] = Resolve(subst, Roots(c)[r])
         /\ \A r \in DOMAIN Roots(d) :
              Roots(d)[r] \in ToSet(d.outputs) \cup {d.latches[l][2] : l \in DOMAIN d.latches}
<1> DEFINE O == Len(c.outputs)
           L == Len(c.latches)
           nexts == [i \in DOMAIN c.latches |-> c.latches[i][2]]
           nextsD == [i \in DOMAIN d.latches |-> d.latches[i][2]]
           Res(l) == Resolve(subst, l)
<1>1. /\ c.inputs \in Seq(Nat) /\ c.outputs \in Seq(Nat) /\ c.latches \in Seq(Nat \X Nat)
      /\ O \in Nat /\ L \in Nat /\ DOMAIN c.outputs = 1 .. O /\ DOMAIN c.latches = 1 .. L
  <2>1. c.inputs \in Seq(Nat) /\ c.outputs \in Seq(Nat) /\ c.latches \in Seq(Nat \X Nat)
    BY DEF WellFormed
  <2> QED BY <2>1
<1>2. /\ \A i \in 1 .. L : c.latches[i][1] \in Nat /\ c.latches[i][2] \in Nat
      /\ \A i \in 1 .. L : nexts[i] = c.latches[i][2]
      /\ nexts \in Seq(Nat) /\ Len(nexts) = L
  <2>1. \A i \in 1 .. L : c.latches[i][1] \in Nat /\ c.latches[i][2] \in Nat
    BY <1>1
  <2> QED BY <1>1, <2>1
<1>3. Roots(c) = c.outputs \o nexts
  BY DEF Roots
<1> HIDE DEF Res
<1>4. d.inputs = c.inputs /\ d.outputs = [o \in 1 .. O |-> Res(c.outputs[o])]
      /\ d.latches = [l \in 1 .. L |-> <<c.latches[l][1], Res(c.latches[l][2])>>]
  BY <1>1 DEF RootsResolved, Res
<1> HIDE DEF O, L, nexts
<1>5. /\ Roots(c) \in Seq(Nat) /\ DOMAIN Roots(c) = 1 .. O + L
      /\ \A r \in DOMAIN Roots(c) :
           \/ r \in 1 .. O /\ Roots(c)[r] = c.outputs[r]
           \/ r \notin 1 .. O /\ r - O \in 1 .. L /\ Roots(c)[r] = nexts[r - O]
  <2>1. /\ Roots(c) \in Seq(Nat) /\ DOMAIN Roots(c) = 1 .. Len(c.outputs) + Len(nexts)
        /\ \A r \in DOMAIN Roots(c) :
             \/ r \in DOMAIN c.outputs /\ Roots(c)[r] = c.outputs[r]
             \/ /\ r \notin DOMAIN c.outputs /\ r - Len(c.outputs) \in DOMAIN nexts
                /\ Roots(c)[r] = nexts[r - Len(c.outputs)]
    BY <1>1, <1>2, <1>3, ConcatIs
  <2>2. Len(c.outputs) = O /\ DOMAIN nexts = 1 .. L
    BY <1>1, <1>2 DEF O
  <2> QED BY <1>1, <1>2, <2>1, <2>2
<1>6. \A o \in 1 .. O : Res(c.outputs[o]) \in Nat
  <2> SUFFICES ASSUME NEW o \in 1 .. O PROVE Res(c.outputs[o]) \in Nat
    OBVIOUS
  <2>1. o \in 1 .. O + L
    BY <1>1
  <2>2. o \in DOMAIN Roots(c) /\ Roots(c)[o] = c.outputs[o]
    BY <1>5, <2>1
  <2> QED BY <2>2 DEF Res
<1>7. \A l \in 1 .. L : Res(c.latches[l][2]) \in Nat
  <2> SUFFICES ASSUME NEW l \in 1 .. L PROVE Res(c.latches[l][2]) \in Nat
    OBVIOUS
  <2>1. PICK r \in Nat : r = O + l /\ r - O = l /\ r \in 1 .. O + L /\ r \notin 1 .. O
    BY <1>1
  <2>2. r \in DOMAIN Roots(c) /\ Roots(c)[r] = nexts[l]
    BY <1>5, <2>1
  <2>3. Roots(c)[r] = c.latches[l][2]
    BY <1>2, <2>2
  <2> QED BY <2>2, <2>3 DEF Res
<1>8. d.outputs \in Seq(Nat) /\ Len(d.outputs) = O /\ \A o \in 1 .. O : d.outputs[o] = Res(c.outputs[o])
  <2>1. /\ DOMAIN d.outputs = 1 .. O /\ \A o \in 1 .. O : d.outputs[o] = Res(c.outputs[o])
        /\ d.outputs = [o \in 1 .. O |-> d.outputs[o]]
    BY <1>4
  <2>2. \A o \in 1 .. O : d.outputs[o] \in Nat
    BY <1>6, <2>1
  <2> QED BY <1>1, <2>1, <2>2, SequenceOf
<1>9. /\ d.latches \in Seq(Nat \X Nat) /\ DOMAIN d.latches = 1 .. L
      /\ \A l \in 1 .. L : d.latches[l][1] = c.latches[l][1] /\ d.latches[l][2] = Res(c.latches[l][2])
  <2> DEFINE Pair(l) == <<c.latches[l][1], Res(c.latches[l][2])>>
  <2>1. \A l \in 1 .. L : Pair(l) \in Nat \X Nat /\ Pair(l)[1] = c.latches[l][1] /\ Pair(l)[2] = Res(c.latches[l][2])
    BY <1>2, <1>7
  <2>2. d.latches = [l \in 1 .. L |-> Pair(l)]
    BY <1>4
  <2> HIDE DEF Pair
  <2>3. d.latches \in Seq(Nat \X Nat) /\ Len(d.latches) = L
    BY <1>1, <2>1, <2>2
  <2> QED BY <1>1, <2>1, <2>2, <2>3
<1>10. Primaries(d) = Primaries(c)
  <2>1. \A i \in 1 .. L : d.latches[i][1] = c.latches[i][1]
    BY <1>9
  <2>2. {d.latches[i][1] : i \in 1 .. L} = {c.latches[i][1] : i \in 1 .. L}
    BY <2>1, Zenon
  <2>3. DOMAIN d.latches = 1 .. L /\ DOMAIN c.latches = 1 .. L /\ d.inputs = c.inputs
    BY <1>1, <1>4, <1>9
  <2> QED BY <2>2, <2>3, Zenon DEF Primaries
<1>11. /\ nextsD \in Seq(Nat) /\ Len(nextsD) = L /\ \A i \in 1 .. L : nextsD[i] = Res(nexts[i])
  <2>1. /\ DOMAIN nextsD = 1 .. L /\ \A i \in 1 .. L : nextsD[i] = d.latches[i][2]
        /\ nextsD = [i \in 1 .. L |-> nextsD[i]]
    BY <1>9
  <2> HIDE DEF nextsD
  <2>2. \A i \in 1 .. L : nextsD[i] = Res(c.latches[i][2]) /\ nextsD[i] \in Nat
    BY <1>7, <1>9, <2>1
  <2>3. nextsD \in Seq(Nat) /\ Len(nextsD) = L
    BY <1>1, <2>1, <2>2, SequenceOf
  <2> QED BY <1>2, <2>2, <2>3
<1>12. Roots(d) = d.outputs \o nextsD
  BY DEF Roots
<1> HIDE DEF nextsD
<1>13. /\ Roots(d) \in Seq(Nat) /\ DOMAIN Roots(d) = 1 .. O + L
       /\ \A r \in DOMAIN Roots(d) :
            \/ r \in 1 .. O /\ Roots(d)[r] = d.outputs[r]
            \/ r \notin 1 .. O /\ r - O \in 1 .. L /\ Roots(d)[r] = nextsD[r - O]
  <2>1. /\ Roots(d) \in Seq(Nat) /\ DOMAIN Roots(d) = 1 .. Len(d.outputs) + Len(nextsD)
        /\ \A r \in DOMAIN Roots(d) :
             \/ r \in DOMAIN d.outputs /\ Roots(d)[r] = d.outputs[r]
             \/ /\ r \notin DOMAIN d.outputs /\ r - Len(d.outputs) \in DOMAIN nextsD
                /\ Roots(d)[r] = nextsD[r - Len(d.outputs)]
    BY <1>8, <1>11, <1>12, ConcatIs
  <2>2. DOMAIN d.outputs = 1 .. O /\ DOMAIN nextsD = 1 .. L
    BY <1>8, <1>11
  <2> QED BY <1>8, <1>11, <2>1, <2>2
<1>14. \A r \in DOMAIN Roots(c) : Roots(d)[r] = Resolve(subst, Roots(c)[r])
  <2> SUFFICES ASSUME NEW r \in DOMAIN Roots(c) PROVE Roots(d)[r] = Res(Roots(c)[r])
    BY DEF Res
  <2>1. CASE r \in 1 .. O
    BY <1>5, <1>8, <1>13, <2>1
  <2>2. CASE r \notin 1 .. O
    BY <1>5, <1>11, <1>13, <2>2
  <2> QED BY <2>1, <2>2
<1>15. \A r \in DOMAIN Roots(d) :
         Roots(d)[r] \in ToSet(d.outputs) \cup {d.latches[l][2] : l \in DOMAIN d.latches}
  <2> SUFFICES ASSUME NEW r \in DOMAIN Roots(d)
               PROVE  Roots(d)[r] \in ToSet(d.outputs) \cup {d.latches[l][2] : l \in DOMAIN d.latches}
    OBVIOUS
  <2>1. CASE r \in 1 .. O
    <3>1. r \in DOMAIN d.outputs
      BY <1>8, <2>1
    <3> QED BY <1>13, <2>1, <3>1 DEF ToSet
  <2>2. CASE r \notin 1 .. O
    <3>1. PICK l \in 1 .. L : Roots(d)[r] = nextsD[l]
      BY <1>13, <2>2
    <3>2. nextsD[l] = d.latches[l][2]
      BY <1>9 DEF nextsD
    <3> QED BY <1>9, <3>1, <3>2
  <2> QED BY <2>1, <2>2
<1> QED BY <1>1, <1>4, <1>5, <1>8, <1>9, <1>10, <1>13, <1>14, <1>15

-----------------------------------------------------------------------------
(* Strash writes a well formed circuit that computes the same, of gates    *)
(* that it read and that are not constants.                                *)
Restructures(c, d) ==
  /\ WellFormed(d) /\ Primaries(d) = Primaries(c) /\ DOMAIN Roots(d) = DOMAIN Roots(c)
  /\ Equivalent(c, d)
  /\ \A n \in 1 .. Len(d.gates) :
       \E i \in 1 .. Len(c.gates) : Lhs(d.gates[n]) = Lhs(c.gates[i]) /\ ~IsConstant(c.gates[i])

(* Restructuring any circuit gives a circuit of the same function on the   *)
(* same inputs and roots, made of ids it already had, none of them of a    *)
(* constant gate (pure_python_forward_strash).                             *)
THEOREM StrashIs ==
  ASSUME NEW c, WellFormed(c), NEW d, d = Strash(c)
  PROVE  Restructures(c, d)
<1>1. PICK T : T = Truths(c)
  OBVIOUS
<1>2. PICK subst, kept : /\ subst = StrashPass(c).subst /\ kept = StrashPass(c).kept
                         /\ Substitutes(c, T, subst, Len(c.gates)) /\ Keeps(c, T, kept, Len(c.gates))
                         /\ Settles(c, subst, kept)
  BY <1>1, StrashPassKeeps DEF StrashState
<1>3. PICK N \in Nat : N = Len(c.gates)
  BY GateShape
<1>4. PICK roots : roots = ToSet(d.outputs) \cup {d.latches[l][2] : l \in DOMAIN d.latches}
  OBVIOUS
<1>5. /\ RootsResolved(c, d, subst) /\ d.gates = Collected(kept, roots)
      /\ d = [inputs |-> d.inputs, latches |-> d.latches, outputs |-> d.outputs, gates |-> d.gates]
  <2> DEFINE outputs == [o \in DOMAIN c.outputs |-> Resolve(subst, c.outputs[o])]
             latches == [l \in DOMAIN c.latches |->
                           <<c.latches[l][1], Resolve(subst, c.latches[l][2])>>]
             needed == ToSet(outputs) \cup {latches[l][2] : l \in DOMAIN latches}
  <2>1. d = [inputs |-> c.inputs, latches |-> latches, outputs |-> outputs,
             gates |-> Collected(kept, needed)]
    BY <1>2 DEF Strash
  <2> HIDE DEF outputs, latches
  <2>2. /\ d.inputs = c.inputs /\ d.latches = latches /\ d.outputs = outputs
        /\ d.gates = Collected(kept, needed)
    BY <2>1
  <2>3. roots = needed
    BY <1>4, <2>2
  <2>4. d = [inputs |-> d.inputs, latches |-> d.latches, outputs |-> d.outputs, gates |-> d.gates]
    BY <2>1, <2>2
  <2> HIDE DEF needed
  <2> QED BY <2>2, <2>3, <2>4 DEF RootsResolved, outputs, latches
<1>6. ASSUME NEW r \in DOMAIN Roots(c)
      PROVE  LET e == Resolve(subst, Roots(c)[r])
             IN  /\ e \in Nat
                 /\ LitTruth(c, T, e) = LitTruth(c, T, Roots(c)[r])
                 /\ \/ Base(e) \in {0} \cup Primaries(c)
                    \/ \E k \in 1 .. Len(kept) : Lhs(kept[k]) = Base(e)
  <2>1. PICK lit \in Nat : lit = Roots(c)[r] /\ Base(lit) \in DOMAIN subst
    <3>1. PICK lit \in Nat : lit = Roots(c)[r]
      BY RootShape
    <3>2. \/ Base(lit) \in {0} \cup Primaries(c)
          \/ \E j \in 1 .. Len(c.gates) : Lhs(c.gates[j]) = Base(lit)
      BY <3>1, RootShape
    <3>3. Base(lit) \in DOMAIN subst
      BY <1>2, <3>2 DEF Substitutes
    <3> QED BY <3>1, <3>3
  <2>2. PICK e : e = Resolve(subst, lit)
    OBVIOUS
  <2>3. /\ e \in Nat /\ Base(e) \in DOMAIN subst /\ subst[Base(e)] = Base(e)
        /\ LitTruth(c, T, e) = LitTruth(c, T, lit)
    BY <1>2, <2>1, <2>2, ResolvedTruth
  <2> QED BY <1>2, <2>1, <2>2, <2>3 DEF Settles
<1>7. /\ Primaries(d) = Primaries(c)
      /\ d.inputs \in Seq(Nat) /\ d.latches \in Seq(Nat \X Nat) /\ d.outputs \in Seq(Nat)
      /\ DOMAIN Roots(d) = DOMAIN Roots(c)
      /\ \A r \in DOMAIN Roots(c) : Roots(d)[r] = Resolve(subst, Roots(c)[r])
      /\ \A r \in DOMAIN Roots(d) : Roots(d)[r] \in roots
  <2>1. \A r \in DOMAIN Roots(c) : Resolve(subst, Roots(c)[r]) \in Nat
    BY <1>6
  <2> QED BY <1>4, <1>5, <2>1, ResolvedRoots
<1>8. PICK L \in Nat : L = Len(kept) /\ DOMAIN kept = 1 .. L
  BY <1>2 DEF Keeps
<1>9. PICK C : C = Cone(kept, roots)
  OBVIOUS
<1>10. /\ C \subseteq 1 .. L
       /\ \A lit \in roots : \A j \in 1 .. L : Lhs(kept[j]) = Base(lit) => j \in C
       /\ \A i \in C : \A lit \in Fanins(kept[i]) : \A j \in 1 .. L :
            Base(lit) = Lhs(kept[j]) => j \in C
  BY <1>8, <1>9, ConeIs
<1>11. PICK q : q = d.gates
  OBVIOUS
<1>12. Collects(q, kept, C)
  <2>1. /\ kept \in Seq(Nat \X Nat \X Nat)
        /\ \A k, l \in 1 .. Len(kept) : k < l => Lhs(kept[k]) < Lhs(kept[l])
    BY <1>2 DEF Keeps
  <2>2. C \subseteq 1 .. Len(kept) /\ q = Collected(kept, roots)
    BY <1>5, <1>8, <1>10, <1>11
  <2> QED BY <1>9, <2>1, <2>2, CollectedIs
<1>13. /\ q \in Seq(Nat \X Nat \X Nat) /\ Len(q) \in Nat /\ DOMAIN q = 1 .. Len(q)
       /\ \A n \in 1 .. Len(q) : \E i \in C : q[n] = kept[i]
       /\ \A i \in C : \E n \in 1 .. Len(q) : q[n] = kept[i]
       /\ \A m, n \in 1 .. Len(q) : m < n => Lhs(q[m]) < Lhs(q[n])
  <2>1. q \in Seq(Nat \X Nat \X Nat)
    BY <1>12 DEF Collects
  <2>2. Len(q) \in Nat /\ DOMAIN q = 1 .. Len(q)
    BY <2>1
  <2> QED BY <1>12, <2>1, <2>2 DEF Collects
<1>14. \A i \in 1 .. L :
         /\ \E j \in 1 .. N : Lhs(c.gates[j]) = Lhs(kept[i]) /\ ~IsConstant(c.gates[j])
         /\ T[Lhs(kept[i])] = AndTruth(c, T, kept[i])
         /\ \A lit \in Fanins(kept[i]) :
              \/ Base(lit) \in {0} \cup Primaries(c)
              \/ \E l \in 1 .. i - 1 : Lhs(kept[l]) = Base(lit)
  BY <1>2, <1>3, <1>8 DEF Keeps
<1>15. \A n \in 1 .. Len(q) : /\ \E j \in 1 .. N : Lhs(c.gates[j]) = Lhs(q[n]) /\ ~IsConstant(c.gates[j])
                              /\ T[Lhs(q[n])] = AndTruth(c, T, q[n])
  <2> SUFFICES ASSUME NEW n \in 1 .. Len(q)
               PROVE  /\ \E j \in 1 .. N : Lhs(c.gates[j]) = Lhs(q[n]) /\ ~IsConstant(c.gates[j])
                      /\ T[Lhs(q[n])] = AndTruth(c, T, q[n])
    OBVIOUS
  <2>1. PICK i \in C : q[n] = kept[i]
    BY <1>13
  <2>2. i \in 1 .. L
    BY <1>10
  <2>3. /\ \E j \in 1 .. N : Lhs(c.gates[j]) = Lhs(kept[i]) /\ ~IsConstant(c.gates[j])
        /\ T[Lhs(kept[i])] = AndTruth(c, T, kept[i])
    BY <1>14, <2>2
  <2> QED BY <2>1, <2>3
<1>16. FaninsDefined(d)
  <2>1. \A n \in 1 .. Len(q) : \A lit \in Fanins(q[n]) :
           \/ Base(lit) \in {0} \cup Primaries(c)
           \/ \E m \in 1 .. n - 1 : Lhs(q[m]) = Base(lit)
    <3> SUFFICES ASSUME NEW n \in 1 .. Len(q), NEW lit \in Fanins(q[n]),
                        Base(lit) \notin {0} \cup Primaries(c)
                 PROVE  \E m \in 1 .. n - 1 : Lhs(q[m]) = Base(lit)
      OBVIOUS
    <3>1. PICK i \in C : q[n] = kept[i]
      BY <1>13
    <3>2. PICK l \in 1 .. i - 1 : Lhs(kept[l]) = Base(lit)
      BY <1>10, <1>14, <3>1
    <3>3. i \in 1 .. L /\ l \in 1 .. L /\ l < i
      BY <1>8, <1>10
    <3>4. l \in C
      BY <1>10, <3>1, <3>2, <3>3
    <3>5. PICK m \in 1 .. Len(q) : q[m] = kept[l]
      BY <1>13, <3>4
    <3>6. Lhs(kept[l]) < Lhs(kept[i])
      BY <1>2, <1>8, <3>3 DEF Keeps
    <3>7. Lhs(kept[l]) \in Nat /\ Lhs(kept[i]) \in Nat
      <4>1. \A j \in 1 .. N : Lhs(c.gates[j]) \in Nat
        BY <1>3, GateShape
      <4>2. /\ \E j \in 1 .. N : Lhs(c.gates[j]) = Lhs(kept[l])
            /\ \E j \in 1 .. N : Lhs(c.gates[j]) = Lhs(kept[i])
        BY <1>14, <3>3
      <4> QED BY <4>1, <4>2
    <3>8. ~(n < m) /\ n # m /\ n \in Nat /\ m \in Nat
      <4>1. Lhs(q[m]) < Lhs(q[n]) /\ Lhs(q[m]) \in Nat /\ Lhs(q[n]) \in Nat
        BY <3>1, <3>5, <3>6, <3>7
      <4>2. ~(n < m)
        <5>1. n < m => Lhs(q[n]) < Lhs(q[m])
          BY <1>13
        <5> QED BY <4>1, <5>1
      <4> QED BY <1>13, <4>1, <4>2
    <3>9. m \in 1 .. n - 1
      BY <1>13, <3>8
    <3> QED BY <3>2, <3>5, <3>9
  <2>2. ASSUME NEW n \in DOMAIN d.gates, NEW lit \in Fanins(d.gates[n])
        PROVE  \/ Base(lit) \in {0} \cup Primaries(d)
               \/ \E m \in 1 .. n - 1 : Lhs(d.gates[m]) = Base(lit)
    <3>1. n \in 1 .. Len(q) /\ lit \in Fanins(q[n])
      BY <1>11, <1>13
    <3>2. \/ Base(lit) \in {0} \cup Primaries(c)
          \/ \E m \in 1 .. n - 1 : Lhs(q[m]) = Base(lit)
      BY <2>1, <3>1, Zenon
    <3> QED BY <1>7, <1>11, <3>2, Zenon
  <2> QED BY <2>2 DEF FaninsDefined
<1>17. WellFormed(d)
  <2>1. d \in [inputs : Seq(Nat), latches : Seq(Nat \X Nat), outputs : Seq(Nat),
               gates : Seq(Nat \X Nat \X Nat)]
    BY <1>5, <1>7, <1>11, <1>13
  <2>2. \A lit \in Primaries(d) : lit % 2 = 0 /\ lit # 0
    BY <1>7 DEF WellFormed
  <2>3. \A n \in DOMAIN d.gates :
          Lhs(d.gates[n]) % 2 = 0 /\ Lhs(d.gates[n]) \notin {0} \cup Primaries(d)
    <3>1. \A j \in 1 .. N : Lhs(c.gates[j]) % 2 = 0 /\ Lhs(c.gates[j]) \notin {0} \cup Primaries(c)
      <4>1. DOMAIN c.gates = 1 .. N
        BY <1>3, GateShape
      <4> QED BY <4>1 DEF WellFormed
    <3>2. \A n \in 1 .. Len(q) : \E j \in 1 .. N : Lhs(c.gates[j]) = Lhs(q[n])
      BY <1>15
    <3>3. \A n \in 1 .. Len(q) : Lhs(q[n]) % 2 = 0 /\ Lhs(q[n]) \notin {0} \cup Primaries(c)
      BY <3>1, <3>2
    <3> QED BY <1>7, <1>11, <1>13, <3>3
  <2>4. \A m, n \in DOMAIN d.gates : m < n => Lhs(d.gates[m]) < Lhs(d.gates[n])
    BY <1>11, <1>13
  <2>5. \A r \in DOMAIN Roots(d) :
          \/ Base(Roots(d)[r]) \in {0} \cup Primaries(d)
          \/ GateAt(d.gates, Roots(d)[r]) # {}
    <3> SUFFICES ASSUME NEW r \in DOMAIN Roots(c), Base(Roots(d)[r]) \notin {0} \cup Primaries(c)
                 PROVE  GateAt(q, Roots(d)[r]) # {}
      BY <1>7, <1>11
    <3>1. PICK k \in 1 .. L : Lhs(kept[k]) = Base(Roots(d)[r])
      BY <1>6, <1>7, <1>8
    <3>2. k \in C
      BY <1>7, <1>10, <3>1
    <3>3. PICK n \in 1 .. Len(q) : q[n] = kept[k]
      BY <1>13, <3>2
    <3>4. n \in GateAt(q, Roots(d)[r])
      BY <1>13, <3>1, <3>3 DEF GateAt
    <3> QED BY <3>4
  <2> QED BY <1>16, <2>1, <2>2, <2>3, <2>4, <2>5 DEF WellFormed
<1>18. Equivalent(c, d)
  <2>1. PICK U : U = Truths(d)
    OBVIOUS
  <2>2. Evaluates(d, U, 1 .. Len(q))
    BY <1>11, <1>17, <2>1, TruthsEvaluate
  <2>3. Evaluates(d, T, 1 .. Len(q))
    <3>1. Evaluates(c, T, 1 .. N)
      BY <1>1, <1>3, TruthsEvaluate
    <3>2. PrimaryTruths(d) = PrimaryTruths(c)
      BY <1>7, SamePrimaries
    <3>3. \A b \in {0} \cup Primaries(d) : T[b] = PrimaryTruths(d)[b]
      BY <1>7, <3>1, <3>2 DEF Evaluates
    <3>4. \A n \in 1 .. Len(q) : T[Lhs(q[n])] = AndTruth(d, T, q[n])
      BY <1>7, <1>15, SamePrimaries
    <3> QED BY <1>11, <3>3, <3>4 DEF Evaluates
  <2>4. \A n \in 1 .. Len(q) : T[Lhs(q[n])] = U[Lhs(q[n])]
    <3>1. SelfContained(d, 1 .. Len(q))
      BY <1>11, AllSelfContained
    <3>2. \A n \in 1 .. Len(q) : T[Lhs(d.gates[n])] = U[Lhs(d.gates[n])]
      BY <1>17, <2>2, <2>3, <3>1, EvaluationUnique
    <3> QED BY <1>11, <3>2
  <2>5. \A b \in {0} \cup Primaries(d) : T[b] = U[b]
    BY <2>2, <2>3 DEF Evaluates
  <2>6. ASSUME NEW r \in DOMAIN Roots(c)
        PROVE  LitTruth(c, T, Roots(c)[r]) = LitTruth(c, U, Roots(d)[r])
    <3>1. PICK e \in Nat : e = Roots(d)[r] /\ LitTruth(c, T, e) = LitTruth(c, T, Roots(c)[r])
      BY <1>6, <1>7
    <3>2. T[Base(e)] = U[Base(e)]
      <4>1. \/ Base(e) \in {0} \cup Primaries(d)
            \/ \E n \in 1 .. Len(q) : Lhs(q[n]) = Base(e)
        BY <1>7, <1>11, <1>17, <3>1, RootShape
      <4> QED BY <2>4, <2>5, <4>1
    <3>3. LitTruth(c, T, e) = LitTruth(c, U, e)
      BY <3>2, TruthOfBase
    <3> QED BY <3>1, <3>3
  <2> QED BY <1>1, <1>7, <1>17, <2>1, <2>6, EquivalentIs
<1> QED BY <1>3, <1>7, <1>11, <1>15, <1>17, <1>18 DEF Restructures

-----------------------------------------------------------------------------
(* Circuits beside one another.                                            *)
Like(c, d) ==
  WellFormed(d) /\ Primaries(d) = Primaries(c) /\ DOMAIN Roots(d) = DOMAIN Roots(c)

Same(c, d) == Like(c, d) /\ Equivalent(c, d)

(* Same circuits of the same circuit are the same.                         *)
LEMMA SameSame ==
  ASSUME NEW b, NEW c, NEW d, Like(b, c), Like(c, d)
  PROVE  Like(b, d) /\ (Same(b, c) /\ Same(c, d) => Same(b, d))
BY DEF Like, Same, Equivalent

(* The accepted constants of some gates of c.                              *)
IsReplacement(c, a) ==
  /\ a = [i \in DOMAIN a |-> a[i]] /\ DOMAIN a \subseteq 1 .. Len(c.gates)
  /\ \A i \in DOMAIN a : a[i] \in {0, 1}

(* A circuit with replacements has the same inputs, roots and length.      *)
LEMMA RewrittenLike ==
  ASSUME NEW c, WellFormed(c), NEW a, IsReplacement(c, a)
  PROVE  Like(c, Rewritten(c, a)) /\ Len(Rewritten(c, a).gates) = Len(c.gates)
<1>1. \A i \in DOMAIN a : a[i] \in {0, 1}
  BY DEF IsReplacement
<1>2. PICK d : d = Rewritten(c, a)
  OBVIOUS
<1>3. /\ WellFormed(d) /\ Roots(d) = Roots(c) /\ Primaries(d) = Primaries(c)
      /\ Len(d.gates) = Len(c.gates)
  BY <1>1, <1>2, RewrittenIs
<1> QED BY <1>2, <1>3 DEF Like

(* A restructured circuit computes the same function.                      *)
LEMMA StrashSame ==
  ASSUME NEW c, WellFormed(c)
  PROVE  Same(c, Strash(c))
BY StrashIs DEF Restructures, Same, Like

(* One constant is a replacement.                                          *)
LEMMA StuckIsReplacement ==
  ASSUME NEW c, NEW idx \in 1 .. Len(c.gates), NEW value \in {0, 1}
  PROVE  IsReplacement(c, StuckAt(idx, value))
BY DEF IsReplacement, StuckAt

(* No replacement changes nothing.                                         *)
LEMMA NoReplacement ==
  ASSUME NEW c, WellFormed(c), NEW a, DOMAIN a = {}
  PROVE  ApplyAccepts(c.gates, a) = c.gates /\ Rewritten(c, a) = c
<1>1. c.gates \in Seq(Nat \X Nat \X Nat) /\ c = [c EXCEPT !.gates = c.gates]
  BY DEF WellFormed
<1>2. ApplyAccepts(c.gates, a) = [i \in DOMAIN c.gates |-> c.gates[i]]
  BY DEF ApplyAccepts
<1>3. ApplyAccepts(c.gates, a) = c.gates
  BY <1>1, <1>2
<1> QED BY <1>1, <1>3 DEF Rewritten

(* One more replacement on gates that carry some.                          *)
LEMMA ReplacedMore ==
  ASSUME NEW c, WellFormed(c), NEW a, IsReplacement(c, a), NEW idx \in 1 .. Len(c.gates),
         NEW value \in {0, 1}
  PROVE  /\ IsReplacement(c, With(a, idx, value))
         /\ idx \in DOMAIN With(a, idx, value)
         /\ DOMAIN With(a, idx, value) = DOMAIN a \cup {idx}
         /\ ApplyAccepts(ApplyAccepts(c.gates, a), StuckAt(idx, value))
              = ApplyAccepts(c.gates, With(a, idx, value))
         /\ Rewritten(Rewritten(c, a), StuckAt(idx, value)) = Rewritten(c, With(a, idx, value))
<1> DEFINE b == With(a, idx, value)
           s == StuckAt(idx, value)
           once == ApplyAccepts(c.gates, a)
<1>1. DOMAIN b = DOMAIN a \cup {idx} /\ b[idx] = value
      /\ (\A i \in DOMAIN a : i # idx => b[i] = a[i])
      /\ b = [i \in DOMAIN b |-> b[i]]
  BY DEF With
<1>2. DOMAIN s = {idx} /\ s[idx] = value
  BY DEF StuckAt
<1> HIDE DEF b, s
<1>3. IsReplacement(c, b)
  BY <1>1 DEF IsReplacement
<1>4. /\ DOMAIN once = DOMAIN c.gates
      /\ \A i \in DOMAIN c.gates :
           once[i] = IF i \in DOMAIN a THEN <<Lhs(c.gates[i]), a[i], a[i]>> ELSE c.gates[i]
      /\ \A i \in DOMAIN c.gates : Lhs(once[i]) = Lhs(c.gates[i])
  BY DEF ApplyAccepts, Lhs
<1> HIDE DEF once
<1>5. \A i \in DOMAIN c.gates :
        (IF i \in DOMAIN s THEN <<Lhs(once[i]), s[i], s[i]>> ELSE once[i])
          = IF i \in DOMAIN b THEN <<Lhs(c.gates[i]), b[i], b[i]>> ELSE c.gates[i]
  <2> SUFFICES ASSUME NEW i \in DOMAIN c.gates
               PROVE  (IF i \in DOMAIN s THEN <<Lhs(once[i]), s[i], s[i]>> ELSE once[i])
                        = IF i \in DOMAIN b THEN <<Lhs(c.gates[i]), b[i], b[i]>> ELSE c.gates[i]
    OBVIOUS
  <2>1. CASE i = idx
    BY <1>1, <1>2, <1>4, <2>1
  <2>2. CASE i # idx
    <3>1. i \in DOMAIN b <=> i \in DOMAIN a
      BY <1>1, <2>2
    <3>2. i \notin DOMAIN s
      BY <1>2, <2>2
    <3> QED BY <1>1, <1>4, <2>2, <3>1, <3>2
  <2> QED BY <2>1, <2>2
<1>6. ApplyAccepts(once, s) = ApplyAccepts(c.gates, b)
  BY <1>4, <1>5, Zenon DEF ApplyAccepts
<1>7. Rewritten(Rewritten(c, a), s) = Rewritten(c, b)
  <2>1. c \in [inputs : Seq(Nat), latches : Seq(Nat \X Nat), outputs : Seq(Nat),
               gates : Seq(Nat \X Nat \X Nat)]
    BY DEF WellFormed
  <2>2. Rewritten(c, a) = [c EXCEPT !.gates = once]
    BY DEF Rewritten, once
  <2>3. PICK d : d = Rewritten(c, a)
    OBVIOUS
  <2>4. d.gates = once /\ [d EXCEPT !.gates = ApplyAccepts(once, s)] = [c EXCEPT !.gates = ApplyAccepts(once, s)]
    BY <2>1, <2>2, <2>3
  <2>5. Rewritten(d, s) = [d EXCEPT !.gates = ApplyAccepts(once, s)]
    BY <2>4 DEF Rewritten
  <2>6. Rewritten(c, b) = [c EXCEPT !.gates = ApplyAccepts(once, s)]
    BY <1>6 DEF Rewritten
  <2> QED BY <2>3, <2>4, <2>5, <2>6
<1> QED BY <1>1, <1>3, <1>6, <1>7 DEF b, s, once

(* No id of a replaced gate comes through a strash, nor more gates than    *)
(* were left.                                                              *)
LEMMA StrashShrinks ==
  ASSUME NEW c, WellFormed(c), NEW a, IsReplacement(c, a), NEW d, d = Strash(Rewritten(c, a))
  PROVE  /\ Len(d.gates) \in Nat /\ Len(c.gates) \in Nat
         /\ IsFiniteSet(DOMAIN a) /\ Cardinality(DOMAIN a) \in Nat
         /\ Len(d.gates) + Cardinality(DOMAIN a) <= Len(c.gates)
         /\ \A i \in DOMAIN a : GateAt(d.gates, Lhs(c.gates[i])) = {}
<1>1. PICK e : e = Rewritten(c, a)
  OBVIOUS
<1>2. PICK N \in Nat : N = Len(c.gates)
  BY GateShape
<1>3. /\ WellFormed(e) /\ Len(e.gates) = N
      /\ \A i \in 1 .. N :
           /\ Lhs(e.gates[i]) = Lhs(c.gates[i])
           /\ i \in DOMAIN a => e.gates[i] = <<Lhs(c.gates[i]), a[i], a[i]>>
  <2>1. \A i \in DOMAIN a : a[i] \in {0, 1}
    BY DEF IsReplacement
  <2> QED BY <1>1, <1>2, <2>1, RewrittenIs
<1>4. \A i \in DOMAIN a : i \in 1 .. N /\ IsConstant(e.gates[i])
  BY <1>2, <1>3 DEF IsReplacement, IsConstant
<1>5. Restructures(e, d)
  BY <1>1, <1>3, StrashIs
<1>6. PICK M \in Nat : M = Len(d.gates) /\ DOMAIN d.gates = 1 .. M
  BY <1>5, GateShape DEF Restructures
<1>7. \A n \in 1 .. M : \E i \in 1 .. N : Lhs(d.gates[n]) = Lhs(c.gates[i]) /\ i \notin DOMAIN a
  <2> SUFFICES ASSUME NEW n \in 1 .. M
               PROVE  \E i \in 1 .. N : Lhs(d.gates[n]) = Lhs(c.gates[i]) /\ i \notin DOMAIN a
    OBVIOUS
  <2>1. PICK i \in 1 .. N : Lhs(d.gates[n]) = Lhs(e.gates[i]) /\ ~IsConstant(e.gates[i])
    BY <1>3, <1>5, <1>6 DEF Restructures
  <2> QED BY <1>3, <1>4, <2>1
<1>8. \A i \in DOMAIN a : GateAt(d.gates, Lhs(c.gates[i])) = {}
  <2> SUFFICES ASSUME NEW i \in DOMAIN a, NEW n \in 1 .. M, Lhs(d.gates[n]) = Base(Lhs(c.gates[i]))
               PROVE  FALSE
    BY <1>6 DEF GateAt
  <2>1. i \in 1 .. N /\ Base(Lhs(c.gates[i])) = Lhs(c.gates[i])
    BY <1>2, <1>4, GateShape
  <2>2. PICK j \in 1 .. N : Lhs(d.gates[n]) = Lhs(c.gates[j]) /\ j \notin DOMAIN a
    BY <1>7
  <2>3. j = i
    BY <1>2, <2>1, <2>2, GateOrder
  <2> QED BY <2>2, <2>3
<1>9. PICK D : D = DOMAIN a
  OBVIOUS
<1>10. PICK P : P = 1 .. N
  OBVIOUS
<1>11. IsFiniteSet(P) /\ Cardinality(P) = N /\ D \subseteq P
  BY <1>4, <1>9, <1>10, PositionsFinite
<1>12. PICK Q : Q = 1 .. M
  OBVIOUS
<1>13. IsFiniteSet(Q) /\ Cardinality(Q) = M
  BY <1>12, PositionsFinite
<1>14. IsFiniteSet(D) /\ Cardinality(D) \in Nat
  BY <1>11, FS_Subset, FS_CardinalityType
<1>15. IsFiniteSet(P \ D) /\ Cardinality(P \ D) = N - Cardinality(D)
  <2>1. P \cap D = D
    BY <1>11
  <2>2. /\ IsFiniteSet(P \ D)
        /\ Cardinality(P \ D) = Cardinality(P) - Cardinality(P \cap D)
    BY <1>11, FS_Difference
  <2> QED BY <1>11, <2>1, <2>2
<1>16. M <= Cardinality(P \ D)
  <2> DEFINE f == [n \in Q |-> CHOOSE i \in P : Lhs(d.gates[n]) = Lhs(c.gates[i]) /\ i \notin D]
  <2>1. \A n \in Q : f[n] \in P \ D /\ Lhs(d.gates[n]) = Lhs(c.gates[f[n]])
    BY <1>7, <1>9, <1>10, <1>12
  <2>2. f \in [Q -> P \ D]
    BY <2>1
  <2> HIDE DEF f
  <2>3. \A m, n \in Q : f[m] = f[n] => m = n
    <3> SUFFICES ASSUME NEW m \in Q, NEW n \in Q, f[m] = f[n] PROVE m = n
      OBVIOUS
    <3>1. Lhs(d.gates[m]) = Lhs(d.gates[n])
      BY <2>1
    <3> QED BY <1>5, <1>6, <1>12, <3>1, GateOrder DEF Restructures
  <2>4. f \in Injection(Q, P \ D)
    BY <2>2, <2>3 DEF Injection, IsInjective
  <2> QED BY <1>13, <1>15, <2>4, FS_Injection
<1>17. M + Cardinality(D) <= N
  BY <1>14, <1>15, <1>16
<1> QED BY <1>2, <1>6, <1>8, <1>9, <1>14, <1>17

-----------------------------------------------------------------------------
(* Candidates in their orders.                                             *)

(* Candidates are finitely many pairs of a position and a value.           *)
LEMMA CandidateIs ==
  ASSUME NEW c, WellFormed(c)
  PROVE  /\ IsFiniteSet(Candidates(c))
         /\ \A k \in Candidates(c) : /\ k[1] \in 1 .. Len(c.gates) /\ k[1] \in Nat
                                     /\ k[2] \in {0, 1} /\ k = <<k[1], k[2]>>
<1>1. PICK N \in Nat : N = Len(c.gates)
  BY GateShape
<1>2. IsFiniteSet(1 .. N) /\ IsFiniteSet({0, 1})
  <2>1. IsFiniteSet({0} \cup {1})
    BY FS_Singleton, FS_Union
  <2>2. {0} \cup {1} = {0, 1}
    OBVIOUS
  <2>3. IsFiniteSet(1 .. N)
    BY PositionsFinite
  <2> QED BY <2>1, <2>2, <2>3
<1>3. IsFiniteSet((1 .. N) \X {0, 1})
  BY <1>2, FS_Product
<1> QED BY <1>1, <1>3 DEF Candidates

Lists(q, S) ==
  /\ q \in Seq(S)
  /\ \A x \in S : \E n \in 1 .. Len(q) : q[n] = x

(* InOrder is a sequence of all candidates it is given.                    *)
LEMMA InOrderIs ==
  ASSUME WellFormed(work), NEW S, S \subseteq Candidates(work), NEW ones,
         NEW q, q = InOrder(S, ones)
  PROVE  Lists(q, S)
<1> DEFINE key == [k \in S |-> 2 * k[1] + (IF k[1] \in ones THEN 1 - k[2] ELSE k[2])]
<1>1. /\ IsFiniteSet(S)
      /\ \A k \in S : k[1] \in Nat /\ k[2] \in {0, 1} /\ k = <<k[1], k[2]>>
  BY CandidateIs, FS_Subset
<1>2. key \in [S -> Nat]
  <2>1. \A k \in S : 2 * k[1] + (IF k[1] \in ones THEN 1 - k[2] ELSE k[2]) \in Nat
    BY <1>1
  <2> QED BY <2>1
<1>3. \A x, y \in S : key[x] = key[y] => x = y
  <2> SUFFICES ASSUME NEW x \in S, NEW y \in S, key[x] = key[y] PROVE x = y
    OBVIOUS
  <2>1. PICK a \in {0, 1} : key[x] = 2 * x[1] + a /\ (IF x[1] \in ones THEN x[2] = 1 - a ELSE x[2] = a)
    BY <1>1
  <2>2. PICK b \in {0, 1} : key[y] = 2 * y[1] + b /\ (IF y[1] \in ones THEN y[2] = 1 - b ELSE y[2] = b)
    BY <1>1
  <2>3. x[1] \in Nat /\ y[1] \in Nat
    BY <1>1
  <2>4. 2 * x[1] + a = 2 * y[1] + b
    BY <2>1, <2>2
  <2> HIDE DEF key
  <2>5. x[1] = y[1] /\ a = b
    <3>1. PICK i \in Nat, j \in Nat : i = x[1] /\ j = y[1]
      BY <2>3
    <3>2. 2 * i + a = 2 * j + b
      BY <2>4, <3>1
    <3>3. i = j /\ a = b
      BY <3>2
    <3> QED BY <3>1, <3>3
  <2>6. x[2] = y[2]
    BY <2>1, <2>2, <2>5
  <2> QED BY <1>1, <2>5, <2>6
<1>4. q = ByKey(S, key)
  BY DEF InOrder
<1> HIDE DEF key
<1>5. Enumerates(q, S, key)
  BY <1>1, <1>2, <1>3, <1>4, ByKeyIs
<1> QED BY <1>5 DEF Enumerates, Lists

(* The greedy choice of the batch.                                         *)
ChoiceStep(before, k) ==
  IF \E o \in before : InFanout(o[1], k[1]) \/ InFanout(k[1], o[1])
  THEN before ELSE before \cup {k}

ChoiceTo(w, queue, n) ==
  w = [m \in 0 .. n |-> IF m = 0 THEN {} ELSE ChoiceStep(w[m - 1], queue[m])]

(* There are such choices of every length.                                 *)
LEMMA ChoiceToExist ==
  ASSUME NEW queue
  PROVE  \A n \in Nat : \E w : ChoiceTo(w, queue, n)
<1> DEFINE P == {n \in Nat : \E w : ChoiceTo(w, queue, n)}
<1>1. 0 \in P
  <2> DEFINE w == [m \in 0 .. 0 |-> {}]
  <2>1. ChoiceTo(w, queue, 0)
    BY DEF ChoiceTo
  <2> QED BY <2>1
<1>2. ASSUME NEW n \in Nat, n \in P PROVE n + 1 \in P
  <2>1. PICK w : ChoiceTo(w, queue, n)
    BY <1>2
  <2> DEFINE v == [m \in 0 .. n + 1 |-> IF m = n + 1 THEN ChoiceStep(w[n], queue[n + 1]) ELSE w[m]]
  <2>2. ASSUME NEW m \in 0 .. n + 1
        PROVE  v[m] = IF m = 0 THEN {} ELSE ChoiceStep(v[m - 1], queue[m])
    <3>1. CASE m = n + 1
      BY <3>1
    <3>2. CASE m # n + 1
      <4>1. m \in 0 .. n /\ (m # 0 => m - 1 \in 0 .. n)
        BY <3>2
      <4>2. w[m] = IF m = 0 THEN {} ELSE ChoiceStep(w[m - 1], queue[m])
        BY <2>1, <4>1, Zenon DEF ChoiceTo
      <4> QED BY <3>2, <4>1, <4>2
    <3> QED BY <3>1, <3>2
  <2>3. v = [m \in 0 .. n + 1 |-> v[m]]
    OBVIOUS
  <2> HIDE DEF v
  <2>4. ChoiceTo(v, queue, n + 1)
    BY <2>2, <2>3, Zenon DEF ChoiceTo
  <2> QED BY <2>4
<1> HIDE DEF P
<1>3. \A n \in Nat : n \in P
  BY <1>1, <1>2, SetInduction
<1> QED BY <1>3 DEF P

(* It chooses of what there is, and something if there is anything.        *)
LEMMA ConflictFreeIs ==
  ASSUME WellFormed(work), NEW S, S \subseteq Candidates(work)
  PROVE  ConflictFree(S) \subseteq S /\ (S # {} => ConflictFree(S) # {})
<1>1. PICK queue : queue = InOrder(S, {})
  OBVIOUS
<1>2. queue \in Seq(S) /\ \A x \in S : \E n \in 1 .. Len(queue) : queue[n] = x
  BY <1>1, InOrderIs DEF Lists
<1>3. PICK N \in Nat : N = Len(queue)
  BY <1>2
<1> DEFINE w == CHOOSE w : ChoiceTo(w, queue, N)
<1>4. ChoiceTo(w, queue, N)
  BY ChoiceToExist
<1>5. ConflictFree(S) = w[N]
  BY <1>1, <1>3, Zenon DEF ConflictFree, ChoiceTo, ChoiceStep
<1> HIDE DEF w
<1>6. \A m \in 0 .. N : w[m] = IF m = 0 THEN {} ELSE ChoiceStep(w[m - 1], queue[m])
  BY <1>4, Zenon DEF ChoiceTo
<1>7. w[0] = {}
  BY <1>6
<1> DEFINE P == {n \in Nat : n <= N => w[n] \subseteq S /\ (n # 0 => w[n] # {})}
<1>8. 0 \in P
  BY <1>7
<1>9. ASSUME NEW n \in Nat, n \in P PROVE n + 1 \in P
  <2> SUFFICES ASSUME n + 1 <= N PROVE w[n + 1] \subseteq S /\ w[n + 1] # {}
    OBVIOUS
  <2>1. w[n] \subseteq S /\ (n # 0 => w[n] # {})
    BY <1>9
  <2>2. PICK k \in 1 .. N : k = n + 1 /\ k - 1 = n
    BY <1>3
  <2>3. w[k] = ChoiceStep(w[k - 1], queue[k]) /\ queue[k] \in S
    BY <1>2, <1>3, <1>6, <2>2
  <2>4. PICK x \in S : x = queue[k]
    BY <2>3
  <2>5. w[n + 1] = ChoiceStep(w[n], x)
    BY <2>2, <2>3, <2>4
  <2>6. w[n] = {} => w[n + 1] = {x}
    BY <2>5 DEF ChoiceStep
  <2>7. w[n + 1] = w[n] \/ w[n + 1] = w[n] \cup {x}
    BY <2>5 DEF ChoiceStep
  <2> QED BY <2>1, <2>6, <2>7
<1> HIDE DEF P
<1>10. N \in P
  BY <1>8, <1>9, SetInduction
<1>11. w[N] \subseteq S /\ (N # 0 => w[N] # {})
  BY <1>10 DEF P
<1>12. S # {} => N # 0
  BY <1>2, <1>3
<1> QED BY <1>5, <1>11, <1>12

-----------------------------------------------------------------------------
(* The inductive invariant.                                                *)

(* Every engine has its places.                                            *)
PlacesOK ==
  /\ slow \in BOOLEAN /\ pass \in 0 .. MaxPasses /\ changed \in BOOLEAN
  /\ round \in 1 .. RebuildRounds + 1
  /\ \/ engine = "barrier" /\ pc \in {"classify", "propose", "recheck", "cec", "done", "failed"}
     \/ engine = "batch" /\ pc \in {"classify", "verify", "fallback", "written"}
     \/ engine = "sweep" /\ pc \in {"classify", "sweep", "aborted", "rebuild", "written"}
  /\ engine = "sweep" /\ pc # "written" => round <= RebuildRounds

(* The work AAG is always a circuit of the source's function.              *)
CircuitsOK == WellFormed(source) /\ Same(source, work) /\ Like(source, candidate)

(* The working gates are those of the work AAG with what was accepted.     *)
ReplacedOK ==
  IsReplacement(work, accepted) /\ working = ApplyAccepts(work.gates, accepted)

(* Only what was found is waiting or, but for barriers, accepted.          *)
ChosenOK ==
  /\ found \subseteq Candidates(work) /\ proposals \in Seq(found)
  /\ engine = "barrier" /\ pc # "recheck" => proposals = <<>>
  /\ engine # "barrier" => DOMAIN accepted \subseteq {k[1] : k \in found}

(* All that is accepted is redundant together, but for an unverified batch.*)
TogetherSafe == pc \notin {"verify", "written"} => Equivalent(source, Working)

OutputSafe ==
  /\ pc \in {"cec", "written"} => Equivalent(source, candidate)
  /\ pc = "cec" => candidate = Strash(Rewritten(work, accepted)) /\ accepted # <<>>

(* What was found is proved as long as the work AAG stays, and the first   *)
(* of the proposals is proved on it.                                       *)
BarrierProofs ==
  /\ pc \in {"propose", "recheck"} =>
       \A k \in found : TfoVerdict(work, k[1], k[2]) = "UNSAT"
  /\ pc = "recheck" /\ ~slow => proposals # <<>> \/ accepted # <<>>

BatchProofs ==
  /\ pc \in {"verify", "fallback"} => found \subseteq ProvedAlone
  /\ pc = "verify" => proposals # <<>> /\ accepted # <<>>
  /\ pc = "fallback" /\ ~slow => proposals # <<>> \/ accepted # <<>>
  /\ engine = "batch" /\ pc = "written" /\ ~slow /\ found # {} => accepted # <<>>

(* While a pass accepts nothing, all it has asked for stays refuted.       *)
SweepProofs ==
  pc = "sweep" =>
    /\ ProvedAlone \subseteq found
    /\ ~changed /\ ~slow =>
         \A k \in found :
           \/ k \in ToSet(proposals)
           \/ k[1] \in DOMAIN accepted
           \/ ~ProvedWith(SweepFaults(k[1], k[2]))

IInv ==
  /\ PlacesOK /\ CircuitsOK /\ ReplacedOK /\ ChosenOK /\ TogetherSafe /\ OutputSafe
  /\ BarrierProofs /\ BatchProofs /\ SweepProofs

-----------------------------------------------------------------------------
(* What the invariant says of the working gates.                           *)

(* Nothing is accepted exactly when no position is.                        *)
LEMMA EmptyIs ==
  ASSUME NEW c, NEW a, IsReplacement(c, a)
  PROVE  a = <<>> <=> DOMAIN a = {}
<1>1. a = [i \in DOMAIN a |-> a[i]]
  BY DEF IsReplacement
<1>2. DOMAIN a = {} => a = <<>>
  <2> SUFFICES ASSUME DOMAIN a = {} PROVE a = <<>>
    OBVIOUS
  <2>1. a = [i \in {} |-> a[i]]
    BY <1>1
  <2>2. <<>> = [i \in {} |-> a[i]]
    OBVIOUS
  <2> QED BY <2>1, <2>2
<1> QED BY <1>2

(* Accepting nothing changes nothing.                                      *)
LEMMA NothingIsReplacement ==
  ASSUME NEW c, WellFormed(c)
  PROVE  /\ IsReplacement(c, <<>>) /\ ApplyAccepts(c.gates, <<>>) = c.gates
         /\ Rewritten(c, <<>>) = c
<1>1. DOMAIN <<>> = {}
  OBVIOUS
<1>2. ApplyAccepts(c.gates, <<>>) = c.gates /\ Rewritten(c, <<>>) = c
  BY <1>1, NoReplacement
<1>3. <<>> = [i \in DOMAIN <<>> |-> <<>>[i]]
  OBVIOUS
<1> QED BY <1>1, <1>2, <1>3 DEF IsReplacement

(* The working gates are the work AAG with the accepted constants, a       *)
(* circuit with the same inputs and roots.                                 *)
LEMMA WorkingIs ==
  ASSUME CircuitsOK, ReplacedOK
  PROVE  /\ WellFormed(work) /\ IsReplacement(work, accepted)
         /\ Working = Rewritten(work, accepted) /\ Working.gates = working
         /\ Like(work, Working) /\ Len(working) = Len(work.gates)
         /\ Equivalent(source, Working) <=> Equivalent(work, Working)
<1>1. WellFormed(work) /\ Equivalent(source, work) /\ IsReplacement(work, accepted)
  BY DEF CircuitsOK, ReplacedOK, Same, Like
<1>2. Working = Rewritten(work, accepted)
  BY DEF Working, Rewritten, ReplacedOK
<1>3. Like(work, Working) /\ Len(Working.gates) = Len(work.gates)
  BY <1>1, <1>2, RewrittenLike
<1>4. Working.gates = working
  BY <1>1 DEF Working, WellFormed
<1> QED BY <1>1, <1>2, <1>3, <1>4 DEF Equivalent

(* One more constant in the working gates.                                 *)
LEMMA WorkingMore ==
  ASSUME CircuitsOK, ReplacedOK, NEW idx \in 1 .. Len(work.gates), NEW value \in {0, 1}
  PROVE  /\ IsReplacement(work, With(accepted, idx, value))
         /\ With(accepted, idx, value) # <<>>
         /\ DOMAIN With(accepted, idx, value) = DOMAIN accepted \cup {idx}
         /\ ApplyAccepts(working, StuckAt(idx, value))
              = ApplyAccepts(work.gates, With(accepted, idx, value))
         /\ Rewritten(Working, StuckAt(idx, value)) = Rewritten(work, With(accepted, idx, value))
         /\ [work EXCEPT !.gates = ApplyAccepts(working, StuckAt(idx, value))]
              = Rewritten(work, With(accepted, idx, value))
<1>1. WellFormed(work) /\ IsReplacement(work, accepted) /\ Working = Rewritten(work, accepted)
  BY WorkingIs
<1>2. /\ IsReplacement(work, With(accepted, idx, value))
      /\ idx \in DOMAIN With(accepted, idx, value)
      /\ DOMAIN With(accepted, idx, value) = DOMAIN accepted \cup {idx}
      /\ ApplyAccepts(ApplyAccepts(work.gates, accepted), StuckAt(idx, value))
           = ApplyAccepts(work.gates, With(accepted, idx, value))
      /\ Rewritten(Rewritten(work, accepted), StuckAt(idx, value))
           = Rewritten(work, With(accepted, idx, value))
  BY <1>1, ReplacedMore
<1>3. working = ApplyAccepts(work.gates, accepted)
  BY DEF ReplacedOK
<1>4. With(accepted, idx, value) # <<>>
  BY <1>2, EmptyIs
<1>5. [work EXCEPT !.gates = ApplyAccepts(working, StuckAt(idx, value))]
        = Rewritten(work, With(accepted, idx, value))
  BY <1>2, <1>3 DEF Rewritten
<1> QED BY <1>1, <1>2, <1>3, <1>4, <1>5

(* A step that leaves the gates and the acceptances alone keeps the working*)
(* circuit.                                                                *)
LEMMA Kept ==
  ASSUME CircuitsOK, ReplacedOK, UNCHANGED <<source, work, working, accepted>>,
         Like(source, candidate')
  PROVE  CircuitsOK' /\ ReplacedOK' /\ Working' = Working
BY DEF CircuitsOK, ReplacedOK, Working

(* A step that installs a circuit, or takes everything back, has its gates *)
(* as working gates.                                                       *)
LEMMA Cleared ==
  ASSUME WellFormed(source), UNCHANGED source, Same(source, work'), Like(source, candidate'),
         working' = work'.gates, accepted' = <<>>
  PROVE  CircuitsOK' /\ ReplacedOK' /\ TogetherSafe' /\ Working' = work'
<1>1. WellFormed(work') /\ Equivalent(source, work')
  BY DEF Same, Like
<1>2. IsReplacement(work', <<>>) /\ ApplyAccepts(work'.gates, <<>>) = work'.gates
  BY <1>1, NothingIsReplacement
<1>3. Working' = work'
  BY <1>1 DEF Working, WellFormed
<1> QED BY <1>1, <1>2, <1>3 DEF CircuitsOK, ReplacedOK, TogetherSafe

(* A step that accepts one more constant puts it into the working gates.   *)
LEMMA Extended ==
  ASSUME CircuitsOK, ReplacedOK, NEW idx \in 1 .. Len(work.gates), NEW value \in {0, 1},
         UNCHANGED <<source, work, candidate>>, accepted' = With(accepted, idx, value),
         working' = ApplyAccepts(working, StuckAt(idx, value))
  PROVE  /\ CircuitsOK' /\ ReplacedOK' /\ accepted' # <<>>
         /\ Working' = Rewritten(work, With(accepted, idx, value))
         /\ Working' = Rewritten(Working, StuckAt(idx, value))
<1>1. /\ IsReplacement(work, With(accepted, idx, value))
      /\ With(accepted, idx, value) # <<>>
      /\ ApplyAccepts(working, StuckAt(idx, value))
           = ApplyAccepts(work.gates, With(accepted, idx, value))
      /\ Rewritten(Working, StuckAt(idx, value)) = Rewritten(work, With(accepted, idx, value))
      /\ [work EXCEPT !.gates = ApplyAccepts(working, StuckAt(idx, value))]
              = Rewritten(work, With(accepted, idx, value))
  BY WorkingMore
<1>2. Working' = [work EXCEPT !.gates = ApplyAccepts(working, StuckAt(idx, value))]
  BY DEF Working
<1> QED BY <1>1, <1>2 DEF CircuitsOK, ReplacedOK

(* The head of the proposals is a candidate.                               *)
LEMMA HeadIs ==
  ASSUME CircuitsOK, ChosenOK, proposals # <<>>
  PROVE  /\ Head(proposals)[1] \in 1 .. Len(work.gates) /\ Head(proposals)[2] \in {0, 1}
         /\ Head(proposals) \in found /\ Tail(proposals) \in Seq(found)
         /\ \A x \in ToSet(proposals) : x = Head(proposals) \/ x \in ToSet(Tail(proposals))
<1>1. WellFormed(work)
  BY DEF CircuitsOK, Same, Like
<1>2. proposals \in Seq(found) /\ found \subseteq Candidates(work)
  BY DEF ChosenOK
<1>3. Head(proposals) \in found /\ Tail(proposals) \in Seq(found)
  BY <1>2
<1>4. \A x \in ToSet(proposals) : x = Head(proposals) \/ x \in ToSet(Tail(proposals))
  <2> SUFFICES ASSUME NEW n \in 1 .. Len(proposals)
               PROVE  proposals[n] = Head(proposals) \/ proposals[n] \in ToSet(Tail(proposals))
    BY <1>2 DEF ToSet
  <2>1. CASE n = 1
    BY <1>2, <2>1
  <2>2. CASE n # 1
    <3>1. n - 1 \in DOMAIN Tail(proposals) /\ Tail(proposals)[n - 1] = proposals[n]
      BY <1>2, <2>2
    <3> QED BY <3>1 DEF ToSet
  <2> QED BY <2>1, <2>2
<1> QED BY <1>1, <1>2, <1>3, <1>4, CandidateIs

-----------------------------------------------------------------------------
(* The invariant holds at the beginning, and no step of a barrier breaks   *)
(* it.                                                                     *)

(* A circuit is the same as itself.                                        *)
LEMMA SameItself ==
  ASSUME NEW c, WellFormed(c)
  PROVE  Same(c, c) /\ Like(c, c)
BY DEF Same, Like, Equivalent

(* Whatever work AAG of the source a run begins with, nothing is accepted. *)
LEMMA InitWithIs ==
  ASSUME NEW first, InitWith(first), Same(source, first), WellFormed(source)
  PROVE  /\ CircuitsOK /\ ReplacedOK /\ Equivalent(source, Working)
         /\ found = {} /\ proposals = <<>> /\ accepted = <<>> /\ pc = "classify"
         /\ slow \in BOOLEAN
<1>1. /\ work = first /\ candidate = work /\ working = work.gates /\ accepted = <<>>
      /\ found = {} /\ proposals = <<>> /\ pc = "classify" /\ slow \in BOOLEAN
  BY DEF InitWith
<1>2. Same(source, work) /\ Like(source, work) /\ Equivalent(source, work) /\ WellFormed(work)
  BY <1>1 DEF Same, Like
<1>3. CircuitsOK
  BY <1>1, <1>2 DEF CircuitsOK
<1>4. ReplacedOK
  BY <1>1, <1>2, NothingIsReplacement DEF ReplacedOK
<1>5. Working = work
  BY <1>1, <1>2 DEF Working, WellFormed
<1> QED BY <1>1, <1>2, <1>3, <1>4, <1>5

(* The invariant holds at the beginning, restructured or not.              *)
LEMMA InitIInv ==
  ASSUME EngineInit
  PROVE  IInv
<1>1. PICK first : InitWith(first) /\ (first = source \/ first = Strash(source))
  BY DEF EngineInit, Init
<1>2. WellFormed(source)
  BY <1>1, SourcesAssumption DEF InitWith
<1>3. Same(source, first)
  BY <1>1, <1>2, SameItself, StrashSame
<1>4. /\ CircuitsOK /\ ReplacedOK /\ Equivalent(source, Working)
      /\ found = {} /\ proposals = <<>> /\ accepted = <<>> /\ pc = "classify"
      /\ slow \in BOOLEAN
  BY <1>1, <1>2, <1>3, InitWithIs
<1>5. PlacesOK
  <2>1. engine \in {"barrier", "batch", "sweep"} /\ pass = 0 /\ changed = FALSE /\ round = 1
    BY DEF EngineInit
  <2>2. PICK p \in Nat, q \in Nat : p = MaxPasses /\ q = RebuildRounds /\ q # 0
    BY SweepAssumption
  <2>3. pass \in 0 .. p /\ round \in 1 .. q + 1 /\ round <= q
    BY <2>1, <2>2
  <2> QED BY <1>4, <2>1, <2>2, <2>3 DEF PlacesOK
<1>6. ChosenOK
  BY <1>4 DEF ChosenOK
<1>7. TogetherSafe /\ OutputSafe /\ BarrierProofs /\ BatchProofs /\ SweepProofs
  BY <1>4 DEF TogetherSafe, OutputSafe, BarrierProofs, BatchProofs, SweepProofs
<1> QED BY <1>4, <1>5, <1>6, <1>7 DEF IInv

(* What CircuitsOK says of source and work AAG.                            *)
LEMMA SourceLike ==
  ASSUME CircuitsOK
  PROVE  /\ WellFormed(source) /\ WellFormed(work) /\ Like(source, candidate)
         /\ Like(source, work) /\ Equivalent(source, work)
BY DEF CircuitsOK, Same, Like

(* Classify keeps the invariant: what it finds was answered UNSAT on the   *)
(* work AAG.                                                               *)
LEMMA ClassifyStep ==
  ASSUME IInv, engine = "barrier", Classify, UNCHANGED <<engine, sweep>>
  PROVE  IInv'
<1> USE DEF IInv
<1>1. /\ pc = "classify" /\ pc' \in {"done", "propose"}
      /\ found' = {k \in Candidates(work) : TfoVerdict(work, k[1], k[2]) = "UNSAT"}
      /\ UNCHANGED <<slow, source, work, proposals, working, accepted, candidate>>
      /\ UNCHANGED <<engine, pass, changed, round>>
  BY DEF Classify, sweep
<1>2. PlacesOK'
  BY <1>1 DEF PlacesOK
<1>3. CircuitsOK' /\ ReplacedOK' /\ Working' = Working
  BY <1>1, SourceLike, Kept
<1>4. ChosenOK'
  <2>1. proposals = <<>>
    BY <1>1 DEF ChosenOK
  <2> QED BY <1>1, <2>1 DEF ChosenOK
<1>5. TogetherSafe' /\ OutputSafe'
  BY <1>1, <1>3 DEF TogetherSafe, OutputSafe
<1>6. BarrierProofs'
  BY <1>1 DEF BarrierProofs
<1>7. BatchProofs' /\ SweepProofs'
  BY <1>1 DEF BatchProofs, SweepProofs
<1> QED BY <1>2, <1>3, <1>4, <1>5, <1>6, <1>7

(* Propose keeps the invariant.                                            *)
LEMMA ProposeStep ==
  ASSUME IInv, engine = "barrier", Propose, UNCHANGED <<engine, sweep>>
  PROVE  IInv'
<1> USE DEF IInv
<1> DEFINE Proposed(n, s) ==
  /\ pc = "propose" /\ pc' = "recheck" /\ proposals' = s
  /\ working' = work.gates /\ accepted' = <<>>
  /\ UNCHANGED <<slow, source, work, found, candidate>>
  /\ UNCHANGED <<engine, pass, changed, round>>
<1>0. PICK n \in 1 .. MaxProposals : \E s \in [1 .. n -> found] : Proposed(n, s)
  BY DEF Propose, sweep
<1>1. PICK s \in [1 .. n -> found] : Proposed(n, s)
  BY <1>0
<1>2. PlacesOK'
  BY <1>1 DEF PlacesOK
<1>3. CircuitsOK' /\ ReplacedOK' /\ TogetherSafe'
  <2>1. WellFormed(source) /\ Same(source, work') /\ Like(source, candidate') /\ working' = work'.gates
    BY <1>1 DEF CircuitsOK
  <2> QED BY <1>1, <2>1, Cleared
<1>4. n \in Nat /\ n # 0
  BY <1>1, MaxProposalsAssumption
<1>5. s \in Seq(found) /\ s # <<>>
  BY <1>1, <1>4
<1>6. ChosenOK'
  BY <1>1, <1>5 DEF ChosenOK
<1>7. OutputSafe' /\ BatchProofs' /\ SweepProofs'
  BY <1>1 DEF OutputSafe, BatchProofs, SweepProofs
<1>8. BarrierProofs'
  BY <1>1, <1>5 DEF BarrierProofs
<1> QED BY <1>2, <1>3, <1>6, <1>7, <1>8

(* Recheck keeps the invariant: the query is exact on the gates that hold  *)
(* the earlier replacements, so one more accepted constant leaves the      *)
(* function alone; and the first proposal is answered as it was found.     *)
LEMMA RecheckStep ==
  ASSUME IInv, engine = "barrier", Recheck, UNCHANGED <<engine, sweep>>
  PROVE  IInv'
<1> USE DEF IInv
<1> DEFINE idx == Head(proposals)[1]
           value == Head(proposals)[2]
<1>1. /\ pc = "recheck" /\ proposals # <<>> /\ proposals' = Tail(proposals)
      /\ UNCHANGED <<slow, source, work, found, candidate, pc>>
      /\ UNCHANGED <<engine, pass, changed, round>>
      /\ \/ idx \in DOMAIN accepted /\ UNCHANGED <<working, accepted>>
         \/ /\ idx \notin DOMAIN accepted
            /\ \E verdict \in RecheckVerdict(idx, value) :
                 IF verdict = "UNSAT"
                 THEN /\ accepted' = With(accepted, idx, value)
                      /\ working' = ApplyAccepts(working, StuckAt(idx, value))
                 ELSE UNCHANGED <<working, accepted>>
  BY DEF Recheck, sweep
<1>2. /\ idx \in 1 .. Len(work.gates) /\ value \in {0, 1}
      /\ Head(proposals) \in found /\ Tail(proposals) \in Seq(found)
  BY <1>1, HeadIs
<1>3. /\ WellFormed(work) /\ IsReplacement(work, accepted)
      /\ Working = Rewritten(work, accepted) /\ Working.gates = working
      /\ Like(work, Working) /\ Len(working) = Len(work.gates)
      /\ Equivalent(source, Working) /\ WellFormed(Working)
  BY <1>1, WorkingIs DEF TogetherSafe, Like
<1>4. PICK cc : cc = Head(proposals)
  OBVIOUS
<1>5. TfoVerdict(Working, idx, value) = "UNSAT"
        <=> Equivalent(Working, Rewritten(Working, StuckAt(idx, value)))
  <2>1. idx \in 1 .. Len(Working.gates)
    BY <1>2, <1>3
  <2>2. PICK d : d = Rewritten(Working, StuckAt(idx, value))
    OBVIOUS
  <2> HIDE DEF idx, value
  <2>3. TfoVerdict(Working, idx, value) = "UNSAT" <=> Equivalent(Working, d)
    BY <1>2, <1>3, <2>1, <2>2, TfoDecides
  <2> QED BY <2>2, <2>3
<1>6. accepted = <<>> => Working = work
  BY <1>3, NothingIsReplacement
<1> HIDE DEF idx, value
<1>7. \/ UNCHANGED <<working, accepted>> /\ (accepted = <<>> => slow)
      \/ /\ accepted' = With(accepted, idx, value)
         /\ working' = ApplyAccepts(working, StuckAt(idx, value))
         /\ TfoVerdict(Working, idx, value) = "UNSAT"
  <2>1. accepted = <<>> => idx \notin DOMAIN accepted /\ TfoVerdict(Working, idx, value) = "UNSAT"
    BY <1>1, <1>2, <1>6 DEF BarrierProofs, idx, value
  <2>2. \A verdict \in RecheckVerdict(idx, value) :
          \/ verdict = TfoVerdict(Working, idx, value)
          \/ slow /\ verdict = "TIMEOUT"
    BY DEF RecheckVerdict
  <2> QED BY <1>1, <2>1, <2>2
<1>8. PlacesOK' /\ ChosenOK' /\ OutputSafe' /\ BatchProofs' /\ SweepProofs'
  <2>1. PlacesOK'
    BY <1>1 DEF PlacesOK
  <2>2. ChosenOK'
    BY <1>1, <1>2 DEF ChosenOK, PlacesOK
  <2> QED BY <1>1, <2>1, <2>2 DEF OutputSafe, BatchProofs, SweepProofs
<1>9. CASE UNCHANGED <<working, accepted>> /\ (accepted = <<>> => slow)
  <2>1. CircuitsOK' /\ ReplacedOK' /\ Working' = Working
    BY <1>1, <1>9, SourceLike, Kept
  <2>2. TogetherSafe'
    BY <1>1, <1>3, <2>1 DEF TogetherSafe
  <2>3. BarrierProofs'
    BY <1>1, <1>9 DEF BarrierProofs
  <2> QED BY <1>8, <2>1, <2>2, <2>3
<1>10. CASE /\ accepted' = With(accepted, idx, value)
            /\ working' = ApplyAccepts(working, StuckAt(idx, value))
            /\ TfoVerdict(Working, idx, value) = "UNSAT"
  <2>1. /\ CircuitsOK' /\ ReplacedOK' /\ accepted' # <<>>
        /\ Working' = Rewritten(Working, StuckAt(idx, value))
    BY <1>1, <1>2, <1>10, Extended
  <2>2. Equivalent(Working, Working')
    BY <1>5, <1>10, <2>1
  <2>3. TogetherSafe'
    BY <1>1, <1>3, <2>2 DEF TogetherSafe, Equivalent
  <2>4. BarrierProofs'
    BY <1>1, <2>1 DEF BarrierProofs
  <2> QED BY <1>8, <2>1, <2>3, <2>4
<1> QED BY <1>7, <1>9, <1>10

(* Rewrite keeps the invariant: what passed the recheck is restructured.   *)
LEMMA RewriteStep ==
  ASSUME IInv, engine = "barrier", Rewrite, UNCHANGED <<engine, sweep>>
  PROVE  IInv'
<1> USE DEF IInv
<1>1. /\ pc = "recheck" /\ proposals = <<>>
      /\ UNCHANGED <<slow, source, work, found, proposals, working, accepted>>
      /\ UNCHANGED <<engine, pass, changed, round>>
      /\ \/ accepted = <<>> /\ pc' = "classify" /\ UNCHANGED candidate
         \/ accepted # <<>> /\ pc' = "cec" /\ candidate' = Strash(Rewritten(work, accepted))
  BY DEF Rewrite, sweep
<1>2. /\ Working = Rewritten(work, accepted) /\ Like(work, Working)
      /\ Equivalent(source, Working) /\ WellFormed(Working) /\ Like(source, work)
  BY <1>1, WorkingIs, SourceLike DEF TogetherSafe, Like
<1>3. Like(source, Working) /\ Same(Working, Strash(Working)) /\ Like(Working, Strash(Working))
  BY <1>2, SameSame, StrashSame DEF Same
<1>4. Like(source, Strash(Working)) /\ Equivalent(source, Strash(Working))
  BY <1>2, <1>3, SameSame DEF Same, Equivalent
<1>5. Like(source, candidate')
  BY <1>1, <1>2, <1>4, SourceLike
<1>6. CircuitsOK' /\ ReplacedOK' /\ Working' = Working
  BY <1>1, <1>5, Kept
<1>7. PlacesOK'
  BY <1>1 DEF PlacesOK
<1>8. ChosenOK'
  BY <1>1 DEF ChosenOK
<1>9. TogetherSafe'
  BY <1>1, <1>2, <1>6 DEF TogetherSafe
<1>10. OutputSafe'
  BY <1>1, <1>2, <1>4 DEF OutputSafe
<1>11. BarrierProofs' /\ BatchProofs' /\ SweepProofs'
  BY <1>1 DEF BarrierProofs, BatchProofs, SweepProofs
<1> QED BY <1>6, <1>7, <1>8, <1>9, <1>10, <1>11

(* Commit keeps the invariant, installed or failed.                        *)
LEMMA CommitStep ==
  ASSUME IInv, engine = "barrier", Commit, UNCHANGED <<engine, sweep>>
  PROVE  IInv'
<1> USE DEF IInv
<1>1. /\ pc = "cec" /\ UNCHANGED <<slow, source, proposals, candidate>>
      /\ UNCHANGED <<engine, pass, changed, round>>
      /\ \/ /\ Equivalent(source, candidate) /\ pc' = "classify" /\ work' = candidate
            /\ working' = candidate.gates /\ accepted' = <<>> /\ found' = {}
         \/ pc' = "failed" /\ UNCHANGED <<work, found, working, accepted>>
  BY DEF Commit, CecVerdict, Install, sweep
<1>2. PlacesOK'
  BY <1>1 DEF PlacesOK
<1>3. proposals = <<>>
  BY <1>1 DEF ChosenOK
<1>4. OutputSafe' /\ BarrierProofs' /\ BatchProofs' /\ SweepProofs'
  BY <1>1 DEF OutputSafe, BarrierProofs, BatchProofs, SweepProofs
<1>5. CASE /\ Equivalent(source, candidate) /\ pc' = "classify" /\ work' = candidate
           /\ working' = candidate.gates /\ accepted' = <<>> /\ found' = {}
  <2>1. WellFormed(source) /\ Same(source, work') /\ Like(source, candidate') /\ working' = work'.gates
    BY <1>1, <1>5, SourceLike DEF Same
  <2>2. CircuitsOK' /\ ReplacedOK' /\ TogetherSafe'
    BY <1>1, <1>5, <2>1, Cleared
  <2>3. ChosenOK'
    BY <1>1, <1>3, <1>5 DEF ChosenOK
  <2> QED BY <1>2, <1>4, <2>2, <2>3
<1>6. CASE pc' = "failed" /\ UNCHANGED <<work, found, working, accepted>>
  <2>1. CircuitsOK' /\ ReplacedOK' /\ Working' = Working
    BY <1>1, <1>6, SourceLike, Kept
  <2>2. TogetherSafe'
    BY <1>1, <1>6, <2>1 DEF TogetherSafe
  <2>3. ChosenOK'
    BY <1>1, <1>3, <1>6 DEF ChosenOK
  <2> QED BY <1>2, <1>4, <2>1, <2>2, <2>3
<1> QED BY <1>1, <1>5, <1>6

-----------------------------------------------------------------------------
(* No step of Algorithm 8 breaks the invariant.                            *)

(* A queue in order has the candidates it is made of.                      *)
LEMMA InOrderOf ==
  ASSUME CircuitsOK, NEW S, S \subseteq Candidates(work), NEW ones, NEW q, q = InOrder(S, ones)
  PROVE  /\ q \in Seq(S) /\ (q = <<>> => S = {}) /\ S \subseteq ToSet(q) /\ ToSet(q) \subseteq S
<1>1. WellFormed(work)
  BY SourceLike
<1>2. Lists(q, S)
  BY <1>1, InOrderIs
<1>3. q \in Seq(S) /\ \A x \in S : \E n \in 1 .. Len(q) : q[n] = x
  BY <1>2 DEF Lists
<1>4. S \subseteq ToSet(q) /\ ToSet(q) \subseteq S
  BY <1>3 DEF ToSet
<1> QED BY <1>3, <1>4

(* A batch of candidates as one replacement.                               *)
LEMMA StuckReplaces ==
  ASSUME NEW c, WellFormed(c), NEW S, S \subseteq Candidates(c)
  PROVE  /\ IsReplacement(c, Stuck(S)) /\ DOMAIN Stuck(S) = {k[1] : k \in S}
         /\ S # {} => Stuck(S) # <<>>
<1> DEFINE D == {k[1] : k \in S}
<1>1. \A k \in S : k[1] \in 1 .. Len(c.gates) /\ k[2] \in {0, 1}
  BY CandidateIs
<1>2. \A i \in D : (CHOOSE k \in S : k[1] = i)[2] \in {0, 1}
  <2> SUFFICES ASSUME NEW i \in D PROVE (CHOOSE k \in S : k[1] = i)[2] \in {0, 1}
    OBVIOUS
  <2>1. (CHOOSE k \in S : k[1] = i) \in S
    OBVIOUS
  <2> QED BY <1>1, <2>1
<1>3. D \subseteq 1 .. Len(c.gates)
  BY <1>1
<1>4. PICK a : a = Stuck(S)
  OBVIOUS
<1>5. DOMAIN a = D /\ a = [i \in DOMAIN a |-> a[i]]
  BY <1>4 DEF Stuck
<1>6. \A i \in DOMAIN a : a[i] \in {0, 1}
  BY <1>2, <1>4 DEF Stuck
<1>7. IsReplacement(c, a)
  BY <1>3, <1>5, <1>6 DEF IsReplacement
<1>8. S # {} => D # {}
  OBVIOUS
<1>9. S # {} => a # <<>>
  BY <1>5, <1>7, <1>8, EmptyIs
<1> QED BY <1>4, <1>5, <1>7, <1>9

(* A whole set of constants on the gates of the work AAG.                  *)
LEMMA ReplacedAtOnce ==
  ASSUME CircuitsOK, NEW a, IsReplacement(work, a), UNCHANGED <<source, work>>,
         accepted' = a, working' = ApplyAccepts(work.gates, a), candidate' = Strash(Rewritten(work, a))
  PROVE  /\ CircuitsOK' /\ ReplacedOK'
         /\ Equivalent(work, Rewritten(work, a)) => Equivalent(source, candidate')
<1>1. WellFormed(work) /\ Like(source, work) /\ Equivalent(source, work)
  BY SourceLike
<1>2. PICK d : d = Rewritten(work, a)
  OBVIOUS
<1>3. Like(work, d) /\ WellFormed(d)
  BY <1>1, <1>2, RewrittenLike DEF Like
<1>4. Same(d, Strash(d)) /\ Like(d, Strash(d))
  BY <1>3, StrashSame DEF Same
<1>5. Like(source, d)
  BY <1>1, <1>3, SameSame
<1>6. Like(source, Strash(d))
  BY <1>4, <1>5, SameSame
<1>7. CircuitsOK'
  BY <1>2, <1>6 DEF CircuitsOK
<1>8. ReplacedOK'
  BY DEF ReplacedOK
<1>9. Equivalent(work, d) => Equivalent(source, Strash(d))
  BY <1>1, <1>4 DEF Same, Equivalent
<1> QED BY <1>2, <1>7, <1>8, <1>9

(* BatchSweep keeps the invariant: the batch is made of proofs, and is     *)
(* empty only if there is none.                                            *)
LEMMA BatchSweepStep ==
  ASSUME IInv, BatchSweep
  PROVE  IInv'
<1> USE DEF IInv
<1>1. /\ engine = "batch" /\ pc = "classify"
      /\ proposals' = InOrder(ConflictFree(found'), {})
      /\ accepted' = Stuck(ToSet(proposals'))
      /\ working' = ApplyAccepts(work.gates, accepted')
      /\ candidate' = Strash(Rewritten(work, accepted'))
      /\ pc' = IF proposals' = <<>> THEN "written" ELSE "verify"
      /\ UNCHANGED <<slow, source, work, engine>> /\ UNCHANGED <<pass, changed, round>>
  BY DEF BatchSweep, sweep
<1>2. PICK answered \in SUBSET ProvedAlone : found' = FirstValues(answered)
  BY DEF BatchSweep
<1>3. found' \subseteq ProvedAlone /\ found' \subseteq Candidates(work)
  BY <1>2 DEF FirstValues, ProvedAlone
<1>4. PICK chosen : chosen = ConflictFree(found')
  OBVIOUS
<1>5. chosen \subseteq found' /\ (found' # {} => chosen # {})
  BY <1>3, <1>4, SourceLike, ConflictFreeIs
<1>6. /\ proposals' \in Seq(chosen) /\ (proposals' = <<>> => chosen = {})
      /\ ToSet(proposals') = chosen /\ chosen \subseteq Candidates(work)
  <2>1. chosen \subseteq Candidates(work) /\ proposals' = InOrder(chosen, {})
    BY <1>1, <1>3, <1>4, <1>5
  <2>2. PICK q : q = InOrder(chosen, {})
    OBVIOUS
  <2>3. /\ q \in Seq(chosen) /\ (q = <<>> => chosen = {})
        /\ chosen \subseteq ToSet(q) /\ ToSet(q) \subseteq chosen
    BY <2>1, <2>2, InOrderOf
  <2>4. ToSet(q) = chosen /\ proposals' = q
    BY <2>1, <2>2, <2>3
  <2> QED BY <2>1, <2>3, <2>4
<1>7. PICK a : a = Stuck(chosen)
  OBVIOUS
<1>8. /\ IsReplacement(work, a) /\ DOMAIN a = {k[1] : k \in chosen}
      /\ chosen # {} => a # <<>>
  BY <1>6, <1>7, SourceLike, StuckReplaces
<1>9. /\ accepted' = a /\ working' = ApplyAccepts(work.gates, a)
      /\ candidate' = Strash(Rewritten(work, a))
  BY <1>1, <1>6, <1>7
<1>10. /\ CircuitsOK' /\ ReplacedOK'
       /\ Equivalent(work, Rewritten(work, a)) => Equivalent(source, candidate')
  BY <1>1, <1>8, <1>9, ReplacedAtOnce
<1>11. PlacesOK'
  BY <1>1 DEF PlacesOK
<1>12. ChosenOK'
  <2>1. proposals' \in Seq(found')
    BY <1>5, <1>6
  <2>2. DOMAIN accepted' \subseteq {k[1] : k \in found'}
    BY <1>5, <1>8, <1>9
  <2> QED BY <1>1, <1>3, <2>1, <2>2 DEF ChosenOK
<1>13. TogetherSafe' /\ BarrierProofs' /\ SweepProofs'
  BY <1>1 DEF TogetherSafe, BarrierProofs, SweepProofs
<1>14. OutputSafe'
  <2> SUFFICES ASSUME pc' = "written" PROVE Equivalent(source, candidate')
    BY <1>1 DEF OutputSafe
  <2>1. chosen = {}
    BY <1>1, <1>6
  <2>2. DOMAIN a = {}
    BY <1>8, <2>1
  <2>3. Rewritten(work, a) = work
    BY <2>2, SourceLike, NoReplacement
  <2>4. Equivalent(work, Rewritten(work, a))
    BY <2>3 DEF Equivalent
  <2> QED BY <1>10, <2>4
<1>15. BatchProofs'
  <2>1. ProvedAlone' = ProvedAlone
    BY <1>1 DEF ProvedAlone, ProvedWith
  <2>2. found' # {} => proposals' # <<>> /\ accepted' # <<>>
    BY <1>5, <1>6, <1>8, <1>9
  <2>3. proposals' # <<>> => accepted' # <<>>
    <3>1. proposals' # <<>> => chosen # {}
      BY <1>6
    <3> QED BY <1>8, <1>9, <3>1
  <2> QED BY <1>1, <1>3, <2>1, <2>2, <2>3 DEF BatchProofs
<1> QED BY <1>10, <1>11, <1>12, <1>13, <1>14, <1>15

(* BatchVerify keeps the invariant: it goes on with a verified output or   *)
(* with nothing replaced.                                                  *)
LEMMA BatchVerifyStep ==
  ASSUME IInv, BatchVerify
  PROVE  IInv'
<1> USE DEF IInv
<1>1. /\ pc = "verify"
      /\ UNCHANGED <<slow, source, work, found, proposals, candidate, engine>>
      /\ UNCHANGED <<pass, changed, round>>
      /\ \/ Equivalent(source, candidate) /\ pc' = "written" /\ UNCHANGED <<working, accepted>>
         \/ pc' = "fallback" /\ working' = work.gates /\ accepted' = <<>>
  BY DEF BatchVerify, CecVerdict, TakenBack, sweep
<1>2. engine = "batch"
  BY <1>1 DEF PlacesOK
<1>3. PlacesOK'
  BY <1>1, <1>2 DEF PlacesOK
<1>4. BarrierProofs' /\ SweepProofs' /\ OutputSafe'
  BY <1>1, <1>2 DEF BarrierProofs, SweepProofs, OutputSafe
<1>5. ProvedAlone' = ProvedAlone
  BY <1>1 DEF ProvedAlone, ProvedWith
<1>6. BatchProofs'
  BY <1>1, <1>2, <1>5 DEF BatchProofs
<1>7. CASE Equivalent(source, candidate) /\ pc' = "written" /\ UNCHANGED <<working, accepted>>
  <2>1. CircuitsOK' /\ ReplacedOK' /\ Working' = Working
    BY <1>1, <1>7, SourceLike, Kept
  <2>2. TogetherSafe' /\ ChosenOK'
    BY <1>1, <1>2, <1>7 DEF TogetherSafe, ChosenOK
  <2> QED BY <1>3, <1>4, <1>6, <2>1, <2>2
<1>8. CASE pc' = "fallback" /\ working' = work.gates /\ accepted' = <<>>
  <2>1. WellFormed(source) /\ Same(source, work') /\ Like(source, candidate') /\ working' = work'.gates
    BY <1>1, <1>8 DEF CircuitsOK
  <2>2. CircuitsOK' /\ ReplacedOK' /\ TogetherSafe'
    BY <1>1, <1>8, <2>1, Cleared
  <2>3. ChosenOK'
    BY <1>1, <1>2, <1>8 DEF ChosenOK
  <2> QED BY <1>3, <1>4, <1>6, <2>2, <2>3
<1> QED BY <1>1, <1>7, <1>8

(* BatchTrial keeps the invariant: only a verified trial is accepted, and  *)
(* the first one verifies, because its candidate was proved.               *)
LEMMA BatchTrialStep ==
  ASSUME IInv, BatchTrial
  PROVE  IInv'
<1> USE DEF IInv
<1> DEFINE idx == Head(proposals)[1]
           value == Head(proposals)[2]
           trial == ApplyAccepts(working, StuckAt(idx, value))
<1>1. /\ pc = "fallback" /\ proposals # <<>> /\ proposals' = Tail(proposals)
      /\ UNCHANGED <<slow, source, work, found, candidate, pc, engine>>
      /\ UNCHANGED <<pass, changed, round>>
      /\ \E verdict \in TrialVerdict([work EXCEPT !.gates = trial]) :
           IF verdict = "PASS"
           THEN working' = trial /\ accepted' = With(accepted, idx, value)
           ELSE UNCHANGED <<working, accepted>>
  BY DEF BatchTrial, sweep
<1>2. engine = "batch"
  BY <1>1 DEF PlacesOK
<1>3. /\ idx \in 1 .. Len(work.gates) /\ value \in {0, 1}
      /\ Head(proposals) \in found /\ Tail(proposals) \in Seq(found)
  BY <1>1, HeadIs
<1>4. PICK d : d = [work EXCEPT !.gates = trial]
  OBVIOUS
<1> HIDE DEF idx, value
<1>5. d = Rewritten(work, With(accepted, idx, value)) /\ IsReplacement(work, With(accepted, idx, value))
      /\ DOMAIN With(accepted, idx, value) = DOMAIN accepted \cup {idx}
  BY <1>3, <1>4, WorkingMore
<1>6. WellFormed(d)
  BY <1>5, SourceLike, RewrittenLike DEF Like
<1>7. Equivalent(source, Strash(d)) <=> Equivalent(source, d)
  BY <1>6, StrashSame DEF Same, Equivalent
<1>8. accepted = <<>> => Equivalent(source, d)
  <2> SUFFICES ASSUME accepted = <<>> PROVE Equivalent(source, d)
    OBVIOUS
  <2>1. working = work.gates
    BY SourceLike, NothingIsReplacement DEF ReplacedOK
  <2>2. d = Rewritten(work, StuckAt(idx, value))
    BY <1>4, <2>1 DEF Rewritten
  <2>3. Head(proposals) \in ProvedAlone
    BY <1>1, <1>3 DEF BatchProofs
  <2>4. Equivalent(work, Rewritten(work, StuckAt(idx, value)))
    BY <2>3 DEF ProvedAlone, ProvedWith, idx, value
  <2> QED BY <2>2, <2>4, SourceLike DEF Equivalent
<1>9. \/ UNCHANGED <<working, accepted>> /\ (accepted = <<>> => slow)
      \/ /\ accepted' = With(accepted, idx, value)
         /\ working' = ApplyAccepts(working, StuckAt(idx, value)) /\ Equivalent(source, d)
  <2>1. PICK verdict \in TrialVerdict(d) :
           IF verdict = "PASS"
           THEN working' = trial /\ accepted' = With(accepted, idx, value)
           ELSE UNCHANGED <<working, accepted>>
    BY <1>1, <1>4
  <2>2. \/ slow /\ verdict = "TIMEOUT"
        \/ Equivalent(source, d) /\ verdict = "PASS"
        \/ ~Equivalent(source, d) /\ verdict = "FAIL"
    BY <1>7, <2>1 DEF TrialVerdict
  <2> QED BY <1>8, <2>1, <2>2
<1>10. PlacesOK' /\ BarrierProofs' /\ SweepProofs' /\ OutputSafe'
  BY <1>1, <1>2 DEF PlacesOK, BarrierProofs, SweepProofs, OutputSafe
<1>11. ProvedAlone' = ProvedAlone
  BY <1>1 DEF ProvedAlone, ProvedWith
<1>12. CASE UNCHANGED <<working, accepted>> /\ (accepted = <<>> => slow)
  <2>1. CircuitsOK' /\ ReplacedOK' /\ Working' = Working
    BY <1>1, <1>12, SourceLike, Kept
  <2>2. TogetherSafe' /\ ChosenOK'
    BY <1>1, <1>2, <1>3, <1>12, <2>1 DEF TogetherSafe, ChosenOK
  <2>3. BatchProofs'
    BY <1>1, <1>2, <1>11, <1>12 DEF BatchProofs
  <2> QED BY <1>10, <2>1, <2>2, <2>3
<1>13. CASE /\ accepted' = With(accepted, idx, value)
            /\ working' = ApplyAccepts(working, StuckAt(idx, value)) /\ Equivalent(source, d)
  <2>1. /\ CircuitsOK' /\ ReplacedOK' /\ accepted' # <<>>
        /\ Working' = Rewritten(work, With(accepted, idx, value))
    BY <1>1, <1>3, <1>13, Extended
  <2>2. TogetherSafe'
    BY <1>1, <1>5, <1>13, <2>1 DEF TogetherSafe
  <2>3. DOMAIN accepted' \subseteq {k[1] : k \in found}
    <3>1. idx \in {k[1] : k \in found}
      BY <1>3 DEF idx
    <3>2. DOMAIN accepted \subseteq {k[1] : k \in found}
      BY <1>2 DEF ChosenOK
    <3> QED BY <1>5, <1>13, <3>1, <3>2
  <2>4. ChosenOK'
    BY <1>1, <1>2, <1>3, <2>3 DEF ChosenOK
  <2>5. BatchProofs'
    BY <1>1, <1>2, <1>11, <2>1 DEF BatchProofs
  <2> QED BY <1>10, <2>1, <2>2, <2>4, <2>5
<1> QED BY <1>9, <1>12, <1>13

(* BatchWrite keeps the invariant: the verified trials are restructured.   *)
LEMMA BatchWriteStep ==
  ASSUME IInv, BatchWrite
  PROVE  IInv'
<1> USE DEF IInv
<1>1. /\ pc = "fallback" /\ proposals = <<>> /\ candidate' = Strash(Working) /\ pc' = "written"
      /\ UNCHANGED <<slow, source, work, found, proposals, working, accepted, engine>>
      /\ UNCHANGED <<pass, changed, round>>
  BY DEF BatchWrite, sweep
<1>2. engine = "batch"
  BY <1>1 DEF PlacesOK
<1>3. /\ Like(work, Working) /\ Equivalent(source, Working) /\ WellFormed(Working)
      /\ Like(source, work)
  BY <1>1, WorkingIs, SourceLike DEF TogetherSafe, Like
<1>4. Same(Working, Strash(Working)) /\ Like(Working, Strash(Working))
  BY <1>3, StrashSame DEF Same
<1>5. Like(source, Working)
  BY <1>3, SameSame
<1>6. Like(source, Strash(Working)) /\ Equivalent(source, Strash(Working))
  BY <1>3, <1>4, <1>5, SameSame DEF Same, Equivalent
<1>7. CircuitsOK' /\ ReplacedOK' /\ Working' = Working
  BY <1>1, <1>6, Kept
<1>8. PlacesOK' /\ ChosenOK' /\ TogetherSafe' /\ OutputSafe'
  BY <1>1, <1>2, <1>6 DEF PlacesOK, ChosenOK, TogetherSafe, OutputSafe
<1>9. BarrierProofs' /\ SweepProofs'
  BY <1>1 DEF BarrierProofs, SweepProofs
<1>10. BatchProofs'
  BY <1>1, <1>2 DEF BatchProofs
<1> QED BY <1>7, <1>8, <1>9, <1>10

-----------------------------------------------------------------------------
(* No step of Algorithm 9 breaks the invariant.                            *)

(* The bounds of the sweep are positive.                                   *)
LEMMA BoundsIs ==
  MaxPasses \in Nat /\ MaxPasses # 0 /\ RebuildRounds \in Nat /\ RebuildRounds # 0
BY SweepAssumption

(* A queue of the sweep has the candidates it is made of.                  *)
LEMMA QueueOf ==
  ASSUME CircuitsOK, NEW S, S \subseteq Candidates(work), NEW q, q = Queue(S)
  PROVE  q \in Seq(S) /\ (q = <<>> => S = {}) /\ S \subseteq ToSet(q)
<1>1. PICK ones : q = InOrder(S, ones)
  BY DEF Queue
<1> QED BY <1>1, InOrderOf

(* SweepBegin keeps the invariant: everything found is still to be asked.  *)
LEMMA SweepBeginStep ==
  ASSUME IInv, SweepBegin
  PROVE  IInv'
<1> USE DEF IInv
<1>1. /\ engine = "sweep" /\ pc = "classify" /\ proposals' = Queue(found')
      /\ working' = work.gates /\ accepted' = <<>> /\ pass' = 1 /\ changed' = FALSE
      /\ pc' = IF found' = {} THEN "rebuild" ELSE "sweep"
      /\ UNCHANGED <<slow, source, work, candidate, engine, round>>
  BY DEF SweepBegin
<1>2. PICK missed \in SUBSET (Candidates(work) \ ProvedAlone) : found' = ProvedAlone \cup missed
  BY DEF SweepBegin
<1>3. found' \subseteq Candidates(work) /\ ProvedAlone \subseteq found'
  BY <1>2 DEF ProvedAlone
<1>4. PICK f : f = found'
  OBVIOUS
<1>5. PICK q : q = Queue(f)
  OBVIOUS
<1>6. q \in Seq(f) /\ f \subseteq ToSet(q)
  BY <1>3, <1>4, <1>5, QueueOf
<1>7. proposals' = q
  BY <1>1, <1>4, <1>5
<1>8. PlacesOK'
  <2>1. 1 \in 0 .. MaxPasses
    BY BoundsIs
  <2> QED BY <1>1, <2>1 DEF PlacesOK
<1>9. CircuitsOK' /\ ReplacedOK' /\ TogetherSafe'
  <2>1. WellFormed(source) /\ Same(source, work') /\ Like(source, candidate') /\ working' = work'.gates
    BY <1>1 DEF CircuitsOK
  <2> QED BY <1>1, <2>1, Cleared
<1>10. ChosenOK'
  BY <1>1, <1>3, <1>4, <1>6, <1>7 DEF ChosenOK
<1>11. OutputSafe' /\ BarrierProofs' /\ BatchProofs'
  BY <1>1 DEF OutputSafe, BarrierProofs, BatchProofs
<1>12. ProvedAlone' = ProvedAlone
  BY <1>1 DEF ProvedAlone, ProvedWith
<1>13. SweepProofs'
  <2>1. \A k \in found' : k \in ToSet(proposals')
    BY <1>4, <1>6, <1>7
  <2> QED BY <1>3, <1>12, <2>1 DEF SweepProofs
<1> QED BY <1>8, <1>9, <1>10, <1>11, <1>13

(* SweepQuery keeps the invariant: with all earlier faults assumed, a proof*)
(* is one of the whole set of accepted constants; a refuted candidate stays*)
(* refuted while nothing else is accepted.                                 *)
LEMMA SweepQueryStep ==
  ASSUME IInv, SweepQuery
  PROVE  IInv'
<1> USE DEF IInv
<1> DEFINE idx == Head(proposals)[1]
           value == Head(proposals)[2]
<1>1. /\ pc = "sweep" /\ proposals # <<>> /\ proposals' = Tail(proposals)
      /\ UNCHANGED <<slow, source, work, found, candidate, engine, pass, round>>
      /\ \/ /\ idx \notin DOMAIN accepted /\ ProvedWith(SweepFaults(idx, value))
            /\ accepted' = With(accepted, idx, value)
            /\ working' = ApplyAccepts(working, StuckAt(idx, value))
            /\ changed' = TRUE /\ pc' \in {"rebuild", "sweep"}
         \/ /\ idx \in DOMAIN accepted \/ slow \/ ~ProvedWith(SweepFaults(idx, value))
            /\ UNCHANGED <<accepted, working, changed, pc>>
  BY DEF SweepQuery, Unasked
<1>2. engine = "sweep"
  BY <1>1 DEF PlacesOK
<1>3. /\ idx \in 1 .. Len(work.gates) /\ value \in {0, 1}
      /\ Head(proposals) \in found /\ Tail(proposals) \in Seq(found)
      /\ \A x \in ToSet(proposals) : x = Head(proposals) \/ x \in ToSet(Tail(proposals))
  BY <1>1, HeadIs
<1>4. PlacesOK'
  BY <1>1, <1>2 DEF PlacesOK
<1>5. OutputSafe' /\ BarrierProofs' /\ BatchProofs'
  BY <1>1, <1>2 DEF OutputSafe, BarrierProofs, BatchProofs
<1>6. ProvedAlone' = ProvedAlone
  BY <1>1 DEF ProvedAlone, ProvedWith
<1>7. CASE /\ idx \notin DOMAIN accepted /\ ProvedWith(SweepFaults(idx, value))
           /\ accepted' = With(accepted, idx, value)
           /\ working' = ApplyAccepts(working, StuckAt(idx, value))
           /\ changed' = TRUE /\ pc' \in {"rebuild", "sweep"}
  <2> HIDE DEF idx, value
  <2>1. /\ CircuitsOK' /\ ReplacedOK' /\ accepted' # <<>>
        /\ Working' = Rewritten(work, With(accepted, idx, value))
    BY <1>1, <1>3, <1>7, Extended
  <2>2. Equivalent(work, Working')
    BY <1>7, <2>1 DEF ProvedWith, SweepFaults
  <2>3. TogetherSafe'
    BY <1>1, <2>2, SourceLike DEF TogetherSafe, Equivalent
  <2>4. DOMAIN accepted' = DOMAIN accepted \cup {idx}
    BY <1>3, <1>7, WorkingMore
  <2>5. DOMAIN accepted' \subseteq {k[1] : k \in found}
    <3>1. idx \in {k[1] : k \in found}
      BY <1>3 DEF idx
    <3>2. DOMAIN accepted \subseteq {k[1] : k \in found}
      BY <1>2 DEF ChosenOK
    <3> QED BY <2>4, <3>1, <3>2
  <2>6. ChosenOK'
    BY <1>1, <1>2, <1>3, <2>5 DEF ChosenOK
  <2>7. SweepProofs'
    BY <1>1, <1>6, <1>7 DEF SweepProofs
  <2> QED BY <1>4, <1>5, <2>1, <2>3, <2>6, <2>7
<1>8. CASE /\ idx \in DOMAIN accepted \/ slow \/ ~ProvedWith(SweepFaults(idx, value))
           /\ UNCHANGED <<accepted, working, changed, pc>>
  <2>1. CircuitsOK' /\ ReplacedOK' /\ Working' = Working
    BY <1>1, <1>8, SourceLike, Kept
  <2>2. TogetherSafe' /\ ChosenOK'
    BY <1>1, <1>2, <1>3, <1>8, <2>1 DEF TogetherSafe, ChosenOK
  <2>3. ASSUME ~changed, ~slow, NEW k \in found
        PROVE  \/ k \in ToSet(proposals')
               \/ k[1] \in DOMAIN accepted
               \/ ~ProvedWith(SweepFaults(k[1], k[2]))
    <3>1. \/ k \in ToSet(proposals) \/ k[1] \in DOMAIN accepted
          \/ ~ProvedWith(SweepFaults(k[1], k[2]))
      BY <1>1, <2>3 DEF SweepProofs
    <3>2. CASE k \in ToSet(proposals)
      <4>1. k = Head(proposals) \/ k \in ToSet(proposals')
        BY <1>1, <1>3, <3>2
      <4> QED BY <1>8, <2>3, <4>1
    <3> QED BY <3>1, <3>2
  <2>4. \A k : ProvedWith(SweepFaults(k[1], k[2]))' = ProvedWith(SweepFaults(k[1], k[2]))
    BY <1>1, <1>8 DEF ProvedWith, SweepFaults
  <2>5. SweepProofs'
    BY <1>1, <1>6, <1>8, <2>3, <2>4 DEF SweepProofs
  <2> QED BY <1>4, <1>5, <2>1, <2>2, <2>5
<1> QED BY <1>1, <1>7, <1>8

(* SweepAborts keeps the invariant.                                        *)
LEMMA SweepAbortsStep ==
  ASSUME IInv, SweepAborts
  PROVE  IInv'
<1> USE DEF IInv
<1>1. /\ pc = "sweep" /\ pc' = "aborted"
      /\ UNCHANGED <<slow, source, work, found, proposals, working, accepted, candidate>>
      /\ UNCHANGED <<engine, pass, changed, round>>
  BY DEF SweepAborts, sweep
<1>2. engine = "sweep"
  BY <1>1 DEF PlacesOK
<1>3. CircuitsOK' /\ ReplacedOK' /\ Working' = Working
  BY <1>1, SourceLike, Kept
<1>4. PlacesOK' /\ ChosenOK' /\ TogetherSafe' /\ OutputSafe'
  BY <1>1, <1>2, <1>3 DEF PlacesOK, ChosenOK, TogetherSafe, OutputSafe
<1>5. BarrierProofs' /\ BatchProofs' /\ SweepProofs'
  BY <1>1 DEF BarrierProofs, BatchProofs, SweepProofs
<1> QED BY <1>3, <1>4, <1>5

(* SweepRaises keeps the invariant.                                        *)
LEMMA SweepRaisesStep ==
  ASSUME IInv, SweepRaises
  PROVE  IInv'
<1> USE DEF IInv
<1>1. /\ pc = "sweep" /\ pc' = "aborted" /\ working' = work.gates /\ accepted' = <<>>
      /\ UNCHANGED <<slow, source, work, found, proposals, candidate>>
      /\ UNCHANGED <<engine, pass, changed, round>>
  BY DEF SweepRaises, sweep
<1>2. engine = "sweep"
  BY <1>1 DEF PlacesOK
<1>3. CircuitsOK' /\ ReplacedOK' /\ TogetherSafe'
  <2>1. WellFormed(source) /\ Same(source, work') /\ Like(source, candidate') /\ working' = work'.gates
    BY <1>1 DEF CircuitsOK
  <2> QED BY <1>1, <2>1, Cleared
<1>4. PlacesOK' /\ ChosenOK' /\ OutputSafe'
  BY <1>1, <1>2 DEF PlacesOK, ChosenOK, OutputSafe
<1>5. BarrierProofs' /\ BatchProofs' /\ SweepProofs'
  BY <1>1 DEF BarrierProofs, BatchProofs, SweepProofs
<1> QED BY <1>3, <1>4, <1>5

(* SweepPassEnds keeps the invariant: the next pass asks for everything    *)
(* again.                                                                  *)
LEMMA SweepPassEndsStep ==
  ASSUME IInv, SweepPassEnds
  PROVE  IInv'
<1> USE DEF IInv
<1>1. /\ pc = "sweep"
      /\ UNCHANGED <<slow, source, work, found, working, accepted, candidate, engine, round>>
      /\ \/ /\ changed /\ pass < MaxPasses /\ proposals' = Queue(found) /\ pass' = pass + 1
            /\ changed' = FALSE /\ UNCHANGED pc
         \/ pc' = "rebuild" /\ UNCHANGED <<proposals, pass, changed>>
  BY DEF SweepPassEnds
<1>2. engine = "sweep"
  BY <1>1 DEF PlacesOK
<1>3. CircuitsOK' /\ ReplacedOK' /\ Working' = Working
  BY <1>1, SourceLike, Kept
<1>4. TogetherSafe' /\ OutputSafe' /\ BarrierProofs' /\ BatchProofs'
  BY <1>1, <1>3 DEF TogetherSafe, OutputSafe, BarrierProofs, BatchProofs
<1>5. PICK q : q = Queue(found)
  OBVIOUS
<1>6. q \in Seq(found) /\ found \subseteq ToSet(q)
  <2>1. found \subseteq Candidates(work)
    BY DEF ChosenOK
  <2> QED BY <1>5, <2>1, QueueOf
<1>7. PlacesOK'
  <2>1. pass \in Nat /\ pass <= MaxPasses
    BY BoundsIs DEF PlacesOK
  <2>2. pass' \in 0 .. MaxPasses
    BY <1>1, <2>1, BoundsIs
  <2> QED BY <1>1, <1>2, <2>2 DEF PlacesOK
<1>8. ChosenOK'
  BY <1>1, <1>2, <1>5, <1>6 DEF ChosenOK
<1>9. SweepProofs'
  <2>1. ProvedAlone' = ProvedAlone
    BY <1>1 DEF ProvedAlone, ProvedWith
  <2>2. CASE pc' = "rebuild"
    BY <2>2 DEF SweepProofs
  <2>3. CASE proposals' = q /\ UNCHANGED pc
    <3>1. \A k \in found : k \in ToSet(proposals')
      BY <1>6, <2>3
    <3> QED BY <1>1, <2>1, <2>3, <3>1 DEF SweepProofs
  <2> QED BY <1>1, <1>5, <2>2, <2>3
<1> QED BY <1>3, <1>4, <1>7, <1>8, <1>9

(* The circuit that is rewritten from what was accepted.                   *)
LEMMA RebuiltIs ==
  ASSUME CircuitsOK, ReplacedOK, Equivalent(source, Working)
  PROVE  Same(source, Strash(Rewritten(work, accepted)))
<1>1. /\ Working = Rewritten(work, accepted) /\ Like(work, Working) /\ WellFormed(Working)
      /\ Like(source, work)
  BY WorkingIs, SourceLike DEF Like
<1>2. Same(Working, Strash(Working)) /\ Like(Working, Strash(Working))
  BY <1>1, StrashSame DEF Same
<1>3. Like(source, Working)
  BY <1>1, SameSame
<1>4. Like(source, Strash(Working)) /\ Equivalent(source, Strash(Working))
  BY <1>2, <1>3, SameSame DEF Same, Equivalent
<1> QED BY <1>1, <1>4 DEF Same

(* SweepRebuild keeps the invariant: what was proved together is           *)
(* restructured together, and nothing is left of it.                       *)
LEMMA SweepRebuildStep ==
  ASSUME IInv, SweepRebuild
  PROVE  IInv'
<1> USE DEF IInv
<1>1. /\ pc \in {"rebuild", "aborted"} /\ found' = {} /\ proposals' = <<>>
      /\ UNCHANGED <<slow, source, engine, pass, changed>>
      /\ \/ /\ accepted = <<>> /\ candidate' = work /\ pc' = "written"
            /\ UNCHANGED <<work, working, accepted, round>>
         \/ /\ work' = Strash(Rewritten(work, accepted))
            /\ working' = work'.gates /\ candidate' = work' /\ accepted' = <<>>
            /\ round' = round + 1 /\ pc' \in {"written", "classify"}
            /\ pc' = "classify" => round # RebuildRounds
  BY DEF SweepRebuild
<1>2. engine = "sweep" /\ Equivalent(source, Working)
  BY <1>1 DEF PlacesOK, TogetherSafe
<1>3. BarrierProofs' /\ BatchProofs' /\ SweepProofs'
  BY <1>1, <1>2 DEF BarrierProofs, BatchProofs, SweepProofs
<1>4. PlacesOK'
  <2>1. round \in Nat /\ 1 <= round /\ round <= RebuildRounds
    BY <1>1, <1>2, BoundsIs DEF PlacesOK
  <2>2. /\ round' \in 1 .. RebuildRounds + 1
        /\ pc' # "written" => round' <= RebuildRounds
    BY <1>1, <2>1, BoundsIs
  <2> QED BY <1>1, <1>2, <2>2 DEF PlacesOK
<1>5. CASE /\ accepted = <<>> /\ candidate' = work /\ pc' = "written"
           /\ UNCHANGED <<work, working, accepted, round>>
  <2>1. CircuitsOK' /\ ReplacedOK' /\ Working' = Working
    BY <1>1, <1>5, SourceLike, Kept
  <2>2. TogetherSafe' /\ OutputSafe'
    BY <1>5, <1>1, SourceLike DEF TogetherSafe, OutputSafe
  <2>3. ChosenOK'
    <3>1. DOMAIN accepted' = {}
      BY <1>5
    <3> QED BY <1>1, <1>2, <3>1 DEF ChosenOK
  <2> QED BY <1>3, <1>4, <2>1, <2>2, <2>3
<1>6. CASE /\ work' = Strash(Rewritten(work, accepted))
           /\ working' = work'.gates /\ candidate' = work' /\ accepted' = <<>>
           /\ pc' \in {"written", "classify"}
  <2>1. Same(source, work') /\ Like(source, candidate') /\ Equivalent(source, candidate')
    BY <1>2, <1>6, RebuiltIs DEF Same
  <2>2. CircuitsOK' /\ ReplacedOK' /\ TogetherSafe'
    BY <1>1, <1>6, <2>1, SourceLike, Cleared
  <2>3. OutputSafe'
    BY <1>1, <1>6, <2>1 DEF OutputSafe
  <2>4. ChosenOK'
    <3>1. DOMAIN accepted' = {}
      BY <1>6
    <3> QED BY <1>1, <1>2, <3>1 DEF ChosenOK
  <2> QED BY <1>3, <1>4, <2>2, <2>3, <2>4
<1> QED BY <1>1, <1>5, <1>6

(* Nothing happens.                                                        *)
LEMMA StutterStep ==
  ASSUME IInv, UNCHANGED engineVars
  PROVE  IInv'
<1> USE DEF IInv, engineVars, vars, sweep
<1>1. PlacesOK' /\ ChosenOK'
  BY DEF PlacesOK, ChosenOK
<1>2. CircuitsOK' /\ ReplacedOK' /\ Working' = Working
  BY SourceLike, Kept
<1>3. TogetherSafe' /\ OutputSafe' /\ BarrierProofs'
  BY <1>2 DEF TogetherSafe, OutputSafe, BarrierProofs
<1>4. BatchProofs' /\ SweepProofs'
  BY DEF BatchProofs, SweepProofs, ProvedAlone, ProvedWith, SweepFaults
<1> QED BY <1>1, <1>2, <1>3, <1>4

(* The invariant holds in every state of every engine.                     *)
LEMMA InductiveInvariant == EngineSpec => []IInv
<1>1. EngineInit => IInv
  BY InitIInv
<1>2. IInv /\ [EngineNext]_engineVars => IInv'
  <2> SUFFICES ASSUME IInv, [EngineNext]_engineVars PROVE IInv'
    OBVIOUS
  <2>1. CASE Barrier
    BY <2>1, ClassifyStep, ProposeStep, RecheckStep, RewriteStep, CommitStep DEF Barrier, Next
  <2>2. CASE Batch
    BY <2>2, BatchSweepStep, BatchVerifyStep, BatchTrialStep, BatchWriteStep DEF Batch
  <2>3. CASE Sweep
    BY <2>3, SweepBeginStep, SweepQueryStep, SweepAbortsStep, SweepRaisesStep,
       SweepPassEndsStep, SweepRebuildStep DEF Sweep
  <2>4. CASE UNCHANGED engineVars
    BY <2>4, StutterStep
  <2> QED BY <2>1, <2>2, <2>3, <2>4 DEF EngineNext
<1> QED BY <1>1, <1>2, PTL DEF EngineSpec

-----------------------------------------------------------------------------
(* What the invariant means.                                               *)

(* The variables keep their types in every engine: nothing is proposed or  *)
(* replaced that is not a gate of the work AAG (TypeOK, and the candidate  *)
(* lists of solve_circuit of Algorithms 8 and 9).                          *)
THEOREM EngineTypes == EngineSpec => []EngineTypeOK
<1>1. IInv => EngineTypeOK
  <2> SUFFICES ASSUME IInv PROVE EngineTypeOK
    OBVIOUS
  <2> USE DEF IInv
  <2>1. Len(working) = Len(work.gates) /\ DOMAIN accepted \subseteq DOMAIN work.gates
    <3>1. WellFormed(work) /\ IsReplacement(work, accepted) /\ Len(working) = Len(work.gates)
      BY WorkingIs
    <3>2. DOMAIN work.gates = 1 .. Len(work.gates)
      BY <3>1, GateShape
    <3> QED BY <3>1, <3>2 DEF IsReplacement
  <2>2. ToSet(proposals) \subseteq found /\ found \subseteq Candidates(work)
    BY DEF ChosenOK, ToSet
  <2>3. engine = "barrier" => TypeOK
    BY <2>1, <2>2 DEF PlacesOK, TypeOK
  <2>4. engine # "barrier" => DOMAIN accepted \subseteq {k[1] : k \in found}
    BY DEF ChosenOK
  <2> QED BY <2>1, <2>2, <2>3, <2>4 DEF PlacesOK, EngineTypeOK
<1> QED BY <1>1, InductiveInvariant, PTL

(* Everything the serial recheck has accepted is redundant together,       *)
(* whatever the order and the timeouts (_serial_recheck_tfo).              *)
THEOREM AcceptedSafe == EngineSpec => []AcceptedTogetherSafe
<1>1. IInv => AcceptedTogetherSafe
  BY DEF IInv, TogetherSafe, AcceptedTogetherSafe
<1> QED BY <1>1, InductiveInvariant, PTL

(* Every AAG an engine writes has its gates after their fanins: strash can *)
(* read it again (pure_python_forward_strash).                             *)
THEOREM CandidateReadable == EngineSpec => []CandidateWellFormed
<1>1. IInv => CandidateWellFormed
  BY SourceLike DEF IInv, Like, WellFormed, CandidateWellFormed
<1> QED BY <1>1, InductiveInvariant, PTL

(* The TFO query answers UNSAT exactly for the redundant candidates, on    *)
(* every gate list a campaign reaches (_solve_items).                      *)
THEOREM QueryExact == EngineSpec => []TfoExact
<1>1. IInv => TfoExact
  <2> SUFFICES ASSUME IInv, NEW k \in Candidates(Working)
               PROVE  (TfoVerdict(Working, k[1], k[2]) = "UNSAT") = Redundant(Working, k)
    BY DEF TfoExact
  <2>1. PICK c : c = Working
    OBVIOUS
  <2>2. WellFormed(c)
    BY <2>1, WorkingIs DEF IInv, Like
  <2>3. k[1] \in 1 .. Len(c.gates) /\ k[2] \in {0, 1}
    BY <2>1, <2>2, CandidateIs
  <2>4. PICK d : d = Rewritten(c, StuckAt(k[1], k[2]))
    OBVIOUS
  <2>5. TfoVerdict(c, k[1], k[2]) = "UNSAT" <=> Equivalent(c, d)
    BY <2>2, <2>3, <2>4, TfoDecides
  <2>6. (TfoVerdict(c, k[1], k[2]) = "UNSAT") = Equivalent(c, d)
    BY <2>5 DEF Equivalent
  <2> QED BY <2>1, <2>4, <2>6 DEF Redundant
<1> QED BY <1>1, InductiveInvariant, PTL

(* The audit of a slice never raises (_audit_tfo_slice).                   *)
THEOREM AuditPassesAlways == EngineSpec => []AuditNeverRaises
<1>1. IInv => AuditNeverRaises
  <2> SUFFICES ASSUME IInv, NEW idx \in DOMAIN working,
                      NEW affected, affected = AffectedRoots(Working, idx),
                      NEW cone, cone = GoodCone(Working, affected), affected # {}
               PROVE  AuditPasses(Working, affected, idx, cone, TfoSlice(working, idx, cone))
    BY DEF AuditNeverRaises
  <2>1. PICK c : c = Working
    OBVIOUS
  <2>2. WellFormed(c) /\ working = c.gates
    BY <2>1, WorkingIs DEF IInv, Like
  <2>3. idx \in 1 .. Len(c.gates)
    BY <2>2, GateShape
  <2>4. PICK slice : slice = TfoSlice(c.gates, idx, cone)
    OBVIOUS
  <2>5. affected = AffectedRoots(c, idx) /\ cone = GoodCone(c, affected)
    BY <2>1
  <2>6. AuditPasses(c, affected, idx, cone, slice)
    BY <2>2, <2>3, <2>4, <2>5, AuditHolds
  <2> QED BY <2>1, <2>2, <2>4, <2>6
<1> QED BY <1>1, InductiveInvariant, PTL

(* Whatever an engine leaves behind computes the source: a barrier before  *)
(* it asks the checker, Algorithm 8 because it verifies, Algorithm 9       *)
(* without any check (_cec_transaction, solve_circuit of both algorithms). *)
THEOREM FunctionKept == EngineSpec => []OutputKeepsFunction
<1>1. IInv => OutputKeepsFunction
  BY DEF IInv, OutputSafe, OutputKeepsFunction, CecNeverRefutes
<1> QED BY <1>1, InductiveInvariant, PTL

(* No proof is wasted: without timeouts every barrier accepts a proposal,  *)
(* and Algorithm 8 replaces a gate if it has proved one.                   *)
THEOREM ProofsUsed == EngineSpec => []NoProofIsWasted
<1>1. IInv => NoProofIsWasted
  BY DEF IInv, BarrierProofs, BatchProofs, NoProofIsWasted, EveryBarrierCommits
<1> QED BY <1>1, InductiveInvariant, PTL

(* A pass of Algorithm 9 that accepts nothing leaves no redundancy among   *)
(* what it asks for: this is why the passes may end.                       *)
THEOREM NothingLeft == EngineSpec => []QuietPassLeavesNothing
<1>1. IInv => QuietPassLeavesNothing
  <2> SUFFICES ASSUME IInv, pc = "sweep", proposals = <<>>, ~changed, ~slow,
                      NEW k \in Candidates(work), k \in found \/ accepted = <<>>,
                      k[1] \notin DOMAIN accepted, Redundant(Working, k)
               PROVE  FALSE
    BY DEF QuietPassLeavesNothing
  <2> USE DEF IInv
  <2>1. /\ WellFormed(work) /\ Working = Rewritten(work, accepted)
        /\ Equivalent(work, Working)
    BY WorkingIs DEF TogetherSafe
  <2>2. k[1] \in 1 .. Len(work.gates) /\ k[2] \in {0, 1}
    BY <2>1, CandidateIs
  <2>3. PICK idx \in 1 .. Len(work.gates), value \in {0, 1} : idx = k[1] /\ value = k[2]
    BY <2>2
  <2>4. Equivalent(work, Rewritten(Working, StuckAt(idx, value)))
    BY <2>1, <2>3 DEF Redundant, Equivalent
  <2>5. CASE k \in found
    <3>1. Rewritten(Working, StuckAt(idx, value)) = Rewritten(work, With(accepted, idx, value))
      BY WorkingMore
    <3>2. k \notin ToSet(proposals)
      BY DEF ToSet
    <3>3. ~ProvedWith(SweepFaults(k[1], k[2]))
      BY <2>5, <3>2 DEF SweepProofs
    <3> QED BY <2>3, <2>4, <3>1, <3>3 DEF ProvedWith, SweepFaults
  <2>6. CASE k \notin found /\ accepted = <<>>
    <3>1. Working = work
      BY <2>1, <2>6, NothingIsReplacement
    <3>2. ProvedWith(StuckAt(k[1], k[2]))
      BY <2>3, <2>4, <3>1 DEF ProvedWith
    <3>3. k \in ProvedAlone
      BY <3>2 DEF ProvedAlone
    <3> QED BY <2>6, <3>3 DEF SweepProofs
  <2> QED BY <2>5, <2>6
<1> QED BY <1>1, InductiveInvariant, PTL

-----------------------------------------------------------------------------
(* The steps that replace the work AAG.                                    *)

(* Only an install of a barrier and a rebuild of the sweep replace the work*)
(* AAG, each by the restructured circuit with all that was accepted, and   *)
(* never with nothing accepted.                                            *)
LEMMA WorkReplaced ==
  ASSUME IInv, EngineNext, work' # work
  PROVE  /\ accepted # <<>> /\ work' = Strash(Rewritten(work, accepted))
         /\ Equivalent(source, work) /\ Equivalent(source, work')
         /\ pc' # "done" /\ WellFormed(work) /\ IsReplacement(work, accepted)
<1> USE DEF IInv
<1>1. WellFormed(work) /\ IsReplacement(work, accepted) /\ Equivalent(source, work)
  BY WorkingIs, SourceLike
<1>2. CASE Barrier
  <2>1. Commit
    BY <1>2 DEF Barrier, Next, Classify, Propose, Recheck, Rewrite
  <2>2. /\ pc = "cec" /\ work' = candidate /\ pc' = "classify" /\ Equivalent(source, candidate)
    BY <2>1 DEF Commit, CecVerdict, Install
  <2> QED BY <1>1, <2>2 DEF OutputSafe
<1>3. CASE Batch
  BY <1>3 DEF Batch, BatchSweep, BatchVerify, BatchTrial, BatchWrite
<1>4. CASE Sweep
  <2>1. SweepRebuild
    BY <1>4 DEF Sweep, SweepBegin, SweepQuery, SweepAborts, SweepRaises, SweepPassEnds
  <2>2. /\ pc \in {"rebuild", "aborted"} /\ accepted # <<>>
        /\ work' = Strash(Rewritten(work, accepted)) /\ pc' \in {"written", "classify"}
    BY <2>1 DEF SweepRebuild
  <2>3. Same(source, Strash(Rewritten(work, accepted)))
    BY <2>2, RebuiltIs DEF TogetherSafe
  <2> QED BY <1>1, <2>2, <2>3 DEF Same
<1> QED BY <1>2, <1>3, <1>4 DEF EngineNext

(* Every replaced work AAG has lost at least the accepted gates, and their *)
(* ids (_cec_transaction and the rebuild of Algorithm 9).                  *)
THEOREM CommitsShrink == EngineSpec => CommitShrinks
<1>1. IInv /\ [EngineNext]_engineVars =>
        [work' # work =>
           /\ Len(work'.gates) + Cardinality(DOMAIN accepted) <= Len(work.gates)
           /\ \A i \in DOMAIN accepted : GateAt(work'.gates, Lhs(work.gates[i])) = {}]_vars
  <2> SUFFICES ASSUME IInv, [EngineNext]_engineVars, work' # work
               PROVE  /\ Len(work'.gates) + Cardinality(DOMAIN accepted) <= Len(work.gates)
                      /\ \A i \in DOMAIN accepted :
                           GateAt(work'.gates, Lhs(work.gates[i])) = {}
    OBVIOUS
  <2>1. EngineNext
    BY DEF engineVars, vars
  <2>2. /\ work' = Strash(Rewritten(work, accepted)) /\ WellFormed(work)
        /\ IsReplacement(work, accepted)
    BY <2>1, WorkReplaced
  <2> QED BY <2>2, StrashShrinks
<1> QED BY <1>1, InductiveInvariant, PTL DEF EngineSpec, CommitShrinks

(* A replaced work AAG is a commit: the same function with fewer gates.    *)
LEMMA RemovalCommits ==
  ASSUME IInv, EngineNext, work' # work
  PROVE  Removal!Commit
<1>1. /\ accepted # <<>> /\ work' = Strash(Rewritten(work, accepted))
      /\ Equivalent(source, work) /\ Equivalent(source, work')
      /\ pc' # "done" /\ WellFormed(work) /\ IsReplacement(work, accepted)
  BY WorkReplaced
<1>2. PICK d : d = work'
  OBVIOUS
<1>3. /\ Len(d.gates) \in Nat /\ Len(work.gates) \in Nat
      /\ IsFiniteSet(DOMAIN accepted) /\ Cardinality(DOMAIN accepted) \in Nat
      /\ Len(d.gates) + Cardinality(DOMAIN accepted) <= Len(work.gates)
  BY <1>1, <1>2, StrashShrinks
<1>4. Cardinality(DOMAIN accepted) # 0
  <2>1. PICK D : D = DOMAIN accepted
    OBVIOUS
  <2>2. accepted = <<>> <=> DOMAIN accepted = {}
    <3>1. IsReplacement(work, accepted)
      BY <1>1
    <3> QED BY <3>1, EmptyIs
  <2>3. IsFiniteSet(D) /\ D # {}
    BY <1>1, <1>3, <2>1, <2>2
  <2>4. Cardinality(D) # 0
    BY <2>3, FS_EmptySet
  <2> QED BY <2>1, <2>4
<1>5. Len(d.gates) < Len(work.gates)
  BY <1>3, <1>4
<1>6. GatesOf(work') < GatesOf(work) /\ MeaningOf(work') = MeaningOf(work)
  BY <1>1, <1>2, <1>5 DEF GatesOf, MeaningOf, Equivalent
<1>7. (pc = "done")' = FALSE
  BY <1>1
<1> QED BY <1>6, <1>7 DEF Removal!Commit

(* A frontier without a proof is an irredundant circuit.                   *)
LEMMA RemovalFinishes ==
  ASSUME IInv, Classify, found' = {}
  PROVE  Removal!Finish
<1>1. /\ \A k \in Candidates(work) : TfoVerdict(work, k[1], k[2]) # "UNSAT"
      /\ pc' = "done" /\ UNCHANGED work
  BY DEF Classify
<1>2. WellFormed(work)
  BY SourceLike DEF IInv
<1>3. Irredundant(work)
  <2> SUFFICES ASSUME NEW k \in Candidates(work), Redundant(work, k) PROVE FALSE
    BY DEF Irredundant
  <2>1. k[1] \in 1 .. Len(work.gates) /\ k[2] \in {0, 1}
    BY <1>2, CandidateIs
  <2>2. PICK d : d = Rewritten(work, StuckAt(k[1], k[2]))
    OBVIOUS
  <2>3. TfoVerdict(work, k[1], k[2]) = "UNSAT" <=> Equivalent(work, d)
    BY <1>2, <2>1, <2>2, TfoDecides
  <2> QED BY <1>1, <2>2, <2>3 DEF Redundant
<1>4. (pc = "done")' = TRUE
  BY <1>1
<1> QED BY <1>1, <1>3, <1>4 DEF Removal!Finish

(* Every step is one of RedundancyRemoval or leaves its variables alone.   *)
LEMMA RemovalStep ==
  ASSUME IInv, [EngineNext]_engineVars
  PROVE  [Removal!Next]_(Removal!vars)
<1>1. CASE UNCHANGED engineVars
  BY <1>1 DEF engineVars, vars, Removal!vars
<1>2. CASE EngineNext /\ work' # work
  BY <1>2, RemovalCommits DEF Removal!Next
<1>3. CASE EngineNext /\ work' = work
  <2>1. CASE Barrier
    <3>1. CASE Classify
      <4>1. CASE found' = {}
        BY <3>1, <4>1, RemovalFinishes DEF Removal!Next
      <4>2. CASE found' # {}
        <5>1. (pc = "done") = FALSE /\ (pc = "done")' = FALSE
          BY <3>1, <4>2 DEF Classify
        <5> QED BY <1>3, <5>1 DEF Removal!vars
      <4> QED BY <4>1, <4>2
    <3>2. CASE Propose \/ Recheck \/ Rewrite \/ Commit
      <4>1. (pc = "done") = FALSE /\ (pc = "done")' = FALSE
        BY <3>2 DEF Propose, Recheck, Rewrite, Commit
      <4> QED BY <1>3, <4>1 DEF Removal!vars
    <3> QED BY <2>1, <3>1, <3>2 DEF Barrier, Next
  <2>2. CASE Batch
    <3>1. (pc = "done") = FALSE /\ (pc = "done")' = FALSE
      BY <2>2 DEF Batch, BatchSweep, BatchVerify, BatchTrial, BatchWrite
    <3> QED BY <1>3, <3>1 DEF Removal!vars
  <2>3. CASE Sweep
    <3>1. (pc = "done") = FALSE /\ (pc = "done")' = FALSE
      BY <2>3 DEF Sweep, SweepBegin, SweepQuery, SweepAborts, SweepRaises, SweepPassEnds,
                  SweepRebuild
    <3> QED BY <1>3, <3>1 DEF Removal!vars
  <2> QED BY <1>3, <2>1, <2>2, <2>3 DEF EngineNext
<1> QED BY <1>1, <1>2, <1>3

(* The engines implement RedundancyRemoval on gates: the work AAG only     *)
(* shrinks within its function, and only an irredundant one is done.       *)
THEOREM RemovalImplemented == EngineSpec => ImplementsRemoval
<1>1. EngineInit => Removal!Init
  <2> SUFFICES ASSUME EngineInit PROVE Removal!Init
    OBVIOUS
  <2>1. (pc = "done") = FALSE
    BY DEF EngineInit, Init, InitWith
  <2> QED BY <2>1 DEF Removal!Init
<1>2. IInv /\ [EngineNext]_engineVars => [Removal!Next]_(Removal!vars)
  BY RemovalStep
<1> QED BY <1>1, <1>2, InductiveInvariant, PTL DEF EngineSpec, ImplementsRemoval, Removal!Spec
=============================================================================
