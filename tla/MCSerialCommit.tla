--------------------------- MODULE MCSerialCommit ---------------------------
(***************************************************************************)
(* Circuits for the three engines of GateEngines: every two-gate circuit   *)
(* over two inputs in one normal form, and larger ones in which            *)
(* replacements interact.                                                  *)
(***************************************************************************)
EXTENDS GateEngines

Circuit(inputs, latches, outputs, gates) ==
  [inputs |-> inputs, latches |-> latches, outputs |-> outputs, gates |-> gates]

Pairs(lits) == {p \in lits \X lits : p[1] > p[2]}

(* Two gates with distinct fanins (constants included) and one output on   *)
(* the second gate, in both polarities.                                    *)
TwoGateCircuits ==
  {Circuit(<<2, 4>>, <<>>, <<out>>, <<<<6, p[1], p[2]>>, <<8, q[1], q[2]>>>>) :
     out \in {8, 9}, p \in Pairs(2 .. 5), q \in Pairs(1 .. 7)}

(* o = a or (a and b): an observability don't-care.                        *)
Absorption == Circuit(<<2, 4>>, <<>>, <<9>>, <<<<6, 4, 2>>, <<8, 7, 3>>>>)

(* The same AND twice, or-ed: each copy is redundant, both are not.        *)
Duplicate ==
  Circuit(<<2, 4>>, <<>>, <<11>>, <<<<6, 4, 2>>, <<8, 2, 4>>, <<10, 9, 7>>>>)

(* Three copies in a chain of ORs.                                         *)
Triplicate ==
  Circuit(<<2, 4>>, <<>>, <<15>>,
          <<<<6, 4, 2>>, <<8, 2, 4>>, <<10, 4, 2>>, <<12, 9, 7>>, <<14, 12, 11>>>>)

(* A latch whose next state repeats an output cone, and an unused gate.    *)
Registered ==
  Circuit(<<2>>, <<<<4, 9>>>>, <<7>>, <<<<6, 4, 2>>, <<8, 6, 4>>, <<10, 7, 5>>>>)

(* A multiplexer with its consensus term.                                  *)
Consensus ==
  Circuit(<<2, 4, 6>>, <<>>, <<17>>,
          <<<<8, 4, 2>>, <<10, 6, 3>>, <<12, 6, 4>>, <<14, 11, 9>>, <<16, 14, 13>>>>)

(* Three absorptions side by side: more than one phase of the sweep.       *)
Absorptions ==
  Circuit(<<2, 4, 6>>, <<>>, <<11, 15, 19>>,
          <<<<8, 4, 2>>, <<10, 9, 3>>, <<12, 6, 4>>, <<14, 13, 5>>,
            <<16, 6, 2>>, <<18, 17, 7>>>>)

LargerCircuits ==
  {Absorption, Absorptions, Duplicate, Triplicate, Registered, Consensus}

MCSources == TwoGateCircuits \cup LargerCircuits
=============================================================================
