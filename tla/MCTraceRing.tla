---------------------------- MODULE MCTraceRing ----------------------------
(***************************************************************************)
(* Three flows and a ring of two slots: increments get lost, a slow flow   *)
(* is lapped, and the one-shot limit is passed.                            *)
(***************************************************************************)
EXTENDS TraceRing, TLC

CONSTANTS f1, f2, f3

ThreeFlows == {f1, f2, f3}

Symmetry == Permutations(Flows)
=============================================================================
