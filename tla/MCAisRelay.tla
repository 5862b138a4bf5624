----------------------------- MODULE MCAisRelay -----------------------------
(* The AIS relay for TLC: nodes are alike.                                   *)
EXTENDS AisRelay, TLC

Symmetry == Permutations(Nodes)
=============================================================================
