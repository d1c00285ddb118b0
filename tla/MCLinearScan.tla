---------------------------- MODULE MCLinearScan ----------------------------
(* LinearScan on small sets: every assignment of live ranges to the        *)
(* variables is an initial state.                                          *)
EXTENDS LinearScan, TLC

Symmetry == Permutations(Var)
=============================================================================
