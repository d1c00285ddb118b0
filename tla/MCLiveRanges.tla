---------------------------- MODULE MCLiveRanges ----------------------------
(* LiveRanges: every small function, every choice of variables.            *)
EXTENDS LiveRanges

Symmetry == Permutations(Name)
=============================================================================
