------------------------- MODULE MCLinearScanSlice --------------------------
(* LinearScanSlice on every small assignment of live ranges.               *)
EXTENDS LinearScanSlice
=============================================================================
