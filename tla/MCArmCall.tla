----------------------------- MODULE MCArmCall ------------------------------
(* ArmCall: every call site with a few spills and parameters.              *)
EXTENDS ArmCall
=============================================================================
