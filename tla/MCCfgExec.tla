------------------------------ MODULE MCCfgExec -----------------------------
(* CfgExec: every run of every function of a few statements.               *)
EXTENDS CfgExec
=============================================================================
