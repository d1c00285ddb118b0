---------------------------- MODULE MCSemantics ----------------------------
EXTENDS Semantics

MCRegisters == <<"r0", "r1">>
=============================================================================
