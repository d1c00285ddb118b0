---------------------------- MODULE MCExpressions ----------------------------
EXTENDS Expressions
=============================================================================
