\* As MCLinearScan with four variables: refinement is checked without symmetry.
CONSTANTS
    Var = {v1, v2, v3, v4}
    MaxPoint = 3
    StartReg = 15
    EndReg = 19
SPECIFICATION Spec
INVARIANT WindowDistinct
PROPERTY ImplementsLinearScan
CHECK_DEADLOCK FALSE
