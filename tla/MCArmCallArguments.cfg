\* Nine arguments and more, with frames that differ.
CONSTANTS
    SpillCounts = {0, 1, 2}
    ParamCounts = {0, 9}
    ArgCounts = {0, 1, 8, 9, 11}
    MaxFlags = 8
    Words = 90
SPECIFICATION Spec
INVARIANT
    AllArgumentsArrive
CHECK_DEADLOCK FALSE
