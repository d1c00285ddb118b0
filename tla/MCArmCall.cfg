\* Argument counts either side of every boundary: eight registers, one and
\* two words on the stack, the 14 that Store knows, what fills the save area.
CONSTANTS
    SpillCounts = {0, 1, 2}
    ParamCounts = {0, 8, 9, 10}
    ArgCounts = {0, 1, 7, 8, 9, 10, 11, 14, 15, 16, 32, 36}
    MaxFlags = 8
    Words = 90
SPECIFICATION Spec
INVARIANTS
    TypeOK
    RegistersSurvive
    SlotsSurvive
    ArgumentsArrive
    StackBalanced
    ResultArrives
CHECK_DEADLOCK FALSE
