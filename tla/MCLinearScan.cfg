\* Two registers (x15 and x19, either side of the excluded x16..x18) and five
\* variables: enough for a range to be spilled, a register to be stolen twice
\* and to be reused after an expiry.
CONSTANTS
    Var = {v1, v2, v3, v4, v5}
    MaxPoint = 3
    StartReg = 15
    EndReg = 19
SYMMETRY Symmetry
SPECIFICATION Spec
INVARIANTS
    TypeOK
    NoSharedRegister
    OneHome
    SlotsDisjoint
    RegistersPartitioned
    NoNeedlessSpill
    FewestSpills
PROPERTY HomesAreStable
CHECK_DEADLOCK FALSE
