SPECIFICATION Spec
CONSTANTS
    Vreg <- MCVreg
    Function <- MCFunction
    ZpBytes = 4
    FrameReach = 32
INVARIANTS
    TypeOK
    ReadsSeeLastWrite
    SpillsOnlyWhenFull
