SPECIFICATION Spec
CONSTANTS
    Vreg <- MCVreg
    Function <- Overlapping
    ZpBytes = 4
    FrameReach = 32
INVARIANT
    AXStaysValid
