CONSTANTS
    Unset = Unset
    TextBase = 16
    SegmentNames <- MCSegmentNames
    Links <- OrdinaryLinks
SPECIFICATION LinkSpec
INVARIANTS
    LinkTypeOK
    ReferencesReachDefinitions
    CallsBridged
    ImageHoldsEveryCell
    InitRunsFirst
    FailsOnlyForCause
    ZeroingBssIsSafe
