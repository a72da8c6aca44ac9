CONSTANTS
    main = main  fa = fa  fb = fb  fc = fc  irq = irq
    Function <- MCFunction
    NoFunction = NoFunction
    Main = main
    TextOrder <- MCTextOrder
    Programs <- OrdinaryPrograms
    MaxDepth = 5
SPECIFICATION Spec
INVARIANTS
    NoReentry
    FramesApart
    RejectsOnlyForCause
    OverlaysWherePossible
