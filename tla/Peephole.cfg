CONSTANTS
    Zero = zero
    Byte = {zero, neg}
    Negative = {neg}
    Register = {"A", "X", "SP"}
    ZeroPage = {zp}
    Absolute = {abs}
    Immediates <- MCImmediates
    Operands <- MCOperands
    Modified <- MCModified
    LabelKinds = {"barrier"}
    Arrivals <- MCArrivals
    Passes = {"redundantLoad", "cmpElimination", "tsxRedundant"}
    Procs <- MCProcs
    Simulated <- MCSimulated
    Unlisted <- MCUnlisted
    Pulled = {"A"}
    Aliased = {}
    Lookahead = 1
SPECIFICATION Spec
CONSTRAINT Together
INVARIANTS
    FactsTrue
    DataPreserved
