CONSTANTS
    Bank = {b1, b2}
    Base = 1
    Limit = 5
    MaxRecords = 3
    MaxHeld = 2
    Zero = zero
    Data = data
    Unset = unset
SPECIFICATION Spec
SYMMETRY BankSymmetry
VIEW View
INVARIANTS
    RecordsPartitionBank
    HeldIsLive
    ContentsKept
PROPERTY Implements
