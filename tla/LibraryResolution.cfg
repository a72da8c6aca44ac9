CONSTANTS
    a = a  b = b  c = c  main = main  m1 = m1  m2 = m2  m3 = m3  m4 = m4
    Symbol <- MCSymbol
    Input <- MCInput
    Member <- MCMember
    InputOrder <- MCInputOrder
    Archive <- MCArchive
    Key <- DistinctKey
    Damaged = {m4}
    ExportLists <- MCExportLists
    ImportSets <- MCImportSets
SPECIFICATION FairSpec
INVARIANTS
    WorklistExact
    OnlyNeeded
    NothingLeftToPull
    LeastClosure
PROPERTIES
    Terminates
    Implements
