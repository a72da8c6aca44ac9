CONSTANTS
  fa = fa
  fb = fb
  fc = fc
  v = v
  zero = zero
  Nothing = Nothing
  NoEntry = NoEntry
  N = 4
  SlotCount = 2
  DirFree = 1
  EnsureCounts = {3}
  MaxLength = 2
  Names <- MCNames
  Values <- MCValues
  Zero <- zero
  WriteData <- MCWriteData
  CopyLists <- MCCopyLists
SYMMETRY NameSymmetry
VIEW WithoutReply
SPECIFICATION Spec
PROPERTIES
  OthersAlwaysKept
