CONSTANTS
  absent = absent
  abspath = abspath
  Names <- MCNames
  Absent <- absent
  AbsPath <- abspath
  LibTree <- MCLibTreeAbsLink
  Lib64Tree <- MCLib64Tree
  BinNames <- MCBinNames
  TestBins <- MCTestBins
  CondaTree <- MCCondaTree
  Patterns <- MCPatterns
  SkipLibs <- MCSkipLibs
INIT Init
NEXT Next
CHECK_DEADLOCK FALSE
INVARIANT TypeOK
