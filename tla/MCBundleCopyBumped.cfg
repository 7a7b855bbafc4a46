CONSTANTS
  absent = absent
  abspath = abspath
  Names <- MCNames
  Absent <- absent
  AbsPath <- abspath
  LibTree <- MCLibTreeBumped
  Lib64Tree <- MCLib64Tree
  BinNames <- MCBinNames
  TestBins <- MCTestBins
  CondaTree <- MCCondaTreeBumped
  Patterns <- MCPatterns
  SkipLibs <- MCSkipLibs
INIT Init
NEXT Next
CHECK_DEADLOCK FALSE
INVARIANT BuiltLibsKept
