CONSTANTS
  malformed = malformed
  emptyDoc = emptyDoc
  scalarDoc = scalarDoc
  noKey = noKey
  null = null
  emptyMap = emptyMap
  strVal = strVal
  intVal = intVal
  nullVal = nullVal
  mapVal = mapVal
  junk = junk
  noFile = noFile
  none = none
  Requests = {r1, r2}
  Paths <- MCPaths
  Contents <- MCAllContents
  NoFile <- noFile
  Malformed <- malformed
  EmptyDoc <- emptyDoc
  ScalarDoc <- scalarDoc
  NoKey <- noKey
  Null <- null
  EmptyMap <- emptyMap
  MapVal <- mapVal
  Scalars <- MCScalars
  StrScalars <- MCStrScalars
  Junk <- junk
  None <- none
SYMMETRY RequestSymmetry
INIT Init
NEXT Next
INVARIANTS TypeOK
