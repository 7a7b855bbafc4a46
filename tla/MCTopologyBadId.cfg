CONSTANTS
  n1 = n1
  n2 = n2
  nbad = nbad
  Containers = {"1", "c"}
  NodeIdVals = {n1, n2, nbad}
  Hostnames = {"h1", "h2", "", "local"}
  EmptyString = ""
  LocalHost = "local"
  NotDict = NotDict
  None = None
  NotInt = NotInt
  Records <- MCRecordsBadId
  Snapshots <- MCSnapshots
  Str <- MCStr
  ToInt <- MCToInt
SPECIFICATION Spec
INVARIANT NoServerError
