CONSTANTS
  Requests = {r1, r2}
  Containers = {"c1", "c2"}
  NotDict = NotDict
  None = None
  MCMaxItems = 1
  Records <- MCRecords
  Snapshots <- MCSnapshots
SYMMETRY RequestSymmetry
SPECIFICATION Spec
INVARIANT FailureReportsDisconnected
