CONSTANTS
  Requests = {r1}
  Containers = {"c1", "c2"}
  NotDict = NotDict
  None = None
  MCMaxItems = 1
  Records <- MCRecords
  Snapshots <- MCSnapshotsWithJunk
SPECIFICATION Spec
INVARIANT NoServerError
