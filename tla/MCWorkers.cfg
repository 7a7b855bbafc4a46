CONSTANTS
  Requests = {r1}
  Containers = {"c1", "c2"}
  NotDict = NotDict
  None = None
  MCMaxItems = 2
  Records <- MCRecords
  Snapshots <- MCSnapshotsWithJunk
SPECIFICATION Spec
INVARIANTS TypeOK CountMatchesSnapshot TotalsMatchSnapshot
