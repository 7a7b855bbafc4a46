CONSTANTS
  v1 = v1
  v2 = v2
  upstream = upstream
  unset = unset
  none = none
  Versions <- MCVersions
  Upstream <- upstream
  BundleVals <- MCBundleVals
  Unset <- unset
  OnVals <- MCOnVals
  MaxRuns = 3
  None <- none
INIT Init
NEXT Next
INVARIANTS TypeOK BundleMatchesBuild
