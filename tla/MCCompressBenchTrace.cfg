CONSTANTS
  none = none
  Configs <- MCConfigs
  OutNames <- MCOutNames
  None <- none
INIT Init
NEXT Next
INVARIANT TraceFollowsConfig
