SPECIFICATION Spec
CONSTANTS
  Configs <- MCConfigs
  MaxPipelines = 4
  MaxFailures = 2
  NULL = NULL
INVARIANTS
  FreshInRun
  SharedOneLate
  SharesWithItsOwner
  RingsDrained
