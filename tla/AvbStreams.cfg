CONSTANTS
  N = 2
  MaxPipelines = 3
  StreamN = 1
  Entities <- MCEntities
  CrfIndex = 1
  BufferMax = 4
  MaxFailures = 1
  NONE = NONE
SPECIFICATION Spec
INVARIANTS
  StreamUsedLive
  StreamsFollowStack
  SourceBuffered
CHECK_DEADLOCK FALSE
