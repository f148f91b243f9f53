\* With STOP, queues of the depth of the code: does the wait of a reset end?
SPECIFICATION FairSpec
CONSTANTS
  N = 2
  QLen = 10
  PipelineCounts = {2}
  ClientStops = TRUE
PROPERTY ResetCompletes
CHECK_DEADLOCK FALSE
