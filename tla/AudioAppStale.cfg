\* Configurations of one and of two pipelines: whose handle does a thread use?
SPECIFICATION Spec
CONSTANTS
  N = 2
  QLen = 3
  PipelineCounts = {1, 2}
  ClientStops = TRUE
INVARIANT HandleIsCurrent
CHECK_DEADLOCK FALSE
