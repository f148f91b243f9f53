\* Two pipelines, started and stopped at will: the reset protocol.
\* A reset and a STOP may block each other (AudioAppStop.cfg), so deadlock is
\* not checked.
SPECIFICATION FairSpec
CONSTANTS
  N = 2
  QLen = 2
  PipelineCounts = {2}
  ClientStops = TRUE
INVARIANTS NoUseAfterExit IrqOnlyWhileOpen ResetBarrier NoStaleCompletion
PROPERTIES RequestedReset
CHECK_DEADLOCK FALSE
