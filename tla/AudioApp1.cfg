\* One pipeline, started and stopped at will: wake-ups, commands, deadlock.
SPECIFICATION FairSpec
CONSTANTS
  N = 1
  QLen = 3
  PipelineCounts = {1}
  ClientStops = TRUE
INVARIANTS RestartSucceeds WakeUpPending
PROPERTIES Streaming CommandsFinish
