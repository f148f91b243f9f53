CONSTANTS
  NumMotors = 2
  IdSteps = 2
  RestartDelay = 2
  FirstStrategies = {0, 3}
  HasClient = TRUE
SPECIFICATION ControllerSpec
INVARIANTS
  IqNeedsAllDevices
  StoppedMeansStop
  StagesPrepared
PROPERTIES
  ResumesStrategy
  RestartIsDelayed
