CONSTANTS
  NumMotors = 2
  NumDevices = 2
  IdSteps = 1
  RestartDelay = 2
  StayIndexDelay = 2
  FirstStrategies = {2}
  HasClient = TRUE
  MaxFaults = 2
  MaxPresses = 1
  FaultyDrives = {1}
SPECIFICATION Spec
INVARIANTS
  DrivenByFreshIq
  FaultStopsAll
  MissingFreesAll
  AlignedBeforeRemote
PROPERTIES
  AllControlled
