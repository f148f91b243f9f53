CONSTANTS
  NumDevices = 0
  NSECS_PER_SEC = 8
  Period = 2
  Offset = 0
  RxLen = 1
  MaxSkew = 1
  MaxFaults = 3
SPECIFICATION Spec
INVARIANTS
  ScheduleTracksTimer
  RestartsSettle
PROPERTIES
  Recovers
