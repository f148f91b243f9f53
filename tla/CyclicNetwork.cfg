CONSTANTS
  NumDevices = 1
  NSECS_PER_SEC = 8
  Period = 2
  Offset = 0
  RxLen = 1
  MaxSkew = 1
  MaxFaults = 1
SPECIFICATION Spec
PROPERTIES
  FreshFrames
  AllLinked
