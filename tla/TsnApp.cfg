CONSTANTS
  EventQueue = {buttons}
  MAX_EVENT_QUEUES = 2
  MaxPackets = 3
  QueueLength = 2
  MAX_SERIAL_COMMAND_LEN = 2
  UART_RX_QUEUE_SIZE = 1
  UART_RX_MAX_SEM_COUNT = 1
  SERIAL_IODEV_UART_RING_BUFFER_LEN = 3
  MaxLine = 3
  MaxFailures = 2
  Nodes <- MCNodes
SPECIFICATION Spec
INVARIANTS
  NoDangling
  NothingLeft
  BuffersOwned
  LinesIntact
PROPERTIES
  PressSeen
  AlarmHeard
CHECK_DEADLOCK FALSE
