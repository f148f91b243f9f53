CONSTANTS
  Owner = {task, motors, serial}
  Unflagged = {serial}
  SentOnce = {motors}
  ASYNC_NUM_MSG = 2
  MaxSamples = 2
SPECIFICATION Spec
INVARIANT SamplesConserved
PROPERTIES MailboxSpec FlagsClear
