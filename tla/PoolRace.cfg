SPECIFICATION Spec
CONSTANTS
  NThreads = 2
  MaxClients = 5
  NFds = 3
  Unruly = {}
  MaxExtra = 0
INVARIANT
  RecordsHoldTheirFd
CHECK_DEADLOCK FALSE
