SPECIFICATION Spec
CONSTANTS
  NThreads = 2
  MaxClients = 3
  NFds = 2
  Unruly = {1}
  MaxExtra = 1
INVARIANTS
  TypeOK
  RecordsAreExclusive
  InputIsNoticed
  NoDescriptorLeaks
PROPERTIES
  ImplementsService
  RequestsAreHandled
  OnlyTheWatcherHolds
CHECK_DEADLOCK FALSE
