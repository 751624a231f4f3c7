SPECIFICATION Spec
CONSTANTS
  w1 = w1
  w2 = w2
  Workers <- TwoWorkers
  Chunks = 2
  Barrable = {2}
  FrameReused = FALSE
  MaxVersion = 3
  MaxCliCrashes = 1
  MaxWorkerCrashes = 1
INVARIANTS
  TypeOK
  NeverStaleBody
  QuietPollIsLoadable
PROPERTIES
  VersionGrows
  ConvergesOrStops
CHECK_DEADLOCK FALSE
