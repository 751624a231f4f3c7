SPECIFICATION Spec
CONSTANTS
  w1 = w1
  w2 = w2
  Workers <- OneWorker
  Chunks = 1
  Barrable = {}
  FrameReused = FALSE
  MaxVersion = 3
  MaxCliCrashes = 0
  MaxWorkerCrashes = 0
PROPERTY
  AllWorkersConverge
CHECK_DEADLOCK FALSE
