SPECIFICATION Spec
CONSTANTS
  CpuCount = 2
  MaxFailures = 1
  MaxForkFailures = 0
CHECK_DEADLOCK FALSE
PROPERTY
  FailedWorkersAreReplaced
