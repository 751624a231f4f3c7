SPECIFICATION CupSpec
CONSTANTS
  CpuCount = 3
  MaxFailures = 3
  MaxForkFailures = 1
  Keys <- MCKeys
  Targets <- MCTargets
CHECK_DEADLOCK FALSE
INVARIANTS
  TypeOK
  OneWorkerPerSlot
  MastersKeepTheirChildren
  StartupLeavesNothing
  BuilderTypeOK
  EveryTargetIsServed
  ExactRoutesWin
  WildcardsServeBelow
  RefusalReleases
  AcceptedIsComplete
PROPERTY
  EndedAreReplaced
