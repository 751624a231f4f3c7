SPECIFICATION Spec
CONSTANTS
  h1 = h1
  h2 = h2
  Handlers <- OneHandler
  MaxPushes = 1
  MaxSpurious = 0
INVARIANT
  ReadersSeeLiveConfig
