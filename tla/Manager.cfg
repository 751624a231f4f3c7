SPECIFICATION Spec
CONSTANTS
  h1 = h1
  h2 = h2
  Handlers <- TwoHandlers
  MaxPushes = 3
  MaxSpurious = 1
INVARIANTS
  TypeOK
  HeadStaysLive
  OneLiveNode
  CurrentIsMostRecent
  HandlersUseFreshConfig
PROPERTIES
  ImplementsRegister
  PushEnds
