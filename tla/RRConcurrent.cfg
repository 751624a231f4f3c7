SPECIFICATION Spec
CONSTANTS
  h1 = h1
  h2 = h2
  Handlers <- TwoHandlers
  N = 2
  MaxFailure <- DefaultMaxFailure
  MaxOutages = 1
  Recovering <- AnyBackend
  Unsteady <- OneHandler
INVARIANTS
  TypeOK
  IndexInRange
  SocketsBalanced
  UndisturbedGatewayError
PROPERTY
  RequestEnds
