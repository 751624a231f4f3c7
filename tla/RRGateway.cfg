SPECIFICATION Spec
CONSTANTS
  h1 = h1
  h2 = h2
  Handlers <- TwoHandlers
  N = 2
  MaxFailure <- DefaultMaxFailure
  MaxOutages = 0
  Recovering <- NoBackend
  Unsteady <- NoHandler
INVARIANT
  NoMoreValidServers
