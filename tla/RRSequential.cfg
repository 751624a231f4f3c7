SPECIFICATION Spec
CONSTANTS
  h1 = h1
  h2 = h2
  Handlers <- OneHandler
  N = 3
  MaxFailure <- LastNeverTried
  MaxOutages = 2
  Recovering <- AnyBackend
  Unsteady <- OneHandler
PROPERTY
  ImplementsRotation
