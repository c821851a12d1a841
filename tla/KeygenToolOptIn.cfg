SPECIFICATION Spec
CONSTANTS
  C = 4
  UsizeRange = 64
  a = a
  b = b
  Stranger = Stranger
  Invocation <- MCOneInvocation
  Epochs <- MCAllEpochs
  Runs <- MCRuns
INVARIANTS
  FullLifetimeConfirmed
CHECK_DEADLOCK FALSE
