SPECIFICATION Spec
CONSTANTS
  C = 4
  UsizeRange = 64
  a = a
  b = b
  Stranger = Stranger
  Invocation <- MCInvocation
  Epochs <- MCEpochs
  Runs <- MCRuns
SYMMETRY Symmetric
INVARIANTS
  PublicHasSecret
  SuccessMeansPair
PROPERTIES
  NothingOverwritten
CHECK_DEADLOCK FALSE
