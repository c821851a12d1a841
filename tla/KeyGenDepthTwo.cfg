SPECIFICATION Spec
CONSTANTS
  C = 2
  U32Range = 64
  UsizeRange = 128
  Request <- MCAllRequests
INVARIANTS
  ValidRequestServed
CHECK_DEADLOCK FALSE
