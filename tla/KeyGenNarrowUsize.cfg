SPECIFICATION Spec
CONSTANTS
  C = 4
  U32Range = 16
  UsizeRange = 16
  Request <- MCAllRequests
INVARIANTS
  ValidRequestServed
CHECK_DEADLOCK FALSE
