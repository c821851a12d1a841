SPECIFICATION FairSpec
CONSTANTS
  C = 4
  U32Range = 16
  UsizeRange = 64
  m1 = m1
  m2 = m2
  Request <- MCFullRequest
  SignEpoch <- MCFullSignEpoch
  Message <- MCMessage
  Encodable <- MCFullEncodable
  MaxLoaded = 4
INVARIANTS
  OneSignaturePerEpoch
  SignNormalises
PROPERTIES
  EveryEpochPrepared
