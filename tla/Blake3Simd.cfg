SPECIFICATION Spec
CONSTANTS
  Calls <- MCCalls
  CHAIN_START_TAG <- MCTag
  SIGNING_RANDOMNESS_TAG <- MCRandomnessTag
  CHAIN_CONTEXT_KEY <- MCContextKey
  TREE_LEAF_CONTEXT_KEY <- MCLeafKey
  TREE_NODE_CONTEXT_KEY <- MCNodeKey
  MESSAGE_CONTEXT_KEY <- MCMessageKey
  Uses <- MCUses
INVARIANTS
  KnownAnswers
  DigestsAreScalar
  TranscriptsSeparate
PROPERTIES
  LanesAreScalar
CHECK_DEADLOCK FALSE
