\* Three calls, two sessions, a nonce that may expire between calls.
CONSTANTS
  HasCredentials = TRUE
  MaxCalls = 3
  MaxNonces = 2
  MaxSessions = 2
  MaxFrames = 1
SPECIFICATION Spec
INVARIANTS
  TypeOK
  ResponsesInOrder
  InStepAnswersOwnRequest
  OneRetryIsEnough
  NonceCountsFresh
  TeardownLeavesNothing
\* the plugin stops after MaxCalls
CHECK_DEADLOCK FALSE
