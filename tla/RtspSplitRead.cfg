\* As RtspClient.cfg, for the claim about what one read of a response returns.
CONSTANTS
  HasCredentials = TRUE
  MaxCalls = 3
  MaxNonces = 2
  MaxSessions = 2
  MaxFrames = 1
SPECIFICATION Spec
INVARIANT
  ResponsesAreWhole
\* the plugin stops after MaxCalls
CHECK_DEADLOCK FALSE
