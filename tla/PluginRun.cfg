\* Fifteen ways to give inputs, seven hosts, two requests, a grant that expires between them;
\* limits and lengths scaled so that a message and its base64 straddle each of them.
CONSTANTS
  Objects <- MCObjects
  FieldOf <- MCFieldOf
  Scenarios <- MCScenarios
  Hosts <- MCHosts
  HTTPRequests <- MCHTTPRequests
  GRPCRequests <- MCGRPCRequests
  MaxHTTPResponse = 8
  MaxGRPCResponse = 6
  GRPCOverhead = 3
  StatusLine = 1
  ForbiddenNames = {"", "host", "grpc-timeout"}
  BinaryNames = {"x-bin"}
  Lengths = {0, 3, 4, 6, 7}
  Overheads = {2, 3, 9}
  MaxTime = 2
  MaxRequests = 2
  ConfigSizes <- MCConfigSizes
  MaxPayload = 8
  DocumentSizes = {8, 9}
  TaskOf <- MCTaskOf
  Tried <- MCTried
  Payloads <- MCPayloads
  InputsSchemaV1 = "inputs.v1"
  Folded <- MCFolded
  Values <- MCValues
  Limits <- MCLimits
  MaxReadings = 2
  Entries <- MCEntries
  MaxHeld = 3
  SpareCells = 1
  AuthHeaders = {"", "one", "two"}
  Batches <- MCBatches
  WordSize = 268435456
  Int32Size = 16384
  SchemaName <- MCSchemaName
SPECIFICATION Spec
INVARIANTS
  TypeOK
  ConfigIsTheOneGiven
  CoveredRequestsCarryTheirGrant
  DeniedForCause
  ExchangesArriveWhole
  OutcomeSubmitted
  TokensRestOnGivenCredentials
  ReadingsReachTheHost
  ResultSpeaksOfOneTarget
  ValuesKeepWhatTheyWereGiven
  MetricsDecode
\* a run ends
CHECK_DEADLOCK FALSE
