\* Two stream variables, two of three handles open at once, bodies of up to two chunks.
CONSTANTS
  k1 = k1
  k2 = k2
  a = a
  b = b
  Executions = {1}
  Exec = 1
  Keys = {k1, k2}
  Chunks = {a, b}
  Torn = Torn
  NoStream = NoStream
  NoFile = NoFile
  NoSHA = NoSHA
  MaxOpenStreams = 2
  ShortWrites = FALSE
  MaxOpens = 3
  MaxBody = 2
  Streams = {s1, s2}
  Indexes = {0, 1, 2}
  OpenRequests <- MCOpenRequests
  CommitRequests <- MCCommitRequests
SPECIFICATION Spec
INVARIANTS
  StagingFilesAreOpenStreams
  PublishedMatchesReceipt
  OpenStreamsHaveOneOwner
PROPERTY
  ImplementsArtifactStore
\* nothing happens after the run has ended
CHECK_DEADLOCK FALSE
