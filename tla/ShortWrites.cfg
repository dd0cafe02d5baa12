\* As ArtifactStream.cfg, with writes that fail after some of their bytes reached the file.
CONSTANTS
  k1 = k1
  k2 = k2
  a = a
  b = b
  Executions = {1}
  Exec = 1
  Keys = {k1, k2}
  Chunks = {a, b}
  Torn = Torn
  NoStream = NoStream
  NoFile = NoFile
  NoSHA = NoSHA
  MaxOpenStreams = 2
  ShortWrites = TRUE
  MaxOpens = 3
  MaxBody = 2
  Streams = {s1, s2}
  Indexes = {0, 1, 2}
  OpenRequests <- MCOpenRequests
  CommitRequests <- MCCommitRequests
SPECIFICATION Spec
INVARIANT
  PublishedMatchesReceipt
\* nothing happens after the run has ended
CHECK_DEADLOCK FALSE
