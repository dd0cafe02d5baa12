---------------------------- MODULE ArtifactHost ----------------------------
(***************************************************************************)
(* Artifact staging in the native development host, sdk/local_artifact.go. *)
(* Each operation holds the execution's mutex from its lookup of the       *)
(* stream to its return, so each is one action; its last parameter is the  *)
(* int32 it returns.  Calls refused before the mutex is taken (a message   *)
(* too large or undecodable, an invalid key, digest or size, a commit      *)
(* response that could not fit, an empty chunk) change nothing and are     *)
(* left out.                                                               *)
(*                                                                         *)
(* A body is a sequence of chunks of one byte each.  SHA-256 is taken to   *)
(* be collision free, so the digest of a body is the body itself.  Every   *)
(* file operation may fail; removing a staging file the process has just   *)
(* closed is taken to succeed.  A commit that succeeds returns the length  *)
(* of its JSON response, hostErrOK here; the directories made on the way   *)
(* to a target are left out.                                               *)
(***************************************************************************)
EXTENDS Integers, Sequences, FiniteSets

CONSTANTS
  Executions,      \* the localHostExecutions sharing one artifact directory
  Keys,            \* valid object keys
  Chunks,          \* payloads a plugin writes
  Torn,            \* the bytes a failed write left in the file
  NoStream,        \* no entry in the open map
  NoFile,          \* no file at a path
  NoSHA,           \* an empty digest in a request
  MaxOpenStreams,  \* localArtifactMaxOpenStreams
  ShortWrites,     \* may a failing write leave bytes in the file?
  MaxOpens,        \* bound: streams opened by one execution, below 2^31
  MaxBody          \* bound: chunks in one staging file

ASSUME StagingAssumption ==
  /\ MaxOpenStreams \in Nat
  /\ MaxOpens \in Nat
  /\ MaxBody \in Nat
  /\ ShortWrites \in BOOLEAN
  /\ Torn \notin Chunks

\* int32(handle) is the handle: the uint32 counter does not reach the sign bit.
ASSUME HandleAssumption == MaxOpens <= 2147483647

\* sdk/errors.go
hostErrOK == 0
hostErrInvalid == -1
hostErrTooLarge == -3
hostErrNotFound == -4
hostErrInternal == -5
hostErrBadHandle == -7

Handles == 1..MaxOpens
Digests == Seq(Chunks)
Bodies == Seq(Chunks \cup {Torn})

\* The fields of ArtifactOpenRequest and ArtifactCommitRequest that decide
\* anything; size 0 and NoSHA mean the field is not given.
OpenRequest == [key: Keys, sha: Digests \cup {NoSHA}, size: Nat]
CommitRequest == [sha: Digests \cup {NoSHA}, size: Nat]

\* localArtifactStream: the request, the bytes given to the hash (whose number
\* is the field size) and the next chunk index.
Stream == [request: OpenRequest, hashed: Digests, nextIndex: Nat]

\* LocalHostArtifact
Receipt == [key: Keys, sha: Digests, size: Nat]

\* The values that stand for nothing are none of the things they stand in for.
ASSUME SentinelAssumption == NoStream \notin Stream /\ NoFile \notin Bodies

VARIABLES
  next,       \* handles given out by each execution
  open,       \* its open map
  committed,  \* its committed list
  staging,    \* the staging file behind each handle
  published   \* the file at each object key of the artifact directory

artifactVars == <<next, open, committed, staging, published>>

ArtifactInit ==
  /\ next = [e \in Executions |-> 0]
  /\ open = [e \in Executions |-> [h \in Handles |-> NoStream]]
  /\ committed = [e \in Executions |-> << >>]
  /\ staging = [e \in Executions |-> [h \in Handles |-> NoFile]]
  /\ published = [k \in Keys |-> NoFile]

OpenHandles(e) == {h \in Handles : open[e][h] # NoStream}
IsOpen(e, h) == h \in Handles /\ open[e][h] # NoStream

-----------------------------------------------------------------------------
AtLimit(e) == Cardinality(OpenHandles(e)) >= MaxOpenStreams

\* Mutant of NewHandle: handles are numbered by the streams open now.
HandleByCount(e) == Cardinality(OpenHandles(e)) + 1

\* h.artifacts.next, incremented
NewHandle(e) == next[e] + 1

\* artifactOpen.  The first conjunct is the bound MaxOpens.
ArtifactOpen(e, request, res) ==
  LET handle == NewHandle(e) IN
  /\ next[e] < MaxOpens
  /\ \/ /\ AtLimit(e)
        /\ res = hostErrTooLarge
        /\ UNCHANGED artifactVars
     \/ \* the directory or the staging file cannot be made
        /\ ~AtLimit(e)
        /\ res = hostErrInternal
        /\ UNCHANGED artifactVars
     \/ /\ ~AtLimit(e)
        /\ res = handle
        /\ next' = [next EXCEPT ![e] = handle]
        /\ open' = [open EXCEPT ![e][handle] =
                      [request |-> request, hashed |-> << >>, nextIndex |-> 0]]
        /\ staging' = [staging EXCEPT ![e][handle] = << >>]
        /\ UNCHANGED <<committed, published>>

\* Mutant of Grown: bytes past the announced size are not hashed.
GrownWithinSize(stream, chunk) ==
  IF stream.request.size > 0 /\ Len(stream.hashed) >= stream.request.size THEN stream
  ELSE [stream EXCEPT !.hashed = Append(@, chunk), !.nextIndex = @ + 1]

\* The stream after a chunk has been written, hashed and counted.
Grown(stream, chunk) ==
  [stream EXCEPT !.hashed = Append(@, chunk), !.nextIndex = @ + 1]

\* artifactWrite.  The chunk is in the file and in the digest before its size is
\* compared with the size the open request gave.
ArtifactWrite(e, h, index, chunk, res) ==
  LET stream == open[e][h] IN
  \/ /\ ~IsOpen(e, h)
     /\ res = hostErrBadHandle
     /\ UNCHANGED artifactVars
  \/ /\ IsOpen(e, h)
     /\ index > 0 /\ index # stream.nextIndex
     /\ res = hostErrInvalid
     /\ UNCHANGED artifactVars
  \/ /\ IsOpen(e, h)
     /\ index > 0 => index = stream.nextIndex
     /\ Len(staging[e][h]) < MaxBody
     /\ \/ \* the write fails, perhaps after some of its bytes reached the file
           /\ res = hostErrInternal
           /\ \/ UNCHANGED staging
              \/ ShortWrites /\ staging' = [staging EXCEPT ![e][h] = Append(@, Torn)]
           /\ UNCHANGED <<next, open, committed, published>>
        \/ /\ staging' = [staging EXCEPT ![e][h] = Append(@, chunk)]
           /\ open' = [open EXCEPT ![e][h] = Grown(@, chunk)]
           /\ res = IF stream.request.size > 0 /\ Len(stream.hashed) + 1 > stream.request.size
                    THEN hostErrInvalid ELSE 1
           /\ UNCHANGED <<next, committed, published>>

\* verify: what the commit request gives overrides what the open request gave.
Verified(stream, request) ==
  LET sha == IF request.sha # NoSHA THEN request.sha ELSE stream.request.sha
      size == IF request.size > 0 THEN request.size ELSE stream.request.size
  IN
  /\ sha # NoSHA => sha = stream.hashed
  /\ size > 0 => size = Len(stream.hashed)

\* Mutant of Forget: the staging file is not removed.
ForgetStreamOnly(e, h) ==
  /\ open' = [open EXCEPT ![e][h] = NoStream]
  /\ UNCHANGED staging

\* Mutant of Forget: the stream stays in the open map.
ForgetFileOnly(e, h) ==
  /\ UNCHANGED open
  /\ staging' = [staging EXCEPT ![e][h] = NoFile]

\* delete(h.artifacts.open, handle) and discard
Forget(e, h) ==
  /\ open' = [open EXCEPT ![e][h] = NoStream]
  /\ staging' = [staging EXCEPT ![e][h] = NoFile]

\* artifactCommit: the stream leaves the open map first; every failure after
\* that discards its staging file, and success renames it to its key.
ArtifactCommit(e, h, request, res) ==
  LET stream == open[e][h] IN
  \/ /\ ~IsOpen(e, h)
     /\ res = hostErrBadHandle
     /\ UNCHANGED artifactVars
  \/ /\ IsOpen(e, h)
     /\ ~Verified(stream, request)
     /\ res = hostErrInvalid
     /\ Forget(e, h)
     /\ UNCHANGED <<next, committed, published>>
  \/ \* closing, or making the target's directory, or chmod, or rename fails
     /\ IsOpen(e, h)
     /\ Verified(stream, request)
     /\ res = hostErrInternal
     /\ Forget(e, h)
     /\ UNCHANGED <<next, committed, published>>
  \/ /\ IsOpen(e, h)
     /\ Verified(stream, request)
     /\ res = hostErrOK
     /\ Forget(e, h)
     /\ published' = [published EXCEPT ![stream.request.key] = staging[e][h]]
     /\ committed' = [committed EXCEPT ![e] =
          Append(@, [key |-> stream.request.key, sha |-> stream.hashed,
                     size |-> Len(stream.hashed)])]
     /\ UNCHANGED next

ArtifactAbort(e, h, res) ==
  \/ /\ ~IsOpen(e, h)
     /\ res = hostErrBadHandle
     /\ UNCHANGED artifactVars
  \/ /\ IsOpen(e, h)
     /\ res = hostErrOK
     /\ Forget(e, h)
     /\ UNCHANGED <<next, committed, published>>

\* abortOpenArtifacts discards every stream still in the open map.
AbortOpenArtifacts(e) ==
  /\ open' = [open EXCEPT ![e] = [h \in Handles |-> NoStream]]
  /\ staging' = [staging EXCEPT ![e] =
       [h \in Handles |-> IF open[e][h] # NoStream THEN NoFile ELSE @[h]]]
  /\ UNCHANGED <<next, committed, published>>

-----------------------------------------------------------------------------
ArtifactTypeOK ==
  /\ next \in [Executions -> 0..MaxOpens]
  /\ open \in [Executions -> [Handles -> Stream \cup {NoStream}]]
  /\ committed \in [Executions -> Seq(Receipt)]
  /\ staging \in [Executions -> [Handles -> Bodies \cup {NoFile}]]
  /\ published \in [Keys -> Bodies \cup {NoFile}]

\* An execution never holds more than localArtifactMaxOpenStreams staging files
\* and streams, however opens, failed commits and aborts interleave.
OpenStreamsBounded ==
  \A e \in Executions : Cardinality(OpenHandles(e)) <= MaxOpenStreams

\* A staging file exists exactly while its stream is in the open map: no path
\* out of a commit, an abort or the end of the run leaves a file behind, and
\* none removes the file of a stream that can still be written.
StagingFilesAreOpenStreams ==
  \A e \in Executions, h \in Handles :
    staging[e][h] # NoFile <=> open[e][h] # NoStream

\* Every file in the artifact directory is described by a receipt: some commit
\* reported its key, its digest and its size.
PublishedMatchesReceipt ==
  \A k \in Keys : published[k] # NoFile =>
    \E e \in Executions : \E i \in DOMAIN committed[e] :
      committed[e][i] = [key |-> k, sha |-> published[k], size |-> Len(published[k])]
=============================================================================
