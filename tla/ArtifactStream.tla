--------------------------- MODULE ArtifactStream ---------------------------
(***************************************************************************)
(* sdk/artifact.go over sdk/local_artifact.go: ArtifactStream objects of a *)
(* plugin, each holding the handle the host returned, used during one run  *)
(* and after it.  Every SDK call makes one host call, which is atomic, and *)
(* then changes only its own object, so each call is one action.  A call   *)
(* whose context is already cancelled returns before the host call and     *)
(* changes nothing; it is left out.                                        *)
(***************************************************************************)
EXTENDS ArtifactHost

CONSTANTS
  Streams,         \* ArtifactStream variables of the plugin
  Indexes,         \* chunk indexes the plugin gives; 0 is no index
  OpenRequests,    \* the open requests the plugin makes
  CommitRequests,  \* the commit requests the plugin makes
  Exec             \* the execution of the run

ASSUME StreamAssumption ==
  /\ Executions = {Exec}
  /\ OpenRequests \subseteq OpenRequest
  /\ CommitRequests \subseteq CommitRequest
  /\ Indexes \subseteq Nat

\* NoStream is also what the abstract store has for an upload not in progress.
ASSUME UploadAssumption == NoStream \notin [key: Keys, body: Digests]

VARIABLES
  handle,   \* ArtifactStream.handle of each object; 0 for a nil object
  running   \* is the host installed?

vars == <<next, open, committed, staging, published, handle, running>>

Init ==
  /\ ArtifactInit
  /\ handle = [s \in Streams |-> 0]
  /\ running = TRUE

-----------------------------------------------------------------------------
\* The handle field after an open that returned res.
HandleOf(res) == IF res < 0 THEN 0 ELSE res

\* OpenArtifactStreamContext; the variable may still hold an abandoned stream,
\* and holds nil after a failure.  A handle is the int32 result as it is.
OpenArtifactStream(s) ==
  \E request \in OpenRequests, res \in Handles \cup {hostErrTooLarge, hostErrInternal} :
    /\ running
    /\ ArtifactOpen(Exec, request, res)
    /\ handle' = [handle EXCEPT ![s] = HandleOf(res)]
    /\ UNCHANGED running

\* WriteChunk: a zero handle is refused by the SDK, an error leaves the handle.
WriteChunk(s) ==
  \E index \in Indexes, chunk \in Chunks,
     res \in {1, hostErrInvalid, hostErrInternal, hostErrBadHandle} :
    /\ running
    /\ handle[s] # 0
    /\ ArtifactWrite(Exec, handle[s], index, chunk, res)
    /\ UNCHANGED <<handle, running>>

\* CommitContext: only a commit that succeeded clears the handle.
CommitContext(s) ==
  \E request \in CommitRequests,
     res \in {hostErrOK, hostErrInvalid, hostErrInternal, hostErrBadHandle} :
    /\ running
    /\ handle[s] # 0
    /\ ArtifactCommit(Exec, handle[s], request, res)
    /\ handle' = IF res < 0 THEN handle ELSE [handle EXCEPT ![s] = 0]
    /\ UNCHANGED running

Abort(s) ==
  \E res \in {hostErrOK, hostErrBadHandle} :
    /\ running
    /\ handle[s] # 0
    /\ ArtifactAbort(Exec, handle[s], res)
    /\ handle' = IF res < 0 THEN handle ELSE [handle EXCEPT ![s] = 0]
    /\ UNCHANGED running

\* The run function ends: RunLocalHost aborts what is open and removes the host.
\* From then on the SDK calls get hostErrNotFound and change nothing.
EndRun ==
  /\ running
  /\ AbortOpenArtifacts(Exec)
  /\ running' = FALSE
  /\ UNCHANGED handle

Next ==
  \/ \E s \in Streams : OpenArtifactStream(s) \/ WriteChunk(s) \/ CommitContext(s) \/ Abort(s)
  \/ EndRun

Spec == Init /\ [][Next]_vars

-----------------------------------------------------------------------------
TypeOK ==
  /\ ArtifactTypeOK
  /\ handle \in [Streams -> Handles \cup {0}]
  /\ running \in BOOLEAN

\* Two stream objects never reach the same open host stream, so no object can
\* add to, publish or discard another's artifact.
OpenStreamsHaveOneOwner ==
  \A s, t \in Streams :
    s # t /\ handle[s] = handle[t] => ~IsOpen(Exec, handle[s])

\* When a run is over, only published artifacts are left in the directory.
NothingStagedAfterRun ==
  ~running => \A h \in Handles : staging[Exec][h] = NoFile

\* The abstract store: a stream is an upload of the bytes given to the digest,
\* the artifact directory is the set of published objects.
Store == INSTANCE ArtifactStore WITH
  Uploads <- Handles,
  NoUpload <- NoStream,
  NoObject <- NoFile,
  uploads <- [h \in Handles |->
    IF open[Exec][h] = NoStream THEN NoStream
    ELSE [key |-> open[Exec][h].request.key, body |-> open[Exec][h].hashed]],
  objects <- published,
  receipts <- [i \in DOMAIN committed[Exec] |->
    [key |-> committed[Exec][i].key, body |-> committed[Exec][i].sha]]

\* As long as a failing write leaves no bytes behind, staging publishes every
\* artifact whole and in one step, with a receipt for exactly its bytes.
ImplementsArtifactStore == Store!StoreSpec
=============================================================================
