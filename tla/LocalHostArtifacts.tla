------------------------- MODULE LocalHostArtifacts -------------------------
(***************************************************************************)
(* Artifact staging inside RunLocalHost: the run functions of LocalHostRun *)
(* and their workers make the host calls of ArtifactHost through the       *)
(* installed pointer, each with one ArtifactStream of its own.  A call     *)
(* reads the pointer in one step and works on that execution's artifacts   *)
(* in a later one; capture and abortOpenArtifacts run in between.  Nothing *)
(* takes an ArtifactStream from a plugin when a run ends: it may be used   *)
(* in a later run, whose execution numbers its handles from 1 again.       *)
(*                                                                         *)
(* A goroutine publishes under a key of its own, and its chunks carry its  *)
(* name, its run and the execution that gave out the handle they were      *)
(* written through, so bytes that reach another's stream can be told.      *)
(***************************************************************************)
EXTENDS LocalHostRun, ArtifactHost

\* A byte is known by its writer, the writer's run and the issuer of its handle.
Bytes == [by: Goroutines, run: Runs \cup {NoHost}, issuer: Runs \cup {NoHost}]

ASSUME CompositionAssumption ==
  /\ Executions = Runs
  /\ Keys = Goroutines
  /\ Chunks = Bytes

VARIABLES
  handle,            \* the handle in each goroutine's ArtifactStream
  issuer,            \* history: the execution that gave it out, NoHost without one
  capturedArtifacts  \* capture.Artifacts of each execution: empty or one list

streamVars == <<handle, issuer, capturedArtifacts>>
allVars == <<vars, artifactVars, streamVars>>

\* The calls of LocalHostRun that this module follows.
CallOps == {"artifact", "submit_result"}

CInit ==
  /\ Init
  /\ ArtifactInit
  /\ handle = [g \in Goroutines |-> 0]
  /\ issuer = [g \in Goroutines |-> NoHost]
  /\ capturedArtifacts = [r \in Runs |-> << >>]

\* capture copies the committed list together with the outputs.
CCapture(c) ==
  /\ Capture(c)
  /\ capturedArtifacts' = [capturedArtifacts EXCEPT ![execution[c]] = <<committed[execution[c]]>>]
  /\ UNCHANGED <<artifactVars, handle, issuer>>

\* Mutant of CAbortOpen: open streams are not discarded.
CAbortOpenSkipped(c) == AbortOpen(c) /\ UNCHANGED <<artifactVars, streamVars>>

CAbortOpen(c) ==
  /\ AbortOpen(c)
  /\ AbortOpenArtifacts(execution[c])
  /\ UNCHANGED streamVars

\* Steps of LocalHostRun that touch no artifact and no stream of a plugin.
RunStep ==
  /\ \/ \E c \in Callers : Enter(c) \/ Lock(c) \/ Install(c) \/ Leave(c) \/ Restore(c) \/ Unlock(c)
     \/ \E c \in Callers, w \in Workers : Spawn(c, w)
     \/ \E w \in Workers : WorkerExit(w)
     \/ \E g \in Goroutines, op \in CallOps : BeginCall(g, op)
     \/ \E g \in Goroutines : call[g].op # "artifact" /\ EndCall(g)
  /\ UNCHANGED <<artifactVars, streamVars>>

-----------------------------------------------------------------------------
\* The second half of an artifact call by g on the execution it read.
Mine(g) == [by |-> g, run |-> RunOf(g), issuer |-> issuer[g]]

\* The stream g holds after a call of it on e: a new one, or none.
Holds(g, h, e) ==
  /\ handle' = [handle EXCEPT ![g] = h]
  /\ issuer' = [issuer EXCEPT ![g] = e]

HoldsNone(g) == Holds(g, 0, NoHost)
Keeps == UNCHANGED <<handle, issuer>>

OpenCall(g, e) ==
  \E res \in Handles \cup {hostErrTooLarge, hostErrInternal} :
    /\ ArtifactOpen(e, [key |-> g, sha |-> NoSHA, size |-> 0], res)
    /\ IF res < 0 THEN HoldsNone(g) ELSE Holds(g, res, e)

WriteCall(g, e) ==
  \E res \in {1, hostErrInvalid, hostErrInternal, hostErrBadHandle} :
    /\ handle[g] # 0
    /\ ArtifactWrite(e, handle[g], 0, Mine(g), res)
    /\ Keeps

CommitCall(g, e) ==
  \E res \in {hostErrOK, hostErrInternal, hostErrBadHandle} :
    /\ handle[g] # 0
    /\ ArtifactCommit(e, handle[g], [sha |-> NoSHA, size |-> 0], res)
    /\ IF res < 0 THEN Keeps ELSE HoldsNone(g)

AbortCall(g, e) ==
  \E res \in {hostErrOK, hostErrBadHandle} :
    /\ handle[g] # 0
    /\ ArtifactAbort(e, handle[g], res)
    /\ IF res < 0 THEN Keeps ELSE HoldsNone(g)

\* With a nil host every call fails; a failed open leaves a nil stream.
NoHostCall(g) ==
  /\ HoldsNone(g) \/ Keeps
  /\ UNCHANGED artifactVars

EndArtifactCall(g) ==
  LET e == call[g].host IN
  /\ call[g].op = "artifact"
  /\ EndCall(g)
  /\ IF e = NoHost THEN NoHostCall(g)
     ELSE OpenCall(g, e) \/ WriteCall(g, e) \/ CommitCall(g, e) \/ AbortCall(g, e)
  /\ UNCHANGED capturedArtifacts

CNext ==
  \/ RunStep
  \/ \E c \in Callers : CCapture(c) \/ CAbortOpen(c)
  \/ \E g \in Goroutines : EndArtifactCall(g)

CSpec == CInit /\ [][CNext]_allVars

-----------------------------------------------------------------------------
\* Between runs the artifact directory holds published artifacts only: "Aborted
\* and uncommitted streams leave nothing behind" (README.md:583).  It takes run
\* functions that wait for their goroutines (sdk/local_artifact.go:230-239).
NothingLeftBehind ==
  runMu = Nobody => \A r \in Runs, h \in Handles : staging[r][h] = NoFile

\* What RunLocalHost returned is all there ever is: no output is recorded and no
\* artifact is committed in an execution after its capture was taken.
CaptureIsFinal ==
  \A r \in Runs : captured[r] # << >> =>
    /\ captured[r][1] = outputs[r]
    /\ capturedArtifacts[r][1] = committed[r]

\* The bytes of a stream of one run: all written in that run, and by the goroutine
\* that opened the stream, unless through a handle that an earlier run gave out.
BytesOf(r, g, body) ==
  \A i \in DOMAIN body : body[i].run = r /\ (body[i].issuer = r => body[i].by = g)

StreamsHaveOneWriter ==
  \A r \in Runs, h \in Handles :
    open[r][h] # NoStream => BytesOf(r, open[r][h].request.key, open[r][h].hashed)

\* A handle names the stream its goroutine opened with it, or none any more, in the
\* execution that gave it out: a commit or an abort through it takes no other's.
HandlesNameOwnStream ==
  \A g \in Goroutines, r \in Runs, h \in Handles :
    issuer[g] = r /\ handle[g] = h /\ open[r][h] # NoStream => open[r][h].request.key = g

\* Every published file is in the committed list of the run that wrote it.
PublishedByItsRun ==
  \A g \in Goroutines : published[g] # NoFile =>
    \E r \in Runs : \E i \in DOMAIN committed[r] :
      /\ committed[r][i].key = g
      /\ committed[r][i].sha = published[g]
      /\ BytesOf(r, g, published[g])

\* Of run functions that wait for their goroutines, no run changes the capture, a
\* stream or a file of another run, also when a goroutine uses a stream it kept from
\* an earlier run.  Such a stream may name another goroutine's stream in its own run,
\* for handles are numbered from 1 in each, and write, commit or abort that; streams
\* opened in the run itself never do (sdk/local_host.go:93-114,
\* sdk/local_artifact.go:98-105, sdk/artifact.go:66-160).
NothingCrossesRuns ==
  CaptureIsFinal /\ StreamsHaveOneWriter /\ HandlesNameOwnStream /\ PublishedByItsRun
=============================================================================
