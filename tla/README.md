# A TLA+ development of the ServiceRadar Go SDK

The SDK (`src/sdk`, package `sdk`) is what a ServiceRadar plugin is written against: a plugin
asks its host, through some twenty imported functions, for configuration, HTTP, gRPC, sockets
and artifact storage, and submits one result. The same package holds a *local host*
(`local_host.go` and its neighbours) that plays the host for a plugin run from source, and pure
Go protocol code (RTSP, H.264) that works over the host's sockets.

This directory holds TLA+ modules for the parts of it that keep state, TLC configurations that
check them on small instances, and TLAPS proofs of what matters most for instances of any size.
`PROJECT.json` lists the parts, the runs, a mutant that each property catches, the source lines
each definition stands for, the hazards of the code, and the theorems.

## 1. Inventory

| Part | State it keeps | Operations | Behaviour that is hard |
|---|---|---|---|
| Local host runtime (`local_host.go`, `host_calls_native.go`) | `localHostRunMu`, the installed pointer `localHost` under `localHostMu`, per execution: result, telemetry, logs under `mu` | `RunLocalHost`, every `callHost*`, `capture` | the pointer is read in one critical section and used after it; goroutines that outlive their run; panics; callers queueing |
| Artifact staging (`local_artifact.go`, `artifact.go`) | handle counter, open streams, staging files, committed list, artifact directory; the handle in each `ArtifactStream` | open, write, commit, abort, `abortOpenArtifacts` | any file operation may fail; a failed commit destroys the stream and leaves the handle; several streams for one key; a limit on open streams |
| RTSP client (`rtsp.go`) | `Seq`, `Session`, `Auth` with nonce count | `DoRequest`, `Teardown`, `ParseInterleavedFrame` | responses are matched by position; one read is taken for one response; RTP frames share the stream; timeouts; Digest retries and expiring nonces; sessions that must be left |
| H.264 depacketizer (`rtsp.go`) | fragments, timestamp, keyframe flag | `Push` | payloads lost or damaged in the middle of a frame or of a NAL unit |
| Connections (`tcp.go`, `websocket.go`, `camera_media.go`, `udp.go`, `DialRTSPTransport`) | the handle of each wrapper, read and write deadlines | dial, read, write, deadlines, close | handles given out again; refused closes; deadlines over many host calls; the TLS handshake failing |
| HTTP and gRPC (`http.go`, `grpc.go`, `local_host.go`, `local_grpc.go`) | buffers and limits of a client, handlers of the host | `DoContext`, `Unary`; `httpRequest`, `grpcUnary` | late answers, base64 growth at a limit, bodies that are not UTF-8, colliding metadata names |
| Credential grants (`local_credentials.go`, `credential_grant.go`) | grants and credentials of an execution | `applyLocalCredentialGrants` | the first live covering grant decides; expiry between requests; blank credentials |
| Local inputs (`local_inputs.go`) | none after `LoadLocalInputs` | `LoadLocalInputs`, `RuntimeConfigJSON` | precedence of four sources for two inputs, a fallback that must not happen, case folding in map order |
| Execution and result (`execute.go`, `config.go`, `result.go`, `errors.go`) | the result being built | `Execute`, `getConfigBytes`, `Serialize`, `ForTarget`, `ApplyThresholds` | buffers that grow until the config fits; errors that must not be lost; one result used for several targets, thresholds applied again |
| Actions and overrides (`action.go`, `run_override.go`, `producer_schedule.go`, `examples/sample-northbound`) | continuations and overrides, both kept by the host | `LoadActionConfig`, `SubmitActionResult`, the sample's actions, `SetRunOverride`, `ParseRunOverrides` | actions that keep nothing, launched and polled again after a lost answer; overrides delivered until a run resolves them; two clocks |
| Plugin inputs (`plugin_inputs.go`) | none | `Validate`, `FlattenItems`, `TargetContexts`, `ItemsBy*` | one bad item among good ones |
| Telemetry, advisory, schema, grant and descriptor builders | maps and slices inside values | `With*`, `Attach*` | copies that share a map or an array |
| Metric encoder (`metric_envelope.go`) | none | `MarshalServiceRadarMetricBatch` and the functions under it | lengths, signs and zeros written by hand |
| Manifest, discovery records | none | validation | – |
| Guest memory and ABI (`memory_tinygo.go`, `host_*.go`, `ptr.go`) | the allocation table | `alloc`, `dealloc` | addresses given by the runtime |
| Camera helpers | none of their own | `CameraHTTPClient.DoContext` writes into a header map | a map used with two clients |
| Example plugins | none | – | – |

How they interact: a plugin function runs inside `RunLocalHost` (or, compiled to WebAssembly,
inside an agent). Every SDK call becomes one `callHost*`, which natively reads the installed
pointer and calls a method of that execution. Artifact calls, HTTP and gRPC calls, `get_config`
and `submit_result` end in the local host; sockets, WebSockets and camera media have no local
implementation and need an agent, which is outside this repository and modelled only by what
the SDK relies on. RTSP stands on `TCPConn` (through `hostNetConn`, and TLS for `rtsps`); the
depacketizer is fed what RTSP delivers.

What makes each part correct, in a sentence: a host call is answered by the run that made it and
nothing outlives a run; what is published is whole and is what its receipt says; a response goes
to its request; a frame comes out whole or not at all; a handle reaches its own connection; a
token is sent only under a grant that allows it; a plugin gets its config and its outcome is
stored; a job has one external task however often it is polled; an override ends when it should
and is resolved by a run; a value keeps what it was given; a batch decodes to itself.

## 2. Modules

| Module | Models | Extends |
|---|---|---|
| `LocalHostRun` | `RunLocalHost` and the two halves of every host call | – |
| `ArtifactHost` | the host side of artifact staging, one action per operation | – |
| `ArtifactStore` | what artifact staging promises (abstract) | – |
| `ArtifactStream` | `ArtifactStream` objects of a plugin over `ArtifactHost`; refines `ArtifactStore` | `ArtifactHost` |
| `LocalHostArtifacts` | both together: artifact calls through the installed pointer | `LocalHostRun`, `ArtifactHost` |
| `H264Depacketizer` | `RTSPH264Depacketizer.Push` fed by a lossy camera | – |
| `RtspClient` | `DoRequest`, `Teardown` and interleaved frames over a byte stream, with a Digest server that keeps sessions | – |
| `Maps` | Go maps as functions, with an entry written into them or another map over them | – |
| `LocalInputs` | `LoadLocalInputs` | `Maps` |
| `HostExchange` | HTTP and gRPC requests from the client to the handler and back, with grants | – |
| `TargetChecks` | plugin inputs, results for their targets, thresholds | `Maps` |
| `ValueBuilders` | the `With*` methods over a heap of shared maps and slices | `Maps` |
| `MetricEnvelope` | the protobuf encoder, and a reader of the wire format | – |
| `PluginRun` | a run from its inputs to its submitted result | `LocalInputs`, `HostExchange`, `TargetChecks`, `ValueBuilders`, `MetricEnvelope` |
| `Northbound` | actions launched and polled by a host, and the run overrides they leave | – |
| `HostConnections` | handles and deadlines of sockets, WebSockets and camera streams | – |
| `*Proofs` | theorems about the module they are named after; `LocalHostProofs` about `LocalHostRun` and `LocalHostArtifacts` | |
| `MC*` | constants for TLC | |

### How state and actions correspond to the code

**LocalHostRun.** `runMu` is `localHostRunMu` (its holder), `localHost` the installed pointer,
`execution[c]` and `previous[c]` the locals of `RunLocalHost` in caller `c`, `pc[c]` its program
counter. `Enter`, `Lock`, `Install`, `Return`/`Panic`, `Capture`, `AbortOpen`, `Restore`, `Unlock`
follow the function statement by statement; a panic skips `Capture` and still runs the deferred
functions. A host call is `BeginCall` (`currentLocalHost`) and later `EndCall` (the method on that
pointer, which records a result, telemetry or a log). Workers are goroutines a run function
started; with `Detached` they may outlive it.

**ArtifactHost, ArtifactStream.** `open[e]`, `next[e]`, `committed[e]` are the fields of
`h.artifacts`; `staging` and `published` are the files. An operation holds `h.mu` from the lookup
to its return, so it is one action, parameterised by the code it returns. A body is a sequence of
chunks, a digest is the body itself (SHA-256 collision free), and `Torn` stands for the bytes a
failed write left. Opening, writing, closing, making directories, chmod and rename may each fail.
`handle[s]` is the field of each `ArtifactStream`: kept after an error, cleared after a success.

**LocalHostArtifacts.** The same operations as second halves of host calls: each works on the
execution whose pointer was read in an earlier step, while `capture` and `abortOpenArtifacts` of
that execution may have run in between. Nothing takes an `ArtifactStream` from a plugin at the end
of a run: a goroutine keeps its `handle`, after a failed commit for instance, and may use it in a
later run, whose execution numbers its handles from 1 again. The history `issuer` remembers which
execution gave the handle out, and every byte the goroutine, run and issuer it came from.

**H264Depacketizer.** `fragments`, `timestamp`, `assembling`, `keyframe` are the fields; `Push` is
the function with each of its early returns. A NAL unit is a sequence of pieces that know where
they come from. The camera encodes frames in any of the given ways, each an access unit, its
payloads and what they have carried after each of them (`sofar`), which is how RFC 6184 packetizes;
payloads are skipped, cut short or replaced by kinds that `Push` refuses, never reordered.

**RtspClient.** `seq`, `auth` and `session` are the client's fields, `wire` and `stream` the two
directions of the connection. `Send` is the first half of `DoRequest`, `Read` one `Read` of the
connection with everything that follows from it (a 401 is retried in the same step, as in the
code). A read may take any prefix of what arrived: part of a response, or more than one, or RTP
frames, which the server puts on the same stream while a session plays and which the plugin takes
off between calls (`ReadFrame`). `Kept` is the plugin's: the code leaves `Session` to its caller.
The history variable `inStep` says that no write failed, no read timed out, and every read of a
response took exactly one; what the code promises on such a connection is more than what it
promises on any other.

**Northbound.** `job[j]` is what the host knows of a job, `handleAction` the sample's action as a
function of its invocation, because that is all it has: it keeps nothing between calls. `Invoke`
computes an answer, which then arrives (`AnswerArrives`) or is lost, after which the same call is
made again, counted as an attempt or not, with the continuation or without. `store` holds the
overrides, `run` a scheduled run that was delivered them: it parses them, resolves those marked
expired, applies those that are active by its own clock, and submits. The host is outside the
repository; it is modelled by what the comments of `run_override.go` say it does.

**TargetChecks, ValueBuilders, MetricEnvelope.** What a plugin function does with its config.
`TargetChecks` takes a payload through `Validate`, `FlattenItems` and the decoding of targets, and
builds a result for one target after another, in new values or in one, which a target may leave the
status it had. `ValueBuilders` has
`cells` for the maps and arrays, `held` for the values that point to them, and one operator for
each way a method treats the cell: writes in place, replaces, clones, appends behind the slice,
copies the caller's. `MetricEnvelope` writes the code's bytes and reads them as the protobuf wire
format says, which the encoder does not know of. `WordSize` and `Int32Size` say how many a `uint64` and an
`int32` can be; the run has 2^28 and 2^14, because TLC's integers have 32 bits, and the theorems hold
for the code's 2^64 and 2^32. A struct's texts go by their field numbers.

**LocalInputs, HostExchange, PluginRun.** `LocalInputs` goes through `LoadLocalInputs` statement
by statement: environment file, config, action, and then the credential keys in any order, as a Go
map is ranged over. `HostExchange` follows a request: the client's checks, arrival at the host,
one step for each grant of the loop, the handler with any of its answers, late or not, and the
response back through a buffer. `Decoded` is what the payload of `DoContext` comes to at the handler:
raw bytes outside base64 are mangled, and an empty body has lost its base64 flag. The clock may move between any two of these steps. `PluginRun`
puts them in order: load, start, ask for the config through growing buffers, work (requests,
targets, builders or metrics, as the config says), and submit.

**HostConnections.** `handle[c]` is the field of a wrapper, `table` the host's open connections,
`deadline[c]` the two fields of `hostNetConn`. `Begin`, `Continue` and `End` are a `Read` or `Write`
of `netRTSPConn`: without TLS one host call, with TLS any number in both directions. `doing[c]`
remembers, as a history, when the operation was to have ended, and `call` what the host call of a
transport just made, if one was, was made for, on which deadline, when, and how it ended. The clock counts half
milliseconds, so that a deadline of less than one is there to be rounded down, and stands still
between `timeoutUntil` and the host call.

## 3. Runs

Every run finishes within a minute or two on two cores.

| Run | What it asks | Bounds, and why they are enough |
|---|---|---|
| `local_host` | Which execution answers which call, what a capture holds, does every run return? | Two callers, one detachable worker, two executions, two calls: a call begun in one run can end in the next, and two callers contend for the lock. |
| `artifact_stream` | Is what is published what was verified; is nothing left; is the abstract store implemented? | Two stream variables, three opens of which two at once, two chunks, requests with and without digest and size: a limit is reached, a handle abandoned, a key committed twice. |
| `local_host_artifacts` | Does a run change what another has published, captured or staged? | Two callers, one worker that is waited for, five calls, handle numbers that coincide in both executions, streams kept from the first run to the second. |
| `h264_depacketizer` | Do undamaged frames come out whole, whatever happens around them? | Three frames of four shapes: damage before, in and after a frame. |
| `rtsp_client` | Whose response does a call return, is the password ever refused, what is left after a teardown? | Three calls, two sessions, one frame at a time, two nonces: a late response, a retry, an expiry and a call after it; setup, play and teardown. |
| `plugin_run` | From inputs to result: precedence, grants, limits, config, targets, shared values, metrics, outcome. | Fifteen ways to give inputs (each source, and each failure, at least once, and one config for each thing a plugin does), seven hosts, two requests, a grant that expires between them; bodies that are text, raw or empty, each as base64, and raw and text without; limits and lengths scaled so that message and base64 straddle them; payloads with one and with several targets, two readings; three values, one spare cell; numbers at each side of seven bits, negative, zero. |
| `host_connections` | Do handles reach their own connections? Does every operation run on its own deadline, and end by it? | Two wrappers over two handles, so that a handle is given out again; timeouts of none and of one and a half milliseconds, and a clock of five halves that runs past the deadline of one operation while a later one, on none, is on its way. |
| `northbound` | One task for a job, no override too long or dropped unresolved, does everything end? | Eight settings: deferred samples first polled as attempt 0 or 1, changes to overrides under clocks that differ and under an envelope the SDK does not read; one loss; a second of two ticks, so that durations are truncated. |
| `short_writes`, `rtsp_split_read`, `credential_precedence`, `schema_ref_copy` | Each checks one claim of a comment or of the repository's README, and finds it violated; see below. | As the run they are a variant of. |

A property of a passing run is one a plausible slip would break; the mutant listed for it is such
a slip (a lost reset, an off-by-one, a swapped order), written next to the definition it replaces
and used by nothing else. `CHECK_DEADLOCK FALSE` stands where a bound ends the behaviour: callers
stop after `MaxRuns` executions, a client after `MaxCalls`, a camera after `MaxFrames`, a plugin
run when it is over. `host_connections` and `northbound` are checked for deadlock too.

**Fairness** is assumed in two places. `LocalHostRun!FairSpec`, for `EveryRunReturns`, has strong
fairness of `Lock`, because a Go `sync.Mutex` hands itself over to a waiter that has starved for a
millisecond; weak fairness of the straight-line code after it and of a host call once begun,
because a runnable goroutine is scheduled; and weak fairness of a run function's and a worker's
end, which is an assumption about the plugin (one that never returns keeps everyone waiting). No
fairness is assumed of `Enter`, `Spawn` or `BeginCall`. `Northbound!Fairness`, for `JobsFinish` and
`OverridesLeave`, has weak fairness of the host's calls (it polls a deferred action and starts
scheduled runs, which is what it is for), of the steps of a run and of the clock; none is assumed of
losses, which are bounded by `MaxLosses`, since a host that loses every answer finishes nothing.
All other properties are safety properties.

### Where the code does not do what its comments say

| Run | What happens |
|---|---|
| `short_writes` | A failing write may leave bytes in the staging file that neither digest nor size count; the stream stays usable and a later commit publishes the file with them. |
| `rtsp_split_read` | A response whose body arrives in a second segment is returned without it, as a success. |
| `credential_precedence` | A credential spelled in two cases, once in the process and once in `.env`, has either value. |
| `schema_ref_copy` | `WithSignalSchemaRef` returns a copy that shares its metadata with the record it was made from: attaching a reference to one attaches it to both. |

Other things the modelling showed, which the properties state as they are or leave out, so that no
run is about them:

- A goroutine that its run function did not wait for may have read the host pointer before the run
  ended and open a stream after `abortOpenArtifacts`: its staging file stays, although the
  repository's README says that streams not committed leave nothing behind.
  (`local_artifact.go:232`, `README.md:583`)
- A host call made with less than a millisecond of a deadline left is told timeout 0, which is what
  a call without a deadline is told, and may outlast the deadline. (`tcp.go:65`, `tcp.go:165-176`)
- A stream kept after a failed commit reaches, in a later run, whatever stream has its number there:
  another goroutine's of that run, never one of another run. (`artifact.go:133`,
  `local_artifact.go:101`)
- Through TLS an operation may also make host calls in the other direction, on whatever deadline the
  last operation there left, past or none. (`rtsp.go:565-583`)
- A result used for a second target keeps the `target_uid` label of the first if the second has no
  UID, and its status if it is given no other. (`result.go:199-217`)
- The last reading at or above a limit decides a result's status, so that a warning replaces a
  critical status. (`result.go:432`)
- A run that emits the resolving event of an override and fails is delivered it again, and emits the
  event again. (`run_override.go:43`)
- With the first or a middle FU-A piece lost, later pieces are appended to whatever NAL unit is
  last, and the frame is returned without an error. (`rtsp.go:668`)
- A second `Teardown` is sent again: `Session` is not cleared by the first. (`rtsp.go:176`)
- A target that lacks the UID an action is about has another correlation id in the deferral than
  in the final answer. (`examples/sample-northbound/action.go:155-212`)
- An override shorter than a second asks for no duration at all. (`run_override.go:113`)
- `CameraHTTPClient.DoContext` writes its `Authorization` into the caller's header map; a map used
  with a second client sends the first one's. (`camera_http.go:64-71`)
- `RunLocalHost` called from a run function waits for itself. (`local_host.go:90`)
- The integers of an action's input pass through `map[string]any`, so those beyond 2^53 change.
  (`action.go:287`)
- A first chunk sent with index 0 cannot be told from one without an index and is appended when it
  is sent again. (`local_artifact.go:127`)

## 4. Proofs

Each `*Proofs` module proves, for every value of the constants, an inductive invariant of the
specification and from it the properties the runs check: every safety property of the passing runs
is a theorem, and so is the refinement of `ArtifactStore`. Assumptions on
constants are the named `ASSUME`s of the modules, which TLC evaluates in the runs. They give bounds
their types and inputs the fields the code's own types give them: a request is what
`decodeLocalHTTPRequest` or `newGRPCRequestPayload` can be given (`RequestsAssumption`), a host has a
list of grants with expiry times (`HostsAssumption`), a payload has the fields of
`PluginInputPayload` (`PayloadsAssumption`), an encoding carries its access unit
(`EncodingsAssumption`), a batch is a `MetricBatch` and a `uint64` holds a whole number of `int32`s
(`EnvelopeAssumption`). What more a theorem needs stands in its `ASSUME`: `~Detached`, run functions
wait for the goroutines they start, and `~ShortWrites`, a failed write leaves no bytes.

**LocalHostProofs**, of `LocalHostRun`. The properties speak of answers and captures, which do not say who may
write them. `IInv` adds: who holds the mutex at each program point (`MutexInv`); that between
install and restore the installed host is the holder's own and the newest built, and otherwise
none (`HostInv`); that a call in progress read its own run's host or a later one (`CallInv`); and
that nothing is captured for runs that have not come to it (`CaptureInv`). Theorems: `TypeCorrect`,
`NoHostBetweenRuns`, `MainCallsStayHome`, `LateCallsGoForward`, `CaptureComplete`.

**ArtifactStreamProofs.** Every operation is first reduced to one of a few effects on the host
(opened, written, torn, dropped, published, aborted, nothing), which `NextIsHostEffect` proves; the
invariants are then shown for the effects. `HandlesInOrder` (a handle not yet given out is neither
open nor held) makes ownership inductive, and `FilesAreHashed` (file and digest agree), which needs
`ShortWrites = FALSE`, makes `PublishedMatchesReceipt` and the refinement inductive. The limit on
open streams is a cardinality argument over finite sets. Theorems: `TypeCorrect`, `StreamLimit`,
`StagingExact`, `OneOwner`, `CleanAfterRun` without assumptions on writes; `ReceiptsDescribeFiles`
and `StagingImplementsStore` for `ShortWrites = FALSE`. The run `short_writes` shows that the last
two fail without it.

**LocalHostProofs**, of `LocalHostArtifacts`. The invariant of `LocalHostRun` holds here too, since
the composition's steps are steps of it (`StepIsRunStep`). `CInv` adds that workers live and call only while
their run function runs (`JoinedInv`, from `~Detached`), that only the execution in service has open
streams, under handles it has given out (`OpenInv`), and that a handle that can still be used names a
stream its own goroutine opened or none in the execution that gave it out (`HandleInv`), although the
numbers repeat from run to run. In a later run a kept handle may name another's stream; the bytes
written through it carry that they were, and stay in their run.
`WholeInv` adds that a staging file is what was hashed, from `~ShortWrites`. Theorems:
`RunsLeaveNothingBehind` (`ASSUME ~Detached`) and `RunsShareOnlyTheDirectory` (`ASSUME ~Detached,
~ShortWrites`). The first is false of detached goroutines, as section 3 says.

**H264DepacketizerProofs.** `IInv` says that what is still to come belongs to the current frame and
only its last payload has the marker, that what is being assembled belongs to the frame of the
recorded timestamp with the keyframe flag about it, and that nothing was emitted for a frame of
which payloads are to come. That an undamaged frame comes out needs to know how much of it has been
pushed: `WholeInv` says that, as long as nothing of the current frame is lost, the payloads still to
come are the rest of one of its encodings and `Push` has kept exactly what that encoding has carried
`sofar`; `DeliverKeepsWhole` follows a payload through `Push` with each of its early returns, and
`StaysOut` keeps what came out. Theorems: `TypeCorrect`, `FramesInOrderAndUnmixed`,
`KeyframeFlagOfOutput`, `UndamagedFramesComeOut`, for any encodings and any loss.

**HostConnectionsProofs.** `IInv` adds to the checked properties that a connection whose close was
refused is still in the host's table (`StuckIsOpen`), so that its handle is not given out while the
table still names a wrapper that has forgotten it. `NextIsHandlesStep` reduces every action to one
of four effects on handles. For the deadlines, `OnTheirDeadlines` says what is on a wrapper between
its host calls: the deadline of the operation it is in, in that operation's direction, both in a
handshake. `NextIsDeadlinesStep` reduces every action to what it does to one wrapper and to the last
host call, and `CallKeeps` shows that the call keeps its time, from `TakesWhatIsLeft` about rounding
down. The clock's bound is the one thing in the proofs that the code does not have; it may be any
positive number. Theorems: `TypeCorrect`, `HandlesReachTheirConnections`, `TimeIsKept`.

**RtspClientProofs.** All six properties of `rtsp_client`, for any number of calls, nonces, sessions
and frames, with credentials and without. Nothing compares a CSeq, so what is proved rests on what
is on its way. `NextIsEffect` reduces every step to four effects: the client writes a request with
credentials it had or has just been given, it reads and perhaps returns, the server takes a request,
or the network and the server rest. `NumbersInOrder` (returned responses are older than those on the
stream, those than the requests on the wire, those than the next) gives `ResponsesInOrder`.
`ChallengesInOrder` (a challenge not yet read is newer than the one the client has) and
`CountsInOrder` (requests taken and on the wire come in the order of nonce and count, up to the
client's own) give `NonceCountsFresh`. `InStepShape` says what a connection in step looks like:
between calls nothing but frames; during a call a frame at the head, which will take it out of
step, or the request (`Asked`), or its response followed by frames only (`Answered`); with it `Asked`
says that a retried request carries the server's nonce with a count it has not seen, `Answered` that
only a first request can be challenged, and both which sessions the server may hold. From that,
`History` gives the three properties about calls in step. Theorems: `TypeCorrect`,
`ReturnsInOrder`, `NonceCountsNeverRepeat`, `CallsAnswered`, `OneRetrySuffices`,
`TeardownIsComplete`.

**NorthboundProofs.** The three safety properties of `northbound` and its types, for any jobs,
overrides, clocks and losses. An answer is worked out anew for each call, so the invariant says
what every answer of a job is (`IsAnswer`): its correlation id is the job's, and if it asks for
another poll the job is a deferred sample and the continuation names that id. With it a job that is
polled has its task as continuation (`IsJob`), and a poll without one works out the same task
(`PollAnswer`). An override is followed from the answer that sets it to the store, the delivery and
the run that applies it; on the way it ends no later than asked (`KeepsTime`), because whole seconds
are rounded down (`SecondsFit`) and a clamp only shortens (`SecondsMonotone`). A run that works has
resolved or still to handle whatever it was delivered expired (`IsRun`); that gives
`DroppedForCause`. Theorems: `TypeCorrect`, `TaskIsKept`, `TimeIsKept`, `DropsHaveCause`.

**PluginRunProofs.** A run's parts do not disturb each other, so each has an invariant of its own.

- *Exchanges* (`ExchangeInv`): while the loop over grants stands at `index`, no grant before it covers
  the request as it was when it arrived (`PhaseInv`); what reached the handler carries either the
  plugin's own `Authorization` or that of the first covering grant (`Carried`). Limits are arithmetic
  on lengths and their base64 growth; that a failure is told as what it was is shown for each way a
  call may end (`NothingTold`, `FailureTold`, `ResponseTold`). Theorems: `CoveredRequestsCarry`, `DenialsHaveCause`,
  `ExchangesAreWhole`.
- *Inputs and config* (`InputsInv`, `ConfigInv`): what each stage of `LoadLocalInputs` has settled,
  then that the buffer sizes tried so far were too small. Theorems: `ConfigIsGiven`, and `TokensRest`,
  which follows a grant's fields from the inputs through the secrets of the run to the token.
- *Checks and outcome* (`ChecksInv`, `SubmitInv`): targets are items of a valid payload, the result
  being built speaks of the one being checked, its `target_uid` label is that of the last target that
  gave one (`UIDFrom`), and its status is that of its readings. Theorems:
  `ResultSpeaks`, `ReadingsReach`, `OutcomeIsSubmitted`.
- *Values* (`BuildInv`): `Shape` says how the values made from one another point to cells, `Keeps`
  what each style of method needs on top. A value with a cell of its own reads what it was given
  (`ApartInv`). A value is come to straight if none of those it was made from was used for anything
  else; values that share a cell with such a one lie on one line with it (`Chained`), so one written
  in place reads what it was given until another is made from it (`InPlaceInv`), and a slice as far
  as it is long, whatever is appended behind it (`SlicesInv`). The map that requests share is what
  the first client that had one put there (`HeadersInv`). Theorem: `ValuesKeep`.

- *Metrics* (`EmittedInv`): what was sent is some `MetricBatch` in the bytes of the encoder, whatever
  the clock says of its time. With `BatchRead`, below, this gives `MetricsAreRead`.

Types (`TypesHold`) follow from all of them. Validation, flattening, thresholds and the ancestors of
values are recursive functions; what is known of them comes from the lemmas on recursion in
`MetricEnvelopeProofs`, which this module extends.

**MetricEnvelopeProofs.** That decoding undoes encoding, for every batch: any numbers up to those of
64 bits, texts, entries, points and metrics of any length and in any number. It goes from the bottom
up.

1. *Recursion.* The prover knows nothing of a recursive function but its `CHOOSE`. `Recursion` shows
   that a recursion over the naturals has a solution, by induction over the set of lengths for which it
   has one (the library's rules for well-founded orders, which take sets), and `JumpRecursion` the
   same of one that jumps to where a measure is less, as the reader does to the end of a field.
   From them come `UvarintEquation`, `NumberEquation` and `FieldsEquation`, by which alone the rest
   argues, and the lemmas on `FlattenSeq`.
2. *Numbers and fields.* `NumberRead`: wherever the bytes of a number stand, the reader gets it and
   the position after it. `FieldsRead`: a message of any fields is read back field by field. The
   induction is over what of the message is left, from a position in its middle (`Holds`), and needs
   that whatever the bytes are, a field ends after it begins (`HeaderEnds`).
3. *Messages.* `Carries` says that some bytes are the values of one field number, none, one or many;
   `PiecesRead` that a message put together from such pieces, under numbers that differ, gives back
   the values of each. Every `append...` function has a lemma that says what it carries. The sign of an
   `int32` is arithmetic (`Int32Back`): extended to 64 bits, its low bits still say what it was.
4. *Structs and lists.* `ElementsRead`: the elements of a list that have a value are read in their
   order, if each is read as what it means and is no bytes only when it means nothing. That is shown
   of an entry, a point and a metric (`EntryRead`, `PointRead`, `MetricRead`), each from the one before
   it, and `BatchRead` is the whole.

Eight theorems state what no run checks. `StreamLimit`, `CleanAfterRun`, and the types of
`ArtifactStream`, `H264Depacketizer` and `HostConnections` are parts of the invariants above;
`NumberRead`, `FieldsRead` and `BatchRead` are about the encoder and the reader alone.

**Only model-checked**: liveness (`EveryRunReturns`, `JobsFinish`, `OverridesLeave`), which is beyond
the prover. The four runs that show a violation have no theorem: their properties are false.

## 5. What is left out, and why

- Text: JSON, URLs, headers, SDP and Digest strings are records of what decides anything. Where a
  conversion changes its input (a body that is not UTF-8, the rounding of a deadline, base64
  growth, case folding) the model has what it does.
- Calls whose context is done before they reach the host change nothing and are left out, but for
  the requests of `HostExchange`, where the plugin's outcome counts them.
- Hosts other than the local one. A socket host is assumed to give out handles from 1 up and to
  answer each call within its timeout, 0 being none.
- An `action_invocation` that is already in the public config: `RuntimeConfig` takes the action from
  its own source only.
- A server that repeats a nonce in a challenge: the client counts from 1 again (`rtsp.go:155`), and
  `NonceCountsFresh` rests on nonces being new.
- How often an event is emitted; frames that come with a response.
- Guest memory and the ABI declarations (`memory_tinygo.go`, `host_*.go`, `ptr.go`): imported functions
  and a table whose keys are addresses the runtime gives; and what no state depends on: the
  manifest, discovery records and action descriptors with their field validation, logging, camera
  URLs, the schedule arithmetic of `producer_schedule.go`, and the examples other than
  `sample-northbound`, which are short programs over calls that are modelled.
- Bytes under TLS. `hostNetConn.Write` returns a short count without an error, which `crypto/tls` does
  not expect; what it then does is the library's, and the hazard has a note in `PROJECT.json`.
- A host that gives out handle 0, which every wrapper takes for none.

## 6. Plan

In order of importance; the first nine are done, in this directory, with their proofs.

1. `LocalHostRun` with proofs.
2. `ArtifactHost`, `ArtifactStream`, `ArtifactStore`, refinement and proofs.
3. `LocalHostArtifacts` with proofs.
4. `H264Depacketizer` with proofs.
5. `RtspClient` with proofs.
6. `LocalInputs`, `HostExchange`, `PluginRun` with proofs.
7. `HostConnections` with proofs. To extend: bytes under TLS with short counts.
8. `Northbound` with proofs.
9. `TargetChecks`, `ValueBuilders`, `MetricEnvelope`, proved in `PluginRunProofs` and
   `MetricEnvelopeProofs`.
10. Validation of the manifest and of discovery records against a reference definition.
