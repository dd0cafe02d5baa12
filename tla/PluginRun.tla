------------------------------- MODULE PluginRun -------------------------------
(***************************************************************************)
(* A source-native plugin run from its inputs to its result: LocalInputs   *)
(* resolves config and credentials, RunLocalHost installs them, the plugin *)
(* asks for its config (getConfigBytes of sdk/config.go), makes requests   *)
(* through HostExchange, checks targets, builds values or sends metrics,   *)
(* and Execute of sdk/execute.go, or SubmitActionResult of sdk/action.go,  *)
(* submits what it came to.                                                *)
(***************************************************************************)
EXTENDS LocalInputs, HostExchange, TargetChecks, ValueBuilders, MetricEnvelope

CONSTANTS
  ConfigSizes,     \* the buffer sizes getConfigBytes tries, in order
  MaxPayload,      \* MaxPayloadBytes
  DocumentSizes,   \* bound: the length of a result
  TaskOf,          \* what the plugin function does with each config
  Tried(_, _)      \* bound: the inputs and grants that are tried together

ASSUME SizesAssumption ==
  /\ ConfigSizes \in Seq(Nat \ {0}) /\ ConfigSizes # << >>
  /\ Last(ConfigSizes) = MaxPayload
  /\ DocumentSizes \subseteq Nat \ {0}

VARIABLES
  run,            \* loading, asking for its config, working, finished or refused
  configLength,   \* the length of localHostExecution.configJSON
  attempt,        \* the buffer size getConfigBytes has come to
  pluginConfig,   \* the config the plugin decoded
  concluded,      \* what the plugin function came to
  captured,       \* localHostExecution.resultJSON
  returned        \* what Execute or SubmitActionResult returned

runVars == <<run, configLength, attempt, pluginConfig, concluded, captured, returned>>
workVars == <<checkVars, buildVars, emitted>>
vars == <<inputVars, exchangeVars, workVars, runVars>>

Init ==
  /\ InputsInit /\ ExchangeInit /\ Tried(given, grants)
  /\ ChecksInit /\ BuildInit /\ emitted = Unsent
  /\ run = "loading" /\ configLength = 0 /\ attempt = 1 /\ pluginConfig = None
  /\ concluded = None /\ captured = None /\ returned = None

-----------------------------------------------------------------------------
LoadInputs ==
  /\ run = "loading"
  /\ InputsNext
  /\ UNCHANGED <<exchangeVars, workVars, runVars>>

\* RunLocalHost: a runtime config past the payload limit is refused.  What the inputs
\* marshal to has a length of its own.
StartRun ==
  /\ run = "loading" /\ stage = "loaded"
  /\ LET length == given.runtimeLength IN
     \/ /\ length > MaxPayload
        /\ run' = "refused" /\ UNCHANGED <<configLength, secrets>>
     \/ /\ length <= MaxPayload
        /\ run' = "asking" /\ configLength' = length
        /\ secrets' = {field \in DOMAIN credentials : credentials[field] # Blank}
  /\ UNCHANGED <<inputVars, grants, handlers, httpLimit, grpcLimit, now, callVars, requests, workVars,
                 attempt, pluginConfig, concluded, captured, returned>>

\* Mutant of AsksAgain: the largest buffer is never tried.
AsksAgainShort(i) == i < Len(ConfigSizes) - 1

AsksAgain(i) == i < Len(ConfigSizes)

\* One call of get_config.
AskConfig ==
  /\ run = "asking"
  /\ LET tooLarge == configLength > ConfigSizes[attempt] IN
     \/ /\ tooLarge /\ AsksAgain(attempt)
        /\ attempt' = attempt + 1 /\ UNCHANGED <<run, pluginConfig>>
     \/ /\ tooLarge /\ ~AsksAgain(attempt)
        /\ run' = "working" /\ pluginConfig' = Error("too large") /\ UNCHANGED attempt
     \/ /\ ~tooLarge
        /\ run' = "working" /\ pluginConfig' = [kind |-> "config", document |-> RuntimeConfig]
        /\ UNCHANGED attempt
  /\ UNCHANGED <<inputVars, exchangeVars, workVars, configLength, concluded, captured, returned>>

\* The plugin function: what it does follows from its config; without one it does nothing.
Doing(task) ==
  run = "working" /\ pluginConfig.kind = "config" /\ TaskOf[pluginConfig.document.public] = task

MakeRequests ==
  /\ Doing("requests") /\ ExchangeNext
  /\ UNCHANGED <<inputVars, workVars, runVars>>

CheckTargets ==
  /\ Doing("targets") /\ ChecksNext
  /\ UNCHANGED <<inputVars, exchangeVars, buildVars, emitted, runVars>>

BuildValues ==
  /\ Doing("builds") /\ BuildNext
  /\ UNCHANGED <<inputVars, exchangeVars, checkVars, emitted, runVars>>

SendMetrics ==
  /\ Doing("metrics")
  /\ \E batch \in Batches : EmitMetrics(batch, now)
  /\ UNCHANGED <<inputVars, exchangeVars, checkVars, buildVars, runVars>>

-----------------------------------------------------------------------------
(* The result. *)

\* With the plugin function, the locals of its calls are gone.
FunctionReturned ==
  /\ run = "working" /\ phase = "idle"
  /\ request' = None /\ seen' = None /\ answer' = None /\ outcome' = None
  /\ run' = "finished"
  /\ UNCHANGED <<inputVars, hostVars, now, phase, asOf, index, requests, workVars,
                 configLength, attempt, pluginConfig>>

NoResult == [kind |-> "result", status |-> "", summary |-> ""]

\* What a function returns: the result it built for a target, or one as it likes.
Results ==
  IF built # Unbuilt THEN {built}
  ELSE [kind: {"result"}, status: {"", "OK", "WARNING", "CRITICAL"}, summary: {"", "given"}]

\* Mutant of Failed: only a missing result is made critical.
FailedKeptStatus(result) ==
  IF result = None THEN [kind |-> "result", status |-> "CRITICAL", summary |-> "error"]
  ELSE [result EXCEPT !.summary = IF @ = "" THEN "error" ELSE @]

\* The result of a plugin function that returned an error.
Failed(result) ==
  IF result = None THEN [kind |-> "result", status |-> "CRITICAL", summary |-> "error"]
  ELSE [result EXCEPT !.status = "CRITICAL", !.summary = IF @ = "" THEN "error" ELSE @]

\* applyResultDefaults, after the NewResult that replaces nil.
WithDefaults(result) ==
  LET status == IF result = None THEN "UNKNOWN"
                ELSE IF result.status = "" THEN "UNKNOWN" ELSE result.status
      summary == IF result = None THEN "" ELSE result.summary
  IN [(IF result = None THEN NoResult ELSE result) EXCEPT
        !.status = status, !.summary = IF summary = "" THEN status ELSE summary]

\* Result.Serialize fails, the payload is past the limit, or submit_result stores it.
Submit(result, length) ==
  \/ /\ returned' = Error("serialize") /\ UNCHANGED captured
  \/ /\ length > MaxPayload
     /\ returned' = Error("too large") /\ UNCHANGED captured
  \/ /\ length <= MaxPayload
     /\ captured' = result /\ returned' = [kind |-> "ok"]

\* Execute, of a function that returned this result, or nil, and an error or not.
Execute(result, failed, length) ==
  /\ FunctionReturned
  /\ concluded' = [kind |-> "check", failed |-> failed]
  /\ Submit(WithDefaults(IF failed THEN Failed(result) ELSE result), length)

\* ParseActionConfig finds an invocation in the config.
ActionLoads == pluginConfig.kind = "config" /\ pluginConfig.document.invocation # Nothing

\* An action entrypoint: without an invocation LoadActionConfig fails and nothing is
\* submitted; an action result without a status is succeeded, and so is no result.
ActOn(status, length) ==
  /\ FunctionReturned
  /\ \/ /\ ~ActionLoads
        /\ concluded' = [kind |-> "action", failed |-> TRUE]
        /\ returned' = Error("config") /\ UNCHANGED captured
     \/ /\ ActionLoads
        /\ concluded' = [kind |-> "action", failed |-> FALSE]
        /\ Submit([kind |-> "action", for |-> pluginConfig.document.invocation,
                   status |-> IF status = "" THEN "succeeded" ELSE status], length)

Next ==
  \/ LoadInputs
  \/ StartRun
  \/ AskConfig
  \/ MakeRequests \/ CheckTargets \/ BuildValues \/ SendMetrics
  \/ \E result \in Results \cup {None}, failed \in BOOLEAN, length \in DocumentSizes :
       Execute(result, failed, length)
  \/ \E status \in {"", "failed"}, length \in DocumentSizes : ActOn(status, length)

Spec == Init /\ [][Next]_vars

-----------------------------------------------------------------------------
\* The types of the variables (sdk/local_host.go:58-70, sdk/config.go:27-55).
TypeOK ==
  /\ InputsTypeOK /\ ExchangeTypeOK /\ ChecksTypeOK /\ BuildTypeOK
  /\ run \in {"loading", "asking", "working", "finished", "refused"}
  /\ configLength \in 0..MaxPayload /\ attempt \in DOMAIN ConfigSizes
  /\ pluginConfig.kind \in {"none", "config", "error"}
  /\ captured.kind \in {"none", "result", "action"}
  /\ returned.kind \in {"none", "ok", "error"}

\* Whatever runtime config RunLocalHost accepts, the plugin gets: the buffers grow until
\* it fits, and what is decoded is the inputs' config with their invocation
\* (sdk/config.go:27-55, sdk/local_host.go:86-88, sdk/local_inputs.go:112-124).
ConfigReachesPlugin ==
  run \in {"working", "finished"} =>
    pluginConfig = [kind |-> "config", document |-> [public |-> config, invocation |-> action]]

\* The config a plugin works on is the one its inputs gave: decided by the first source
\* that was set, and delivered whole (README.md "Process environment values override").
ConfigIsTheOneGiven == ExplicitInputsShutOut /\ ConfigReachesPlugin

\* A run returns no error exactly when a result was stored; the result of a check that
\* failed says CRITICAL, and no result goes without a status and a summary; an action's
\* result is stored only for an invocation it was given (sdk/execute.go:6-42,
\* sdk/action.go:274-310, 458-467).
OutcomeSubmitted ==
  run = "finished" =>
    /\ captured # None <=> returned.kind = "ok"
    /\ captured.kind = "result" =>
         /\ concluded.failed => captured.status = "CRITICAL"
         /\ captured.status # "" /\ captured.summary # ""
    /\ captured.kind = "action" => captured.for = action /\ action # Nothing

\* The result of a check that did not fail reaches the host as its last target's, with the
\* status that its readings come to: the last reading at or above a limit decides
\* (sdk/result.go:59-68, 432-441, sdk/execute.go:6-42).
ReadingsReachTheHost ==
  captured.kind = "result" /\ "instance" \in DOMAIN captured /\ ~concluded.failed =>
    LET status == StatusOf(readings) IN
    /\ captured.status = IF status = "" THEN "UNKNOWN" ELSE status
    /\ captured.instance = targets[checking].instance

\* A grant's token is sent only when the inputs gave a value to each credential field the
\* grant needs, in the process environment or in the .env file
\* (sdk/local_inputs.go:92-101, sdk/local_credentials.go:66-70).
TokensRestOnGivenCredentials ==
  Reached /\ seen.auth # request.auth =>
    \E i \in Covering :
      \A field \in DOMAIN grants[i].spec.fields :
        \E key \in DOMAIN FieldOf :
          /\ FieldOf[key] = field
          /\ \/ Lookup(given.process, key) # Blank
             \/ Lookup(given.envFiles[EnvFile.name].assigned, key) # Blank
=============================================================================
