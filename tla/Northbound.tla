------------------------------- MODULE Northbound -------------------------------
(***************************************************************************)
(* Northbound actions and the run overrides they leave behind.  The host   *)
(* invokes an action until it has a final answer, keeps the overrides the  *)
(* answers set and delivers them to scheduled runs; both the action and    *)
(* the run forget everything between calls.  Answers and runs get lost.    *)
(* Guest: sdk/action.go, sdk/run_override.go, sdk/execute.go and           *)
(* examples/sample-northbound/action.go.  The host is external: what       *)
(* sdk/run_override.go:9-20 and the fields of ActionInvocation and         *)
(* ActionResult say of it.                                                 *)
(***************************************************************************)
EXTENDS Integers, Sequences, FiniteSetsExt, Functions

CONSTANTS
  Settings,        \* what may be launched where: jobs, a function from invocation ids to what
                   \* is asked and the override seconds the action's descriptor allows; the
                   \* PollAttemptCount of a first poll; how far the guest's clock is ahead of
                   \* the host's; the schema of the overrides the host delivers
  Overrides,       \* override ids
  Second,          \* a second, in ticks of the clock
  Clean(_),        \* correlationID's replacement of ":" and "/"
  SchemaV1,        \* RunOverridesSchemaV1
  MaxAttempts,     \* bound: PollAttemptCount
  MaxTime,         \* bound: the clock goes on past it only to let an override expire
  MaxLosses        \* bound: answers and runs lost

None == [kind |-> "none"]

\* What a launch asks for: an action of this package, its targets or the override it changes.
IsRequest(request) ==
  /\ request.targets \in Seq([device: STRING, interface: STRING])
  /\ request.duration \in Nat /\ request.maximum \in Nat

ASSUME ParametersAssumption ==
  /\ Second \in Nat \ {0} /\ MaxTime \in Nat /\ MaxLosses \in Nat
  /\ MaxAttempts \in Nat \ {0}
  /\ \A setting \in Settings :
       /\ setting.skew \in Int /\ setting.first \in 0..MaxAttempts
       /\ \A j \in DOMAIN setting.jobs : IsRequest(setting.jobs[j])

VARIABLES
  now,         \* the host's clock
  skew,        \* guest clock minus host clock
  schema,      \* the schema of the overrides this host delivers
  losses,      \* answers and runs lost so far
  job,         \* what the host knows of each job, and the answer the action is submitting
  said,        \* ghost: <<correlation, target correlations>> of every answer of a job
  store,       \* the overrides of the assignment
  run,         \* the scheduled run: what it was delivered and how far it has come
  applied      \* ghost: the last override a run applied, and its clock then

hostVars == <<now, skew, schema, losses, store>>
vars == <<hostVars, job, said, run, applied>>

Init ==
  /\ now = 0 /\ losses = 0
  /\ \E setting \in Settings :
       /\ skew = setting.skew /\ schema = setting.schema
       /\ job = [j \in DOMAIN setting.jobs |->
                   [request |-> setting.jobs[j], stage |-> "launch", attempts |-> setting.first,
                    continuation |-> None, answer |-> None]]
  /\ said = [j \in DOMAIN job |-> {}]
  /\ store = [o \in Overrides |-> None]
  /\ run = None /\ applied = None

-----------------------------------------------------------------------------
(* The sample's actions: functions of the invocation. *)

firstNonEmpty(names) ==
  LET filled == {k \in DOMAIN names : names[k] # ""}
  IN IF filled = {} THEN "" ELSE names[Min(filled)]

correlationID(invocationID, suffix) ==
  LET name == IF suffix = "" THEN "target" ELSE suffix
  IN IF invocationID = "" THEN <<"sample", name>> ELSE <<invocationID, Clean(name)>>

\* The external task of a deferred job.
taskOf(invocation, suffix) ==
  correlationID(invocation.id, IF suffix = "device" THEN "device-async-task" ELSE "interface-async-task")

\* continuation_state.
Task(task) == [kind |-> "task", task |-> task]

Answer(status, correlation, continuation, targets, overrides) ==
  [kind |-> "answer", status |-> status, correlation |-> correlation,
   continuation |-> continuation, targets |-> targets, overrides |-> overrides]

\* What runDeviceLookupImmediate and runInterfaceAuditImmediate say of a target.
TargetCorrelation(invocation, target) ==
  correlationID(invocation.id,
                IF invocation.action = "device-lookup" THEN target.device ELSE target.interface)

Immediate(invocation, correlation) ==
  Answer("succeeded", correlation, None,
         [t \in DOMAIN invocation.targets |-> TargetCorrelation(invocation, invocation.targets[t])],
         << >>)

deferAction(invocation, suffix) ==
  LET task == taskOf(invocation, suffix)
      Deferred(target) == correlationID(invocation.id,
                                        firstNonEmpty(<<target.interface, target.device, suffix>>))
  IN Answer("deferred", task, Task(task),
            [t \in DOMAIN invocation.targets |-> Deferred(invocation.targets[t])], << >>)

\* Mutant of pollDeferredAction: every poll is told that the result is being fetched.
pollDeferredActionForever(invocation, suffix) ==
  LET task == taskOf(invocation, suffix) IN Answer("result_fetching", task, Task(task), << >>, << >>)

\* Mutant of pollDeferredAction: the final answer keeps the correlation id of an immediate one.
pollDeferredActionUnmarked(invocation, suffix) ==
  LET task == taskOf(invocation, suffix)
  IN IF invocation.attempts < 1
     THEN Answer("result_fetching", task, Task(task), << >>, << >>)
     ELSE Immediate(invocation, correlationID(invocation.id, suffix))

\* Mutant of pollDeferredAction: the answer that asks for another poll has no continuation.
pollDeferredActionBare(invocation, suffix) ==
  LET task == taskOf(invocation, suffix)
  IN IF invocation.attempts < 1
     THEN Answer("result_fetching", task, None, << >>, << >>)
     ELSE Immediate(invocation, task)

\* A poll: the task is the continuation's, or worked out again when that is missing.
pollDeferredAction(invocation, suffix) ==
  LET task == IF invocation.continuation # None THEN invocation.continuation.task
              ELSE taskOf(invocation, suffix)
  IN IF invocation.attempts < 1
     THEN Answer("result_fetching", task, Task(task), << >>, << >>)
     ELSE Immediate(invocation, task)

\* runDeviceLookup and runInterfaceAudit.
runSample(invocation, suffix) ==
  IF invocation.phase = "poll" THEN pollDeferredAction(invocation, suffix)
  ELSE IF invocation.mode = "deferred" THEN deferAction(invocation, suffix)
  ELSE Immediate(invocation, correlationID(invocation.id, suffix))

\* Mutant of WholeSeconds: rounded up.
RoundedUp(duration) == (duration + Second - 1) \div Second

\* int(duration / time.Second): 0 is left out of the JSON.
WholeSeconds(duration) == duration \div Second

SetRunOverride(id, duration) ==
  [op |-> "set", id |-> id, seconds |-> WholeSeconds(duration), asked |-> duration]

EndRunOverride(id) == [op |-> "end", id |-> id, seconds |-> 0, asked |-> 0]

\* handleAction of the sample, and an action that changes overrides as the README has it.
handleAction(invocation) ==
  IF invocation.action = "device-lookup" THEN runSample(invocation, "device")
  ELSE IF invocation.action = "interface-audit" THEN runSample(invocation, "interface")
  ELSE IF invocation.action = "inject"
       THEN Answer("succeeded", "", None, << >>,
                   <<SetRunOverride(invocation.override, invocation.duration)>>)
  ELSE IF invocation.action = "resolve"
       THEN Answer("succeeded", "", None, << >>, <<EndRunOverride(invocation.override)>>)
  ELSE Answer("failed", "", None, << >>, << >>)
-----------------------------------------------------------------------------
(* The host's side of an action. *)

AtMost(attempts) == IF attempts > MaxAttempts THEN MaxAttempts ELSE attempts

Final(answer) == answer.status \notin {"deferred", "polling", "result_fetching"}

Invocation(j, continuation) ==
  LET request == job[j].request IN
  [id |-> j, phase |-> job[j].stage, attempts |-> job[j].attempts, continuation |-> continuation,
   action |-> request.action, mode |-> request.mode, targets |-> request.targets,
   override |-> request.override, duration |-> request.duration]

\* The host calls the action: to launch it, or to poll it with the continuation it kept,
\* which may be missing.
Invoke(j) ==
  /\ job[j].stage # "done" /\ job[j].answer = None
  /\ \E continuation \in {job[j].continuation, None} :
       LET answer == handleAction(Invocation(j, continuation))
       IN /\ job' = [job EXCEPT ![j].answer = answer]
          /\ said' = [said EXCEPT ![j] = @ \cup {<<answer.correlation, answer.targets>>}]
  /\ UNCHANGED <<hostVars, run, applied>>

\* A set override starts now and expires after what was asked, clamped to the maximum of
\* the descriptor; without a maximum it is ignored, and without a duration it is ignored
\* or lasts as long as it may.
Ignored(op, maximum, endless) ==
  op.op = "set" /\ (maximum = 0 \/ (op.seconds = 0 /\ ~endless))

Changed(op, maximum) ==
  IF op.op = "end" THEN None
  ELSE [kind |-> "override", starts |-> now, asked |-> op.asked,
        expires |-> now + Second * (IF op.seconds = 0 \/ op.seconds > maximum
                                    THEN maximum ELSE op.seconds)]

\* The last change to an override that is not ignored decides.
Stored(o, changes, maximum, endless) ==
  LET heeded == {k \in DOMAIN changes : changes[k].id = o /\ ~Ignored(changes[k], maximum, endless)}
  IN IF heeded = {} THEN store[o] ELSE Changed(changes[Max(heeded)], maximum)

\* SubmitActionResult reaches the host.
AnswerArrives(j) ==
  LET answer == job[j].answer IN
  /\ answer # None
  /\ job' = [job EXCEPT ![j] =
               [request |-> @.request, stage |-> IF Final(answer) THEN "done" ELSE "poll",
                attempts |-> IF @.stage = "launch" THEN @.attempts
                             ELSE AtMost(@.attempts + 1),
                continuation |-> answer.continuation, answer |-> None]]
  /\ \E endless \in BOOLEAN :
       store' = [o \in Overrides |->
                   Stored(o, answer.overrides, job[j].request.maximum, endless)]
  /\ UNCHANGED <<now, skew, schema, losses, said, run, applied>>

\* The action crashes or its answer gets lost: the same call is made again, counted or not.
AnswerLost(j) ==
  /\ job[j].answer # None
  /\ losses < MaxLosses /\ losses' = losses + 1
  /\ \E more \in {0, 1} :
       job' = [job EXCEPT ![j].answer = None,
                          ![j].attempts = IF job[j].stage = "launch" THEN @
                                          ELSE AtMost(@ + more)]
  /\ UNCHANGED <<now, skew, schema, said, store, run, applied>>

-----------------------------------------------------------------------------
(* Scheduled runs. *)

Present == {o \in Overrides : store[o] # None}

\* Mutant of ActiveAt: an override applies at the moment it expires.
ActiveAtEnd(o, t) == o.starts <= t /\ t <= o.expires

ActiveAt(o, t) == o.starts <= t /\ t < o.expires

\* The host starts a run with the overrides it has, those that are over marked Expired.
StartRun ==
  /\ run = None
  /\ run' = [kind |-> "run", stage |-> "started", delivered |-> [o \in Present |-> store[o]],
             expired |-> {o \in Present : now >= store[o].expires},
             pending |-> {}, resolved |-> {}, failed |-> FALSE]
  /\ UNCHANGED <<hostVars, job, said, applied>>

\* Mutant of Parsed: only the overrides that still run are handed on.
ParsedActive(delivered, expired) == delivered \ expired

\* ParseRunOverrides hands on what was delivered.
Parsed(delivered, expired) == delivered

\* RunOverrides: a config without overrides, or with an envelope of this schema.
ReadOverrides ==
  /\ run.kind = "run" /\ run.stage = "started"
  /\ LET readable == DOMAIN run.delivered = {} \/ schema = SchemaV1 IN
     run' = [run EXCEPT !.stage = IF readable THEN "working" ELSE "returned",
                        !.failed = ~readable,
                        !.pending = IF readable THEN Parsed(DOMAIN run.delivered, run.expired) ELSE {}]
  /\ UNCHANGED <<hostVars, job, said, applied>>

\* The loop of a run: an expired override gets its resolving event, one that is active
\* is applied; a run whose event cannot be emitted returns the error.
HandleOverride ==
  /\ run.kind = "run" /\ run.stage = "working"
  /\ \E o \in run.pending :
       LET left == [run EXCEPT !.pending = @ \ {o}] IN
       \/ /\ o \in run.expired
          /\ run' \in {[left EXCEPT !.resolved = @ \cup {o}],
                       [run EXCEPT !.stage = "returned", !.failed = TRUE]}
          /\ UNCHANGED applied
       \/ /\ o \notin run.expired /\ ActiveAt(run.delivered[o], now + skew)
          /\ run' = left
          /\ applied' = [kind |-> "applied", override |-> run.delivered[o], at |-> now + skew]
       \/ /\ o \notin run.expired /\ ~ActiveAt(run.delivered[o], now + skew)
          /\ run' = left /\ UNCHANGED applied
  /\ UNCHANGED <<hostVars, job, said>>

\* The plugin function returns a result.
FunctionReturns ==
  /\ run.kind = "run" /\ run.stage = "working" /\ run.pending = {}
  /\ run' = [run EXCEPT !.stage = "returned"]
  /\ UNCHANGED <<hostVars, job, said, applied>>

\* Mutant of Submits: a run that failed submits nothing.
SubmitsIfFine(failed) == failed = FALSE

\* Execute submits a result whether the function failed or not.
Submits(failed) == failed \in BOOLEAN

\* The result of the run arrives: the overrides it was delivered expired are done with,
\* unless they were set again in the meantime.
ResultArrives ==
  /\ run.kind = "run" /\ run.stage = "returned"
  /\ store' = [o \in Overrides |->
                 IF Submits(run.failed) /\ o \in run.expired /\ store[o] = run.delivered[o]
                 THEN None ELSE store[o]]
  /\ run' = None /\ applied' = None
  /\ UNCHANGED <<now, skew, schema, losses, job, said>>

\* The run crashes, or its result is refused.
RunLost ==
  /\ run # None
  /\ losses < MaxLosses /\ losses' = losses + 1
  /\ run' = None /\ applied' = None
  /\ UNCHANGED <<now, skew, schema, job, said, store>>

Tick ==
  /\ now < MaxTime \/ \E o \in Present : now < store[o].expires
  /\ now' = now + 1
  /\ UNCHANGED <<skew, schema, losses, job, said, store, run, applied>>
-----------------------------------------------------------------------------
RunStep == ReadOverrides \/ HandleOverride \/ FunctionReturns \/ ResultArrives

Next ==
  \/ \E j \in DOMAIN job : Invoke(j) \/ AnswerArrives(j) \/ AnswerLost(j)
  \/ StartRun \/ RunStep \/ RunLost
  \/ Tick

\* The host calls an action it has no final answer of, starts the next scheduled run, and
\* time passes; a call that is neither lost nor over goes on.
Fairness ==
  /\ WF_vars(\E j \in DOMAIN job : Invoke(j) \/ AnswerArrives(j))
  /\ WF_vars(StartRun) /\ WF_vars(RunStep) /\ WF_vars(Tick)

Spec == Init /\ [][Next]_vars /\ Fairness

-----------------------------------------------------------------------------
Entry == [kind: {"override"}, starts: Nat, asked: Nat, expires: Nat]

\* The types of the variables (sdk/run_override.go:34-45, sdk/action.go:130-152, 318-337).
TypeOK ==
  /\ now \in Nat /\ losses \in 0..MaxLosses /\ skew \in Int
  /\ \A j \in DOMAIN job : /\ job[j].stage \in {"launch", "poll", "done"}
                           /\ job[j].attempts \in 0..MaxAttempts
                           /\ job[j].answer.kind \in {"none", "answer"}
                           /\ job[j].stage = "poll" <=> job[j].continuation # None
  /\ store \in [Overrides -> Entry \cup {None}]
  /\ applied # None => applied.override \in Entry
  /\ run # None => /\ run.stage \in {"started", "working", "returned"}
                   /\ run.expired \subseteq DOMAIN run.delivered
                   /\ run.pending \cup run.resolved \subseteq DOMAIN run.delivered

Complete(request) ==
  \A target \in Range(request.targets) :
    IF request.action = "device-lookup" THEN target.device # "" /\ target.interface = ""
    ELSE target.interface # ""

\* A job has one external task from its launch to its final answer, and each of its targets
\* one correlation id, whatever is lost, launched or polled again, and whether or not the
\* continuation comes back: the actions keep nothing themselves.  A target's id stays the
\* same as long as the target has the UID that the action is about, and of a lookup no
\* interface (examples/sample-northbound/action.go:155-212, 353-362).
OneTaskPerJob ==
  \A j \in DOMAIN job :
    \A a, b \in said[j] :
      /\ a[1] = b[1]
      /\ a[2] # << >> /\ b[2] # << >> /\ Complete(job[j].request) => a[2] = b[2]

\* By its own clock, no run applies an override before it was set or after the time asked
\* for has passed, however long the run takes, whatever was truncated to seconds or clamped
\* on the way; a duration of less than a second asks for nothing
\* (sdk/run_override.go:99-116).
NeverAppliedLongerThanAsked ==
  applied # None /\ applied.override.asked >= Second =>
    /\ applied.at >= applied.override.starts
    /\ applied.at < applied.override.starts + applied.override.asked

\* The result of a run that went well drops an override only after that run has emitted its
\* resolving event (sdk/run_override.go:18-20, 71-97, 135-137, sdk/execute.go:6-42).
DroppedForCause ==
  [][\A o \in Present : store'[o] = None /\ run # None /\ run' = None =>
       o \in run.resolved \/ run.failed]_vars

\* Every job gets its final answer, although lost answers may or may not count as attempts
\* (examples/sample-northbound/action.go:188-212, sdk/action.go:458-467).
JobsFinish == <>(\A j \in DOMAIN job : job[j].stage = "done")

\* Every override leaves the host in the end, also when the runs that receive it cannot
\* read it or fail to emit its event: they submit a result all the same
\* (sdk/execute.go:6-42, sdk/run_override.go:18-20).
OverridesLeave == \A o \in Overrides : store[o] # None ~> store[o] = None
=============================================================================
