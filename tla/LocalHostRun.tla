----------------------------- MODULE LocalHostRun -----------------------------
(***************************************************************************)
(* The native development host of sdk/local_host.go: RunLocalHost installs *)
(* a process-wide host for the duration of one run function, and every SDK *)
(* host call (sdk/host_calls_native.go) first reads the installed pointer  *)
(* and then works on the execution that pointer names.                     *)
(*                                                                         *)
(* Callers are the goroutines that call RunLocalHost; while its run        *)
(* function runs, a caller makes host calls itself.  Workers are           *)
(* goroutines a run function starts.  When Detached is TRUE a run function *)
(* may return, or panic, while its workers are still alive; when it is     *)
(* FALSE it waits for them on both paths.                                  *)
(***************************************************************************)
EXTENDS Integers, Sequences, FiniteSets

CONSTANTS
  Callers,    \* goroutines that call RunLocalHost
  Workers,    \* goroutines started by run functions
  Nobody,     \* the value of runMu when the mutex is free
  Detached,   \* may a worker outlive the run function that started it?
  MaxRuns,    \* bound: executions ever built
  MaxCalls    \* bound: host calls ever begun

Goroutines == Callers \cup Workers
Runs == 1..MaxRuns
NoHost == 0                      \* the nil *localHostExecution

ASSUME CallersAssumption == Callers \cap Workers = {} /\ Nobody \notin Callers
ASSUME BoundsAssumption == MaxRuns \in Nat /\ MaxCalls \in Nat
ASSUME DetachedAssumption == Detached \in BOOLEAN

\* A payload is known by the goroutine that made the call and its run.
Payload == [by: Goroutines, run: Runs \cup {NoHost}]

\* What an execution records; result is empty until a result is submitted.
Outputs == [result: Seq(Payload), telemetry: Seq(Payload), logs: Seq(Payload)]
NoOutputs == [result |-> << >>, telemetry |-> << >>, logs |-> << >>]

Ops == {"get_config", "submit_result", "emit_telemetry", "log", "artifact"}
NoCall == [op |-> "none", host |-> NoHost]

VARIABLES
  runMu,      \* holder of localHostRunMu
  localHost,  \* the installed execution
  pc,         \* how far each caller is in RunLocalHost
  execution,  \* each caller's local variable execution
  previous,   \* each caller's local variable previous
  built,      \* number of executions built so far
  owner,      \* the run that started each worker, NoHost when not started
  call,       \* each goroutine's host call in progress
  made,       \* number of host calls begun so far
  outputs,    \* result, telemetry and logs of each execution
  captured,   \* what RunLocalHost returned for each execution: empty or one
  answered    \* history: which execution answered which call

threadVars == <<pc, execution, previous, built, owner>>
hostVars == <<runMu, localHost>>
callVars == <<call, made, answered>>
vars == <<runMu, localHost, pc, execution, previous, built, owner, call, made,
          outputs, captured, answered>>

RunOf(g) == IF g \in Callers THEN execution[g] ELSE owner[g]

-----------------------------------------------------------------------------
Init ==
  /\ runMu = Nobody
  /\ localHost = NoHost
  /\ pc = [c \in Callers |-> "idle"]
  /\ execution = [c \in Callers |-> NoHost]
  /\ previous = [c \in Callers |-> NoHost]
  /\ built = 0
  /\ owner = [w \in Workers |-> NoHost]
  /\ call = [g \in Goroutines |-> NoCall]
  /\ made = 0
  /\ outputs = [r \in Runs |-> NoOutputs]
  /\ captured = [r \in Runs |-> << >>]
  /\ answered = {}

Goto(c, from, to) ==
  /\ pc[c] = from
  /\ pc' = [pc EXCEPT ![c] = to]

\* RunLocalHost is called and its arguments pass the two checks.  The first
\* conjunct is the bound: at most MaxRuns executions are ever asked for.
Enter(c) ==
  /\ built + Cardinality({d \in Callers : pc[d] \in {"waiting", "locked"}}) < MaxRuns
  /\ Goto(c, "idle", "waiting")
  /\ UNCHANGED <<runMu, localHost, execution, previous, built, owner, call, made,
                 outputs, captured, answered>>

\* Mutant of Lock: runs are not serialized.
LockBusy(c) ==
  /\ runMu' = c
  /\ Goto(c, "waiting", "locked")
  /\ UNCHANGED <<localHost, execution, previous, built, owner, call, made,
                 outputs, captured, answered>>

Lock(c) ==
  /\ runMu = Nobody
  /\ runMu' = c
  /\ Goto(c, "waiting", "locked")
  /\ UNCHANGED <<localHost, execution, previous, built, owner, call, made,
                 outputs, captured, answered>>

\* Builds the execution and, under localHostMu, saves the installed host and
\* installs the new one.  The first conjunct repeats the bound of Enter.
Install(c) ==
  /\ built < MaxRuns
  /\ Goto(c, "locked", "running")
  /\ built' = built + 1
  /\ execution' = [execution EXCEPT ![c] = built + 1]
  /\ previous' = [previous EXCEPT ![c] = localHost]
  /\ localHost' = built + 1
  /\ UNCHANGED <<runMu, owner, call, made, outputs, captured, answered>>

\* The run function starts a goroutine.
Spawn(c, w) ==
  /\ pc[c] = "running"
  /\ owner[w] = NoHost
  /\ owner' = [owner EXCEPT ![w] = execution[c]]
  /\ UNCHANGED <<runMu, localHost, pc, execution, previous, built, call, made,
                 outputs, captured, answered>>

WorkerExit(w) ==
  /\ owner[w] # NoHost
  /\ call[w] = NoCall
  /\ owner' = [owner EXCEPT ![w] = NoHost]
  /\ UNCHANGED <<runMu, localHost, pc, execution, previous, built, call, made,
                 outputs, captured, answered>>

Joined(c) == Detached \/ \A w \in Workers : owner[w] # execution[c]

\* run() returns: the return statement evaluates execution.capture() before
\* any deferred call runs.
Return(c) ==
  /\ call[c] = NoCall
  /\ Joined(c)
  /\ Goto(c, "running", "capturing")
  /\ UNCHANGED <<runMu, localHost, execution, previous, built, owner, call, made,
                 outputs, captured, answered>>

\* run() panics: nothing is captured, the deferred calls still run.
Panic(c) ==
  /\ call[c] = NoCall
  /\ Joined(c)
  /\ Goto(c, "running", "aborting")
  /\ UNCHANGED <<runMu, localHost, execution, previous, built, owner, call, made,
                 outputs, captured, answered>>

\* Mutant of Capture: the telemetry is not copied.
CaptureNoTelemetry(c) ==
  /\ Goto(c, "capturing", "aborting")
  /\ captured' = [captured EXCEPT ![execution[c]] =
                     <<[outputs[execution[c]] EXCEPT !.telemetry = << >>]>>]
  /\ UNCHANGED <<runMu, localHost, execution, previous, built, owner, call, made,
                 outputs, answered>>

\* capture copies the outputs under the execution's mutex.
Capture(c) ==
  /\ Goto(c, "capturing", "aborting")
  /\ captured' = [captured EXCEPT ![execution[c]] = <<outputs[execution[c]]>>]
  /\ UNCHANGED <<runMu, localHost, execution, previous, built, owner, call, made,
                 outputs, answered>>

\* The deferred function: abort the open artifacts (their state is in
\* LocalHostArtifacts), then put the previous host back under localHostMu.
AbortOpen(c) ==
  /\ Goto(c, "aborting", "restoring")
  /\ UNCHANGED <<runMu, localHost, execution, previous, built, owner, call, made,
                 outputs, captured, answered>>

\* Mutant of Restore: the host stays installed.
RestoreForgotten(c) ==
  /\ Goto(c, "restoring", "unlocking")
  /\ UNCHANGED <<runMu, localHost, execution, previous, built, owner, call, made,
                 outputs, captured, answered>>

Restore(c) ==
  /\ Goto(c, "restoring", "unlocking")
  /\ localHost' = previous[c]
  /\ UNCHANGED <<runMu, execution, previous, built, owner, call, made,
                 outputs, captured, answered>>

\* Mutant of Unlock: the mutex stays locked.
UnlockForgotten(c) ==
  /\ Goto(c, "unlocking", "idle")
  /\ UNCHANGED <<runMu, localHost, execution, previous, built, owner, call, made,
                 outputs, captured, answered>>

Unlock(c) ==
  /\ Goto(c, "unlocking", "idle")
  /\ runMu' = Nobody
  /\ UNCHANGED <<localHost, execution, previous, built, owner, call, made,
                 outputs, captured, answered>>

-----------------------------------------------------------------------------
\* Who may make a host call: a caller inside its run function, a live worker.
MayCall(g) == IF g \in Callers THEN pc[g] = "running" ELSE owner[g] # NoHost

\* First half of callHost*: currentLocalHost returns the installed pointer.
BeginCall(g, op) ==
  /\ call[g] = NoCall
  /\ MayCall(g)
  /\ made < MaxCalls
  /\ made' = made + 1
  /\ call' = [call EXCEPT ![g] = [op |-> op, host |-> localHost]]
  /\ UNCHANGED <<runMu, localHost, pc, execution, previous, built, owner,
                 outputs, captured, answered>>

\* Mutant of Record: a second result is added to the first.
RecordAppending(o, op, p) ==
  [ result    |-> IF op = "submit_result" THEN Append(o.result, p) ELSE o.result,
    telemetry |-> IF op = "emit_telemetry" THEN Append(o.telemetry, p) ELSE o.telemetry,
    logs      |-> IF op = "log" THEN Append(o.logs, p) ELSE o.logs ]

\* What a call leaves behind in the execution it works on.
Record(o, op, p) ==
  [ result    |-> IF op = "submit_result" THEN <<p>> ELSE o.result,
    telemetry |-> IF op = "emit_telemetry" THEN Append(o.telemetry, p) ELSE o.telemetry,
    logs      |-> IF op = "log" THEN Append(o.logs, p) ELSE o.logs ]

\* Second half: the method runs on the pointer read earlier, installed or not.
\* With a nil pointer the call returns hostErrNotFound and changes nothing.
EndCall(g) ==
  LET host == call[g].host
      p == [by |-> g, run |-> RunOf(g)]
  IN
  /\ call[g] # NoCall
  /\ call' = [call EXCEPT ![g] = NoCall]
  /\ outputs' = IF host = NoHost THEN outputs
                ELSE [outputs EXCEPT ![host] = Record(@, call[g].op, p)]
  /\ answered' = answered \cup {[by |-> g, run |-> RunOf(g), host |-> host]}
  /\ UNCHANGED <<runMu, localHost, pc, execution, previous, built, owner, made, captured>>

-----------------------------------------------------------------------------
Leave(c) == Return(c) \/ Panic(c)
Unwind(c) == Capture(c) \/ AbortOpen(c) \/ Restore(c) \/ Unlock(c)
HostCall(g) == EndCall(g) \/ \E op \in Ops : BeginCall(g, op)

Next ==
  \/ \E c \in Callers : Enter(c) \/ Lock(c) \/ Install(c) \/ Leave(c) \/ Unwind(c)
  \/ \E c \in Callers, w \in Workers : Spawn(c, w)
  \/ \E w \in Workers : WorkerExit(w)
  \/ \E g \in Goroutines : HostCall(g)

Spec == Init /\ [][Next]_vars

\* sync.Mutex does not starve a waiter (strong fairness of Lock); the code
\* between the lock and the unlock, and a host call once begun, always finish;
\* and the run functions and workers of the program under test are assumed to
\* terminate.
Fairness ==
  /\ \A c \in Callers : SF_vars(Lock(c))
  /\ \A c \in Callers : WF_vars(Install(c)) /\ WF_vars(Leave(c)) /\ WF_vars(Unwind(c))
  /\ \A g \in Goroutines : WF_vars(EndCall(g))
  /\ \A w \in Workers : WF_vars(WorkerExit(w))

FairSpec == Spec /\ Fairness

-----------------------------------------------------------------------------
TypeOK ==
  /\ runMu \in Callers \cup {Nobody}
  /\ localHost \in Runs \cup {NoHost}
  /\ pc \in [Callers -> {"idle", "waiting", "locked", "running", "capturing",
                         "aborting", "restoring", "unlocking"}]
  /\ execution \in [Callers -> Runs \cup {NoHost}]
  /\ previous \in [Callers -> Runs \cup {NoHost}]
  /\ built \in 0..MaxRuns
  /\ owner \in [Workers -> Runs \cup {NoHost}]
  /\ call \in [Goroutines -> [op: Ops \cup {"none"}, host: Runs \cup {NoHost}]]
  /\ made \in 0..MaxCalls
  /\ outputs \in [Runs -> Outputs] /\ \A r \in Runs : Len(outputs[r].result) <= 1
  /\ captured \in [Runs -> Seq(Outputs)] /\ \A r \in Runs : Len(captured[r]) <= 1
  /\ answered \subseteq [by: Goroutines, run: Runs \cup {NoHost}, host: Runs \cup {NoHost}]

\* RunLocalHost restores "previous" on every path, panics included: whenever no
\* run holds localHostRunMu no host is installed, so a call outside a run gets
\* hostErrNotFound; and a run never finds another run's host to save.
NothingInstalledBetweenRuns ==
  /\ runMu = Nobody => localHost = NoHost
  /\ \A c \in Callers : previous[c] = NoHost

\* A host call made by a run function itself is answered by the execution that
\* its own RunLocalHost built: never by none, and never by another caller's,
\* although the pointer is read in one step and used in a later one.
MainCallsAnsweredByOwnRun ==
  \A a \in answered : a.by \in Callers => a.host = a.run

\* A worker that outlives its run may reach a later run's host through
\* currentLocalHost, but no call ever reaches the host of an earlier run.
NoCallReachesEarlierRun ==
  \A a \in answered : a.host # NoHost => a.run <= a.host

ByMain(p) == p.by \in Callers

\* A later list of payloads adds to an earlier one only what workers sent.
OnlyWorkersAdded(later, earlier) ==
  /\ Len(earlier) <= Len(later)
  /\ \A i \in 1..Len(later) : IF i <= Len(earlier) THEN later[i] = earlier[i]
                                                  ELSE ~ByMain(later[i])

\* What a run function itself submitted, emitted or logged is in what
\* RunLocalHost returned, however its workers' late calls interleave with the
\* capture; the last result it submitted is there unless a worker replaced it.
MainOutputsCaptured ==
  \A r \in Runs : captured[r] # << >> =>
    /\ OnlyWorkersAdded(outputs[r].telemetry, captured[r][1].telemetry)
    /\ OnlyWorkersAdded(outputs[r].logs, captured[r][1].logs)
    /\ \A i \in 1..Len(outputs[r].result) :
         ByMain(outputs[r].result[i]) => captured[r][1].result = outputs[r].result

\* A caller that asks for a run gets it and returns from RunLocalHost.
EveryRunReturns == \A c \in Callers : pc[c] = "waiting" ~> pc[c] = "idle"
=============================================================================
