--------------------------- MODULE NorthboundProofs ---------------------------
(***************************************************************************)
(* Proofs about Northbound, for any jobs, overrides, clocks and losses.    *)
(*                                                                         *)
(* An answer is worked out from the request and what the host sends back,  *)
(* so the invariant says what every answer of a job is (IsAnswer), and     *)
(* that a job that is polled is a deferred one whose continuation, if the  *)
(* host has it, is the task of its launch.  An override is followed from   *)
(* the answer that sets it over the host's store and a run's delivery to   *)
(* the run that applies it; on the way it never lasts longer than asked    *)
(* (KeepsTime).                                                            *)
(***************************************************************************)
EXTENDS Northbound, TLAPS

IsSample(request) == request.action \in {"device-lookup", "interface-audit"}

\* The suffix of a job's correlation id.
MainSuffix(request) ==
  IF request.action = "device-lookup"
  THEN IF request.mode = "deferred" THEN "device-async-task" ELSE "device"
  ELSE IF request.mode = "deferred" THEN "interface-async-task" ELSE "interface"

\* The correlation id of all of a job's answers.
MainTask(j, request) ==
  IF IsSample(request) THEN correlationID(j, MainSuffix(request)) ELSE ""

\* The correlation ids of its targets, as long as they are complete.
MainTargets(j, request) ==
  [t \in DOMAIN request.targets |->
     correlationID(j, IF request.action = "device-lookup" THEN request.targets[t].device
                      ELSE request.targets[t].interface)]

IsOp(op) ==
  \/ \E id : \E duration \in Nat : op = SetRunOverride(id, duration)
  \/ \E id : op = EndRunOverride(id)

\* What every answer of a job is.
IsAnswer(j, request, answer) ==
  /\ answer.kind = "answer"
  /\ answer.correlation = MainTask(j, request)
  /\ answer.targets # << >> /\ Complete(request) => answer.targets = MainTargets(j, request)
  /\ answer.overrides = << >> \/ \E op : IsOp(op) /\ answer.overrides = <<op>>
  /\ Final(answer) => answer.continuation = None
  /\ ~Final(answer) => /\ IsSample(request) /\ request.mode = "deferred"
                       /\ answer.continuation = Task(MainTask(j, request))

IsJob(j, known) ==
  /\ known = [request |-> known.request, stage |-> known.stage, attempts |-> known.attempts,
              continuation |-> known.continuation, answer |-> known.answer]
  /\ IsRequest(known.request)
  /\ known.stage \in {"launch", "poll", "done"} /\ known.attempts \in 0..MaxAttempts
  /\ known.stage = "poll" =>
       /\ IsSample(known.request) /\ known.request.mode = "deferred"
       /\ known.continuation = Task(MainTask(j, known.request))
  /\ known.stage # "poll" => known.continuation = None
  /\ known.answer # None => IsAnswer(j, known.request, known.answer)

\* What an answer leaves in said.
IsSaid(j, request, entry) ==
  /\ entry[1] = MainTask(j, request)
  /\ entry[2] # << >> /\ Complete(request) => entry[2] = MainTargets(j, request)

\* An override that lasts no longer than asked.
KeepsTime(override) ==
  /\ override \in Entry
  /\ override.asked >= Second => override.expires <= override.starts + override.asked

IsRun(r) ==
  /\ DOMAIN r = {"kind", "stage", "delivered", "expired", "pending", "resolved", "failed"}
  /\ r.kind = "run"
  /\ r.stage \in {"started", "working", "returned"} /\ r.failed \in BOOLEAN
  /\ \A o \in DOMAIN r.delivered : KeepsTime(r.delivered[o])
  /\ r.expired \subseteq DOMAIN r.delivered
  /\ r.pending \subseteq DOMAIN r.delivered
  /\ r.resolved \subseteq DOMAIN r.delivered
  /\ r.stage = "working" => r.expired \subseteq r.pending \cup r.resolved
  /\ r.stage = "returned" /\ r.failed = FALSE => r.expired \subseteq r.resolved

IsApplied(a) ==
  /\ KeepsTime(a.override) /\ a.at \in Int
  /\ a.override.starts <= a.at /\ a.at < a.override.expires

Clocks == now \in Nat /\ skew \in Int /\ losses \in 0..MaxLosses
Jobs == \A j \in DOMAIN job : IsJob(j, job[j])
Saids == /\ said = [j \in DOMAIN job |-> said[j]]
         /\ \A j \in DOMAIN job : \A entry \in said[j] : IsSaid(j, job[j].request, entry)
Stores == /\ store = [o \in Overrides |-> store[o]]
          /\ \A o \in Overrides : store[o] # None => KeepsTime(store[o])
Runs == run # None => IsRun(run)
Applied == applied # None => IsApplied(applied)

IInv == Clocks /\ Jobs /\ Saids /\ Stores /\ Runs /\ Applied

-----------------------------------------------------------------------------
(* What the actions answer. *)

\* The smallest and the largest number of a small set.
LEMMA SmallSets ==
  /\ Max({1}) = 1
  /\ \A S : S \subseteq 1..3 =>
       /\ 1 \in S => Min(S) = 1
       /\ 1 \notin S /\ 2 \in S => Min(S) = 2
<1>1. Max({1}) = 1
  <2>1. \E x \in {1} : \A y \in {1} : x >= y
    OBVIOUS
  <2>2. QED  BY <2>1 DEF Max
<1>2. ASSUME NEW S, S \subseteq 1..3, 1 \in S
      PROVE  Min(S) = 1
  <2>1. \A y \in S : 1 <= y
    BY <1>2
  <2>2. \A x \in S : (\A y \in S : x <= y) => x = 1
    BY <1>2
  <2>3. QED  BY <1>2, <2>1, <2>2 DEF Min
<1>3. ASSUME NEW S, S \subseteq 1..3, 1 \notin S, 2 \in S
      PROVE  Min(S) = 2
  <2>1. \A y \in S : 2 <= y
    BY <1>3
  <2>2. \A x \in S : (\A y \in S : x <= y) => x = 2
    BY <1>3, <2>1
  <2>3. QED  BY <1>3, <2>1, <2>2 DEF Min
<1>4. QED  BY <1>1, <1>2, <1>3

\* The first of three names that is there.
LEMMA FirstOf ==
  ASSUME NEW names, DOMAIN names = 1..3
  PROVE  /\ names[1] # "" => firstNonEmpty(names) = names[1]
         /\ names[1] = "" /\ names[2] # "" => firstNonEmpty(names) = names[2]
<1> DEFINE filled == {k \in DOMAIN names : names[k] # ""}
<1>1. /\ filled \subseteq 1..3
      /\ (1 \in filled) <=> (names[1] # "")
      /\ (2 \in filled) <=> (names[2] # "")
  <2>1. 1 \in DOMAIN names /\ 2 \in DOMAIN names
    OBVIOUS
  <2>2. \A k : k \in filled <=> k \in DOMAIN names /\ names[k] # ""
    OBVIOUS
  <2>3. QED  BY <2>1, <2>2
<1>2. firstNonEmpty(names) = IF filled = {} THEN "" ELSE names[Min(filled)]
  BY DEF firstNonEmpty
<1> HIDE DEF filled
<1>3. ASSUME names[1] # ""
      PROVE  firstNonEmpty(names) = names[1]
  <2>1. 1 \in filled
    BY <1>1, <1>3
  <2>2. Min(filled) = 1
    BY <2>1, <1>1, SmallSets
  <2>3. QED  BY <2>1, <2>2, <1>2
<1>4. ASSUME names[1] = "", names[2] # ""
      PROVE  firstNonEmpty(names) = names[2]
  <2>1. 1 \notin filled /\ 2 \in filled
    BY <1>1, <1>4
  <2>2. Min(filled) = 2
    BY <2>1, <1>1, SmallSets
  <2>3. QED  BY <2>1, <2>2, <1>2
<1>5. QED  BY <1>3, <1>4

\* Its id is the interface's as long as it has one, and then the device's.
LEMMA FirstName ==
  ASSUME NEW target, NEW suffix
  PROVE  LET name == firstNonEmpty(<<target.interface, target.device, suffix>>)
         IN /\ target.interface # "" => name = target.interface
            /\ target.interface = "" /\ target.device # "" => name = target.device
<1>1. PICK names : names = <<target.interface, target.device, suffix>>
  OBVIOUS
<1>2. DOMAIN names = 1..3 /\ names[1] = target.interface /\ names[2] = target.device
  BY <1>1
<1>3. QED  BY <1>1, <1>2, FirstOf

\* What a launch answers at once, and the last poll.
LEMMA ImmediateAnswer ==
  ASSUME NEW invocation, NEW request, NEW correlation,
         invocation.action = request.action, invocation.targets = request.targets,
         correlation = MainTask(invocation.id, request), IsSample(request)
  PROVE  IsAnswer(invocation.id, request, Immediate(invocation, correlation))
<1>0. PICK answer : answer = Immediate(invocation, correlation)
  OBVIOUS
<1>1. /\ answer.kind = "answer" /\ answer.status = "succeeded"
      /\ answer.correlation = correlation /\ answer.continuation = None
      /\ answer.overrides = << >>
      /\ answer.targets = [t \in DOMAIN invocation.targets |->
                             TargetCorrelation(invocation, invocation.targets[t])]
  BY <1>0 DEF Immediate, Answer
<1>2. answer.targets = MainTargets(invocation.id, request)
  BY <1>1 DEF TargetCorrelation, MainTargets
<1>3. Final(answer)
  BY <1>1 DEF Final
<1>4. QED  BY <1>0, <1>1, <1>2, <1>3 DEF IsAnswer

\* What a deferred launch answers.
LEMMA DeferredAnswer ==
  ASSUME NEW invocation, NEW request, NEW suffix,
         invocation.action = request.action, invocation.targets = request.targets,
         request.mode = "deferred", IsSample(request), IsRequest(request),
         suffix = IF request.action = "device-lookup" THEN "device" ELSE "interface"
  PROVE  IsAnswer(invocation.id, request, deferAction(invocation, suffix))
<1>0. PICK answer : answer = deferAction(invocation, suffix)
  OBVIOUS
<1> DEFINE id == invocation.id
           Name(target) == firstNonEmpty(<<target.interface, target.device, suffix>>)
<1>1. taskOf(invocation, suffix) = MainTask(id, request)
  BY DEF taskOf, MainTask, MainSuffix, IsSample
<1>2. /\ answer.kind = "answer" /\ answer.status = "deferred"
      /\ answer.correlation = MainTask(id, request)
      /\ answer.continuation = Task(MainTask(id, request))
      /\ answer.overrides = << >>
      /\ answer.targets = [t \in DOMAIN request.targets |->
                             correlationID(id, Name(request.targets[t]))]
  BY <1>0, <1>1 DEF deferAction, Answer
<1>3. ~Final(answer)
  BY <1>2 DEF Final
<1>4. Complete(request) => answer.targets = MainTargets(id, request)
  <2>1. SUFFICES ASSUME Complete(request), NEW t \in DOMAIN request.targets
                 PROVE  Name(request.targets[t]) =
                          IF request.action = "device-lookup" THEN request.targets[t].device
                          ELSE request.targets[t].interface
    BY <1>2 DEF MainTargets
  <2>2. request.targets[t] \in Range(request.targets)
    BY DEF Range
  <2>3. PICK target : target = request.targets[t]
    OBVIOUS
  <2>4. /\ target.interface # "" => Name(target) = target.interface
        /\ target.interface = "" /\ target.device # "" => Name(target) = target.device
    BY FirstName
  <2>5. CASE request.action = "device-lookup"
    <3>1. target.device # "" /\ target.interface = ""
      BY <2>1, <2>2, <2>3, <2>5 DEF Complete
    <3>2. QED  BY <2>3, <2>4, <2>5, <3>1
  <2>6. CASE request.action # "device-lookup"
    <3>1. target.interface # ""
      BY <2>1, <2>2, <2>3, <2>6 DEF Complete
    <3>2. QED  BY <2>3, <2>4, <2>6, <3>1
  <2>7. QED  BY <2>5, <2>6
<1>5. QED  BY <1>0, <1>2, <1>3, <1>4 DEF IsAnswer

\* What a poll answers.
LEMMA PollAnswer ==
  ASSUME NEW invocation, NEW request, NEW suffix,
         invocation.action = request.action, invocation.targets = request.targets,
         invocation.continuation \in {Task(MainTask(invocation.id, request)), None},
         request.mode = "deferred", IsSample(request),
         suffix = IF request.action = "device-lookup" THEN "device" ELSE "interface"
  PROVE  IsAnswer(invocation.id, request, pollDeferredAction(invocation, suffix))
<1> DEFINE task == IF invocation.continuation # None THEN invocation.continuation.task
                   ELSE taskOf(invocation, suffix)
           answer == Answer("result_fetching", task, Task(task), << >>, << >>)
<1>1. taskOf(invocation, suffix) = MainTask(invocation.id, request)
  BY DEF taskOf, MainTask, MainSuffix, IsSample
<1>2. task = MainTask(invocation.id, request)
  BY <1>1 DEF Task
<1> HIDE DEF task
<1>3. IsAnswer(invocation.id, request, Immediate(invocation, task))
  BY <1>2, ImmediateAnswer
<1>4. /\ answer.kind = "answer" /\ answer.status = "result_fetching"
      /\ answer.correlation = task /\ answer.continuation = Task(task)
      /\ answer.targets = << >> /\ answer.overrides = << >>
  BY DEF Answer
<1>5. ~Final(answer)
  BY <1>4 DEF Final
<1>6. pollDeferredAction(invocation, suffix) \in {answer, Immediate(invocation, task)}
  BY DEF pollDeferredAction, task
<1> HIDE DEF answer
<1>7. IsAnswer(invocation.id, request, answer)
  BY <1>2, <1>4, <1>5 DEF IsAnswer
<1>8. QED  BY <1>3, <1>6, <1>7

\* What an answer about an override is.
LEMMA ChangeAnswer ==
  ASSUME NEW j, NEW request, ~IsSample(request), NEW status \in {"succeeded", "failed"},
         NEW overrides, overrides = << >> \/ \E op : IsOp(op) /\ overrides = <<op>>
  PROVE  IsAnswer(j, request, Answer(status, "", None, << >>, overrides))
<1>0. PICK answer : answer = Answer(status, "", None, << >>, overrides)
  OBVIOUS
<1>1. /\ answer.kind = "answer" /\ answer.status = status
      /\ answer.correlation = "" /\ answer.continuation = None
      /\ answer.targets = << >> /\ answer.overrides = overrides
  BY <1>0 DEF Answer
<1>2. Final(answer)
  BY <1>1 DEF Final
<1>3. MainTask(j, request) = ""
  BY DEF MainTask
<1>4. QED  BY <1>0, <1>1, <1>2, <1>3 DEF IsAnswer

\* What the host gets when it calls an action.
LEMMA ActionAnswers ==
  ASSUME NEW j \in DOMAIN job, IsJob(j, job[j]), job[j].stage # "done",
         NEW continuation \in {job[j].continuation, None}
  PROVE  IsAnswer(j, job[j].request, handleAction(Invocation(j, continuation)))
<1> DEFINE request == job[j].request
<1>1. PICK invocation : invocation = Invocation(j, continuation)
  OBVIOUS
<1>2. /\ invocation.id = j /\ invocation.phase = job[j].stage
      /\ invocation.continuation = continuation
      /\ invocation.action = request.action /\ invocation.mode = request.mode
      /\ invocation.targets = request.targets
      /\ invocation.override = request.override /\ invocation.duration = request.duration
  BY <1>1 DEF Invocation
<1>3. IsRequest(request)
  BY DEF IsJob
<1>4. CASE IsSample(request)
  <2>1. PICK suffix : suffix = IF request.action = "device-lookup" THEN "device" ELSE "interface"
    OBVIOUS
  <2>2. handleAction(invocation) = runSample(invocation, suffix)
    BY <1>2, <1>4, <2>1 DEF handleAction, IsSample
  <2>3. CASE invocation.phase = "poll"
    <3>1. request.mode = "deferred" /\ continuation \in {Task(MainTask(j, request)), None}
      BY <1>2, <2>3 DEF IsJob
    <3>2. IsAnswer(j, request, pollDeferredAction(invocation, suffix))
      BY <1>2, <1>4, <2>1, <3>1, PollAnswer
    <3>3. QED  BY <1>1, <2>2, <2>3, <3>2 DEF runSample
  <2>4. CASE invocation.phase # "poll" /\ request.mode = "deferred"
    <3>1. IsAnswer(j, request, deferAction(invocation, suffix))
      BY <1>2, <1>3, <1>4, <2>1, <2>4, DeferredAnswer
    <3>2. QED  BY <1>1, <1>2, <2>2, <2>4, <3>1 DEF runSample
  <2>5. CASE invocation.phase # "poll" /\ request.mode # "deferred"
    <3>1. correlationID(j, suffix) = MainTask(j, request)
      BY <1>4, <2>1, <2>5 DEF MainTask, MainSuffix, IsSample
    <3>2. IsAnswer(j, request, Immediate(invocation, correlationID(j, suffix)))
      BY <1>2, <1>4, <3>1, ImmediateAnswer
    <3>3. QED  BY <1>1, <1>2, <2>2, <2>5, <3>2 DEF runSample
  <2>6. QED  BY <2>3, <2>4, <2>5
<1>5. CASE ~IsSample(request)
  <2>1. PICK set : set = SetRunOverride(request.override, request.duration)
    OBVIOUS
  <2>2. PICK end : end = EndRunOverride(request.override)
    OBVIOUS
  <2>3. IsOp(set) /\ IsOp(end)
    BY <1>3, <2>1, <2>2 DEF IsOp, IsRequest
  <2>4. /\ IsAnswer(j, request, Answer("succeeded", "", None, << >>, <<set>>))
        /\ IsAnswer(j, request, Answer("succeeded", "", None, << >>, <<end>>))
        /\ IsAnswer(j, request, Answer("failed", "", None, << >>, << >>))
    BY <1>5, <2>3, ChangeAnswer
  <2>5. handleAction(invocation) \in {Answer("succeeded", "", None, << >>, <<set>>),
                                      Answer("succeeded", "", None, << >>, <<end>>),
                                      Answer("failed", "", None, << >>, << >>)}
    BY <1>2, <1>5, <2>1, <2>2 DEF handleAction, IsSample
  <2>6. QED  BY <1>1, <2>4, <2>5
<1>6. QED  BY <1>4, <1>5

-----------------------------------------------------------------------------
(* How long an override lasts. *)

\* What the whole seconds of a duration are of it.
LEMMA SecondsFit ==
  ASSUME NEW duration \in Nat
  PROVE  /\ WholeSeconds(duration) \in Nat
         /\ Second * WholeSeconds(duration) <= duration
         /\ WholeSeconds(duration) = 0 => duration < Second
  BY ParametersAssumption DEF WholeSeconds

\* Fewer seconds take less time.
LEMMA SecondsMonotone ==
  ASSUME NEW m \in Nat, NEW n \in Nat, m <= n
  PROVE  Second * m \in Nat /\ Second * m <= Second * n
  BY ParametersAssumption

\* An override that an action sets lasts no longer than asked.
LEMMA ChangedKeepsTime ==
  ASSUME NEW op, IsOp(op), NEW maximum \in Nat, now \in Nat
  PROVE  Changed(op, maximum) = None \/ KeepsTime(Changed(op, maximum))
<1>1. CASE \E id : op = EndRunOverride(id)
  BY <1>1 DEF EndRunOverride, Changed
<1>2. CASE \E id : \E duration \in Nat : op = SetRunOverride(id, duration)
  <2>1. PICK duration \in Nat : \E id : op = SetRunOverride(id, duration)
    BY <1>2
  <2>2. PICK seconds : seconds = WholeSeconds(duration)
    OBVIOUS
  <2>3. op.op = "set" /\ op.seconds = seconds /\ op.asked = duration
    BY <2>1, <2>2 DEF SetRunOverride
  <2>4. /\ seconds \in Nat /\ Second * seconds <= duration
        /\ seconds = 0 => duration < Second
    BY <2>2, SecondsFit
  <2>5. PICK length : length = IF seconds = 0 \/ seconds > maximum THEN maximum ELSE seconds
    OBVIOUS
  <2>6. length \in Nat /\ Second * length \in Nat
    BY <2>4, <2>5, SecondsMonotone
  <2>7. seconds # 0 => Second * length <= Second * seconds
    BY <2>4, <2>5, SecondsMonotone
  <2>8. PICK time : time = Second * length
    OBVIOUS
  <2>9. duration >= Second => time <= duration
    BY <2>4, <2>6, <2>7, <2>8, ParametersAssumption
  <2>10. Changed(op, maximum) = [kind |-> "override", starts |-> now, asked |-> duration,
                                 expires |-> now + time]
    BY <2>3, <2>5, <2>8 DEF Changed
  <2>11. QED  BY <2>6, <2>8, <2>9, <2>10, ParametersAssumption DEF KeepsTime, Entry
<1>3. QED  BY <1>1, <1>2 DEF IsOp

\* So does what the store holds after an answer.
LEMMA StoredKeepsTime ==
  ASSUME NEW j, NEW request, NEW answer, IsAnswer(j, request, answer),
         NEW maximum \in Nat, NEW endless, now \in Nat,
         NEW o, store[o] # None => KeepsTime(store[o])
  PROVE  LET next == Stored(o, answer.overrides, maximum, endless)
         IN next # None => KeepsTime(next)
<1>1. PICK changes : changes = answer.overrides
  OBVIOUS
<1>2. PICK heeded :
        heeded = {k \in DOMAIN changes : changes[k].id = o /\ ~Ignored(changes[k], maximum, endless)}
  OBVIOUS
<1>3. Stored(o, changes, maximum, endless) =
        IF heeded = {} THEN store[o] ELSE Changed(changes[Max(heeded)], maximum)
  BY <1>2 DEF Stored
<1>4. CASE heeded = {}
  BY <1>1, <1>3, <1>4
<1>5. CASE heeded # {}
  <2>1. PICK op : IsOp(op) /\ changes = <<op>>
    <3>1. changes # << >>
      BY <1>2, <1>5
    <3>2. QED  BY <1>1, <3>1 DEF IsAnswer
  <2>2. DOMAIN changes = {1} /\ changes[1] = op
    BY <2>1
  <2>3. heeded = {1}
    BY <1>2, <1>5, <2>2
  <2>4. Stored(o, changes, maximum, endless) = Changed(op, maximum)
    BY <1>3, <1>5, <2>2, <2>3, SmallSets
  <2>5. QED  BY <1>1, <2>1, <2>4, ChangedKeepsTime
<1>6. QED  BY <1>4, <1>5

-----------------------------------------------------------------------------
(* The invariant. *)

LEMMA InitInvariant == Init => IInv
<1>1. SUFFICES ASSUME Init
               PROVE  IInv
  OBVIOUS
<1>2. PICK setting \in Settings :
        /\ skew = setting.skew
        /\ job = [j \in DOMAIN setting.jobs |->
                   [request |-> setting.jobs[j], stage |-> "launch", attempts |-> setting.first,
                    continuation |-> None, answer |-> None]]
  BY <1>1 DEF Init
<1>3. /\ setting.skew \in Int /\ setting.first \in 0..MaxAttempts
      /\ \A j \in DOMAIN setting.jobs : IsRequest(setting.jobs[j])
  BY ParametersAssumption
<1>4. Clocks
  BY <1>1, <1>2, <1>3, ParametersAssumption DEF Init, Clocks
<1>5. Jobs
  BY <1>2, <1>3 DEF Jobs, IsJob
<1>6. Saids
  BY <1>1 DEF Init, Saids
<1>7. Stores /\ Runs /\ Applied
  BY <1>1 DEF Init, Stores, Runs, Applied
<1>8. QED  BY <1>4, <1>5, <1>6, <1>7 DEF IInv

\* The host calls an action: its answer is what every answer of the job is.
LEMMA InvokeInvariant ==
  ASSUME IInv, NEW j \in DOMAIN job, Invoke(j)
  PROVE  IInv'
<1>1. /\ job[j].stage # "done" /\ IsJob(j, job[j])
      /\ UNCHANGED <<hostVars, run, applied>>
  BY DEF Invoke, IInv, Jobs
<1>2. PICK answer : /\ IsAnswer(j, job[j].request, answer)
                    /\ job' = [job EXCEPT ![j].answer = answer]
                    /\ said' = [said EXCEPT ![j] = @ \cup {<<answer.correlation, answer.targets>>}]
  BY <1>1, ActionAnswers DEF Invoke
<1>3. /\ DOMAIN job' = DOMAIN job
      /\ \A i \in DOMAIN job : i # j => job'[i] = job[i]
      /\ job'[j] = [job[j] EXCEPT !.answer = answer]
  BY <1>2
<1>4. IsJob(j, job'[j]) /\ job'[j].request = job[j].request
  BY <1>1, <1>2, <1>3 DEF IsJob
<1>5. Jobs'
  BY <1>3, <1>4 DEF IInv, Jobs
<1>6. Saids'
  <2>1. /\ said' = [i \in DOMAIN job' |-> said'[i]]
        /\ \A i \in DOMAIN job : i # j => said'[i] = said[i]
        /\ said'[j] = said[j] \cup {<<answer.correlation, answer.targets>>}
    BY <1>2, <1>3 DEF IInv, Saids
  <2>2. IsSaid(j, job[j].request, <<answer.correlation, answer.targets>>)
    BY <1>2 DEF IsAnswer, IsSaid
  <2>3. \A i \in DOMAIN job : \A entry \in said'[i] : IsSaid(i, job[i].request, entry)
    BY <2>1, <2>2 DEF IInv, Saids
  <2>4. \A i \in DOMAIN job : job'[i].request = job[i].request
    BY <1>3, <1>4
  <2>5. QED  BY <1>3, <2>1, <2>3, <2>4 DEF Saids
<1>7. QED
  BY <1>1, <1>5, <1>6 DEF IInv, Clocks, Stores, Runs, Applied, hostVars

\* A bounded count.
LEMMA AtMostType ==
  ASSUME NEW n \in Nat
  PROVE  AtMost(n) \in 0..MaxAttempts
  BY ParametersAssumption DEF AtMost

\* An answer arrives: a job that goes on is a deferred one with its task.
LEMMA AnswerArrivesInvariant ==
  ASSUME IInv, NEW j \in DOMAIN job, AnswerArrives(j)
  PROVE  IInv'
<1>1. PICK answer : answer = job[j].answer
  OBVIOUS
<1>2. /\ answer # None /\ IsJob(j, job[j]) /\ IsAnswer(j, job[j].request, answer)
      /\ UNCHANGED <<now, skew, losses, said, run, applied>>
  BY <1>1 DEF AnswerArrives, IInv, Jobs, IsJob
<1>3. PICK attempts : attempts = IF job[j].stage = "launch" THEN job[j].attempts
                                 ELSE AtMost(job[j].attempts + 1)
  OBVIOUS
<1>4. attempts \in 0..MaxAttempts
  BY <1>2, <1>3, AtMostType DEF IsJob
<1>5. /\ DOMAIN job' = DOMAIN job
      /\ \A i \in DOMAIN job : i # j => job'[i] = job[i]
      /\ job'[j] = [request |-> job[j].request, stage |-> IF Final(answer) THEN "done" ELSE "poll",
                    attempts |-> attempts, continuation |-> answer.continuation, answer |-> None]
  BY <1>1, <1>3 DEF AnswerArrives
<1>6. IsJob(j, job'[j]) /\ job'[j].request = job[j].request
  <2>1. CASE Final(answer)
    BY <1>2, <1>4, <1>5, <2>1 DEF IsJob, IsAnswer
  <2>2. CASE ~Final(answer)
    BY <1>2, <1>4, <1>5, <2>2 DEF IsJob, IsAnswer
  <2>3. QED  BY <2>1, <2>2
<1>7. Jobs'
  BY <1>5, <1>6 DEF IInv, Jobs
<1>8. Saids'
  <2>1. \A i \in DOMAIN job : job'[i].request = job[i].request
    BY <1>5, <1>6
  <2>2. QED  BY <1>2, <1>5, <2>1 DEF IInv, Saids
<1>9. Stores'
  <2>1. PICK endless \in BOOLEAN :
          store' = [o \in Overrides |->
                      Stored(o, answer.overrides, job[j].request.maximum, endless)]
    BY <1>1 DEF AnswerArrives
  <2>2. job[j].request.maximum \in Nat
    BY <1>2 DEF IsJob, IsRequest
  <2>3. \A o \in Overrides : store[o] # None => KeepsTime(store[o])
    BY DEF IInv, Stores
  <2>4. now \in Nat
    BY DEF IInv, Clocks
  <2>5. ASSUME NEW o \in Overrides
        PROVE  store'[o] # None => KeepsTime(store'[o])
    <3>1. store'[o] = Stored(o, answer.overrides, job[j].request.maximum, endless)
      BY <2>1
    <3>2. QED  BY <1>2, <2>2, <2>3, <2>4, <3>1, StoredKeepsTime
  <2>6. store' = [o \in Overrides |-> store'[o]]
    BY <2>1
  <2>7. QED  BY <2>5, <2>6 DEF Stores
<1>10. QED
  BY <1>2, <1>7, <1>8, <1>9 DEF IInv, Clocks, Runs, Applied

LEMMA AnswerLostInvariant ==
  ASSUME IInv, NEW j \in DOMAIN job, AnswerLost(j)
  PROVE  IInv'
<1>1. /\ losses < MaxLosses /\ losses' = losses + 1 /\ IsJob(j, job[j])
      /\ UNCHANGED <<now, skew, said, store, run, applied>>
  BY DEF AnswerLost, IInv, Jobs
<1>2. PICK attempts :
        /\ attempts \in 0..MaxAttempts
        /\ job' = [job EXCEPT ![j].answer = None, ![j].attempts = attempts]
  <2>1. PICK more \in {0, 1} :
          job' = [job EXCEPT ![j].answer = None,
                             ![j].attempts = IF job[j].stage = "launch" THEN @
                                             ELSE AtMost(@ + more)]
    BY DEF AnswerLost
  <2>2. PICK attempts : attempts = IF job[j].stage = "launch" THEN job[j].attempts
                                   ELSE AtMost(job[j].attempts + more)
    OBVIOUS
  <2>3. attempts \in 0..MaxAttempts
    BY <1>1, <2>2, AtMostType DEF IsJob
  <2>4. job' = [job EXCEPT ![j].answer = None, ![j].attempts = attempts]
    BY <2>1, <2>2
  <2>5. QED  BY <2>3, <2>4
<1>3. /\ DOMAIN job' = DOMAIN job
      /\ \A i \in DOMAIN job : i # j => job'[i] = job[i]
      /\ job'[j] = [job[j] EXCEPT !.answer = None, !.attempts = attempts]
  BY <1>2
<1>4. IsJob(j, job'[j]) /\ job'[j].request = job[j].request
  BY <1>1, <1>2, <1>3 DEF IsJob
<1>5. Jobs'
  BY <1>3, <1>4 DEF IInv, Jobs
<1>6. Saids'
  <2>1. \A i \in DOMAIN job : job'[i].request = job[i].request
    BY <1>3, <1>4
  <2>2. QED  BY <1>1, <1>3, <2>1 DEF IInv, Saids
<1>7. Clocks'
  BY <1>1, ParametersAssumption DEF IInv, Clocks
<1>8. QED
  BY <1>1, <1>5, <1>6, <1>7 DEF IInv, Stores, Runs, Applied

\* The host delivers what it stores.
LEMMA StartRunInvariant ==
  ASSUME IInv, StartRun
  PROVE  IInv'
<1>1. /\ run' = [kind |-> "run", stage |-> "started", delivered |-> [o \in Present |-> store[o]],
                 expired |-> {o \in Present : now >= store[o].expires},
                 pending |-> {}, resolved |-> {}, failed |-> FALSE]
      /\ UNCHANGED <<hostVars, job, said, applied>>
  BY DEF StartRun
<1>2. \A o \in Present : KeepsTime(store[o])
  BY DEF IInv, Stores, Present
<1>3. IsRun(run')
  BY <1>1, <1>2 DEF IsRun
<1>4. QED
  BY <1>1, <1>3 DEF IInv, Clocks, Jobs, Saids, Stores, Runs, Applied, hostVars

\* A run that is under way.
LEMMA RunningIsRun == IInv /\ run.kind = "run" => IsRun(run)
  BY DEF IInv, Runs, None

LEMMA ReadOverridesInvariant ==
  ASSUME IInv, ReadOverrides
  PROVE  IInv'
<1>1. PICK readable \in BOOLEAN :
        /\ run.stage = "started" /\ UNCHANGED <<hostVars, job, said, applied>>
        /\ run' = [run EXCEPT !.stage = IF readable THEN "working" ELSE "returned",
                              !.failed = ~readable,
                              !.pending = IF readable THEN Parsed(DOMAIN run.delivered, run.expired)
                                          ELSE {}]
  BY DEF ReadOverrides
<1>2. IsRun(run)
  BY RunningIsRun DEF ReadOverrides
<1>3. IsRun(run')
  <2>1. CASE readable = TRUE
    <3>1. run' = [run EXCEPT !.stage = "working", !.failed = FALSE, !.pending = DOMAIN run.delivered]
      BY <1>1, <2>1 DEF Parsed
    <3>2. QED  BY <1>2, <3>1 DEF IsRun
  <2>2. CASE readable = FALSE
    <3>1. run' = [run EXCEPT !.stage = "returned", !.failed = TRUE, !.pending = {}]
      BY <1>1, <2>2
    <3>2. QED  BY <1>2, <3>1 DEF IsRun
  <2>3. QED  BY <1>1, <2>1, <2>2
<1>4. QED
  BY <1>1, <1>3 DEF IInv, Clocks, Jobs, Saids, Stores, Runs, Applied, hostVars

\* An expired override gets its event before the run is done with it; an active one is
\* applied before it is over.
LEMMA HandleOverrideInvariant ==
  ASSUME IInv, HandleOverride
  PROVE  IInv'
<1>1. IsRun(run) /\ run.stage = "working" /\ UNCHANGED <<hostVars, job, said>>
  BY RunningIsRun DEF HandleOverride
<1>2. PICK o \in run.pending :
        \/ /\ o \in run.expired /\ UNCHANGED applied
           /\ \/ run' = [run EXCEPT !.pending = @ \ {o}, !.resolved = @ \cup {o}]
              \/ run' = [run EXCEPT !.stage = "returned", !.failed = TRUE]
        \/ /\ o \notin run.expired /\ run' = [run EXCEPT !.pending = @ \ {o}]
           /\ \/ /\ ActiveAt(run.delivered[o], now + skew)
                 /\ applied' = [kind |-> "applied", override |-> run.delivered[o], at |-> now + skew]
              \/ UNCHANGED applied
  BY <1>1 DEF HandleOverride, IsRun
<1>3. o \in DOMAIN run.delivered /\ KeepsTime(run.delivered[o])
  BY <1>1, <1>2 DEF IsRun
<1>4. IsRun(run')
  <2>1. CASE /\ o \in run.expired
             /\ run' = [run EXCEPT !.pending = @ \ {o}, !.resolved = @ \cup {o}]
    BY <1>1, <1>3, <2>1 DEF IsRun
  <2>2. CASE run' = [run EXCEPT !.stage = "returned", !.failed = TRUE]
    BY <1>1, <2>2 DEF IsRun
  <2>3. CASE o \notin run.expired /\ run' = [run EXCEPT !.pending = @ \ {o}]
    BY <1>1, <1>3, <2>3 DEF IsRun
  <2>4. QED  BY <1>2, <2>1, <2>2, <2>3
<1>5. Applied'
  <2>1. now + skew \in Int
    BY DEF IInv, Clocks
  <2>2. CASE /\ ActiveAt(run.delivered[o], now + skew)
             /\ applied' = [kind |-> "applied", override |-> run.delivered[o], at |-> now + skew]
    BY <1>3, <2>1, <2>2 DEF Applied, IsApplied, ActiveAt
  <2>3. CASE UNCHANGED applied
    BY <2>3 DEF IInv, Applied
  <2>4. QED  BY <1>2, <2>2, <2>3
<1>6. QED
  BY <1>1, <1>4, <1>5 DEF IInv, Clocks, Jobs, Saids, Stores, Runs, hostVars

LEMMA FunctionReturnsInvariant ==
  ASSUME IInv, FunctionReturns
  PROVE  IInv'
<1>1. /\ IsRun(run) /\ run.stage = "working" /\ run.pending = {}
      /\ run' = [run EXCEPT !.stage = "returned"]
      /\ UNCHANGED <<hostVars, job, said, applied>>
  BY RunningIsRun DEF FunctionReturns
<1>2. IsRun(run')
  BY <1>1 DEF IsRun
<1>3. QED
  BY <1>1, <1>2 DEF IInv, Clocks, Jobs, Saids, Stores, Runs, Applied, hostVars

LEMMA ResultArrivesInvariant ==
  ASSUME IInv, ResultArrives
  PROVE  IInv'
<1>1. /\ run' = None /\ applied' = None /\ UNCHANGED <<now, skew, schema, losses, job, said>>
      /\ store' = [o \in Overrides |->
                     IF Submits(run.failed) /\ o \in run.expired /\ store[o] = run.delivered[o]
                     THEN None ELSE store[o]]
  BY DEF ResultArrives
<1>2. Stores'
  BY <1>1 DEF IInv, Stores
<1>3. QED
  BY <1>1, <1>2 DEF IInv, Clocks, Jobs, Saids, Runs, Applied

LEMMA RunLostInvariant ==
  ASSUME IInv, RunLost
  PROVE  IInv'
<1>1. /\ losses < MaxLosses /\ losses' = losses + 1 /\ run' = None /\ applied' = None
      /\ UNCHANGED <<now, skew, schema, job, said, store>>
  BY DEF RunLost
<1>2. Clocks'
  BY <1>1, ParametersAssumption DEF IInv, Clocks
<1>3. QED
  BY <1>1, <1>2 DEF IInv, Jobs, Saids, Stores, Runs, Applied

LEMMA TickInvariant ==
  ASSUME IInv, Tick
  PROVE  IInv'
  BY DEF Tick, IInv, Clocks, Jobs, Saids, Stores, Runs, Applied

LEMMA NextInvariant == IInv /\ [Next]_vars => IInv'
<1>1. SUFFICES ASSUME IInv, [Next]_vars
               PROVE  IInv'
  OBVIOUS
<1>2. ASSUME NEW j \in DOMAIN job, Invoke(j) \/ AnswerArrives(j) \/ AnswerLost(j)
      PROVE  IInv'
  BY <1>1, <1>2, InvokeInvariant, AnswerArrivesInvariant, AnswerLostInvariant
<1>3. CASE StartRun
  BY <1>1, <1>3, StartRunInvariant
<1>4. CASE RunStep
  BY <1>1, <1>4, ReadOverridesInvariant, HandleOverrideInvariant, FunctionReturnsInvariant,
     ResultArrivesInvariant DEF RunStep
<1>5. CASE RunLost
  BY <1>1, <1>5, RunLostInvariant
<1>6. CASE Tick
  BY <1>1, <1>6, TickInvariant
<1>7. CASE UNCHANGED vars
  BY <1>1, <1>7 DEF IInv, Clocks, Jobs, Saids, Stores, Runs, Applied, vars, hostVars
<1>8. QED  BY <1>1, <1>2, <1>3, <1>4, <1>5, <1>6, <1>7 DEF Next

\* Every state of every behaviour satisfies the invariant.
THEOREM Invariant == Spec => []IInv
  BY InitInvariant, NextInvariant, PTL DEF Spec

-----------------------------------------------------------------------------
(* What the invariant means. *)

\* The variables keep their types (sdk/run_override.go:34-45, sdk/action.go:130-152).
THEOREM TypeCorrect == Spec => []TypeOK
<1>1. IInv => TypeOK
  <2>1. SUFFICES ASSUME IInv
                 PROVE  TypeOK
    OBVIOUS
  <2>2. now \in Nat /\ losses \in 0..MaxLosses /\ skew \in Int
    BY <2>1 DEF IInv, Clocks
  <2>3. ASSUME NEW j \in DOMAIN job
        PROVE  /\ job[j].stage \in {"launch", "poll", "done"}
               /\ job[j].attempts \in 0..MaxAttempts
               /\ job[j].answer.kind \in {"none", "answer"}
               /\ job[j].stage = "poll" <=> job[j].continuation # None
    <3>1. IsJob(j, job[j])
      BY <2>1 DEF IInv, Jobs
    <3>2. \A task : Task(task) # None
      BY DEF Task, None
    <3>3. job[j].answer.kind \in {"none", "answer"}
      BY <3>1 DEF IsJob, IsAnswer, None
    <3>4. QED  BY <3>1, <3>2, <3>3 DEF IsJob
  <2>4. store \in [Overrides -> Entry \cup {None}]
    BY <2>1 DEF IInv, Stores, KeepsTime
  <2>5. applied # None => applied.override \in Entry
    BY <2>1 DEF IInv, Applied, IsApplied, KeepsTime
  <2>6. run # None => /\ run.stage \in {"started", "working", "returned"}
                      /\ run.expired \subseteq DOMAIN run.delivered
                      /\ run.pending \cup run.resolved \subseteq DOMAIN run.delivered
    BY <2>1 DEF IInv, Runs, IsRun
  <2>7. QED  BY <2>2, <2>3, <2>4, <2>5, <2>6 DEF TypeOK
<1>2. QED  BY <1>1, Invariant, PTL

\* All answers of a job name one task, and complete targets keep their ids, for any
\* requests, attempts and losses (examples/sample-northbound/action.go:155-212, 353-362).
THEOREM TaskIsKept == Spec => []OneTaskPerJob
<1>1. IInv => OneTaskPerJob
  BY DEF IInv, Saids, IsSaid, OneTaskPerJob
<1>2. QED  BY <1>1, Invariant, PTL

\* No run applies an override outside the time that was asked for it, for any durations,
\* maxima and clocks (sdk/run_override.go:99-116).
THEOREM TimeIsKept == Spec => []NeverAppliedLongerThanAsked
<1>1. IInv => NeverAppliedLongerThanAsked
  <2>1. SUFFICES ASSUME IInv, applied # None, applied.override.asked >= Second
                 PROVE  /\ applied.at >= applied.override.starts
                        /\ applied.at < applied.override.starts + applied.override.asked
    BY DEF NeverAppliedLongerThanAsked
  <2>2. PICK override : override = applied.override
    OBVIOUS
  <2>3. PICK at : at = applied.at
    OBVIOUS
  <2>4. /\ KeepsTime(override) /\ at \in Int
        /\ override.starts <= at /\ at < override.expires
    BY <2>1, <2>2, <2>3 DEF IInv, Applied, IsApplied
  <2>5. /\ override.starts \in Nat /\ override.asked \in Nat /\ override.expires \in Nat
        /\ override.expires <= override.starts + override.asked
    BY <2>1, <2>2, <2>4 DEF KeepsTime, Entry
  <2>6. at >= override.starts /\ at < override.starts + override.asked
    BY <2>4, <2>5
  <2>7. QED  BY <2>2, <2>3, <2>6
<1>2. QED  BY <1>1, Invariant, PTL

\* The result of a run that went well drops only what that run resolved, whatever it was
\* delivered (sdk/run_override.go:71-97, 135-137, sdk/execute.go:6-42).
THEOREM DropsHaveCause == Spec => DroppedForCause
<1> DEFINE Caused == \A o \in Present : store'[o] = None /\ run # None /\ run' = None =>
                       o \in run.resolved \/ run.failed
<1>1. IInv /\ [Next]_vars => [Caused]_vars
  <2>1. SUFFICES ASSUME IInv, Next, NEW o \in Present,
                        store'[o] = None, run # None, run' = None, run.failed = FALSE
                 PROVE  o \in run.resolved
    <3>1. IInv /\ run # None => run.failed \in BOOLEAN
      BY DEF IInv, Runs, IsRun
    <3>2. QED  BY <3>1
  <2>2. IsRun(run) /\ o \in Overrides /\ store[o] # None
    BY <2>1 DEF IInv, Runs, Present
  <2>3. CASE ResultArrives
    <3>1. run.stage = "returned" /\ o \in run.expired
      BY <2>1, <2>2, <2>3 DEF ResultArrives
    <3>2. QED  BY <2>1, <2>2, <3>1 DEF IsRun
  <2>4. CASE RunLost
    BY <2>1, <2>2, <2>4 DEF RunLost
  <2>5. CASE UNCHANGED run
    BY <2>1, <2>5
  <2>6. CASE ReadOverrides \/ HandleOverride \/ FunctionReturns
    <3>1. IInv'
      BY <2>1, NextInvariant
    <3>2. run'.kind = "run"
      BY <2>2, <2>6 DEF ReadOverrides, HandleOverride, FunctionReturns, IsRun
    <3>3. QED  BY <2>1, <3>2 DEF None
  <2>7. QED
    BY <2>1, <2>3, <2>4, <2>5, <2>6
       DEF Next, RunStep, Invoke, AnswerArrives, AnswerLost, StartRun, Tick
<1>2. [][Caused]_vars => DroppedForCause
  BY PTL DEF DroppedForCause
<1>3. QED  BY <1>1, <1>2, Invariant, PTL DEF Spec
=============================================================================
