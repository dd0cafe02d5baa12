---------------------------- MODULE LocalHostProofs ----------------------------
(***************************************************************************)
(* Proofs about RunLocalHost, alone and with artifact staging inside it,   *)
(* for any callers, workers and bounds.                                    *)
(*                                                                         *)
(* The properties of LocalHostRun are not inductive as they stand.  IInv   *)
(* adds what makes them so: who holds localHostRunMu at each point of      *)
(* RunLocalHost, that the installed host is the holder's own and the       *)
(* newest built, and what a call in progress may have read.                *)
(*                                                                         *)
(* The same invariant holds of LocalHostArtifacts, of run functions that   *)
(* wait for their workers (Detached = FALSE): every step is a step of      *)
(* LocalHostRun or leaves its variables alone.  CInv adds that calls in    *)
(* progress belong to the run that is going on, that only its execution    *)
(* has open streams, and whose stream a handle can name.                   *)
(***************************************************************************)
EXTENDS LocalHostArtifacts, SequenceTheorems, TLAPS

-----------------------------------------------------------------------------
(* RunLocalHost. *)

\* The program points between Lock and Unlock, and those at which the caller's
\* execution is installed.
Holding == {"locked", "running", "capturing", "aborting", "restoring", "unlocking"}
Installed == {"running", "capturing", "aborting", "restoring"}

MutexInv == \A c \in Callers : pc[c] \in Holding <=> runMu = c

HostInv ==
  /\ \A c \in Callers : pc[c] \in Installed =>
       execution[c] = built /\ built # 0 /\ localHost = built
  /\ (\A c \in Callers : pc[c] \notin Installed) => localHost = NoHost
  /\ \A c \in Callers : previous[c] = NoHost

CallInv ==
  /\ \A c \in Callers : call[c] # NoCall => pc[c] = "running" /\ call[c].host = execution[c]
  /\ \A w \in Workers : owner[w] <= built
  /\ \A w \in Workers : call[w] # NoCall =>
       owner[w] # NoHost /\ (call[w].host # NoHost => owner[w] <= call[w].host)

CaptureInv ==
  /\ \A r \in Runs : r > built => captured[r] = << >>
  /\ \A c \in Callers : pc[c] \in {"running", "capturing"} => captured[execution[c]] = << >>

IInv ==
  /\ TypeOK
  /\ MutexInv
  /\ HostInv
  /\ CallInv
  /\ CaptureInv
  /\ NothingInstalledBetweenRuns
  /\ MainCallsAnsweredByOwnRun
  /\ NoCallReachesEarlierRun
  /\ MainOutputsCaptured
-----------------------------------------------------------------------------
\* Recording a call keeps an execution's outputs well typed, with one result.
LEMMA RecordType ==
  ASSUME NEW o \in Outputs, Len(o.result) <= 1, NEW op, NEW p \in Payload
  PROVE  Record(o, op, p) \in Outputs /\ Len(Record(o, op, p).result) <= 1
  BY DEF Record, Outputs

LEMMA TypeInit == Init => TypeOK
  BY BoundsAssumption DEF Init, TypeOK, Runs, NoHost, NoCall, NoOutputs, Outputs

\* Every step keeps the types.
LEMMA TypeStep == TypeOK /\ [Next]_vars => TypeOK'
<1> SUFFICES ASSUME TypeOK, [Next]_vars PROVE TypeOK'
  OBVIOUS
<1> USE BoundsAssumption DEF TypeOK, Runs, NoHost
<1>1. ASSUME NEW c \in Callers, Enter(c) PROVE TypeOK'
  BY <1>1 DEF Enter, Goto
<1>2. ASSUME NEW c \in Callers, Lock(c) PROVE TypeOK'
  BY <1>2 DEF Lock, Goto
<1>3. ASSUME NEW c \in Callers, Install(c) PROVE TypeOK'
  BY <1>3 DEF Install, Goto
<1>4. ASSUME NEW c \in Callers, Leave(c) PROVE TypeOK'
  BY <1>4 DEF Leave, Return, Panic, Goto
<1>5. ASSUME NEW c \in Callers, Capture(c) PROVE TypeOK'
  <2>1. CASE execution[c] \in Runs
    BY <1>5, <2>1 DEF Capture, Goto
  <2>2. CASE execution[c] = NoHost
    <3>1. DOMAIN captured = Runs /\ execution[c] \notin Runs
      BY <2>2
    <3>2. captured' = captured
      BY <1>5, <3>1 DEF Capture
    <3> QED
      BY <1>5, <3>2 DEF Capture, Goto
  <2> QED
    BY <2>1, <2>2
<1>6. ASSUME NEW c \in Callers, AbortOpen(c) \/ Restore(c) \/ Unlock(c) PROVE TypeOK'
  BY <1>6 DEF AbortOpen, Restore, Unlock, Goto
<1>7. ASSUME NEW c \in Callers, NEW w \in Workers, Spawn(c, w) PROVE TypeOK'
  BY <1>7 DEF Spawn
<1>8. ASSUME NEW w \in Workers, WorkerExit(w) PROVE TypeOK'
  BY <1>8 DEF WorkerExit
<1>9. ASSUME NEW g \in Goroutines, NEW op \in Ops, BeginCall(g, op) PROVE TypeOK'
  BY <1>9 DEF BeginCall
<1>10. ASSUME NEW g \in Goroutines, EndCall(g) PROVE TypeOK'
  <2> DEFINE host == call[g].host
             p == [by |-> g, run |-> RunOf(g)]
  <2>1. p \in Payload /\ host \in Runs \cup {NoHost}
    BY DEF Payload, RunOf, Goroutines
  <2>2. outputs' \in [Runs -> Outputs] /\ \A r \in Runs : Len(outputs'[r].result) <= 1
    <3>1. CASE host = NoHost
      BY <1>10, <3>1 DEF EndCall
    <3>2. CASE host # NoHost
      <4>1. outputs' = [outputs EXCEPT ![host] = Record(@, call[g].op, p)]
        BY <1>10, <3>2 DEF EndCall
      <4> QED
        BY <2>1, <3>2, <4>1, RecordType
    <3> QED
      BY <3>1, <3>2
  <2>3. answered' \subseteq [by: Goroutines, run: Runs \cup {NoHost}, host: Runs \cup {NoHost}]
    BY <1>10, <2>1 DEF EndCall, Payload
  <2> QED
    BY <1>10, <2>2, <2>3 DEF EndCall, NoCall
<1>11. CASE UNCHANGED vars
  BY <1>11 DEF vars
<1> QED
  BY <1>1, <1>2, <1>3, <1>4, <1>5, <1>6, <1>7, <1>8, <1>9, <1>10, <1>11
     DEF Next, Unwind, HostCall
-----------------------------------------------------------------------------
\* Workers' steps and host calls leave the progress of RunLocalHost alone.
LEMMA CallsKeepRuns ==
  ASSUME \/ \E c \in Callers, w \in Workers : Spawn(c, w)
         \/ \E w \in Workers : WorkerExit(w)
         \/ \E g \in Goroutines : HostCall(g)
  PROVE  UNCHANGED <<runMu, localHost, pc, execution, previous, built, captured>>
  BY DEF Spawn, WorkerExit, HostCall, BeginCall, EndCall

\* The mutex is held exactly between Lock and Unlock, so by one caller at most.
LEMMA MutexStep == TypeOK /\ MutexInv /\ [Next]_vars => MutexInv'
<1> SUFFICES ASSUME TypeOK, MutexInv, [Next]_vars PROVE MutexInv'
  OBVIOUS
<1> USE CallersAssumption DEF TypeOK, MutexInv, Holding, Goto
<1>1. ASSUME NEW c \in Callers, Enter(c) \/ Lock(c) \/ Install(c) PROVE MutexInv'
  BY <1>1 DEF Enter, Lock, Install
<1>2. ASSUME NEW c \in Callers, Leave(c) PROVE MutexInv'
  BY <1>2 DEF Leave, Return, Panic
<1>3. ASSUME NEW c \in Callers, Unwind(c) PROVE MutexInv'
  BY <1>3 DEF Unwind, Capture, AbortOpen, Restore, Unlock
<1>4. CASE \/ \E c \in Callers, w \in Workers : Spawn(c, w)
           \/ \E w \in Workers : WorkerExit(w)
           \/ \E g \in Goroutines : HostCall(g)
  BY <1>4, CallsKeepRuns
<1>5. CASE UNCHANGED vars
  BY <1>5 DEF vars
<1>6. CASE \E c \in Callers : Enter(c) \/ Lock(c) \/ Install(c) \/ Leave(c) \/ Unwind(c)
  BY ONLY <1>6, <1>1, <1>2, <1>3
<1>7. CASE Next
  BY ONLY <1>7, <1>4, <1>6 DEF Next
<1> QED
  BY ONLY [Next]_vars, <1>5, <1>7

\* The installed host is the mutex holder's own execution, the newest one, and
\* there is none before the holder installs it or after it restores.
LEMMA HostStep == TypeOK /\ MutexInv /\ HostInv /\ [Next]_vars => HostInv'
<1> SUFFICES ASSUME TypeOK, MutexInv, HostInv, [Next]_vars PROVE HostInv'
  OBVIOUS
<1> USE BoundsAssumption DEF HostInv, Installed, Goto, NoHost
<1>1. ASSUME NEW c \in Callers, Enter(c) \/ Lock(c) PROVE HostInv'
  BY <1>1 DEF TypeOK, Enter, Lock
<1>2. ASSUME NEW c \in Callers, Install(c) PROVE HostInv'
  <2>1. \A d \in Callers : pc[d] \in Holding => d = c
    BY <1>2 DEF MutexInv, Holding, Install
  <2>2. localHost = NoHost
    BY <1>2, <2>1 DEF Install, Holding
  <2>3. \A d \in Callers : pc'[d] \in Installed => d = c
    BY <1>2, <2>1 DEF Install, Holding, TypeOK
  <2> QED
    BY <1>2, <2>2, <2>3 DEF Install, TypeOK
<1>3. ASSUME NEW c \in Callers, Leave(c) PROVE HostInv'
  BY <1>3 DEF TypeOK, Leave, Return, Panic
<1>4. ASSUME NEW c \in Callers, Unwind(c) PROVE HostInv'
  <2>1. \A d \in Callers : pc[d] \in Holding => d = c
    BY <1>4 DEF MutexInv, Holding, Unwind, Capture, AbortOpen, Restore, Unlock
  <2>2. CASE Capture(c) \/ AbortOpen(c) \/ Unlock(c)
    BY <2>2 DEF TypeOK, Capture, AbortOpen, Unlock
  <2>3. CASE Restore(c)
    BY <2>1, <2>3 DEF TypeOK, Restore, Holding
  <2> QED
    BY <1>4, <2>2, <2>3 DEF Unwind
<1>5. CASE \/ \E c \in Callers, w \in Workers : Spawn(c, w)
           \/ \E w \in Workers : WorkerExit(w)
           \/ \E g \in Goroutines : HostCall(g)
  BY <1>5, CallsKeepRuns
<1>6. CASE UNCHANGED vars
  BY <1>6 DEF vars
<1> QED
  BY ONLY [Next]_vars, <1>1, <1>2, <1>3, <1>4, <1>5, <1>6 DEF Next

\* A caller's call in progress has read its own execution, a worker's none older
\* than its run.
LEMMA CallStep ==
  TypeOK /\ MutexInv /\ HostInv /\ CallInv /\ [Next]_vars => CallInv'
<1> SUFFICES ASSUME TypeOK, MutexInv, HostInv, CallInv, [Next]_vars PROVE CallInv'
  OBVIOUS
<1> USE BoundsAssumption, CallersAssumption DEF CallInv, Goto
<1>1. ASSUME NEW c \in Callers, Enter(c) \/ Lock(c) PROVE CallInv'
  BY <1>1 DEF TypeOK, Enter, Lock
<1>2. ASSUME NEW c \in Callers, Install(c) PROVE CallInv'
  <2>1. \A d \in Callers : call[d] # NoCall => d # c
    BY <1>2 DEF Install
  <2>2. \A d \in Callers : d # c => pc'[d] = pc[d] /\ execution'[d] = execution[d]
    BY <1>2 DEF Install, TypeOK
  <2>3. UNCHANGED <<call, owner>> /\ built' = built + 1
    BY <1>2 DEF Install
  <2>4. \A w \in Workers : owner[w] <= built'
    BY <2>3 DEF TypeOK, Runs, NoHost
  <2> QED
    BY <2>1, <2>2, <2>3, <2>4
<1>3. ASSUME NEW c \in Callers, Leave(c) PROVE CallInv'
  BY <1>3 DEF TypeOK, Leave, Return, Panic
<1>4. ASSUME NEW c \in Callers, Unwind(c) PROVE CallInv'
  BY <1>4 DEF TypeOK, Unwind, Capture, AbortOpen, Restore, Unlock
<1>5. ASSUME NEW c \in Callers, NEW w \in Workers, Spawn(c, w) PROVE CallInv'
  <2>1. execution[c] = built /\ built # NoHost
    BY <1>5 DEF Spawn, HostInv, Installed, NoHost
  <2>2. \A v \in Workers : owner'[v] = IF v = w THEN built ELSE owner[v]
    BY <1>5, <2>1 DEF Spawn, TypeOK
  <2>3. call[w] = NoCall
    BY <1>5 DEF Spawn
  <2> QED
    BY <1>5, <2>2, <2>3 DEF Spawn, TypeOK
<1>6. ASSUME NEW w \in Workers, WorkerExit(w) PROVE CallInv'
  <2>1. \A v \in Workers : owner'[v] = IF v = w THEN NoHost ELSE owner[v]
    BY <1>6 DEF WorkerExit, TypeOK
  <2>2. call[w] = NoCall
    BY <1>6 DEF WorkerExit
  <2> QED
    BY <1>6, <2>1, <2>2 DEF WorkerExit, TypeOK, NoHost
<1>7. ASSUME NEW g \in Goroutines, NEW op \in Ops, BeginCall(g, op) PROVE CallInv'
  <2>1. localHost = NoHost \/ localHost = built
    BY DEF HostInv
  <2>2. \A h \in Goroutines :
          call'[h] = IF h = g THEN [op |-> op, host |-> localHost] ELSE call[h]
    BY <1>7 DEF BeginCall, TypeOK
  <2>3. g \in Callers => pc[g] = "running" /\ localHost = execution[g]
    BY <1>7 DEF BeginCall, MayCall, HostInv, Installed
  <2>4. g \in Workers => owner[g] # NoHost
    BY <1>7 DEF BeginCall, MayCall
  <2> QED
    BY <1>7, <2>1, <2>2, <2>3, <2>4 DEF BeginCall, Goroutines
<1>8. ASSUME NEW g \in Goroutines, EndCall(g) PROVE CallInv'
  <2>1. \A h \in Goroutines : call'[h] = IF h = g THEN NoCall ELSE call[h]
    BY <1>8 DEF EndCall, TypeOK
  <2> QED
    BY <1>8, <2>1 DEF EndCall, Goroutines
<1>9. CASE UNCHANGED vars
  BY <1>9 DEF vars
<1> QED
  BY <1>1, <1>2, <1>3, <1>4, <1>5, <1>6, <1>7, <1>8, <1>9 DEF Next, HostCall

\* No execution is captured before its run function has ended.
LEMMA CaptureStep ==
  TypeOK /\ MutexInv /\ HostInv /\ CaptureInv /\ [Next]_vars => CaptureInv'
<1> SUFFICES ASSUME TypeOK, MutexInv, HostInv, CaptureInv, [Next]_vars PROVE CaptureInv'
  OBVIOUS
<1> USE BoundsAssumption DEF CaptureInv, Goto, Runs
<1>1. ASSUME NEW c \in Callers, Enter(c) \/ Lock(c) PROVE CaptureInv'
  BY <1>1 DEF TypeOK, Enter, Lock
<1>2. ASSUME NEW c \in Callers, Install(c) PROVE CaptureInv'
  <2>1. built' = built + 1 /\ built \in Nat /\ built + 1 \in Runs /\ captured' = captured
    BY <1>2 DEF Install, TypeOK
  <2>2. captured[built + 1] = << >>
    BY <2>1
  <2> QED
    BY <1>2, <2>1, <2>2 DEF Install, TypeOK
<1>3. ASSUME NEW c \in Callers, Leave(c) PROVE CaptureInv'
  BY <1>3 DEF TypeOK, Leave, Return, Panic
<1>4. ASSUME NEW c \in Callers, Capture(c) PROVE CaptureInv'
  <2>1. \A d \in Callers : pc[d] \in Holding => d = c
    BY <1>4 DEF MutexInv, Holding, Capture
  <2>2. execution[c] = built /\ built \in Nat
    BY <1>4 DEF HostInv, Installed, Capture, TypeOK
  <2>3. \A d \in Callers : pc'[d] \notin {"running", "capturing"}
    BY <1>4, <2>1 DEF Capture, Holding, TypeOK
  <2>4. \A r \in Runs : r > built' => captured'[r] = << >>
    BY <1>4, <2>2 DEF Capture, TypeOK
  <2> QED
    BY <2>3, <2>4
<1>5. ASSUME NEW c \in Callers, AbortOpen(c) \/ Restore(c) \/ Unlock(c) PROVE CaptureInv'
  BY <1>5 DEF TypeOK, AbortOpen, Restore, Unlock
<1>6. CASE \/ \E c \in Callers, w \in Workers : Spawn(c, w)
           \/ \E w \in Workers : WorkerExit(w)
           \/ \E g \in Goroutines : HostCall(g)
  BY <1>6, CallsKeepRuns
<1>7. CASE UNCHANGED vars
  BY <1>7 DEF vars
<1> QED
  BY ONLY [Next]_vars, <1>1, <1>2, <1>3, <1>4, <1>5, <1>6, <1>7 DEF Next, Unwind

\* The host is installed only while the mutex is held.
LEMMA MutexFreeNothingInstalled ==
  MutexInv /\ HostInv => NothingInstalledBetweenRuns
  BY CallersAssumption DEF MutexInv, HostInv, NothingInstalledBetweenRuns, Holding, Installed

\* Every answer is given by the execution that CallInv says the call had read.
LEMMA AnswerStep ==
  ASSUME TypeOK, CallInv, MainCallsAnsweredByOwnRun, NoCallReachesEarlierRun, [Next]_vars
  PROVE  MainCallsAnsweredByOwnRun' /\ NoCallReachesEarlierRun'
<1>1. ASSUME NEW g \in Goroutines, EndCall(g)
      PROVE MainCallsAnsweredByOwnRun' /\ NoCallReachesEarlierRun'
  <2> DEFINE host == call[g].host
             a == [by |-> g, run |-> RunOf(g), host |-> host]
  <2>1. answered' = answered \cup {a} /\ call[g] # NoCall
    BY <1>1 DEF EndCall
  <2>2. CASE g \in Callers
    <3>1. a.host = a.run /\ a.run \in Int
      BY <2>1, <2>2, BoundsAssumption DEF CallInv, RunOf, TypeOK, Runs, NoHost
    <3> QED
      BY <2>1, <3>1 DEF MainCallsAnsweredByOwnRun, NoCallReachesEarlierRun
  <2>3. CASE g \in Workers
    <3>1. g \notin Callers /\ (a.host # NoHost => a.run <= a.host)
      BY <2>1, <2>3, CallersAssumption DEF CallInv, RunOf
    <3> QED
      BY <2>1, <3>1 DEF MainCallsAnsweredByOwnRun, NoCallReachesEarlierRun
  <2> QED
    BY <2>2, <2>3 DEF Goroutines
<1>2. CASE answered' = answered
  BY <1>2 DEF MainCallsAnsweredByOwnRun, NoCallReachesEarlierRun
<1>3. CASE \E c \in Callers : Enter(c) \/ Lock(c) \/ Install(c) \/ Leave(c) \/ Unwind(c)
  BY <1>2, <1>3 DEF Enter, Lock, Install, Leave, Return, Panic, Unwind, Capture, AbortOpen,
                    Restore, Unlock
<1>4. CASE \/ \E c \in Callers, w \in Workers : Spawn(c, w)
           \/ \E w \in Workers : WorkerExit(w)
           \/ \E g \in Goroutines, op \in Ops : BeginCall(g, op)
  BY <1>2, <1>4 DEF Spawn, WorkerExit, BeginCall
<1>5. CASE UNCHANGED vars
  BY <1>2, <1>5 DEF vars
<1> QED
  BY ONLY [Next]_vars, <1>1, <1>3, <1>4, <1>5 DEF Next, HostCall

LEMMA NothingAdded ==
  ASSUME NEW s \in Seq(Payload)
  PROVE  OnlyWorkersAdded(s, s)
  BY DEF OnlyWorkersAdded

LEMMA WorkerAdded ==
  ASSUME NEW later \in Seq(Payload), NEW earlier \in Seq(Payload), NEW p \in Payload,
         OnlyWorkersAdded(later, earlier), ~ByMain(p)
  PROVE  OnlyWorkersAdded(Append(later, p), earlier)
  BY DEF OnlyWorkersAdded

\* Only a worker's call can reach an execution already captured: a caller's own
\* call works on an execution whose capture is still to come.
LEMMA OutputsStep ==
  ASSUME TypeOK, CallInv, CaptureInv, MainOutputsCaptured, [Next]_vars
  PROVE  MainOutputsCaptured'
<1> USE DEF MainOutputsCaptured
<1>1. ASSUME NEW g \in Goroutines, EndCall(g) PROVE MainOutputsCaptured'
  <2> DEFINE host == call[g].host
             p == [by |-> g, run |-> RunOf(g)]
  <2>1. captured' = captured /\ call[g] # NoCall
    BY <1>1 DEF EndCall
  <2>2. CASE host = NoHost
    BY <1>1, <2>1, <2>2 DEF EndCall
  <2>3. CASE host # NoHost
    <3>1. host \in Runs /\ outputs' = [outputs EXCEPT ![host] = Record(@, call[g].op, p)]
      BY <1>1, <2>3 DEF EndCall, TypeOK
    <3>2. CASE g \in Callers
      <4>1. captured[host] = << >>
        BY <2>1, <3>2 DEF CallInv, CaptureInv
      <4> QED
        BY <2>1, <3>1, <4>1 DEF TypeOK
    <3>3. CASE g \in Workers
      <4>1. ~ByMain(p)
        BY <3>3, CallersAssumption DEF ByMain
      <4> DEFINE o == outputs[host]
                 op == call[g].op
                 cap == captured[host][1]
      <4>2. o \in Outputs /\ outputs'[host] = Record(o, op, p)
        BY <3>1 DEF TypeOK
      <4>3. p \in Payload
        BY DEF Payload, RunOf, Goroutines, TypeOK
      <4> SUFFICES ASSUME captured[host] # << >>
                   PROVE  /\ OnlyWorkersAdded(Record(o, op, p).telemetry, cap.telemetry)
                          /\ OnlyWorkersAdded(Record(o, op, p).logs, cap.logs)
                          /\ \A i \in 1..Len(Record(o, op, p).result) :
                               ByMain(Record(o, op, p).result[i]) =>
                                 cap.result = Record(o, op, p).result
        BY <2>1, <3>1, <4>2 DEF TypeOK
      <4>4. cap \in Outputs
        BY <3>1 DEF TypeOK
      <4>5. /\ OnlyWorkersAdded(o.telemetry, cap.telemetry)
            /\ OnlyWorkersAdded(o.logs, cap.logs)
            /\ \A i \in 1..Len(o.result) : ByMain(o.result[i]) => cap.result = o.result
        BY <3>1
      <4>6. /\ Record(o, op, p).telemetry \in {o.telemetry, Append(o.telemetry, p)}
            /\ Record(o, op, p).logs \in {o.logs, Append(o.logs, p)}
            /\ Record(o, op, p).result \in {o.result, <<p>>}
        BY DEF Record
      <4>7. /\ OnlyWorkersAdded(Append(o.telemetry, p), cap.telemetry)
            /\ OnlyWorkersAdded(Append(o.logs, p), cap.logs)
        BY <4>1, <4>2, <4>3, <4>4, <4>5, WorkerAdded DEF Outputs
      <4>8. \A i \in 1..Len(<<p>>) : <<p>>[i] = p
        OBVIOUS
      <4> QED
        BY <4>1, <4>5, <4>6, <4>7, <4>8
    <3> QED
      BY <3>2, <3>3 DEF Goroutines
  <2> QED
    BY <2>2, <2>3
<1>2. ASSUME NEW c \in Callers, Capture(c) PROVE MainOutputsCaptured'
  <2>1. outputs' = outputs
    BY <1>2 DEF Capture
  <2>2. CASE execution[c] \in Runs
    <3> DEFINE e == execution[c]
    <3>1. captured' = [captured EXCEPT ![e] = <<outputs[e]>>]
      BY <1>2 DEF Capture
    <3>2. /\ OnlyWorkersAdded(outputs[e].telemetry, outputs[e].telemetry)
          /\ OnlyWorkersAdded(outputs[e].logs, outputs[e].logs)
      BY <2>2, NothingAdded DEF TypeOK, Outputs
    <3> QED
      BY <2>1, <2>2, <3>1, <3>2 DEF TypeOK
  <2>3. CASE execution[c] = NoHost
    <3>1. captured' = captured
      BY <1>2, <2>3, BoundsAssumption DEF Capture, TypeOK, Runs, NoHost
    <3> QED
      BY <2>1, <3>1
  <2> QED
    BY <2>2, <2>3 DEF TypeOK
<1>3. CASE UNCHANGED <<outputs, captured>>
  BY <1>3
<1>4. CASE \E c \in Callers : \/ Enter(c) \/ Lock(c) \/ Install(c) \/ Leave(c)
                              \/ AbortOpen(c) \/ Restore(c) \/ Unlock(c)
  BY ONLY <1>3, <1>4 DEF Enter, Lock, Install, Leave, Return, Panic, AbortOpen, Restore, Unlock
<1>5. CASE \/ \E c \in Callers, w \in Workers : Spawn(c, w)
           \/ \E w \in Workers : WorkerExit(w)
           \/ \E g \in Goroutines, op \in Ops : BeginCall(g, op)
  BY ONLY <1>3, <1>5 DEF Spawn, WorkerExit, BeginCall
<1>6. CASE UNCHANGED vars
  BY <1>3, <1>6 DEF vars
<1> QED
  BY ONLY [Next]_vars, <1>1, <1>2, <1>4, <1>5, <1>6 DEF Next, HostCall, Unwind
-----------------------------------------------------------------------------
LEMMA IInvInit == Init => IInv
<1> SUFFICES ASSUME Init PROVE IInv
  OBVIOUS
<1>1. TypeOK
  BY TypeInit
<1>2. MutexInv /\ HostInv /\ CallInv
  BY CallersAssumption, BoundsAssumption
     DEF Init, MutexInv, Holding, HostInv, Installed, CallInv, NoHost, Goroutines
<1>3. CaptureInv /\ MainOutputsCaptured
  BY DEF Init, CaptureInv, MainOutputsCaptured
<1>4. MainCallsAnsweredByOwnRun /\ NoCallReachesEarlierRun
  BY DEF Init, MainCallsAnsweredByOwnRun, NoCallReachesEarlierRun
<1> QED
  BY <1>1, <1>2, <1>3, <1>4, MutexFreeNothingInstalled DEF IInv

LEMMA IInvStep == IInv /\ [Next]_vars => IInv'
<1> SUFFICES ASSUME IInv, [Next]_vars PROVE IInv'
  OBVIOUS
<1>1. TypeOK' /\ MutexInv' /\ HostInv' /\ CallInv' /\ CaptureInv'
  BY TypeStep, MutexStep, HostStep, CallStep, CaptureStep DEF IInv
<1>2. NothingInstalledBetweenRuns'
  BY <1>1, CallersAssumption
     DEF MutexInv, HostInv, NothingInstalledBetweenRuns, Holding, Installed
<1>3. MainCallsAnsweredByOwnRun' /\ NoCallReachesEarlierRun' /\ MainOutputsCaptured'
  BY AnswerStep, OutputsStep DEF IInv
<1> QED
  BY <1>1, <1>2, <1>3 DEF IInv

LEMMA InvariantHolds == Spec => []IInv
  BY IInvInit, IInvStep, PTL DEF Spec

\* Every variable of RunLocalHost keeps its type: at most one result and at most
\* one capture for each execution.
THEOREM TypeCorrect == Spec => []TypeOK
<1>1. IInv => TypeOK
  BY DEF IInv
<1> QED
  BY <1>1, InvariantHolds, PTL

\* RunLocalHost leaves no host installed behind it, after a panic either, so the
\* "previous" that the next run saves is always nil.
THEOREM NoHostBetweenRuns == Spec => []NothingInstalledBetweenRuns
<1>1. IInv => NothingInstalledBetweenRuns
  BY DEF IInv
<1> QED
  BY <1>1, InvariantHolds, PTL

\* Host calls of a run function are answered by its own execution.
THEOREM MainCallsStayHome == Spec => []MainCallsAnsweredByOwnRun
<1>1. IInv => MainCallsAnsweredByOwnRun
  BY DEF IInv
<1> QED
  BY <1>1, InvariantHolds, PTL

\* A goroutine that outlives its run never writes into an older execution than
\* the one it was started in.
THEOREM LateCallsGoForward == Spec => []NoCallReachesEarlierRun
<1>1. IInv => NoCallReachesEarlierRun
  BY DEF IInv
<1> QED
  BY <1>1, InvariantHolds, PTL

\* What a run function sent before it returned is in its capture.
THEOREM CaptureComplete == Spec => []MainOutputsCaptured
<1>1. IInv => MainOutputsCaptured
  BY DEF IInv
<1> QED
  BY <1>1, InvariantHolds, PTL

-----------------------------------------------------------------------------
(* Artifact staging inside it. *)

\* The points of RunLocalHost at which streams can be open.
Serving == {"running", "capturing", "aborting"}

InRun == \E c \in Callers : pc[c] = "running"
InService == \E c \in Callers : pc[c] \in Serving

CTypeOK ==
  /\ ArtifactTypeOK
  /\ handle \in [Goroutines -> 0..MaxOpens]
  /\ issuer \in [Goroutines -> Runs \cup {NoHost}]
  /\ capturedArtifacts \in [Runs -> Seq(Seq(Receipt))]

\* Workers live, and calls are in progress, only while their run function runs.
JoinedInv ==
  /\ \A w \in Workers : owner[w] # NoHost => InRun /\ owner[w] = built
  /\ \A w \in Workers : call[w] # NoCall => owner[w] # NoHost /\ call[w].host = built

\* Only the execution in service has open streams, under handles it has given out.
OpenInv ==
  /\ \A r \in Runs : r > built => next[r] = 0
  /\ \A r \in Runs, h \in Handles : open[r][h] # NoStream =>
       r = built /\ InService /\ h <= next[r]

\* A handle was given out before, whatever its goroutine did since: its execution
\* will not give it out again, to anybody.
HandleInv ==
  /\ \A g \in Goroutines, r \in Runs : issuer[g] = r => handle[g] <= next[r]
  /\ HandlesNameOwnStream

\* What will be published is what was hashed.
FilesAreHashed ==
  \A r \in Runs, h \in Handles : open[r][h] # NoStream => staging[r][h] = open[r][h].hashed

CInv ==
  /\ IInv
  /\ CTypeOK
  /\ JoinedInv
  /\ OpenInv
  /\ HandleInv
  /\ StagingFilesAreOpenStreams
  /\ StreamsHaveOneWriter
  /\ CaptureIsFinal

WholeInv == FilesAreHashed /\ PublishedByItsRun

-----------------------------------------------------------------------------
LEMMA StepIsRunStep == [CNext]_allVars => [Next]_vars
<1> SUFFICES ASSUME [CNext]_allVars PROVE [Next]_vars
  OBVIOUS
<1>1. CASE RunStep
  <2>1. CASE \E c \in Callers : Enter(c) \/ Lock(c) \/ Install(c) \/ Leave(c) \/ Restore(c) \/ Unlock(c)
    BY <2>1 DEF Next, Unwind
  <2>2. CASE \/ \E c \in Callers, w \in Workers : Spawn(c, w)
             \/ \E w \in Workers : WorkerExit(w)
    BY <2>2 DEF Next
  <2>3. CASE \E g \in Goroutines, op \in CallOps : BeginCall(g, op)
    BY <2>3 DEF Next, HostCall, CallOps, Ops
  <2>4. CASE \E g \in Goroutines : call[g].op # "artifact" /\ EndCall(g)
    BY <2>4 DEF Next, HostCall
  <2> QED
    BY <1>1, <2>1, <2>2, <2>3, <2>4 DEF RunStep
<1>2. CASE \E c \in Callers : CCapture(c) \/ CAbortOpen(c)
  BY <1>2 DEF Next, Unwind, CCapture, CAbortOpen
<1>3. CASE \E g \in Goroutines : EndArtifactCall(g)
  BY <1>3 DEF Next, HostCall, EndArtifactCall
<1>4. CASE UNCHANGED allVars
  BY <1>4 DEF allVars
<1> QED
  BY <1>1, <1>2, <1>3, <1>4 DEF CNext

\* Every program point is named by at most one caller that holds the mutex.
LEMMA OneHolder ==
  ASSUME MutexInv, NEW c \in Callers, pc[c] \in Holding
  PROVE  \A d \in Callers : pc[d] \in Holding => d = c
  BY DEF MutexInv

\* A run function that waits for its workers leaves none behind.
LEMMA JoinedStep ==
  ASSUME ~Detached, TypeOK, MutexInv, HostInv, CallInv, JoinedInv, [Next]_vars
  PROVE  JoinedInv'
<1> USE BoundsAssumption, CallersAssumption DEF JoinedInv, InRun, Goto
<1>1. ASSUME NEW c \in Callers, Enter(c) \/ Lock(c) PROVE JoinedInv'
  BY <1>1 DEF TypeOK, Enter, Lock
<1>2. ASSUME NEW c \in Callers, Install(c) PROVE JoinedInv'
  <2>1. ~InRun
    BY <1>2, OneHolder DEF Install, Holding
  <2>2. \A w \in Workers : owner[w] = NoHost /\ call[w] = NoCall
    BY <2>1
  <2> QED
    BY <1>2, <2>2 DEF Install
<1>3. ASSUME NEW c \in Callers, Leave(c) PROVE JoinedInv'
  <2>1. pc[c] = "running" /\ Joined(c) /\ UNCHANGED <<owner, call, built>>
    BY <1>3 DEF Leave, Return, Panic
  <2>2. execution[c] = built
    BY <2>1 DEF HostInv, Installed
  <2>3. \A w \in Workers : owner[w] = NoHost
    BY <2>1, <2>2 DEF Joined
  <2> QED
    BY <2>1, <2>3
<1>4. ASSUME NEW c \in Callers, Unwind(c) PROVE JoinedInv'
  BY <1>4 DEF TypeOK, Unwind, Capture, AbortOpen, Restore, Unlock
<1>5. ASSUME NEW c \in Callers, NEW w \in Workers, Spawn(c, w) PROVE JoinedInv'
  <2>1. execution[c] = built
    BY <1>5 DEF Spawn, HostInv, Installed
  <2>2. \A v \in Workers : owner'[v] = IF v = w THEN built ELSE owner[v]
    BY <1>5, <2>1 DEF Spawn, TypeOK
  <2>3. pc[c] = "running" /\ owner[w] = NoHost /\ UNCHANGED <<pc, call, built>>
    BY <1>5 DEF Spawn
  <2>4. built # NoHost
    BY <2>3 DEF HostInv, Installed, NoHost
  <2> QED
    BY <2>2, <2>3, <2>4
<1>6. ASSUME NEW w \in Workers, WorkerExit(w) PROVE JoinedInv'
  <2>1. \A v \in Workers : owner'[v] = IF v = w THEN NoHost ELSE owner[v]
    BY <1>6 DEF WorkerExit, TypeOK
  <2>2. call[w] = NoCall /\ UNCHANGED <<pc, call, built>>
    BY <1>6 DEF WorkerExit
  <2> QED
    BY <2>1, <2>2
<1>7. ASSUME NEW g \in Goroutines, NEW op \in Ops, BeginCall(g, op) PROVE JoinedInv'
  <2>1. \A h \in Goroutines :
          call'[h] = IF h = g THEN [op |-> op, host |-> localHost] ELSE call[h]
    BY <1>7 DEF BeginCall, TypeOK
  <2>2. UNCHANGED <<pc, owner, built>> /\ MayCall(g)
    BY <1>7 DEF BeginCall
  <2>3. ASSUME g \in Workers PROVE owner[g] # NoHost /\ localHost = built
    <3>1. owner[g] # NoHost
      BY <2>2, <2>3 DEF MayCall
    <3> QED
      BY <2>3, <3>1 DEF HostInv, Installed
  <2> QED
    BY <2>1, <2>2, <2>3 DEF Goroutines
<1>8. ASSUME NEW g \in Goroutines, EndCall(g) PROVE JoinedInv'
  <2>1. \A h \in Goroutines : call'[h] = IF h = g THEN NoCall ELSE call[h]
    BY <1>8 DEF EndCall, TypeOK
  <2> QED
    BY <1>8, <2>1 DEF EndCall, Goroutines
<1>9. CASE UNCHANGED vars
  BY <1>9 DEF vars
<1> QED
  BY <1>1, <1>2, <1>3, <1>4, <1>5, <1>6, <1>7, <1>8, <1>9 DEF Next, HostCall

\* A call in progress belongs to the run that is going on.
LEMMA CallsInRun ==
  ASSUME TypeOK, HostInv, CallInv, JoinedInv, NEW g \in Goroutines, call[g] # NoCall
  PROVE  /\ InRun /\ built \in Runs
         /\ call[g].host = built /\ RunOf(g) = built
<1> USE CallersAssumption, BoundsAssumption
<1>1. CASE g \in Callers
  BY <1>1 DEF CallInv, HostInv, Installed, InRun, RunOf, TypeOK, Runs
<1>2. CASE g \in Workers
  <2>1. owner[g] # NoHost /\ owner[g] = built /\ InRun /\ call[g].host = built
    BY <1>2 DEF JoinedInv
  <2>2. g \notin Callers
    BY <1>2
  <2> QED
    BY <2>1, <2>2, <1>2 DEF RunOf, TypeOK, Runs, NoHost
<1> QED
  BY <1>1, <1>2 DEF Goroutines

-----------------------------------------------------------------------------
\* Everything an artifact call by g can do to the execution in service.
Cleared(g) == Keeps \/ HoldsNone(g)

Opens(g) ==
  LET h == next[built] + 1 IN
  /\ h \in Handles
  /\ next' = [next EXCEPT ![built] = h]
  /\ open' = [open EXCEPT ![built][h] =
                [request |-> [key |-> g, sha |-> NoSHA, size |-> 0],
                 hashed |-> << >>, nextIndex |-> 0]]
  /\ staging' = [staging EXCEPT ![built][h] = << >>]
  /\ Holds(g, h, built)
  /\ UNCHANGED <<committed, published>>

Tears(g) ==
  /\ ShortWrites
  /\ IsOpen(built, handle[g])
  /\ staging' = [staging EXCEPT ![built][handle[g]] = Append(@, Torn)]
  /\ Keeps
  /\ UNCHANGED <<next, open, committed, published>>

Writes(g) ==
  /\ IsOpen(built, handle[g])
  /\ staging' = [staging EXCEPT ![built][handle[g]] = Append(@, Mine(g))]
  /\ open' = [open EXCEPT ![built][handle[g]] = Grown(@, Mine(g))]
  /\ Keeps
  /\ UNCHANGED <<next, committed, published>>

Drops(g) ==
  /\ IsOpen(built, handle[g])
  /\ Forget(built, handle[g])
  /\ Cleared(g)
  /\ UNCHANGED <<next, committed, published>>

Publishes(g) ==
  LET stream == open[built][handle[g]] IN
  /\ IsOpen(built, handle[g])
  /\ Forget(built, handle[g])
  /\ published' = [published EXCEPT ![stream.request.key] = staging[built][handle[g]]]
  /\ committed' = [committed EXCEPT ![built] =
       Append(@, [key |-> stream.request.key, sha |-> stream.hashed,
                  size |-> Len(stream.hashed)])]
  /\ Cleared(g)
  /\ UNCHANGED next

CallEffect(g) ==
  \/ UNCHANGED artifactVars /\ Cleared(g)
  \/ Opens(g) \/ Tears(g) \/ Writes(g) \/ Drops(g) \/ Publishes(g)

LEMMA CallHasEffect ==
  ASSUME TypeOK, HostInv, CallInv, JoinedInv, CTypeOK,
         NEW g \in Goroutines, EndArtifactCall(g)
  PROVE  /\ call[g] # NoCall /\ InRun /\ built \in Runs
         /\ RunOf(g) = built
         /\ CallEffect(g) /\ EndCall(g) /\ UNCHANGED capturedArtifacts
<1> USE DEF hostErrOK, hostErrInvalid, hostErrTooLarge, hostErrInternal, hostErrBadHandle
<1>1. call[g] # NoCall /\ EndCall(g) /\ UNCHANGED capturedArtifacts
  BY DEF EndArtifactCall, EndCall
<1>2. InRun /\ built \in Runs /\ call[g].host = built /\ RunOf(g) = built
  BY <1>1, CallsInRun
<1>3. CASE NoHostCall(g)
  BY <1>1, <1>2, <1>3 DEF NoHostCall, CallEffect, Cleared
<1>4. CASE OpenCall(g, built)
  <2>1. PICK res \in Handles \cup {hostErrTooLarge, hostErrInternal} :
          /\ ArtifactOpen(built, [key |-> g, sha |-> NoSHA, size |-> 0], res)
          /\ IF res < 0 THEN HoldsNone(g) ELSE Holds(g, res, built)
    BY <1>4 DEF OpenCall
  <2>2. CASE res < 0
    <3>1. UNCHANGED artifactVars
      BY <1>2, <2>1, <2>2, StagingAssumption, CompositionAssumption
         DEF ArtifactOpen, NewHandle, CTypeOK, ArtifactTypeOK
    <3> QED
      BY <1>1, <1>2, <2>1, <2>2, <3>1 DEF CallEffect, Cleared
  <2>3. CASE ~(res < 0)
    <3>1. next[built] \in Nat /\ MaxOpens \in Nat
      BY <1>2, StagingAssumption, CompositionAssumption DEF CTypeOK, ArtifactTypeOK
    <3>2. /\ res = next[built] + 1 /\ next[built] < MaxOpens
          /\ next' = [next EXCEPT ![built] = res]
          /\ open' = [open EXCEPT ![built][res] =
                        [request |-> [key |-> g, sha |-> NoSHA, size |-> 0],
                         hashed |-> << >>, nextIndex |-> 0]]
          /\ staging' = [staging EXCEPT ![built][res] = << >>]
          /\ UNCHANGED <<committed, published>>
      BY <2>1, <2>3 DEF ArtifactOpen, NewHandle
    <3>3. res \in Handles /\ Holds(g, res, built)
      BY <2>1, <2>3, <3>1, <3>2 DEF Handles
    <3>4. Opens(g)
      BY ONLY <2>1, <3>2, <3>3 DEF Opens
    <3> QED
      BY <1>1, <1>2, <3>4 DEF CallEffect
  <2> QED
    BY <2>2, <2>3
<1>5. CASE WriteCall(g, built)
  <2>1. PICK res \in {1, hostErrInvalid, hostErrInternal, hostErrBadHandle} :
          ArtifactWrite(built, handle[g], 0, Mine(g), res)
    BY <1>5 DEF WriteCall
  <2>2. Keeps
    BY <1>5 DEF WriteCall
  <2>3. UNCHANGED artifactVars \/ Tears(g) \/ Writes(g)
    BY ONLY <2>1, <2>2 DEF ArtifactWrite, Tears, Writes, artifactVars
  <2> QED
    BY <1>1, <1>2, <2>2, <2>3 DEF CallEffect, Cleared
<1>6. CASE CommitCall(g, built)
  <2>1. PICK res \in {hostErrOK, hostErrInternal, hostErrBadHandle} :
          /\ ArtifactCommit(built, handle[g], [sha |-> NoSHA, size |-> 0], res)
          /\ IF res < 0 THEN Keeps ELSE HoldsNone(g)
    BY <1>6 DEF CommitCall
  <2>2. Cleared(g)
    BY <2>1 DEF Cleared
  <2>3. UNCHANGED artifactVars \/ Drops(g) \/ Publishes(g)
    BY ONLY <2>1, <2>2 DEF ArtifactCommit, Drops, Publishes, artifactVars
  <2> QED
    BY <1>1, <1>2, <2>2, <2>3 DEF CallEffect
<1>7. CASE AbortCall(g, built)
  <2>1. PICK res \in {hostErrOK, hostErrBadHandle} :
          /\ ArtifactAbort(built, handle[g], res)
          /\ IF res < 0 THEN Keeps ELSE HoldsNone(g)
    BY <1>7 DEF AbortCall
  <2>2. Cleared(g)
    BY <2>1 DEF Cleared
  <2>3. UNCHANGED artifactVars \/ Drops(g)
    BY ONLY <2>1, <2>2 DEF ArtifactAbort, Drops, artifactVars
  <2> QED
    BY <1>1, <1>2, <2>2, <2>3 DEF CallEffect
<1> QED
  BY <1>2, <1>3, <1>4, <1>5, <1>6, <1>7 DEF EndArtifactCall

-----------------------------------------------------------------------------
\* The types of what a call leaves.
LEMMA HandleType ==
  ASSUME CTypeOK, NEW g \in Goroutines, Cleared(g)
  PROVE  /\ handle' \in [Goroutines -> 0..MaxOpens]
         /\ issuer' \in [Goroutines -> Runs \cup {NoHost}]
<1>1. 0 \in 0..MaxOpens /\ NoHost \in Runs \cup {NoHost}
  BY StagingAssumption
<1>2. CASE Keeps
  BY <1>2 DEF CTypeOK, Keeps
<1>3. CASE HoldsNone(g)
  BY <1>1, <1>3 DEF CTypeOK, HoldsNone, Holds
<1> QED
  BY <1>2, <1>3 DEF Cleared

LEMMA MineIsChunk ==
  ASSUME CTypeOK, NEW g \in Goroutines, RunOf(g) = built, built \in Runs
  PROVE  Mine(g) \in Chunks
  BY CompositionAssumption DEF CTypeOK, Mine, Bytes

LEMMA GrownStream ==
  ASSUME NEW stream \in Stream, NEW chunk \in Chunks
  PROVE  /\ Grown(stream, chunk) \in Stream
         /\ Grown(stream, chunk).request = stream.request
         /\ Grown(stream, chunk).hashed = Append(stream.hashed, chunk)
<1>1. Append(stream.hashed, chunk) \in Digests /\ stream.nextIndex + 1 \in Nat
  BY DEF Stream, Digests
<1> QED
  BY <1>1 DEF Grown, Stream

LEMMA CallKeepsTypes ==
  ASSUME CTypeOK, StagingFilesAreOpenStreams, built \in Runs,
         NEW g \in Goroutines, RunOf(g) = built, CallEffect(g)
  PROVE  /\ ArtifactTypeOK'
         /\ handle' \in [Goroutines -> 0..MaxOpens]
         /\ issuer' \in [Goroutines -> Runs \cup {NoHost}]
<1> USE CompositionAssumption DEF CTypeOK, ArtifactTypeOK
<1>1. CASE UNCHANGED artifactVars /\ Cleared(g)
  BY <1>1, HandleType DEF artifactVars
<1>2. CASE Opens(g)
  <2>1. PICK h \in Handles : h = next[built] + 1
    BY <1>2 DEF Opens
  <2>2. PICK stream : stream = [request |-> [key |-> g, sha |-> NoSHA, size |-> 0],
                               hashed |-> << >>, nextIndex |-> 0]
    OBVIOUS
  <2>3. stream \in Stream
    BY <2>2 DEF Stream, OpenRequest, Digests
  <2>4. open' = [open EXCEPT ![built][h] = stream] /\ next' = [next EXCEPT ![built] = h]
    BY <1>2, <2>1, <2>2 DEF Opens
  <2>5. staging' = [staging EXCEPT ![built][h] = << >>] /\ Holds(g, h, built)
    BY <1>2, <2>1 DEF Opens
  <2>6. << >> \in Bodies
    BY DEF Bodies
  <2>7. /\ next' \in [Executions -> 0..MaxOpens]
        /\ handle' \in [Goroutines -> 0..MaxOpens]
        /\ issuer' \in [Goroutines -> Runs \cup {NoHost}]
    BY <2>1, <2>4, <2>5 DEF Handles, Holds
  <2>8. open' \in [Executions -> [Handles -> Stream \cup {NoStream}]]
    BY <2>3, <2>4
  <2>9. staging' \in [Executions -> [Handles -> Bodies \cup {NoFile}]]
    BY <2>5, <2>6
  <2> QED
    BY <1>2, <2>7, <2>8, <2>9 DEF Opens
<1>3. ASSUME IsOpen(built, handle[g])
      PROVE  /\ handle[g] \in Handles
             /\ open[built][handle[g]] \in Stream
             /\ staging[built][handle[g]] \in Bodies
  BY <1>3 DEF IsOpen, StagingFilesAreOpenStreams
<1>4. CASE Tears(g)
  <2>1. PICK h \in Handles : h = handle[g] /\ staging[built][h] \in Bodies
    BY <1>3, <1>4 DEF Tears
  <2>2. staging' = [staging EXCEPT ![built][h] = Append(@, Torn)]
    BY <1>4, <2>1 DEF Tears
  <2>3. Append(staging[built][h], Torn) \in Bodies
    BY <2>1 DEF Bodies
  <2>4. staging' \in [Executions -> [Handles -> Bodies \cup {NoFile}]]
    BY <2>2, <2>3
  <2> QED
    BY <1>4, <2>4, HandleType DEF Tears, Cleared
<1>5. CASE Writes(g)
  <2>1. PICK h \in Handles : /\ h = handle[g]
                             /\ staging[built][h] \in Bodies
                             /\ open[built][h] \in Stream
    BY <1>3, <1>5 DEF Writes
  <2>2. PICK chunk \in Chunks : chunk = Mine(g)
    BY MineIsChunk
  <2>3. /\ staging' = [staging EXCEPT ![built][h] = Append(@, chunk)]
        /\ open' = [open EXCEPT ![built][h] = Grown(@, chunk)]
    BY <1>5, <2>1, <2>2 DEF Writes
  <2>4. Append(staging[built][h], chunk) \in Bodies
    BY <2>1 DEF Bodies
  <2>5. Grown(open[built][h], chunk) \in Stream
    BY <2>1, GrownStream
  <2>6. staging' \in [Executions -> [Handles -> Bodies \cup {NoFile}]]
    BY <2>3, <2>4
  <2>7. open' \in [Executions -> [Handles -> Stream \cup {NoStream}]]
    BY <2>3, <2>5
  <2> QED
    BY <1>5, <2>6, <2>7, HandleType DEF Writes, Cleared
<1>6. ASSUME NEW h \in Handles, Forget(built, h)
      PROVE  /\ open' \in [Executions -> [Handles -> Stream \cup {NoStream}]]
             /\ staging' \in [Executions -> [Handles -> Bodies \cup {NoFile}]]
  BY <1>6 DEF Forget
<1>7. CASE Drops(g)
  BY <1>3, <1>6, <1>7, HandleType DEF Drops
<1>8. CASE Publishes(g)
  <2>1. PICK h \in Handles : /\ h = handle[g]
                             /\ staging[built][h] \in Bodies
                             /\ open[built][h] \in Stream
    BY <1>3, <1>8 DEF Publishes
  <2>2. PICK stream \in Stream : stream = open[built][h]
    BY <2>1
  <2>3. stream.request.key \in Keys
        /\ [key |-> stream.request.key, sha |-> stream.hashed, size |-> Len(stream.hashed)] \in Receipt
    BY DEF Stream, OpenRequest, Receipt, Digests
  <2>4. PICK receipt \in Receipt :
          receipt = [key |-> stream.request.key, sha |-> stream.hashed, size |-> Len(stream.hashed)]
    BY <2>3
  <2>5. /\ published' = [published EXCEPT ![stream.request.key] = staging[built][h]]
        /\ committed' = [committed EXCEPT ![built] = Append(@, receipt)]
    BY <1>8, <2>1, <2>2, <2>4 DEF Publishes
  <2>6. published' \in [Keys -> Bodies \cup {NoFile}]
    BY <2>1, <2>3, <2>5
  <2>7. committed' \in [Executions -> Seq(Receipt)]
    BY <2>5
  <2> QED
    BY <1>6, <1>8, <2>1, <2>6, <2>7, HandleType DEF Publishes
<1> QED
  BY <1>1, <1>2, <1>4, <1>5, <1>7, <1>8 DEF CallEffect

-----------------------------------------------------------------------------
\* A caller about to install its execution finds nothing in service.
LEMMA NothingInService ==
  ASSUME MutexInv, NEW c \in Callers, pc[c] \in Holding \ Serving
  PROVE  ~InService
  BY OneHolder DEF InService, Serving, Holding

\* What the steps that are no artifact call leave as it is.
LEMMA RunStepKeeps ==
  ASSUME TypeOK, MutexInv, RunStep
  PROVE  /\ UNCHANGED <<artifactVars, streamVars, captured>>
         /\ InService => InService' /\ UNCHANGED built
         /\ built' \in {built, built + 1}
<1>1. ASSUME NEW c \in Callers, Enter(c) \/ Lock(c) \/ Leave(c) \/ Restore(c) \/ Unlock(c)
      PROVE  UNCHANGED <<built, captured>> /\ (InService => InService')
  BY <1>1 DEF Enter, Lock, Leave, Return, Panic, Restore, Unlock, Goto, TypeOK, InService, Serving
<1>2. ASSUME NEW c \in Callers, Install(c)
      PROVE  UNCHANGED captured /\ built' = built + 1 /\ ~InService
  BY <1>2, NothingInService DEF Install, Goto, Holding, Serving
<1>3. ASSUME \/ \E w \in Workers : WorkerExit(w)
             \/ \E c \in Callers, w \in Workers : Spawn(c, w)
             \/ \E g \in Goroutines : EndCall(g) \/ \E op \in CallOps : BeginCall(g, op)
      PROVE  UNCHANGED <<built, captured, pc>>
  BY <1>3 DEF WorkerExit, Spawn, EndCall, BeginCall
<1>4. UNCHANGED pc => (InService => InService')
  BY DEF InService
<1>5. UNCHANGED <<artifactVars, streamVars>>
  BY DEF RunStep
<1> QED
  BY <1>1, <1>2, <1>3, <1>4, <1>5 DEF RunStep

LEMMA OpenStep ==
  ASSUME IInv, CTypeOK, JoinedInv, OpenInv, CNext
  PROVE  OpenInv'
<1> USE CompositionAssumption DEF OpenInv, IInv, CTypeOK, ArtifactTypeOK, artifactVars, streamVars
<1>1. CASE RunStep
  <2>1. /\ UNCHANGED <<next, open>> /\ built' \in {built, built + 1} /\ built \in Nat
        /\ InService => InService' /\ UNCHANGED built
    BY <1>1, RunStepKeeps DEF TypeOK
  <2> QED
    BY <2>1 DEF Runs
<1>2. ASSUME NEW c \in Callers, CCapture(c) PROVE OpenInv'
  <2>1. pc' = [pc EXCEPT ![c] = "aborting"] /\ UNCHANGED <<next, open, built>>
    BY <1>2 DEF CCapture, Capture, Goto
  <2>2. InService'
    BY <2>1 DEF InService, Serving, TypeOK
  <2> QED
    BY <2>1, <2>2
<1>3. ASSUME NEW c \in Callers, CAbortOpen(c) PROVE OpenInv'
  <2>1. execution[c] = built /\ built \in Runs
    BY <1>3, BoundsAssumption DEF CAbortOpen, AbortOpen, Goto, HostInv, Installed, TypeOK, Runs
  <2>2. open' = [open EXCEPT ![built] = [h \in Handles |-> NoStream]]
        /\ UNCHANGED <<next, built>>
    BY <1>3, <2>1 DEF CAbortOpen, AbortOpen, AbortOpenArtifacts
  <2> QED
    BY <2>1, <2>2
<1>4. ASSUME NEW g \in Goroutines, EndArtifactCall(g) PROVE OpenInv'
  <2>1. /\ InRun /\ built \in Runs /\ CallEffect(g)
        /\ UNCHANGED <<pc, built>>
    BY <1>4, CallHasEffect DEF EndCall
  <2>2. InService'
    BY <2>1 DEF InRun, InService, Serving
  <2>3. \A r \in Runs : next[r] \in Nat
    BY StagingAssumption
  <2>4. CASE Opens(g)
    <3>1. PICK h, stream :
            /\ h \in Handles /\ h = next[built] + 1 /\ next' = [next EXCEPT ![built] = h]
            /\ open' = [open EXCEPT ![built][h] = stream]
      BY <2>4 DEF Opens
    <3> QED
      BY <2>1, <2>2, <2>3, <3>1 DEF Runs
  <2>5. CASE Writes(g)
    <3>1. PICK h, stream :
            h \in Handles /\ open[built][h] # NoStream /\ open' = [open EXCEPT ![built][h] = stream] /\ next' = next
      BY <2>5 DEF Writes, IsOpen
    <3> QED
      BY <2>1, <2>2, <3>1
  <2>6. CASE Drops(g) \/ Publishes(g)
    <3>1. PICK h \in Handles :
            open' = [open EXCEPT ![built][h] = NoStream] /\ next' = next
      BY <2>6 DEF Drops, Publishes, IsOpen, Forget
    <3> QED
      BY <2>1, <2>2, <3>1
  <2>7. CASE UNCHANGED <<next, open>>
    BY <2>1, <2>2, <2>7
  <2> QED
    BY <2>1, <2>4, <2>5, <2>6, <2>7 DEF CallEffect, Tears
<1> QED
  BY <1>1, <1>2, <1>3, <1>4 DEF CNext

LEMMA KeptHandles ==
  ASSUME HandleInv, UNCHANGED next, Keeps,
         \A r \in Runs, h \in Handles : open'[r][h] # NoStream =>
           /\ open[r][h] # NoStream
           /\ open'[r][h].request = open[r][h].request
  PROVE  HandleInv'
<1>1. \A g \in Goroutines : handle'[g] = handle[g] /\ issuer'[g] = issuer[g]
  BY DEF Keeps
<1>2. \A g \in Goroutines, r \in Runs : issuer'[g] = r => handle'[g] <= next'[r]
  BY <1>1 DEF HandleInv
<1>3. ASSUME NEW g \in Goroutines, NEW r \in Runs, NEW h \in Handles,
             issuer'[g] = r /\ handle'[g] = h /\ open'[r][h] # NoStream
      PROVE  open'[r][h].request.key = g
  BY <1>1, <1>3 DEF HandleInv, HandlesNameOwnStream
<1> QED
  BY <1>2, <1>3 DEF HandleInv, HandlesNameOwnStream

LEMMA ClearedHandles ==
  ASSUME CTypeOK, HandleInv, UNCHANGED next, NEW g \in Goroutines, HoldsNone(g),
         \A r \in Runs, h \in Handles : open'[r][h] \in {NoStream, open[r][h]}
  PROVE  HandleInv'
<1>1. \A f \in Goroutines, r \in Runs : issuer'[f] = r =>
        issuer[f] = r /\ handle'[f] = handle[f]
  BY DEF CTypeOK, HoldsNone, Holds, NoHost, Runs
<1>2. \A f \in Goroutines, r \in Runs : issuer'[f] = r => handle'[f] <= next'[r]
  BY <1>1 DEF HandleInv
<1>3. ASSUME NEW f \in Goroutines, NEW r \in Runs, NEW h \in Handles,
             issuer'[f] = r /\ handle'[f] = h /\ open'[r][h] # NoStream
      PROVE  open'[r][h].request.key = f
  BY <1>1, <1>3 DEF HandleInv, HandlesNameOwnStream
<1> QED
  BY <1>2, <1>3 DEF HandleInv, HandlesNameOwnStream

\* An open gives its goroutine a handle above all that its execution gave out.
LEMMA HandleStep ==
  ASSUME IInv, CTypeOK, JoinedInv, HandleInv, CNext
  PROVE  HandleInv'
<1> USE CompositionAssumption
    DEF HandleInv, HandlesNameOwnStream, IInv, CTypeOK, ArtifactTypeOK, artifactVars, streamVars
<1>1. CASE RunStep
  BY <1>1, RunStepKeeps, KeptHandles DEF Keeps
<1>2. CASE \E c \in Callers : CCapture(c)
  BY <1>2, KeptHandles DEF CCapture, Keeps
<1>3. CASE \E c \in Callers : CAbortOpen(c)
  BY <1>3, KeptHandles DEF CAbortOpen, AbortOpenArtifacts, Keeps
<1>4. ASSUME NEW g \in Goroutines, EndArtifactCall(g) PROVE HandleInv'
  <2>1. built \in Runs /\ RunOf(g) = built /\ CallEffect(g)
    BY <1>4, CallHasEffect
  <2>2. \A r \in Runs : next[r] \in Nat /\ \A f \in Goroutines : handle[f] \in Nat
    BY StagingAssumption
  <2>3. CASE Opens(g)
    <3>1. PICK h, stream :
            /\ h \in Handles /\ h = next[built] + 1 /\ next' = [next EXCEPT ![built] = h]
            /\ open' = [open EXCEPT ![built][h] = stream]
            /\ stream.request.key = g
            /\ handle' = [handle EXCEPT ![g] = h]
            /\ issuer' = [issuer EXCEPT ![g] = built]
      <4>1. PICK stream : stream = [request |-> [key |-> g, sha |-> NoSHA, size |-> 0],
                                   hashed |-> << >>, nextIndex |-> 0]
        OBVIOUS
      <4>2. PICK h \in Handles : h = next[built] + 1
        BY <2>3 DEF Opens
      <4>3. /\ next' = [next EXCEPT ![built] = h]
            /\ open' = [open EXCEPT ![built][h] = stream]
            /\ handle' = [handle EXCEPT ![g] = h]
            /\ issuer' = [issuer EXCEPT ![g] = built]
        BY <2>3, <4>1, <4>2 DEF Opens, Holds
      <4>4. stream.request.key = g
        BY <4>1
      <4> QED
        BY <4>2, <4>3, <4>4
    <3>2. \A f \in Goroutines : f # g => issuer'[f] = issuer[f] /\ handle'[f] = handle[f]
      BY <3>1
    <3>3. issuer'[g] = built /\ handle'[g] = h /\ next'[built] = h /\ open'[built][h] = stream
      BY <2>1, <3>1
    <3>4. \A r \in Runs, k \in Handles : r # built \/ k # h => open'[r][k] = open[r][k]
      BY <3>1
    <3>5. \A r \in Runs : next[r] <= next'[r]
      BY <2>2, <3>1
    <3>6. ASSUME NEW f \in Goroutines, NEW r \in Runs, issuer'[f] = r
          PROVE  /\ handle'[f] <= next'[r]
                 /\ \A k \in Handles : handle'[f] = k /\ open'[r][k] # NoStream =>
                      open'[r][k].request.key = f
      <4>1. CASE f = g
        BY <2>2, <3>1, <3>3, <3>6, <4>1
      <4>2. CASE f # g
        <5>1. issuer[f] = r /\ handle'[f] = handle[f] /\ handle[f] <= next[r]
          BY <3>2, <3>6, <4>2
        <5>2. handle'[f] <= next'[r]
          BY <2>2, <3>1, <3>5, <5>1
        <5>3. r # built \/ handle[f] # h
          BY <2>2, <3>1, <5>1
        <5> QED
          BY <3>4, <5>1, <5>2, <5>3
      <4> QED
        BY <4>1, <4>2
    <3> QED
      BY <3>6
  <2>4. CASE Writes(g)
    <3>1. PICK h \in Handles : h = handle[g] /\ open[built][h] # NoStream /\ open[built][h] \in Stream
      BY <2>1, <2>4 DEF Writes, IsOpen
    <3>2. PICK stream : /\ stream.request = open[built][h].request
                        /\ stream = Grown(open[built][h], Mine(g))
      BY <2>1, <3>1, MineIsChunk, GrownStream
    <3>3. open' = [open EXCEPT ![built][h] = stream] /\ UNCHANGED next /\ Keeps
      BY <2>4, <3>1, <3>2 DEF Writes
    <3>4. \A r \in Runs, k \in Handles : open'[r][k] # NoStream =>
            open[r][k] # NoStream /\ open'[r][k].request = open[r][k].request
      BY <2>1, <3>1, <3>2, <3>3
    <3> QED
      BY <3>3, <3>4, KeptHandles
  <2>5. ASSUME Cleared(g), UNCHANGED next,
               \A r \in Runs, h \in Handles : open'[r][h] \in {NoStream, open[r][h]}
        PROVE  HandleInv'
    <3>1. CASE Keeps
      BY ONLY HandleInv, <2>5, <3>1, KeptHandles
    <3>2. CASE HoldsNone(g)
      BY ONLY CTypeOK, HandleInv, <2>5, <3>2, ClearedHandles
    <3> QED
      BY <2>5, <3>1, <3>2 DEF Cleared
  <2>6. CASE Drops(g) \/ Publishes(g)
    <3>1. PICK h \in Handles : open' = [open EXCEPT ![built][h] = NoStream] /\ next' = next
      BY <2>6 DEF Drops, Publishes, IsOpen, Forget
    <3> QED
      BY <2>5, <2>6, <3>1 DEF Drops, Publishes
  <2>7. CASE UNCHANGED <<next, open>> /\ Cleared(g)
    BY <2>5, <2>7
  <2> QED
    BY <2>1, <2>3, <2>4, <2>6, <2>7 DEF CallEffect, Tears, Cleared
<1> QED
  BY <1>1, <1>2, <1>3, <1>4 DEF CNext

\* A staging file comes and goes with its stream.
LEMMA StagingStep ==
  ASSUME IInv, CTypeOK, JoinedInv, StagingFilesAreOpenStreams, CNext
  PROVE  StagingFilesAreOpenStreams'
<1> USE CompositionAssumption, SentinelAssumption
    DEF StagingFilesAreOpenStreams, IInv, CTypeOK, ArtifactTypeOK
<1>1. CASE UNCHANGED <<open, staging>>
  BY <1>1
<1>2. CASE RunStep
  BY <1>1, <1>2, RunStepKeeps DEF artifactVars
<1>3. CASE \E c \in Callers : CCapture(c)
  BY <1>1, <1>3 DEF CCapture, artifactVars
<1>4. ASSUME NEW c \in Callers, CAbortOpen(c) PROVE StagingFilesAreOpenStreams'
  BY <1>4 DEF CAbortOpen, AbortOpenArtifacts
<1>5. ASSUME NEW g \in Goroutines, EndArtifactCall(g) PROVE StagingFilesAreOpenStreams'
  <2>1. built \in Runs /\ RunOf(g) = built /\ CallEffect(g)
    BY <1>5, CallHasEffect
  <2>2. CASE Opens(g)
    <3>1. PICK stream : stream = [request |-> [key |-> g, sha |-> NoSHA, size |-> 0],
                                 hashed |-> << >>, nextIndex |-> 0]
      OBVIOUS
    <3>2. PICK h \in Handles : h = next[built] + 1
      BY <2>2 DEF Opens
    <3>3. /\ open' = [open EXCEPT ![built][h] = stream]
          /\ staging' = [staging EXCEPT ![built][h] = << >>]
      BY <2>2, <3>1, <3>2 DEF Opens
    <3>4. stream \in Stream /\ << >> \in Bodies
      BY <3>1 DEF Stream, OpenRequest, Digests, Bodies
    <3>5. stream # NoStream /\ << >> # NoFile
      BY <3>4
    <3> QED
      BY <2>1, <3>3, <3>5
  <2>3. ASSUME NEW h \in Handles, staging[built][h] # NoFile, NEW chunk \in Chunks \cup {Torn}
        PROVE  Append(staging[built][h], chunk) # NoFile
    <3>1. PICK file \in Bodies : file = staging[built][h]
      BY <2>1, <2>3
    <3>2. Append(file, chunk) \in Bodies
      BY DEF Bodies
    <3> QED
      BY <3>1, <3>2
  <2>4. CASE Tears(g)
    <3>1. PICK h \in Handles : /\ open[built][h] # NoStream
                               /\ staging' = [staging EXCEPT ![built][h] = Append(@, Torn)]
      BY <2>4 DEF Tears, IsOpen
    <3>2. staging[built][h] # NoFile
      BY <2>1, <3>1
    <3>3. PICK file : file # NoFile /\ file = Append(staging[built][h], Torn)
      BY <2>3, <3>2
    <3>4. staging' = [staging EXCEPT ![built][h] = file] /\ UNCHANGED open
      BY <2>4, <3>1, <3>3 DEF Tears
    <3> QED
      BY <2>1, <3>1, <3>3, <3>4
  <2>5. CASE Writes(g)
    <3>1. PICK chunk \in Chunks : chunk = Mine(g)
      BY <2>1, MineIsChunk
    <3>2. PICK h \in Handles : /\ open[built][h] # NoStream
                               /\ staging' = [staging EXCEPT ![built][h] = Append(@, chunk)]
                               /\ open' = [open EXCEPT ![built][h] = Grown(@, chunk)]
      BY <2>5, <3>1 DEF Writes, IsOpen
    <3>3. PICK stream : stream # NoStream /\ stream = Grown(open[built][h], chunk)
      BY <2>1, <3>2, GrownStream
    <3>4. PICK file : file # NoFile /\ file = Append(staging[built][h], chunk)
      BY <2>1, <2>3, <3>2
    <3> QED
      BY <2>1, <3>2, <3>3, <3>4
  <2>6. CASE Drops(g) \/ Publishes(g)
    <3>1. PICK h \in Handles : Forget(built, h)
      BY <2>6 DEF Drops, Publishes, IsOpen
    <3> QED
      BY <2>1, <3>1 DEF Forget
  <2> QED
    BY <1>1, <2>1, <2>2, <2>4, <2>5, <2>6 DEF CallEffect, artifactVars
<1> QED
  BY <1>2, <1>3, <1>4, <1>5 DEF CNext

LEMMA MoreBytesOf ==
  ASSUME NEW r, NEW k, NEW body \in Digests, NEW chunk \in Chunks, BytesOf(r, k, body),
         chunk.run = r, chunk.issuer = r => chunk.by = k
  PROVE  BytesOf(r, k, Append(body, chunk))
  BY DEF BytesOf, Digests

\* What a goroutine writes through a handle of this execution goes to its own stream.
LEMMA WriterStep ==
  ASSUME IInv, CTypeOK, JoinedInv, HandleInv, StreamsHaveOneWriter, CNext
  PROVE  StreamsHaveOneWriter'
<1> USE CompositionAssumption DEF StreamsHaveOneWriter, IInv, CTypeOK, ArtifactTypeOK
<1>1. ASSUME \A r \in Runs, h \in Handles : open'[r][h] \in {NoStream, open[r][h]}
      PROVE  StreamsHaveOneWriter'
  BY <1>1
<1>2. CASE RunStep
  BY <1>1, <1>2, RunStepKeeps DEF artifactVars
<1>3. CASE \E c \in Callers : CCapture(c)
  BY <1>1, <1>3 DEF CCapture, artifactVars
<1>4. ASSUME NEW c \in Callers, CAbortOpen(c) PROVE StreamsHaveOneWriter'
  BY <1>1, <1>4 DEF CAbortOpen, AbortOpenArtifacts
<1>5. ASSUME NEW g \in Goroutines, EndArtifactCall(g) PROVE StreamsHaveOneWriter'
  <2>1. built \in Runs /\ RunOf(g) = built /\ CallEffect(g)
    BY <1>5, CallHasEffect
  <2>2. CASE Opens(g)
    <3>1. PICK stream : stream = [request |-> [key |-> g, sha |-> NoSHA, size |-> 0],
                                 hashed |-> << >>, nextIndex |-> 0]
      OBVIOUS
    <3>2. PICK h \in Handles : open' = [open EXCEPT ![built][h] = stream]
      BY <2>2, <3>1 DEF Opens
    <3>3. BytesOf(built, stream.request.key, stream.hashed)
      BY <3>1 DEF BytesOf
    <3> QED
      BY <2>1, <3>2, <3>3
  <2>3. CASE Writes(g)
    <3>1. PICK chunk \in Chunks : chunk = Mine(g)
      BY <2>1, MineIsChunk
    <3>2. PICK h \in Handles : /\ h = handle[g] /\ open[built][h] # NoStream
                               /\ open' = [open EXCEPT ![built][h] = Grown(@, chunk)]
      BY <2>3, <3>1 DEF Writes, IsOpen
    <3>3. PICK stream \in Stream : stream = open[built][h]
      BY <2>1, <3>2
    <3>4. chunk.run = built /\ (chunk.issuer = built => chunk.by = stream.request.key)
      BY <2>1, <3>1, <3>2, <3>3 DEF Mine, HandleInv, HandlesNameOwnStream
    <3>5. PICK longer : longer = Grown(stream, chunk)
      OBVIOUS
    <3>6. longer.hashed = Append(stream.hashed, chunk) /\ longer.request = stream.request
      BY <3>5, GrownStream
    <3>7. stream.hashed \in Digests /\ BytesOf(built, stream.request.key, stream.hashed)
      BY <2>1, <3>2, <3>3 DEF Stream
    <3>8. BytesOf(built, longer.request.key, longer.hashed)
      BY <3>4, <3>6, <3>7, MoreBytesOf
    <3> QED
      BY <2>1, <3>2, <3>3, <3>5, <3>8
  <2>4. CASE Drops(g) \/ Publishes(g)
    <3>1. PICK h \in Handles : open' = [open EXCEPT ![built][h] = NoStream]
      BY <2>4 DEF Drops, Publishes, IsOpen, Forget
    <3> QED
      BY <1>1, <2>1, <3>1
  <2> QED
    BY <1>1, <2>1, <2>2, <2>3, <2>4 DEF CallEffect, Tears, artifactVars
<1> QED
  BY <1>2, <1>3, <1>4, <1>5 DEF CNext

\* While a run function runs nothing of its execution is captured; after that no
\* call works on it.
LEMMA CaptureFinalStep ==
  ASSUME IInv, CTypeOK, JoinedInv, CaptureIsFinal, CNext
  PROVE  CaptureIsFinal'
<1> USE CompositionAssumption DEF CaptureIsFinal, IInv, CTypeOK, ArtifactTypeOK
<1>1. ASSUME InRun PROVE captured[built] = << >>
  <2>1. PICK c \in Callers : pc[c] = "running"
    BY <1>1 DEF InRun
  <2>2. execution[c] = built
    BY <2>1 DEF HostInv, Installed
  <2> QED
    BY <2>1, <2>2 DEF CaptureInv
<1>2. CASE UNCHANGED <<outputs, captured, committed, capturedArtifacts>>
  BY <1>2
<1>3. CASE RunStep
  <2>1. UNCHANGED <<committed, capturedArtifacts, captured>>
    BY <1>3, RunStepKeeps DEF artifactVars, streamVars
  <2>2. CASE \E g \in Goroutines : EndCall(g)
    <3>1. PICK g \in Goroutines : EndCall(g)
      BY <2>2
    <3>2. InRun /\ call[g].host = built
      BY <3>1, CallsInRun DEF EndCall
    <3>3. \A r \in Runs : r # built => outputs'[r] = outputs[r]
      BY <3>1, <3>2 DEF EndCall, TypeOK
    <3> QED
      BY <1>1, <2>1, <3>2, <3>3
  <2>3. CASE UNCHANGED outputs
    BY <2>1, <2>3
  <2> QED
    BY <1>3, <2>2, <2>3 DEF RunStep, Enter, Lock, Install, Leave, Return, Panic, Restore, Unlock,
                            Spawn, WorkerExit, BeginCall
<1>4. ASSUME NEW c \in Callers, CCapture(c) PROVE CaptureIsFinal'
  <2>1. execution[c] = built /\ built \in Runs
    BY <1>4, BoundsAssumption DEF CCapture, Capture, Goto, HostInv, Installed, TypeOK, Runs
  <2>2. /\ captured' = [captured EXCEPT ![built] = <<outputs[built]>>]
        /\ capturedArtifacts' = [capturedArtifacts EXCEPT ![built] = <<committed[built]>>]
        /\ UNCHANGED <<outputs, committed>>
    BY <1>4, <2>1 DEF CCapture, Capture, artifactVars
  <2> QED
    BY <2>1, <2>2 DEF TypeOK
<1>5. CASE \E c \in Callers : CAbortOpen(c)
  BY <1>2, <1>5 DEF CAbortOpen, AbortOpen, AbortOpenArtifacts, artifactVars, streamVars
<1>6. ASSUME NEW g \in Goroutines, EndArtifactCall(g) PROVE CaptureIsFinal'
  <2>1. /\ InRun /\ built \in Runs /\ CallEffect(g) /\ EndCall(g) /\ call[g] # NoCall
        /\ UNCHANGED capturedArtifacts
    BY <1>6, CallHasEffect
  <2>2. call[g].host = built
    BY <2>1, CallsInRun
  <2>3. UNCHANGED captured /\ \A r \in Runs : r # built => outputs'[r] = outputs[r]
    BY <2>1, <2>2 DEF EndCall, TypeOK
  <2>4. \A r \in Runs : r # built => committed'[r] = committed[r]
    BY <2>1 DEF CallEffect, Opens, Tears, Writes, Drops, Publishes, artifactVars
  <2> QED
    BY <1>1, <2>1, <2>3, <2>4
<1> QED
  BY <1>3, <1>4, <1>5, <1>6 DEF CNext

-----------------------------------------------------------------------------
LEMMA CInvInit == CInit => CInv
<1> SUFFICES ASSUME CInit PROVE CInv
  OBVIOUS
<1> USE CompositionAssumption, BoundsAssumption, StagingAssumption, CallersAssumption
<1>1. IInv
  BY IInvInit DEF CInit
<1>2. CTypeOK
  BY DEF CInit, ArtifactInit, CTypeOK, ArtifactTypeOK
<1>3. JoinedInv /\ OpenInv /\ StagingFilesAreOpenStreams
  BY DEF CInit, Init, ArtifactInit, JoinedInv, OpenInv, Goroutines, StagingFilesAreOpenStreams
<1>4. HandleInv
  BY DEF CInit, ArtifactInit, HandleInv, HandlesNameOwnStream, NoHost, Runs
<1>5. StreamsHaveOneWriter /\ CaptureIsFinal
  BY DEF CInit, Init, ArtifactInit, StreamsHaveOneWriter, CaptureIsFinal
<1> QED
  BY <1>1, <1>2, <1>3, <1>4, <1>5 DEF CInv

LEMMA CTypeStep ==
  ASSUME IInv, CTypeOK, JoinedInv, StagingFilesAreOpenStreams, CNext
  PROVE  CTypeOK'
<1> USE CompositionAssumption, StagingAssumption DEF IInv
<1>1. CASE RunStep
  BY <1>1 DEF RunStep, CTypeOK, ArtifactTypeOK, artifactVars, streamVars
<1>2. ASSUME NEW c \in Callers, CCapture(c) PROVE CTypeOK'
  <2>1. PICK r : r = execution[c]
    OBVIOUS
  <2>2. /\ UNCHANGED <<artifactVars, handle, issuer>>
        /\ capturedArtifacts' = [capturedArtifacts EXCEPT ![r] = <<committed[r]>>]
    BY <1>2, <2>1 DEF CCapture
  <2>3. CASE r \in Runs
    <3>1. committed[r] \in Seq(Receipt)
      BY <2>3 DEF CTypeOK, ArtifactTypeOK
    <3>2. <<committed[r]>> \in Seq(Seq(Receipt))
      BY <3>1
    <3> QED
      BY <2>2, <2>3, <3>2 DEF CTypeOK, ArtifactTypeOK, artifactVars
  <2>4. CASE r \notin Runs
    BY <2>2, <2>4 DEF CTypeOK, ArtifactTypeOK, artifactVars
  <2> QED
    BY <2>3, <2>4
<1>3. ASSUME NEW c \in Callers, CAbortOpen(c) PROVE CTypeOK'
  BY <1>3 DEF CAbortOpen, AbortOpenArtifacts, CTypeOK, ArtifactTypeOK, streamVars
<1>4. ASSUME NEW g \in Goroutines, EndArtifactCall(g) PROVE CTypeOK'
  BY <1>4, CallHasEffect, CallKeepsTypes DEF CTypeOK
<1> QED
  BY <1>1, <1>2, <1>3, <1>4 DEF CNext

LEMMA CInvStep ==
  ASSUME ~Detached, CInv, [CNext]_allVars
  PROVE  CInv'
<1>1. [Next]_vars
  BY StepIsRunStep
<1>2. IInv' /\ JoinedInv'
  BY <1>1, IInvStep, JoinedStep DEF CInv, IInv
<1>3. CASE CNext
  BY <1>2, <1>3, CTypeStep, OpenStep, HandleStep, StagingStep, WriterStep, CaptureFinalStep
     DEF CInv
<1>4. CASE UNCHANGED allVars
  <2>1. CTypeOK' /\ StagingFilesAreOpenStreams' /\ StreamsHaveOneWriter' /\ CaptureIsFinal'
    BY <1>4 DEF allVars, vars, artifactVars, streamVars, CInv, CTypeOK, ArtifactTypeOK,
                StagingFilesAreOpenStreams, StreamsHaveOneWriter, CaptureIsFinal
  <2>2. OpenInv' /\ HandleInv'
    BY <1>4 DEF allVars, vars, artifactVars, streamVars, CInv, OpenInv, HandleInv, HandlesNameOwnStream, InService
  <2> QED
    BY <1>2, <2>1, <2>2 DEF CInv
<1> QED
  BY <1>3, <1>4

LEMMA CInvHolds ==
  ASSUME ~Detached
  PROVE  CSpec => []CInv
<1>1. CInv /\ [CNext]_allVars => CInv'
  BY CInvStep
<1> QED
  BY <1>1, CInvInit, PTL DEF CSpec

\* When nobody is in RunLocalHost no stream is open, so no staging file is left.
LEMMA NothingOpenBetweenRuns == CInv => NothingLeftBehind
<1> SUFFICES ASSUME CInv, runMu = Nobody PROVE \A r \in Runs, h \in Handles : staging[r][h] = NoFile
  BY DEF NothingLeftBehind
<1>1. ~InService
  BY CallersAssumption DEF CInv, IInv, MutexInv, InService, Serving, Holding
<1> QED
  BY <1>1, CompositionAssumption DEF CInv, OpenInv, StagingFilesAreOpenStreams

\* README "Aborted and uncommitted streams leave nothing behind", for every
\* interleaving of runs whose functions wait for their workers
\* (sdk/local_host.go:100-110, sdk/local_artifact.go).
THEOREM RunsLeaveNothingBehind ==
  ASSUME ~Detached
  PROVE  CSpec => []NothingLeftBehind
  BY CInvHolds, NothingOpenBetweenRuns, PTL

-----------------------------------------------------------------------------
\* Files and digests stay equal while no failing write leaves bytes behind.
LEMMA HashedStep ==
  ASSUME ~ShortWrites, CInv, FilesAreHashed, CNext
  PROVE  FilesAreHashed'
<1> USE CompositionAssumption DEF FilesAreHashed, CInv, IInv, CTypeOK, ArtifactTypeOK
<1>1. CASE UNCHANGED <<open, staging>>
  BY <1>1
<1>2. CASE RunStep
  BY <1>1, <1>2, RunStepKeeps DEF artifactVars
<1>3. CASE \E c \in Callers : CCapture(c)
  BY <1>1, <1>3 DEF CCapture, artifactVars
<1>4. ASSUME NEW c \in Callers, CAbortOpen(c) PROVE FilesAreHashed'
  BY <1>4 DEF CAbortOpen, AbortOpenArtifacts
<1>5. ASSUME NEW g \in Goroutines, EndArtifactCall(g) PROVE FilesAreHashed'
  <2>1. built \in Runs /\ RunOf(g) = built /\ CallEffect(g)
    BY <1>5, CallHasEffect
  <2>2. CASE Opens(g)
    <3>1. PICK stream : stream = [request |-> [key |-> g, sha |-> NoSHA, size |-> 0],
                                 hashed |-> << >>, nextIndex |-> 0]
      OBVIOUS
    <3>2. PICK h \in Handles : h = next[built] + 1
      BY <2>2 DEF Opens
    <3>3. /\ open' = [open EXCEPT ![built][h] = stream]
          /\ staging' = [staging EXCEPT ![built][h] = << >>]
      BY <2>2, <3>1, <3>2 DEF Opens
    <3>4. stream.hashed = << >>
      BY <3>1
    <3> QED
      BY <2>1, <3>3, <3>4
  <2>3. CASE Writes(g)
    <3>1. PICK chunk \in Chunks : chunk = Mine(g)
      BY <2>1, MineIsChunk
    <3>2. PICK h \in Handles : /\ open[built][h] # NoStream
                               /\ staging' = [staging EXCEPT ![built][h] = Append(@, chunk)]
                               /\ open' = [open EXCEPT ![built][h] = Grown(@, chunk)]
      BY <2>3, <3>1 DEF Writes, IsOpen
    <3>3. PICK stream \in Stream : stream = open[built][h] /\ staging[built][h] = stream.hashed
      BY <2>1, <3>2
    <3>4. PICK longer : longer = Grown(stream, chunk) /\ longer.hashed = Append(stream.hashed, chunk)
      BY GrownStream
    <3>5. open' = [open EXCEPT ![built][h] = longer] /\ staging' = [staging EXCEPT ![built][h] = longer.hashed]
      BY <2>1, <3>2, <3>3, <3>4
    <3> QED
      BY <2>1, <3>5
  <2>4. CASE Drops(g) \/ Publishes(g)
    <3>1. PICK h \in Handles : Forget(built, h)
      BY <2>4 DEF Drops, Publishes, IsOpen
    <3> QED
      BY <2>1, <3>1 DEF Forget
  <2> QED
    BY <1>1, <2>1, <2>2, <2>3, <2>4 DEF CallEffect, Tears, artifactVars
<1> QED
  BY <1>2, <1>3, <1>4, <1>5 DEF CNext

\* A receipt that stands in an execution's list goes on standing there.
LEMMA PublishedStep ==
  ASSUME CInv, FilesAreHashed, PublishedByItsRun, CNext
  PROVE  PublishedByItsRun'
<1> USE CompositionAssumption DEF PublishedByItsRun, CInv, IInv, CTypeOK, ArtifactTypeOK
<1>1. CASE UNCHANGED <<committed, published>>
  BY <1>1
<1>2. CASE RunStep
  BY <1>1, <1>2, RunStepKeeps DEF artifactVars
<1>3. CASE \E c \in Callers : CCapture(c) \/ CAbortOpen(c)
  BY <1>1, <1>3 DEF CCapture, CAbortOpen, AbortOpenArtifacts, artifactVars
<1>4. ASSUME NEW g \in Goroutines, EndArtifactCall(g) PROVE PublishedByItsRun'
  <2>1. built \in Runs /\ CallEffect(g)
    BY <1>4, CallHasEffect
  <2>2. CASE Publishes(g)
    <3>1. PICK h \in Handles : h = handle[g] /\ open[built][h] # NoStream
      BY <2>2 DEF Publishes, IsOpen
    <3>2. PICK stream \in Stream : stream = open[built][h]
      BY <2>1, <3>1
    <3>3. PICK k \in Goroutines : k = stream.request.key
      BY DEF Stream, OpenRequest
    <3>4. stream.hashed \in Seq(Chunks) /\ staging[built][h] = stream.hashed
      BY <2>1, <3>1, <3>2 DEF FilesAreHashed, Stream, Digests
    <3>5. BytesOf(built, k, stream.hashed)
      BY <2>1, <3>1, <3>2, <3>3 DEF StreamsHaveOneWriter
    <3>6. PICK receipt \in Receipt : receipt = [key |-> k, sha |-> stream.hashed, size |-> Len(stream.hashed)]
      <4>1. stream.hashed \in Digests
        BY <3>2 DEF Stream
      <4>2. Len(stream.hashed) \in Nat
        BY <3>4
      <4>3. PICK digest \in Digests : digest = stream.hashed
        BY <4>1
      <4>4. PICK size \in Nat : size = Len(stream.hashed)
        BY <4>2
      <4> QED
        BY <4>3, <4>4 DEF Receipt
    <3>7. receipt.key = k /\ receipt.sha = stream.hashed
      BY <3>6
    <3>8. /\ published' = [published EXCEPT ![k] = stream.hashed]
          /\ committed' = [committed EXCEPT ![built] = Append(@, receipt)]
      BY <2>2, <3>1, <3>2, <3>3, <3>4, <3>6 DEF Publishes
    <3>9. committed[built] \in Seq(Receipt)
      BY <2>1
    <3>10. PICK list : list = Append(committed[built], receipt) /\ list = committed'[built]
      BY <2>1, <3>8
    <3>11. /\ DOMAIN committed[built] \subseteq DOMAIN list
           /\ \A i \in DOMAIN committed[built] : list[i] = committed[built][i]
           /\ \E i \in DOMAIN list : list[i] = receipt
      <4>1. /\ Len(list) = Len(committed[built]) + 1
            /\ list \in Seq(Receipt)
            /\ \A i \in 1 .. Len(committed[built]) : list[i] = committed[built][i]
            /\ list[Len(committed[built]) + 1] = receipt
        BY <3>6, <3>9, <3>10, AppendProperties
      <4>2. PICK n \in Nat : n = Len(committed[built])
        BY <3>9
      <4>3. DOMAIN committed[built] = 1 .. n /\ DOMAIN list = 1 .. n + 1
        BY <3>9, <4>1, <4>2
      <4>4. DOMAIN committed[built] \subseteq DOMAIN list /\ n + 1 \in DOMAIN list
        BY <4>3
      <4> QED
        BY <4>1, <4>2, <4>3, <4>4
    <3>12. \A f \in Goroutines : f # k => published'[f] = published[f]
      BY <3>8
    <3>13. \A r \in Runs : r # built => committed'[r] = committed[r]
      BY <3>8
    <3>14. published'[k] = stream.hashed
      BY <3>8
    <3>15. ASSUME NEW f \in Goroutines, f # k, published'[f] # NoFile
           PROVE  \E r \in Runs : \E i \in DOMAIN committed'[r] :
                    /\ committed'[r][i].key = f
                    /\ committed'[r][i].sha = published'[f]
                    /\ BytesOf(r, f, published'[f])
      <4>1. PICK r \in Runs : \E i \in DOMAIN committed[r] :
                    /\ committed[r][i].key = f
                    /\ committed[r][i].sha = published[f]
                    /\ BytesOf(r, f, published[f])
        BY <3>12, <3>15
      <4>2. PICK i \in DOMAIN committed[r] : committed[r][i].key = f /\ committed[r][i].sha = published[f]
        BY <4>1
      <4>3. i \in DOMAIN committed'[r] /\ committed'[r][i] = committed[r][i]
        <5>1. CASE r = built
          BY <3>10, <3>11, <5>1
        <5>2. CASE r # built
          BY <3>13, <5>2
        <5> QED
          BY <5>1, <5>2
      <4>4. PICK file : file = published[f] /\ file = published'[f]
        BY <3>12, <3>15
      <4>5. /\ committed'[r][i].key = f
            /\ committed'[r][i].sha = file
            /\ BytesOf(r, f, file)
        BY <4>1, <4>2, <4>3, <4>4
      <4>6. /\ committed'[r][i].key = f
            /\ committed'[r][i].sha = published'[f]
            /\ BytesOf(r, f, published'[f])
        BY <4>4, <4>5, Zenon
      <4> QED
        BY <4>3, <4>6, Zenon
    <3>16. \E i \in DOMAIN committed'[built] :
              /\ committed'[built][i].key = k
              /\ committed'[built][i].sha = published'[k]
              /\ BytesOf(built, k, published'[k])
      <4>1. PICK i \in DOMAIN committed'[built] : committed'[built][i] = receipt
        BY <3>10, <3>11
      <4>2. PICK file : file = stream.hashed /\ file = published'[k]
        BY <3>14
      <4>3. BytesOf(built, k, file)
        BY <3>5, <4>2
      <4>4. committed'[built][i].key = k /\ committed'[built][i].sha = file
        BY <3>7, <4>1, <4>2
      <4>5. /\ committed'[built][i].key = k
            /\ committed'[built][i].sha = published'[k]
            /\ BytesOf(built, k, published'[k])
        BY <4>2, <4>3, <4>4, Zenon
      <4> QED
        BY <4>1, <4>5, Zenon
    <3>17. ASSUME NEW f \in Goroutines, published'[f] # NoFile
           PROVE  \E r \in Runs : \E i \in DOMAIN committed'[r] :
                    /\ committed'[r][i].key = f
                    /\ committed'[r][i].sha = published'[f]
                    /\ BytesOf(r, f, published'[f])
      <4>1. CASE f = k
        BY <2>1, <3>16, <4>1, Zenon
      <4>2. CASE f # k
        BY <3>15, <3>17, <4>2, Zenon
      <4> QED
        BY <4>1, <4>2
    <3> QED
      BY <3>17, Zenon
  <2> QED
    BY <1>1, <2>1, <2>2 DEF CallEffect, Opens, Tears, Writes, Drops, artifactVars
<1> QED
  BY <1>2, <1>3, <1>4 DEF CNext

LEMMA WholeInvHolds ==
  ASSUME ~Detached, ~ShortWrites
  PROVE  CSpec => []WholeInv
<1>1. CInit => WholeInv
  BY CompositionAssumption DEF CInit, ArtifactInit, WholeInv, FilesAreHashed, PublishedByItsRun
<1>2. CInv /\ WholeInv /\ [CNext]_allVars => WholeInv'
  <2> SUFFICES ASSUME CInv, WholeInv, [CNext]_allVars PROVE WholeInv'
    OBVIOUS
  <2>1. CASE CNext
    BY <2>1, HashedStep, PublishedStep DEF WholeInv
  <2>2. CASE UNCHANGED allVars
    BY <2>2 DEF allVars, artifactVars, WholeInv, FilesAreHashed, PublishedByItsRun
  <2> QED
    BY <2>1, <2>2
<1> QED
  BY <1>1, <1>2, CInvHolds, PTL DEF CSpec

\* Run functions that wait for their goroutines share the directory and nothing
\* else, for every number of callers, runs and calls, and also when a goroutine goes
\* on using a stream it kept from an earlier run: what a run returned is all it ever
\* did, and every file is the receipted work of one run, written by the goroutine
\* whose key it has but for what kept streams put in.  Nothing is assumed of
\* the streams a plugin keeps (sdk/local_host.go:93-114, sdk/local_artifact.go:98-105,
\* sdk/artifact.go:66-160).
THEOREM RunsShareOnlyTheDirectory ==
  ASSUME ~Detached, ~ShortWrites
  PROVE  CSpec => []NothingCrossesRuns
<1>1. CInv /\ WholeInv => NothingCrossesRuns
  BY DEF CInv, HandleInv, WholeInv, NothingCrossesRuns
<1> QED
  BY <1>1, CInvHolds, WholeInvHolds, PTL
=============================================================================
