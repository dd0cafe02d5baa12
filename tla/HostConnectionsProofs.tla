------------------------ MODULE HostConnectionsProofs ------------------------
(***************************************************************************)
(* Proofs about HostConnections, for any wrappers, handles and timeouts.   *)
(*                                                                         *)
(* That handles match connections needs one more fact to be inductive: a   *)
(* connection whose close was refused is still in the host's table, so     *)
(* that its handle is not given out before the host lets go of it.  That   *)
(* operations keep their time needs what is on a wrapper between its host  *)
(* calls: the deadline of the operation it is in, in that one's direction. *)
(***************************************************************************)
EXTENDS HostConnections, TLAPS

StuckIsOpen == \A h \in stuck : table[h] # Free

\* The directions in which an operation's host calls run on its own deadline.
Own(op) == {d \in Directions : op \in {d, "handshake"}}

OnItsDeadline(c) == \A d \in Own(doing[c].op) : deadline[c][d] = doing[c].due

OnTheirDeadlines == \A c \in Conns : OnItsDeadline(c)

IInv ==
  /\ TypeOK
  /\ StuckIsOpen
  /\ HandlesMatchConnections
  /\ OnTheirDeadlines
  /\ OperationsKeepTheirTime

-----------------------------------------------------------------------------
LEMMA InitInvariant == Init => IInv
  BY ConnAssumption
  DEF Init, IInv, TypeOK, StuckIsOpen, HandlesMatchConnections, OnTheirDeadlines, OnItsDeadline,
      Own, OperationsKeepTheirTime, NoDeadlines, Idle, NoCall, Kinds, Directions, Doings

\* A time after now is one of the clock's, and so is what is added to it.
LEMMA LaterTime ==
  ASSUME NEW m \in Nat, NEW n \in 1..m, NEW t \in n..m, NEW span \in Nat
  PROVE  t \in 1..m /\ t + span \in Nat
  OBVIOUS

\* The clock stays in its range, whatever a call takes.
LEMMA PassesType ==
  ASSUME NEW wait, Passes(wait)
  PROVE  now' \in now..MaxTime
  BY DEF Passes

\* A call that waits for the whole milliseconds of a time that is left has ended by then,
\* or waits without end on less than one of them.
LEMMA TakesWhatIsLeft ==
  ASSUME NEW m \in Nat, NEW t \in 1..m, NEW limit \in Nat, t < limit, NEW later \in t..m,
         NEW left, left = limit - t,
         Milliseconds(left) # 0 => later - t <= 2 * Milliseconds(left)
  PROVE  later <= limit \/ limit - t < 2
  BY DEF Milliseconds

\* The last host call, in what OperationsKeepTheirTime says of it.
Keeps(op, dir, due, limit, began, ended, refused) ==
  op \in {dir, "handshake"} =>
    /\ limit = due
    /\ refused => due # 0 /\ due <= began
    /\ ~refused /\ due # 0 => began < due /\ (ended <= due \/ due - began < 2)

\* A host call on the deadline of its operation keeps its time, and its type.
LEMMA CallKeeps ==
  ASSUME TypeOK, NEW c \in Conns, OnItsDeadline(c), NEW d \in Directions, CallOnDeadline(c, d)
  PROVE  /\ now' \in 1..MaxTime
         /\ call' \in [op: Doings, dir: Directions, due: Nat, limit: Nat, began: 1..MaxTime,
                       ended: 1..MaxTime, refused: BOOLEAN]
         /\ OperationsKeepTheirTime'
<1>1. PICK op, due, limit, refused :
        /\ op = doing[c].op /\ due = doing[c].due /\ limit = deadline[c][d]
        /\ refused \in BOOLEAN /\ (refused <=> limit # 0 /\ limit <= now)
  OBVIOUS
<1>2. /\ op \in Doings /\ due \in Nat /\ limit \in Nat /\ refused \in BOOLEAN
      /\ now \in 1..MaxTime /\ MaxTime \in Nat
  BY <1>1, ConnAssumption DEF TypeOK
<1>3. /\ call' = [op |-> op, dir |-> d, due |-> due, limit |-> limit, began |-> now,
                  ended |-> now', refused |-> refused]
      /\ IF refused THEN now' = now ELSE Takes(IF limit = 0 THEN 0 ELSE limit - now)
  BY <1>1 DEF CallOnDeadline, Left
<1>4. now' \in now..MaxTime
  BY <1>2, <1>3, PassesType DEF Takes
<1>5. op \in {d, "handshake"} => limit = due
  BY <1>1 DEF OnItsDeadline, Own
<1>6. ASSUME ~refused, limit # 0
      PROVE  now < limit /\ (now' <= limit \/ limit - now < 2)
  <2>1. now < limit /\ limit - now \in Nat
    BY ONLY <1>1, <1>2, <1>6
  <2>2. PICK left \in Nat : left = limit - now
    BY <2>1
  <2>3. Passes(Milliseconds(left))
    BY <1>3, <1>6, <2>2 DEF Takes
  <2>4. Milliseconds(left) # 0 => now' - now <= 2 * Milliseconds(left)
    BY <2>3 DEF Passes
  <2>5. now' <= limit \/ limit - now < 2
    BY <1>2, <1>4, <2>1, <2>2, <2>4, TakesWhatIsLeft
  <2> QED
    BY <2>1, <2>5
<1>7. Keeps(op, d, due, limit, now, now', refused)
  BY <1>1, <1>2, <1>5, <1>6 DEF Keeps
<1>8. OperationsKeepTheirTime'
  BY <1>3, <1>7, Zenon DEF OperationsKeepTheirTime, Keeps
<1> QED
  BY <1>2, <1>3, <1>4, <1>8

-----------------------------------------------------------------------------
\* Types.  The clock never goes back, so a deadline is a natural number.
LEMMA DeadlinesType ==
  ASSUME TypeOK, NEW c \in Conns, NEW d \in Directions, NEW timeout \in Timeouts
  PROVE  /\ WithDeadline(c, d, timeout) \in [Conns -> [Directions -> Nat]]
         /\ (IF timeout = 0 THEN 0 ELSE now + timeout) \in Nat
         /\ WithDeadline(c, d, timeout)[c][d] = IF timeout = 0 THEN 0 ELSE now + timeout
<1>1. PICK due \in Nat : due = IF timeout > 0 THEN now + timeout ELSE 0
  BY ConnAssumption DEF TypeOK
<1>2. due = IF timeout = 0 THEN 0 ELSE now + timeout
  BY <1>1, ConnAssumption DEF TypeOK
<1>3. WithDeadline(c, d, timeout) = [deadline EXCEPT ![c][d] = due]
  BY <1>1 DEF WithDeadline
<1> QED
  BY <1>2, <1>3 DEF TypeOK

LEMMA NoCallType ==
  NoCall \in [op: Doings, dir: Directions, due: Nat, limit: Nat, began: 1..MaxTime,
              ended: 1..MaxTime, refused: BOOLEAN]
  BY ConnAssumption DEF NoCall, Doings, Directions

LEMMA TypeStep ==
  ASSUME TypeOK, OnTheirDeadlines, [Next]_vars
  PROVE  TypeOK'
<1> USE NoCallType DEF TypeOK
<1>1. ASSUME NEW c \in Conns, NEW k \in Kinds, NEW timeout \in Timeouts, Dial(c, k, timeout)
      PROVE  TypeOK'
  <2>1. now' \in now..MaxTime
    BY <1>1, PassesType DEF Dial, Takes
  <2>2. now' + timeout \in Nat /\ now' \in 1..MaxTime
    <3>1. now \in 1..MaxTime /\ timeout \in Nat /\ MaxTime \in Nat
      BY ConnAssumption
    <3> QED BY ONLY <2>1, <3>1, LaterTime
  <2>3. PICK h \in 1..MaxHandle :
          table' = [table EXCEPT ![h] = c] /\ handle' = [handle EXCEPT ![c] = h]
    BY <1>1 DEF Dial
  <2>4. deadline' \in [Conns -> [Directions -> Nat]]
    BY <1>1, <2>2 DEF Dial
  <2>5. doing' \in [Conns -> [op: Doings, due: Nat]]
    BY <1>1, <2>2 DEF Dial, Idle, Doings
  <2> QED BY <1>1, <2>2, <2>3, <2>4, <2>5 DEF Dial
<1>2. ASSUME NEW c \in Conns, NEW d \in Directions, Handshake(c, d)
      PROVE  TypeOK'
  BY <1>2, CallKeeps DEF Handshake, pluginVars, OnTheirDeadlines
<1>3. ASSUME NEW c \in Conns, FinishHandshake(c)
      PROVE  TypeOK'
  BY <1>3 DEF FinishHandshake, Idle, NoDeadlines, Doings
<1>4. ASSUME NEW c \in Conns, NEW d \in Directions, NEW timeout \in Timeouts,
             Begin(c, d, timeout)
      PROVE  TypeOK'
  <2>1. PICK due \in Nat : due = IF timeout = 0 THEN 0 ELSE now + timeout
    BY DeadlinesType
  <2>2. deadline' \in [Conns -> [Directions -> Nat]]
    BY <1>4, DeadlinesType DEF Begin
  <2>3. doing' = [doing EXCEPT ![c] = [op |-> d, due |-> due]]
    BY <1>4, <2>1 DEF Begin
  <2>4. doing' \in [Conns -> [op: Doings, due: Nat]]
    BY <2>3 DEF Doings
  <2>5. UNCHANGED <<handle, kind, table, stuck, now>> /\ call' = NoCall
    BY <1>4 DEF Begin
  <2> QED BY <2>2, <2>4, <2>5
<1>5. ASSUME NEW c \in Conns, NEW d \in Directions, Continue(c, d)
      PROVE  TypeOK'
  BY <1>5, CallKeeps DEF Continue, Idle, Doings, OnTheirDeadlines
<1>6. ASSUME NEW c \in Conns, End(c)
      PROVE  TypeOK'
  BY <1>6 DEF End, Idle, Doings
<1>7. ASSUME NEW c \in Conns, NEW timeout \in Timeouts, Use(c, timeout)
      PROVE  TypeOK'
  <2>1. now' \in now..MaxTime
    BY <1>7, PassesType DEF Use, Takes
  <2> QED BY <1>7, <2>1, ConnAssumption DEF Use, pluginVars
<1>8. ASSUME NEW c \in Conns, NEW done \in BOOLEAN, Close(c, done)
      PROVE  TypeOK'
  <2>1. /\ handle' = [handle EXCEPT ![c] = 0] /\ kind' = [kind EXCEPT ![c] = "tcp"]
        /\ deadline' = [deadline EXCEPT ![c] = NoDeadlines]
        /\ doing' = [doing EXCEPT ![c] = Idle] /\ UNCHANGED now /\ call' = NoCall
    BY <1>8 DEF Close, Closed
  <2>2. handle[c] \in 1..MaxHandle
    BY <1>8, ConnAssumption DEF Close
  <2>3. /\ table' \in [1..MaxHandle -> Conns \cup {Free}]
        /\ stuck' \subseteq 1..MaxHandle
    BY <1>8, <2>2 DEF Close
  <2>4. deadline' \in [Conns -> [Directions -> Nat]]
    BY <2>1 DEF NoDeadlines
  <2>5. handle' \in [Conns -> 0..MaxHandle] /\ kind' \in [Conns -> Kinds]
    BY <2>1, ConnAssumption DEF Kinds
  <2>6. doing' \in [Conns -> [op: Doings, due: Nat]]
    BY <2>1 DEF Idle, Doings
  <2>7. now' \in 1..MaxTime /\ call' = NoCall
    BY <2>1
  <2> QED BY ONLY <2>3, <2>4, <2>5, <2>6, <2>7, NoCallType DEF TypeOK
<1>9. ASSUME NEW h \in stuck, Collect(h)
      PROVE  TypeOK'
  BY <1>9 DEF Collect, pluginVars
<1>10. CASE UNCHANGED vars
  BY <1>10 DEF vars, pluginVars
<1> QED
  BY ONLY <1>1, <1>2, <1>3, <1>4, <1>5, <1>6, <1>7, <1>8, <1>9, <1>10, [Next]_vars DEF Next

-----------------------------------------------------------------------------
\* Handles.  What an action does to the handles, the table and the refused closes.
HandlesStep ==
  \/ \E c \in Conns, h \in 1..MaxHandle :
       /\ handle[c] = 0 /\ table[h] = Free
       /\ table' = [table EXCEPT ![h] = c] /\ handle' = [handle EXCEPT ![c] = h]
       /\ stuck' = stuck
  \/ \E c \in Conns :
       /\ handle[c] # 0
       /\ handle' = [handle EXCEPT ![c] = 0]
       /\ \/ table' = [table EXCEPT ![handle[c]] = Free] /\ stuck' = stuck
          \/ stuck' = stuck \cup {handle[c]} /\ table' = table
  \/ \E h \in stuck :
       /\ table' = [table EXCEPT ![h] = Free] /\ stuck' = stuck \ {h}
       /\ handle' = handle
  \/ handle' = handle /\ table' = table /\ stuck' = stuck

LEMMA NextIsHandlesStep == [Next]_vars => HandlesStep
<1> SUFFICES ASSUME [Next]_vars PROVE HandlesStep
  OBVIOUS
<1>1. ASSUME NEW c \in Conns, NEW k \in Kinds, NEW timeout \in Timeouts, Dial(c, k, timeout)
      PROVE  HandlesStep
  BY <1>1 DEF Dial, HandlesStep
<1>2. ASSUME NEW c \in Conns, NEW done \in BOOLEAN, Close(c, done)
      PROVE  HandlesStep
  BY <1>2 DEF Close, Closed, HandlesStep
<1>3. ASSUME NEW h \in stuck, Collect(h)
      PROVE  HandlesStep
  BY <1>3 DEF Collect, pluginVars, HandlesStep
<1>4. ASSUME NEW c \in Conns, NEW d \in Directions,
             \/ Handshake(c, d) \/ FinishHandshake(c) \/ Continue(c, d) \/ End(c)
             \/ \E timeout \in Timeouts : Begin(c, d, timeout) \/ Use(c, timeout)
      PROVE  HandlesStep
  BY <1>4
     DEF Handshake, FinishHandshake, Continue, End, Begin, Use, pluginVars, HandlesStep
<1>5. CASE UNCHANGED vars
  BY <1>5 DEF vars, pluginVars, HandlesStep
<1>6. "read" \in Directions
  BY DEF Directions
<1> QED
  BY ONLY <1>1, <1>2, <1>3, <1>4, <1>5, <1>6, [Next]_vars DEF Next

LEMMA HandlesKept ==
  ASSUME TypeOK, StuckIsOpen, HandlesMatchConnections, HandlesStep
  PROVE  StuckIsOpen' /\ HandlesMatchConnections'
<1>1. /\ handle \in [Conns -> 0..MaxHandle] /\ table \in [1..MaxHandle -> Conns \cup {Free}]
      /\ stuck \subseteq 1..MaxHandle /\ MaxHandle \in Nat /\ Free \notin Conns
  BY ConnAssumption DEF TypeOK
<1> USE <1>1 DEF StuckIsOpen, HandlesMatchConnections
<1>2. ASSUME NEW c \in Conns, NEW h \in 1..MaxHandle,
             handle[c] = 0, table[h] = Free, table' = [table EXCEPT ![h] = c],
             handle' = [handle EXCEPT ![c] = h], stuck' = stuck
      PROVE  StuckIsOpen' /\ HandlesMatchConnections'
  <2>1. h \notin stuck /\ h # 0
    BY <1>2
  <2>2. \A b \in Conns : b # c => handle[b] # h
    BY <1>2
  <2> QED BY <1>2, <2>1, <2>2
<1>3. ASSUME NEW c \in Conns, handle[c] # 0, handle' = [handle EXCEPT ![c] = 0],
             \/ table' = [table EXCEPT ![handle[c]] = Free] /\ stuck' = stuck
             \/ stuck' = stuck \cup {handle[c]} /\ table' = table
      PROVE  StuckIsOpen' /\ HandlesMatchConnections'
  <2>1. /\ handle[c] \in 1..MaxHandle /\ table[handle[c]] = c /\ handle[c] \notin stuck
        /\ \A b \in Conns : b # c => handle[b] # handle[c]
    BY <1>3
  <2>2. CASE table' = [table EXCEPT ![handle[c]] = Free] /\ stuck' = stuck
    BY <1>3, <2>1, <2>2
  <2>3. CASE stuck' = stuck \cup {handle[c]} /\ table' = table
    BY <1>3, <2>1, <2>3
  <2> QED BY <1>3, <2>2, <2>3
<1>4. ASSUME NEW h \in stuck, table' = [table EXCEPT ![h] = Free],
             stuck' = stuck \ {h}, handle' = handle
      PROVE  StuckIsOpen' /\ HandlesMatchConnections'
  <2>1. \A b \in Conns : handle[b] # 0 => handle[b] # h
    BY <1>4
  <2> QED BY <1>4, <2>1
<1>5. CASE handle' = handle /\ table' = table /\ stuck' = stuck
  BY <1>5
<1> QED BY <1>2, <1>3, <1>4, <1>5 DEF HandlesStep

-----------------------------------------------------------------------------
\* Deadlines.  What an action does to the wrappers and to the last host call.
DeadlinesStep ==
  \/ \E c \in Conns : \E act, ends :
       /\ doing' = [doing EXCEPT ![c] = act] /\ deadline' = [deadline EXCEPT ![c] = ends]
       /\ \A d \in Own(act.op) : ends[d] = act.due
       /\ call' = NoCall \/ \E d \in Directions : CallOnDeadline(c, d)
  \/ /\ UNCHANGED <<doing, deadline>>
     /\ call' \in {call, NoCall} \/ \E c \in Conns, d \in Directions : CallOnDeadline(c, d)

\* A wrapper that does nothing is on no deadline of its own.
LEMMA IdleOwnsNothing == Own(Idle.op) = {}
  BY DEF Own, Idle, Directions

LEMMA NextIsDeadlinesStep ==
  ASSUME TypeOK, [Next]_vars
  PROVE  DeadlinesStep
<1>a. /\ doing \in [Conns -> [op: Doings, due: Nat]]
      /\ deadline \in [Conns -> [Directions -> Nat]]
  BY DEF TypeOK
<1>b. ASSUME NEW c \in Conns, NEW ends, doing' = [doing EXCEPT ![c] = Idle],
             deadline' = [deadline EXCEPT ![c] = ends],
             call' = NoCall \/ \E d \in Directions : CallOnDeadline(c, d)
      PROVE  DeadlinesStep
  BY <1>b, IdleOwnsNothing DEF DeadlinesStep
<1>1. ASSUME NEW c \in Conns, NEW k \in Kinds, NEW timeout \in Timeouts, Dial(c, k, timeout)
      PROVE  DeadlinesStep
  <2>1. CASE k = "rtsps"
    <3>1. PICK due : due = now' + timeout
      OBVIOUS
    <3>2. PICK act, ends : /\ act = [op |-> "handshake", due |-> due]
                           /\ ends = [d \in Directions |-> due]
      OBVIOUS
    <3>3. /\ doing' = [doing EXCEPT ![c] = act] /\ deadline' = [deadline EXCEPT ![c] = ends]
          /\ call' = NoCall
      BY <1>1, <2>1, <3>1, <3>2 DEF Dial
    <3>4. \A d \in Own(act.op) : ends[d] = act.due
      BY <3>2 DEF Own
    <3> QED
      BY <3>3, <3>4 DEF DeadlinesStep
  <2>2. CASE k # "rtsps"
    BY <1>1, <1>b, <2>2 DEF Dial
  <2> QED
    BY <2>1, <2>2
<1>2. ASSUME NEW c \in Conns, NEW d \in Directions, Handshake(c, d)
      PROVE  DeadlinesStep
  BY <1>2 DEF Handshake, pluginVars, DeadlinesStep
<1>3. ASSUME NEW c \in Conns, FinishHandshake(c)
      PROVE  DeadlinesStep
  BY <1>3, <1>b DEF FinishHandshake
<1>4. ASSUME NEW c \in Conns, NEW d \in Directions, NEW timeout \in Timeouts,
             Begin(c, d, timeout)
      PROVE  DeadlinesStep
  <2>1. PICK due \in Nat : due = IF timeout = 0 THEN 0 ELSE now + timeout
    BY DeadlinesType
  <2>2. PICK act, ends : /\ act = [op |-> d, due |-> due]
                         /\ ends = [deadline[c] EXCEPT ![d] = due]
    OBVIOUS
  <2>3. doing' = [doing EXCEPT ![c] = act] /\ call' = NoCall
    BY <1>4, <2>1, <2>2 DEF Begin
  <2>4. due = IF timeout > 0 THEN now + timeout ELSE 0
    BY <2>1, ConnAssumption DEF TypeOK
  <2>5. deadline' = [deadline EXCEPT ![c] = ends]
    BY <1>4, <1>a, <2>2, <2>4 DEF Begin, WithDeadline
  <2>6. \A e \in Own(act.op) : ends[e] = act.due
    BY <1>a, <2>2 DEF Own, Directions
  <2> QED
    BY <2>3, <2>5, <2>6 DEF DeadlinesStep
<1>5. ASSUME NEW c \in Conns, NEW d \in Directions, Continue(c, d)
      PROVE  DeadlinesStep
  <2>1. CASE kind[c] = "rtsp"
    <3>1. doing' = [doing EXCEPT ![c] = Idle] /\ deadline' = [deadline EXCEPT ![c] = @]
      BY <1>5, <1>a, <2>1 DEF Continue
    <3> QED
      BY <1>5, <1>b, <3>1 DEF Continue
  <2>2. CASE kind[c] # "rtsp"
    <3>1. UNCHANGED <<doing, deadline>>
      BY <1>5, <1>a, <2>2 DEF Continue
    <3> QED
      BY <1>5, <3>1 DEF Continue, DeadlinesStep
  <2> QED
    BY <2>1, <2>2
<1>6. ASSUME NEW c \in Conns, End(c)
      PROVE  DeadlinesStep
  <2>1. /\ doing' = [doing EXCEPT ![c] = Idle] /\ deadline' = [deadline EXCEPT ![c] = @]
        /\ call' = NoCall
    BY <1>6, <1>a DEF End
  <2> QED
    BY <1>b, <2>1
<1>7. ASSUME NEW c \in Conns, NEW timeout \in Timeouts, Use(c, timeout)
      PROVE  DeadlinesStep
  BY <1>7 DEF Use, pluginVars, DeadlinesStep
<1>8. ASSUME NEW c \in Conns, NEW done \in BOOLEAN, Close(c, done)
      PROVE  DeadlinesStep
  BY <1>8, <1>b DEF Close
<1>9. ASSUME NEW h \in stuck, Collect(h)
      PROVE  DeadlinesStep
  BY <1>9 DEF Collect, pluginVars, DeadlinesStep
<1>10. CASE UNCHANGED vars
  BY <1>10 DEF vars, pluginVars, DeadlinesStep
<1> QED
  BY ONLY <1>1, <1>2, <1>3, <1>4, <1>5, <1>6, <1>7, <1>8, <1>9, <1>10, [Next]_vars DEF Next

LEMMA DeadlinesAreKept ==
  ASSUME TypeOK, OnTheirDeadlines, OperationsKeepTheirTime, DeadlinesStep
  PROVE  OnTheirDeadlines' /\ OperationsKeepTheirTime'
<1>1. OperationsKeepTheirTime'
  <2>1. CASE call' = NoCall
    BY <2>1 DEF OperationsKeepTheirTime, NoCall
  <2>2. CASE UNCHANGED call
    BY <2>2 DEF OperationsKeepTheirTime
  <2>3. ASSUME NEW c \in Conns, NEW d \in Directions, CallOnDeadline(c, d)
        PROVE  OperationsKeepTheirTime'
    BY <2>3, CallKeeps DEF OnTheirDeadlines
  <2> QED
    BY <2>1, <2>2, <2>3 DEF DeadlinesStep
<1>2. ASSUME NEW c \in Conns, NEW act, NEW ends,
             doing' = [doing EXCEPT ![c] = act], deadline' = [deadline EXCEPT ![c] = ends],
             \A d \in Own(act.op) : ends[d] = act.due
      PROVE  OnTheirDeadlines'
  <2>1. doing'[c] = act /\ deadline'[c] = ends
    BY <1>2 DEF TypeOK
  <2>2. \A b \in Conns \ {c} : doing'[b] = doing[b] /\ deadline'[b] = deadline[b]
    BY <1>2 DEF TypeOK
  <2>3. OnItsDeadline(c)'
    BY <1>2, <2>1 DEF OnItsDeadline
  <2>4. ASSUME NEW b \in Conns \ {c} PROVE OnItsDeadline(b)'
    BY <2>2, <2>4 DEF OnTheirDeadlines, OnItsDeadline
  <2> QED
    BY <2>3, <2>4 DEF OnTheirDeadlines
<1>3. ASSUME UNCHANGED <<doing, deadline>> PROVE OnTheirDeadlines'
  BY <1>3 DEF OnTheirDeadlines, OnItsDeadline
<1> QED
  BY <1>1, <1>2, <1>3 DEF DeadlinesStep

-----------------------------------------------------------------------------
LEMMA NextInvariant == IInv /\ [Next]_vars => IInv'
  BY TypeStep, NextIsHandlesStep, HandlesKept, NextIsDeadlinesStep, DeadlinesAreKept DEF IInv

LEMMA Invariance == Spec => []IInv
  BY InitInvariant, NextInvariant, PTL DEF Spec

\* The types of the variables: whatever the host grants, refuses or takes, no deadline is
\* before the clock began and no handle is outside those the host gives out.
THEOREM TypeCorrect == Spec => []TypeOK
<1>1. IInv => TypeOK
  BY DEF IInv
<1> QED BY Invariance, <1>1, PTL

\* A wrapper that has a handle has the host's connection under it, and the host keeps open
\* no connection that no wrapper can close but for those whose close it refused
\* (sdk/tcp.go:102-111, sdk/websocket.go:188-197, sdk/camera_media.go:127-137).
THEOREM HandlesReachTheirConnections == Spec => []HandlesMatchConnections
<1>1. IInv => HandlesMatchConnections
  BY DEF IInv
<1> QED BY Invariance, <1>1, PTL

\* However many host calls a read, a write or a handshake takes, those of its own direction
\* run on the deadline it was given and on no other, none is refused but for that deadline,
\* and each has ended by it unless it was made with less than a millisecond of it left,
\* which the host is told as no timeout (sdk/tcp.go:165-176, sdk/rtsp.go:565-583).
THEOREM TimeIsKept == Spec => []OperationsKeepTheirTime
<1>1. IInv => OperationsKeepTheirTime
  BY DEF IInv
<1> QED BY Invariance, <1>1, PTL
=============================================================================
