---------------------------- MODULE HostConnections ----------------------------
(***************************************************************************)
(* The connections a plugin opens through its host: TCPConn, WebSocketConn *)
(* and CameraMediaStream (sdk/tcp.go, sdk/websocket.go,                    *)
(* sdk/camera_media.go) wrap a handle of the host, which gives a handle    *)
(* out again when it was closed.  DialRTSPTransport (sdk/rtsp.go) puts     *)
(* TLS and deadlines on top: one read or write of the transport is any     *)
(* number of host calls, each with what is left of the deadline in whole   *)
(* milliseconds, where 0 is no timeout.  The clock counts halves of a      *)
(* millisecond, and stands still between a host call and what comes before *)
(* it.                                                                     *)
(***************************************************************************)
EXTENDS Integers

CONSTANTS
  Conns,       \* bound: the wrappers alive at a time
  MaxHandle,   \* bound: the handles the host gives out
  Timeouts,    \* bound: the timeouts a plugin asks for, in clock units
  MaxTime      \* bound: the clock

Directions == {"read", "write"}
Doings == {"idle", "handshake"} \cup Directions
Kinds == {"tcp", "websocket", "camera", "rtsp", "rtsps"}
Free == "free"

ASSUME ConnAssumption ==
  /\ MaxHandle \in Nat \ {0} /\ MaxTime \in Nat \ {0}
  /\ Timeouts \subseteq Nat
  /\ Free \notin Conns

VARIABLES
  handle,     \* the handle of each wrapper, 0 when it has none
  kind,       \* what it wraps
  deadline,   \* hostNetConn.readDeadline and writeDeadline, 0 when zero
  doing,      \* what the plugin is in the middle of with it, and (a history) when
              \* that was to have ended, 0 being whenever it does
  table,      \* the host's open connections: the wrapper each was opened for
  stuck,      \* handles whose close the host refused
  now,        \* the clock
  call        \* history: the host call of a transport that was just made, if one was

pluginVars == <<handle, kind, deadline, doing>>
vars == <<pluginVars, table, stuck, now, call>>

NoDeadlines == [d \in Directions |-> 0]
Idle == [op |-> "idle", due |-> 0]
NoCall == [op |-> "idle", dir |-> "read", due |-> 0, limit |-> 0, began |-> 1, ended |-> 1,
           refused |-> FALSE]

Init ==
  /\ handle = [c \in Conns |-> 0] /\ kind = [c \in Conns |-> "tcp"]
  /\ deadline = [c \in Conns |-> NoDeadlines] /\ doing = [c \in Conns |-> Idle]
  /\ table = [h \in 1..MaxHandle |-> Free] /\ stuck = {}
  /\ now = 1 /\ call = NoCall

-----------------------------------------------------------------------------
\* Duration.Milliseconds rounds down.
Milliseconds(t) == t \div 2

\* The time a host call takes, asked to wait for so many milliseconds, 0 being without end.
Passes(wait) ==
  now' \in {t \in now..MaxTime : wait # 0 => t - now <= 2 * wait}

\* A host call with a timeout.
Takes(timeout) == Passes(Milliseconds(timeout))

\* A dial that the host does not refuse opens a connection under a free handle, never
\* under 0.  An RTSPS transport has a handshake before it, on a deadline that is past at
\* once without a timeout.
Dial(c, k, timeout) ==
  /\ handle[c] = 0 /\ doing[c] = Idle
  /\ Takes(timeout)
  /\ \E h \in 1..MaxHandle :
       /\ table[h] = Free
       /\ table' = [table EXCEPT ![h] = c]
       /\ handle' = [handle EXCEPT ![c] = h]
  /\ kind' = [kind EXCEPT ![c] = k]
  /\ deadline' = [deadline EXCEPT ![c] =
                    [d \in Directions |-> IF k = "rtsps" THEN now' + timeout ELSE 0]]
  /\ doing' = [doing EXCEPT ![c] =
                 IF k = "rtsps" THEN [op |-> "handshake", due |-> now' + timeout] ELSE Idle]
  /\ call' = NoCall /\ UNCHANGED stuck

\* Mutant of Left: what is left is the whole deadline.
LeftAll(c, d) == deadline[c][d]

\* timeoutUntil of a deadline that is not past.
Left(c, d) == IF deadline[c][d] = 0 THEN 0 ELSE deadline[c][d] - now

\* A host call under hostNetConn: none once the deadline is past, and otherwise one that
\* waits for the milliseconds left of it, without end when there is no deadline.
CallOnDeadline(c, d) ==
  LET past == deadline[c][d] # 0 /\ deadline[c][d] <= now IN
  /\ IF past THEN UNCHANGED now ELSE Takes(Left(c, d))
  /\ call' = [op |-> doing[c].op, dir |-> d, due |-> doing[c].due, limit |-> deadline[c][d],
              began |-> now, ended |-> now', refused |-> past]

\* One host call of the TLS handshake.
Handshake(c, d) ==
  /\ doing[c].op = "handshake"
  /\ CallOnDeadline(c, d)
  /\ UNCHANGED <<pluginVars, table, stuck>>

\* It succeeds, and its deadline is cleared.
FinishHandshake(c) ==
  /\ doing[c].op = "handshake"
  /\ doing' = [doing EXCEPT ![c] = Idle]
  /\ deadline' = [deadline EXCEPT ![c] = NoDeadlines]
  /\ call' = NoCall /\ UNCHANGED <<handle, kind, table, stuck, now>>

\* Mutant of WithDeadline: without a timeout the deadline of an earlier call stays.
WithDeadlineKept(c, d, timeout) ==
  IF timeout > 0 THEN [deadline EXCEPT ![c][d] = now + timeout] ELSE deadline

\* SetReadDeadline and SetWriteDeadline: time.Now().Add(timeout), or the zero time.
WithDeadline(c, d, timeout) ==
  [deadline EXCEPT ![c][d] = IF timeout > 0 THEN now + timeout ELSE 0]

\* netRTSPConn.Read and Write, on a deadline of their own.
Begin(c, d, timeout) ==
  /\ kind[c] \in {"rtsp", "rtsps"} /\ handle[c] # 0 /\ doing[c] = Idle
  /\ deadline' = WithDeadline(c, d, timeout)
  /\ doing' = [doing EXCEPT ![c] =
                 [op |-> d, due |-> IF timeout = 0 THEN 0 ELSE now + timeout]]
  /\ call' = NoCall /\ UNCHANGED <<handle, kind, table, stuck, now>>

\* The host calls of it: one without TLS, and any number of reads and writes with it,
\* each on the deadline of its direction.
Continue(c, d) ==
  /\ doing[c].op \in Directions
  /\ d = doing[c].op \/ kind[c] = "rtsps"
  /\ CallOnDeadline(c, d)
  /\ doing' = [doing EXCEPT ![c] = IF kind[c] = "rtsp" THEN Idle ELSE @]
  /\ UNCHANGED <<handle, kind, deadline, table, stuck>>

End(c) ==
  /\ doing[c].op \in Directions
  /\ doing' = [doing EXCEPT ![c] = Idle]
  /\ call' = NoCall /\ UNCHANGED <<handle, kind, deadline, table, stuck, now>>

\* TCPConn.Read and Write, WebSocketConn.Send and Recv, CameraMediaStream.Write and
\* Heartbeat: one host call, with the timeout the plugin gave.
Use(c, timeout) ==
  /\ kind[c] \in {"tcp", "websocket", "camera"} /\ handle[c] # 0
  /\ Takes(timeout)
  /\ call' = NoCall /\ UNCHANGED <<pluginVars, table, stuck>>

\* Mutant of Closed: a close the host refused leaves the wrapper its handle.
ClosedWhenDone(c, done) == IF done THEN 0 ELSE handle[c]

\* Close forgets the handle whatever the host says.
Closed(c, done) == 0

\* Close, and the end of a handshake that failed: the wrapper is of no use after it, and
\* the next dial makes another one.
Close(c, done) ==
  /\ handle[c] # 0 /\ doing[c].op \in {"idle", "handshake"}
  /\ handle' = [handle EXCEPT ![c] = Closed(c, done)]
  /\ doing' = [doing EXCEPT ![c] = Idle]
  /\ deadline' = [deadline EXCEPT ![c] = NoDeadlines]
  /\ kind' = [kind EXCEPT ![c] = "tcp"]
  /\ IF done THEN table' = [table EXCEPT ![handle[c]] = Free] /\ UNCHANGED stuck
             ELSE stuck' = stuck \cup {handle[c]} /\ UNCHANGED table
  /\ call' = NoCall /\ UNCHANGED now

\* The host lets go of a connection whose close it refused.
Collect(h) ==
  /\ h \in stuck
  /\ table' = [table EXCEPT ![h] = Free] /\ stuck' = stuck \ {h}
  /\ call' = NoCall /\ UNCHANGED <<pluginVars, now>>

Next ==
  \/ \E c \in Conns, k \in Kinds, timeout \in Timeouts : Dial(c, k, timeout)
  \/ \E c \in Conns, d \in Directions : Handshake(c, d)
  \/ \E c \in Conns : FinishHandshake(c)
  \/ \E c \in Conns, d \in Directions, timeout \in Timeouts : Begin(c, d, timeout)
  \/ \E c \in Conns, d \in Directions : Continue(c, d)
  \/ \E c \in Conns : End(c)
  \/ \E c \in Conns, timeout \in Timeouts : Use(c, timeout)
  \/ \E c \in Conns, done \in BOOLEAN : Close(c, done)
  \/ \E h \in stuck : Collect(h)

Spec == Init /\ [][Next]_vars

-----------------------------------------------------------------------------
\* The types of the variables (sdk/tcp.go:14-16, 113-117, sdk/websocket.go:22-24,
\* sdk/camera_media.go:36-38).
TypeOK ==
  /\ handle \in [Conns -> 0..MaxHandle] /\ kind \in [Conns -> Kinds]
  /\ deadline \in [Conns -> [Directions -> Nat]]
  /\ doing \in [Conns -> [op: Doings, due: Nat]]
  /\ table \in [1..MaxHandle -> Conns \cup {Free}] /\ stuck \subseteq 1..MaxHandle
  /\ now \in 1..MaxTime
  /\ call \in [op: Doings, dir: Directions, due: Nat, limit: Nat, began: 1..MaxTime,
               ended: 1..MaxTime, refused: BOOLEAN]

\* A wrapper that has a handle has the host's connection under it, so that no call of its
\* reaches a connection the handle was given out for again; and the host keeps open no
\* connection that no wrapper can close, but for those whose close it refused
\* (sdk/tcp.go:102-111, sdk/websocket.go:188-197, sdk/camera_media.go:127-137,
\* sdk/rtsp.go:124-127).
HandlesMatchConnections ==
  /\ \A c \in Conns : handle[c] # 0 => table[handle[c]] = c /\ handle[c] \notin stuck
  /\ \A h \in 1..MaxHandle : table[h] # Free => handle[table[h]] = h \/ h \in stuck

\* However many host calls a read, a write or a handshake takes, those of its own direction
\* run on the deadline the plugin gave it and on no other: an earlier operation's is not
\* left behind where it gave none, and no call is refused but for its own.  Each is made
\* before that deadline, and has ended by it unless less than a millisecond of it was left
\* (sdk/tcp.go:165-176, sdk/rtsp.go:565-583).
OperationsKeepTheirTime ==
  call.op \in {call.dir, "handshake"} =>
    /\ call.limit = call.due
    /\ call.refused => call.due # 0 /\ call.due <= call.began
    /\ ~call.refused /\ call.due # 0 =>
         call.began < call.due /\ (call.ended <= call.due \/ call.due - call.began < 2)
=============================================================================
