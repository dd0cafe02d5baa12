------------------------------ MODULE RtspClient ------------------------------
(***************************************************************************)
(* RTSPClient.DoRequest and Teardown of sdk/rtsp.go over an ordered byte   *)
(* stream, with a server that challenges with Digest and keeps sessions.   *)
(* DoRequest writes a request, takes one Read of the connection for its    *)
(* response, and writes the request again, once, when that was a 401.  It  *)
(* never compares the CSeq of a response with that of its request, and a   *)
(* read may time out, or return less or more than one response, or RTP     *)
(* frames that a server interleaves with them while a session plays.       *)
(***************************************************************************)
EXTENDS Integers, Sequences

CONSTANTS
  HasCredentials,  \* is a username configured?
  MaxCalls,        \* bound: calls of DoRequest
  MaxNonces,       \* bound: the server lets a nonce expire only below it
  MaxSessions,     \* bound: sessions the server opens
  MaxFrames        \* bound: RTP frames on the stream at once

ASSUME ClientAssumption ==
  /\ HasCredentials \in BOOLEAN
  /\ {MaxCalls, MaxNonces, MaxSessions, MaxFrames} \subseteq Nat

Methods == {"DESCRIBE", "SETUP", "PLAY", "TEARDOWN"}
Statuses == {200, 401, 404}  \* 404 stands for every other error

\* No Digest challenge was parsed yet: RTSPAuthState is nil or basic.
NoAuth == [nonce |-> 0, nc |-> 0]

Request == [cseq: Nat \ {0}, method: Methods, session: Nat, nonce: Nat, nc: Nat]

\* A response is its first line, its other headers with the blank line, and then as
\* many pieces of body as its Content-Length says.  It knows whose it is, which nonce
\* it challenges with and which session it names, 0 for none.  An RTP frame is no response.
Piece == [of: Nat, part: {"start", "end", "body", "frame"}, status: Statuses \cup {0},
          challenge: Nat, session: Nat, length: 0..2]

Frame == [of |-> 0, part |-> "frame", status |-> 0, challenge |-> 0, session |-> 0, length |-> 0]

VARIABLES
  seq,       \* RTSPClient.Seq
  auth,      \* RTSPClient.Auth
  session,   \* RTSPClient.Session, 0 for none
  phase,     \* DoRequest: idle, or reading the first or the second response
  method,    \* the request of the call in progress
  wire,      \* requests written and not yet taken by the server
  stream,    \* pieces the server sent and the client has not read
  nonce,     \* the server's nonce, 0 before the first
  counted,   \* the highest nonce count the server has seen with it
  opened,    \* how many sessions the server has opened
  live,      \* the sessions it has not closed
  playing,   \* those whose frames it sends
  received,  \* history: requests the server took
  returned,  \* history: what each call returned
  inStep     \* history: every write succeeded, every read took exactly one response

clientVars == <<seq, auth, session, phase, method>>
connVars == <<wire, stream>>
nonceVars == <<nonce, counted>>
sessionVars == <<opened, live, playing>>
serverVars == <<nonceVars, sessionVars, received>>
vars == <<clientVars, connVars, serverVars, returned, inStep>>

Init ==
  /\ seq = 1 /\ auth = NoAuth /\ session = 0 /\ phase = "idle" /\ method = "DESCRIBE"
  /\ wire = << >> /\ stream = << >>
  /\ nonce = 0 /\ counted = 0 /\ received = << >>
  /\ opened = 0 /\ live = {} /\ playing = {}
  /\ returned = << >> /\ inStep = TRUE

-----------------------------------------------------------------------------
\* Mutant of Counted: the nonce count is not advanced.
CountedNot(a) == a

\* Mutant of Counted: the nonce count is moved the wrong way.
CountedBack(a) == [a EXCEPT !.nc = @ - 1]

\* BuildRTSPAuthorization advances the nonce count of a Digest challenge.
Counted(a) == IF HasCredentials /\ a.nonce # 0 THEN [a EXCEPT !.nc = @ + 1] ELSE a

\* Mutant of SessionHeader: only PLAY and TEARDOWN name the session.
SessionHeaderLate(m) == IF m \in {"PLAY", "TEARDOWN"} THEN session ELSE 0

\* Every request names the session as soon as there is one.
SessionHeader(m) == session

Built(s, m, a) ==
  [cseq |-> s, method |-> m, session |-> SessionHeader(m),
   nonce |-> IF HasCredentials THEN a.nonce ELSE 0,
   nc |-> IF HasCredentials THEN Counted(a).nc ELSE 0]

\* Mutant of NextSeq: a request is sent under the number of the one before.
NextSeqKept(s) == IF s = 2 THEN s ELSE s + 1

NextSeq(s) == s + 1

\* What a call returned: the number of its last request, whose response it parsed, its
\* status, Content-Length and body, and whether the connection was in step until then.
\* From 400 on the status is all that the error it returns carries.
Return(want, first, body, still) ==
  LET refused == first.status >= 400 IN
  returned' = Append(returned,
                [want |-> want, of |-> first.of, method |-> method', status |-> first.status,
                 inStep |-> still,
                 length |-> IF refused THEN 0 ELSE first.length,
                 body |-> IF refused THEN << >> ELSE body])

Fail(want) == Return(want, Frame, << >>, FALSE)

\* Write a request and go on to its response; or fail, whether or not it went out.
Transmit(m, a, then) ==
  /\ seq' = NextSeq(seq)
  /\ auth' = Counted(a)
  /\ \/ /\ wire' = Append(wire, Built(seq, m, a))
        /\ phase' = then
        /\ UNCHANGED returned
     \/ /\ wire' \in {wire, Append(wire, Built(seq, m, a))}
        /\ phase' = "idle"
        /\ Fail(seq)

Send(m) ==
  /\ phase = "idle"
  /\ Len(returned) < MaxCalls
  /\ method' = m
  /\ Transmit(m, auth, "first")
  /\ inStep' = (inStep /\ phase' # "idle")
  /\ UNCHANGED <<session, stream, serverVars>>

\* Without a session Teardown sends nothing and returns nil.
Teardown == session # 0 /\ Send("TEARDOWN")

\* Does ParseRTSPResponse accept this?  Then what follows the headers is the body,
\* cut to the Content-Length if there is one.
Parses(chunk) == Len(chunk) >= 2 /\ chunk[1].part = "start"

\* Mutant of Body: one piece less than the Content-Length is kept.
BodyCut(chunk) ==
  SubSeq(chunk, 3, IF 1 + chunk[1].length < Len(chunk) THEN 1 + chunk[1].length ELSE Len(chunk))

Body(chunk) ==
  LET length == chunk[1].length IN
  SubSeq(chunk, 3, IF length > 0 /\ 2 + length < Len(chunk) THEN 2 + length ELSE Len(chunk))

\* Is this one response, whole?
IsResponse(chunk) == Parses(chunk) /\ Len(chunk) = 2 + chunk[1].length

\* The plugin keeps the session that the response to its SETUP names.
Kept(first) ==
  IF method = "SETUP" /\ first.status = 200 THEN first.session ELSE session

Retries(status) == phase = "first" /\ status = 401 /\ HasCredentials

\* Mutant of Challenged: the nonce of the first challenge is kept.
ChallengedOnce(n) == [nonce |-> IF auth.nonce = 0 THEN n ELSE auth.nonce, nc |-> 0]

\* ParseRTSPAuthenticateHeader: a new challenge starts its count again.
Challenged(n) == [nonce |-> n, nc |-> 0]

\* One Read of what has arrived, parsed as the response; a 401 is retried at once.
Read ==
  /\ phase # "idle"
  /\ UNCHANGED method
  /\ \E n \in 1..Len(stream) :
       LET chunk == SubSeq(stream, 1, n) IN
       /\ stream' = SubSeq(stream, n + 1, Len(stream))
       /\ IF Parses(chunk) /\ Retries(chunk[1].status)
          THEN /\ Transmit(method, Challenged(chunk[1].challenge), "second")
               /\ inStep' = (inStep /\ IsResponse(chunk) /\ phase' # "idle")
               /\ UNCHANGED session
          ELSE /\ phase' = "idle"
               /\ inStep' = (inStep /\ IsResponse(chunk))
               /\ IF Parses(chunk)
                  THEN Return(seq - 1, chunk[1], Body(chunk), inStep') /\ session' = Kept(chunk[1])
                  ELSE Fail(seq - 1) /\ UNCHANGED session
               /\ UNCHANGED <<seq, auth, wire>>
  /\ UNCHANGED serverVars

\* The read times out, or the connection breaks; nothing of a late response is read.
ReadFails ==
  /\ phase # "idle"
  /\ phase' = "idle"
  /\ inStep' = FALSE
  /\ UNCHANGED method
  /\ Fail(seq - 1)
  /\ UNCHANGED <<seq, auth, session, connVars, serverVars>>

\* Between calls the plugin takes frames off the stream: ParseInterleavedFrame accepts
\* what starts with a whole one, and what else the Read returned is gone.
ReadFrame ==
  /\ phase = "idle"
  /\ session # 0
  /\ stream # << >>
  /\ \E n \in 1..Len(stream) :
       /\ stream' = SubSeq(stream, n + 1, Len(stream))
       /\ inStep' = (inStep /\ \A k \in 1..n : stream[k] = Frame)
  /\ UNCHANGED <<clientVars, wire, serverVars, returned>>

-----------------------------------------------------------------------------
Answer(r, status, challenge, id) ==
  LET length == IF status = 200 /\ r.method = "DESCRIBE" THEN 2 ELSE 0
      Part(p) == [of |-> r.cseq, part |-> p, status |-> status, challenge |-> challenge,
                  session |-> id, length |-> length]
  IN <<Part("start"), Part("end")>> \o [i \in 1..length |-> Part("body")]

\* Which session does a request that is carried out end up with?
Target(r) == IF r.method = "SETUP" /\ r.session = 0 THEN opened + 1 ELSE r.session

Carries(r) ==
  \/ r.method = "DESCRIBE"
  \/ r.method = "SETUP" /\ r.session = 0 /\ opened < MaxSessions
  \/ r.session \in live

CarryOut(r) ==
  LET id == Target(r) IN
  /\ stream' = stream \o Answer(r, 200, 0, id)
  /\ opened' = IF id > opened THEN id ELSE opened
  /\ live' = IF r.method = "SETUP" THEN live \cup {id}
             ELSE IF r.method = "TEARDOWN" THEN live \ {id} ELSE live
  /\ playing' = IF r.method = "PLAY" THEN playing \cup {id}
                ELSE IF r.method = "TEARDOWN" THEN playing \ {id} ELSE playing

Refuse(r) ==
  /\ stream' = stream \o Answer(r, 404, 0, 0)
  /\ UNCHANGED sessionVars

\* The server takes a request: it carries out or refuses one that carries its nonce with
\* a count it has not seen, and challenges any other with a nonce never used before.
Serve ==
  /\ wire # << >>
  /\ LET r == Head(wire) IN
       /\ received' = Append(received, r)
       /\ IF r.nonce = nonce /\ r.nonce # 0 /\ r.nc > counted
          THEN /\ Refuse(r) \/ (Carries(r) /\ CarryOut(r))
               /\ counted' = r.nc
               /\ UNCHANGED nonce
          ELSE /\ stream' = stream \o Answer(r, 401, nonce + 1, 0)
               /\ nonce' = nonce + 1
               /\ counted' = 0
               /\ UNCHANGED sessionVars
  /\ wire' = Tail(wire)
  /\ UNCHANGED <<clientVars, returned, inStep>>

\* While a session plays its frames go out on the same stream.
SendFrame ==
  /\ playing # {}
  /\ Len(SelectSeq(stream, LAMBDA p : p = Frame)) < MaxFrames
  /\ stream' = Append(stream, Frame)
  /\ UNCHANGED <<clientVars, wire, serverVars, returned, inStep>>

\* Between calls the server may let its nonce expire.
Expire ==
  /\ phase = "idle"
  /\ nonce < MaxNonces
  /\ nonce' = nonce + 1
  /\ counted' = 0
  /\ UNCHANGED <<clientVars, connVars, sessionVars, received, returned, inStep>>

Next ==
  \/ \E m \in Methods \ {"TEARDOWN"} : Send(m)
  \/ Teardown \/ Read \/ ReadFails \/ ReadFrame
  \/ Serve \/ SendFrame \/ Expire

Spec == Init /\ [][Next]_vars

-----------------------------------------------------------------------------
Returned == [want: Nat, of: Nat, method: Methods, status: Statuses \cup {0}, length: 0..2,
             body: Seq(Piece), inStep: BOOLEAN]

TypeOK ==
  /\ seq \in Nat \ {0}
  /\ auth \in [nonce: Nat, nc: Nat] /\ session \in 0..opened
  /\ phase \in {"idle", "first", "second"}
  /\ method \in Methods
  /\ wire \in Seq(Request)
  /\ stream \in Seq(Piece)
  /\ nonce \in Nat /\ counted \in Nat
  /\ opened \in 0..MaxSessions /\ live \subseteq 1..opened /\ playing \subseteq live
  /\ received \in Seq(Request)
  /\ returned \in Seq(Returned)
  /\ inStep \in BOOLEAN

\* However late responses are read, and whatever was lost, no call returns the response
\* of an earlier call again, or one older than a call before it returned, or one to a
\* request that was not yet sent.
ResponsesInOrder ==
  /\ \A i, j \in DOMAIN returned :
       i < j /\ returned[i].of # 0 /\ returned[j].of # 0 => returned[i].of < returned[j].of
  /\ \A i \in DOMAIN returned : returned[i].of <= returned[i].want

\* While no write failed, no read timed out and every read took exactly one response,
\* a call returns the whole response to its own last request.
InStepAnswersOwnRequest ==
  \A i \in DOMAIN returned : returned[i].inStep =>
    /\ returned[i].of = returned[i].want
    /\ \A k \in DOMAIN returned[i].body : returned[i].body[k].of = returned[i].want
    /\ Len(returned[i].body) = returned[i].length

\* The right password is never refused on such a connection: one retry is enough, with
\* the challenge of the moment, also when the nonce of the last call has expired.
OneRetryIsEnough ==
  HasCredentials =>
    \A i \in DOMAIN returned : returned[i].inStep => returned[i].status # 401

\* The server never sees a nonce with a count it has seen, even if requests were sent
\* with challenges that came late.
NonceCountsFresh ==
  \A i, j \in DOMAIN received :
    i < j /\ received[i].nonce = received[j].nonce /\ received[i].nonce # 0
      => received[i].nc < received[j].nc

\* After a Teardown that succeeded on such a connection the server holds no session of
\* this client, however often and in whatever order it set up and played before.
TeardownLeavesNothing ==
  returned # << >> =>
    LET last == returned[Len(returned)] IN
    last.inStep /\ last.method = "TEARDOWN" /\ last.status = 200 /\ phase = "idle"
      => live = {}

\* What DoRequest returns is one response, not a part of it or more than it.
ResponsesAreWhole ==
  \A i \in DOMAIN returned :
    /\ \A k \in DOMAIN returned[i].body : returned[i].body[k].of = returned[i].of
    /\ Len(returned[i].body) = returned[i].length
=============================================================================
