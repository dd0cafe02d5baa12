--------------------------- MODULE RtspClientProofs ---------------------------
(***************************************************************************)
(* Proofs about RtspClient for any number of calls, nonces, sessions and   *)
(* frames, with and without credentials.  Three strengthenings carry them: *)
(* the order of the challenges and nonce counts on their way, the order of *)
(* the numbers of requests and responses, and the shape of the connection  *)
(* while it is in step.                                                    *)
(***************************************************************************)
EXTENDS RtspClient, SequenceTheorems, TLAPS


\* Sessions that requests and responses name were opened by the server.
SessionsKnown ==
  /\ \A i \in DOMAIN wire : wire[i].session <= opened
  /\ \A i \in DOMAIN stream : stream[i].session <= opened

IsStart(p) == p.part = "start"
Challenges(p) == IsStart(p) /\ p.status = 401

\* Challenges that the client has not read are newer than the one it has, each newer
\* than those before it.
ChallengesInOrder ==
  /\ auth.nonce <= nonce
  /\ \A i \in DOMAIN stream :
       Challenges(stream[i]) => auth.nonce < stream[i].challenge /\ stream[i].challenge <= nonce
  /\ \A i, j \in DOMAIN stream :
       i < j /\ Challenges(stream[i]) /\ Challenges(stream[j])
         => stream[i].challenge < stream[j].challenge

\* One nonce and count comes before another.
Before(a, b) == a.nonce < b.nonce \/ (a.nonce = b.nonce /\ (a.nonce = 0 \/ a.nc < b.nc))

\* So does every request from these credentials of the client, or they are its own.
Reached(a, by) == a.nonce < by.nonce \/ (a.nonce = by.nonce /\ a.nc <= by.nc)

\* Requests carry nonces and counts in order, and the client has come to the last.
CountsInOrder ==
  /\ HasCredentials \/ auth.nonce = 0
  /\ \A i, j \in DOMAIN wire : i < j => Before(wire[i], wire[j])
  /\ \A i, j \in DOMAIN received : i < j => Before(received[i], received[j])
  /\ \A i \in DOMAIN received, j \in DOMAIN wire : Before(received[i], wire[j])
  /\ \A i \in DOMAIN wire : Reached(wire[i], auth)
  /\ \A i \in DOMAIN received : Reached(received[i], auth)

\* Returned responses are older than those on the stream, those than the requests on the
\* wire, and those than the next.
NumbersInOrder ==
  /\ \A i, j \in DOMAIN wire : i < j => wire[i].cseq < wire[j].cseq
  /\ \A i \in DOMAIN wire : wire[i].cseq < seq
  /\ \A i, j \in DOMAIN stream :
       i < j /\ IsStart(stream[i]) /\ IsStart(stream[j]) => stream[i].of < stream[j].of
  /\ \A i \in DOMAIN stream : IsStart(stream[i]) =>
       0 < stream[i].of /\ stream[i].of < seq /\ \A j \in DOMAIN wire : stream[i].of < wire[j].cseq
  /\ \A i \in DOMAIN returned :
       /\ returned[i].of < seq
       /\ \A j \in DOMAIN wire : returned[i].of < wire[j].cseq
       /\ \A j \in DOMAIN stream : IsStart(stream[j]) => returned[i].of < stream[j].of

OnlyFrames(s) == \A i \in DOMAIN s : s[i] = Frame

\* The request of the call in progress is on its way.
Asked ==
  /\ stream = << >> /\ Len(wire) = 1
  /\ wire[1].cseq = seq - 1 /\ wire[1].method = method /\ wire[1].session = session
  /\ HasCredentials /\ phase = "second" =>
       wire[1].nonce = nonce /\ nonce # 0 /\ wire[1].nc > counted
  /\ live \subseteq {session}

\* Its response has arrived, and after it nothing but frames.
Answered ==
  /\ wire = << >> /\ stream # << >>
  /\ LET first == stream[1] IN
     /\ IsStart(first)
     /\ Len(stream) >= 2 + first.length
     /\ \A i \in DOMAIN stream :
          IF i <= 2 + first.length THEN stream[i].of = seq - 1 ELSE stream[i] = Frame
     /\ HasCredentials /\ first.status = 401 =>
          phase = "first" /\ first.challenge = nonce /\ counted = 0
     /\ live \subseteq IF first.status = 200 /\ method = "SETUP" THEN {first.session}
                       ELSE IF first.status = 200 /\ method = "TEARDOWN" THEN {} ELSE {session}

\* In step, a call waits for its own response and between calls there is none; a frame
\* that comes first takes the connection out of step.
InStepShape ==
  inStep =>
    IF phase = "idle"
    THEN wire = << >> /\ OnlyFrames(stream) /\ live \subseteq {session}
    ELSE (stream # << >> /\ stream[1] = Frame) \/ Asked \/ Answered

-----------------------------------------------------------------------------
\* Sequences, pieces and what the operators build.

\* What is left of a sequence after its first n elements.
LEMMA Suffix ==
  ASSUME NEW S, NEW s \in Seq(S), NEW n \in 0..Len(s)
  PROVE  /\ SubSeq(s, n + 1, Len(s)) \in Seq(S)
         /\ Len(SubSeq(s, n + 1, Len(s))) = Len(s) - n
         /\ \A i \in DOMAIN SubSeq(s, n + 1, Len(s)) :
              i + n \in DOMAIN s /\ SubSeq(s, n + 1, Len(s))[i] = s[i + n]
<1>1. n + 1 \in Int /\ Len(s) \in Int /\ \A i \in (n + 1)..Len(s) : s[i] \in S
  OBVIOUS
<1>2. /\ SubSeq(s, n + 1, Len(s)) \in Seq(S)
      /\ Len(SubSeq(s, n + 1, Len(s))) = IF n + 1 <= Len(s) THEN Len(s) - (n + 1) + 1 ELSE 0
      /\ \A i \in 1..(Len(s) - (n + 1) + 1) : SubSeq(s, n + 1, Len(s))[i] = s[n + 1 + i - 1]
  BY <1>1, SubSeqProperties
<1> QED BY <1>2

\* The first n elements of a sequence.
LEMMA Prefix ==
  ASSUME NEW S, NEW s \in Seq(S), NEW n \in 1..Len(s)
  PROVE  /\ SubSeq(s, 1, n) \in Seq(S)
         /\ Len(SubSeq(s, 1, n)) = n
         /\ \A i \in 1..n : SubSeq(s, 1, n)[i] = s[i]
<1>1. n \in Int /\ \A i \in 1..n : s[i] \in S
  OBVIOUS
<1>2. /\ SubSeq(s, 1, n) \in Seq(S)
      /\ Len(SubSeq(s, 1, n)) = IF 1 <= n THEN n - 1 + 1 ELSE 0
      /\ \A i \in 1..(n - 1 + 1) : SubSeq(s, 1, n)[i] = s[1 + i - 1]
  BY <1>1, SubSeqProperties
<1> QED BY <1>2

\* A sequence and one element more.
LEMMA Appended ==
  ASSUME NEW S, NEW s \in Seq(S), NEW e \in S
  PROVE  /\ Append(s, e) \in Seq(S) /\ Append(s, e) # << >>
         /\ Len(Append(s, e)) = Len(s) + 1 /\ Append(s, e)[Len(s) + 1] = e
         /\ DOMAIN Append(s, e) = DOMAIN s \cup {Len(s) + 1}
         /\ Len(s) + 1 \notin DOMAIN s
         /\ \A i \in DOMAIN s : Append(s, e)[i] = s[i] /\ i < Len(s) + 1
OBVIOUS

\* A sequence, or it and one element more.
LEMMA PerhapsAppended ==
  ASSUME NEW S, NEW s \in Seq(S), NEW e \in S, NEW t,
         t = s \/ t = Append(s, e)
  PROVE  /\ DOMAIN s \subseteq DOMAIN t /\ Len(s) \in Nat
         /\ \A i \in DOMAIN t : \/ i \in DOMAIN s /\ t[i] = s[i]
                                \/ i = Len(s) + 1 /\ i \notin DOMAIN s /\ t[i] = e
<1>1. Len(s) \in Nat
  OBVIOUS
<1>2. CASE t = s
  BY <1>1, <1>2
<1>3. CASE t = Append(s, e)
  <2> DEFINE r == Append(s, e)
  <2>1. /\ DOMAIN r = DOMAIN s \cup {Len(s) + 1} /\ r[Len(s) + 1] = e /\ Len(s) + 1 \notin DOMAIN s
        /\ \A i \in DOMAIN s : r[i] = s[i]
    BY Appended
  <2> HIDE DEF r
  <2>2. t = r
    BY <1>3 DEF r
  <2> QED BY <1>1, <2>1, <2>2
<1> QED BY <1>2, <1>3

\* Frames are pieces.
LEMMA FrameIsPiece == Frame \in Piece
BY DEF Frame, Piece, Statuses

\* What an answer looks like.
IsAnswer(a, r, status, challenge, id) ==
  /\ a \in Seq(Piece) /\ a[1].length \in 0..2 /\ Len(a) = 2 + a[1].length
  /\ a[1].part = "start"
  /\ \A i \in DOMAIN a :
       /\ a[i].of = r.cseq /\ a[i].status = status
       /\ a[i].challenge = challenge /\ a[i].session = id
       /\ a[i].part = "start" => i = 1

\* Answer builds one.
LEMMA AnswerShape ==
  ASSUME NEW r \in Request, NEW status \in Statuses, NEW challenge \in Nat, NEW id \in Nat
  PROVE  IsAnswer(Answer(r, status, challenge, id), r, status, challenge, id)
<1> DEFINE length == IF status = 200 /\ r.method = "DESCRIBE" THEN 2 ELSE 0
           Part(p) == [of |-> r.cseq, part |-> p, status |-> status, challenge |-> challenge,
                       session |-> id, length |-> length]
           body == [i \in 1..length |-> Part("body")]
           head == <<Part("start"), Part("end")>>
           a == head \o body
<1>1. a = Answer(r, status, challenge, id)
  BY DEF Answer
<1>2. length \in 0..2
  OBVIOUS
<1>3. \A p \in {"start", "end", "body", "frame"} :
        /\ Part(p) \in Piece /\ Part(p).of = r.cseq /\ Part(p).status = status
        /\ Part(p).challenge = challenge /\ Part(p).session = id /\ Part(p).part = p
        /\ Part(p).length = length
  BY <1>2 DEF Piece, Request
<1> HIDE DEF length, Part
<1>4. body \in Seq(Piece) /\ Len(body) = length /\ \A i \in DOMAIN body : body[i] = Part("body")
  BY <1>2, <1>3
<1>5. head \in Seq(Piece) /\ Len(head) = 2 /\ head[1] = Part("start") /\ head[2] = Part("end")
  BY <1>3
<1> HIDE DEF body, head
<1>6. a \in Seq(Piece) /\ Len(a) = 2 + length
      /\ \A i \in 1..Len(a) : a[i] = IF i <= 2 THEN head[i] ELSE body[i - 2]
  <2>1. /\ a \in Seq(Piece) /\ Len(a) = Len(head) + Len(body)
        /\ \A i \in 1..(Len(head) + Len(body)) :
             a[i] = IF i <= Len(head) THEN head[i] ELSE body[i - Len(head)]
    BY <1>4, <1>5, ConcatProperties
  <2> QED BY <1>2, <1>4, <1>5, <2>1
<1>7. \A i \in DOMAIN a : a[i] = IF i = 1 THEN Part("start") ELSE IF i = 2 THEN Part("end") ELSE Part("body")
  BY <1>2, <1>4, <1>5, <1>6
<1> HIDE DEF a
<1> QED BY <1>1, <1>2, <1>3, <1>6, <1>7 DEF IsAnswer

Failure(want, m) ==
  [want |-> want, of |-> 0, method |-> m, status |-> 0, inStep |-> FALSE, length |-> 0,
   body |-> << >>]

\* Fail returns a failure, and nothing else.
LEMMA FailAppends ==
  ASSUME NEW want, Fail(want)
  PROVE  returned' = Append(returned, Failure(want, method'))
BY DEF Fail, Return, Frame, Failure

\* A failure is an entry of returned.
LEMMA FailureIsReturned ==
  ASSUME NEW want \in Nat, NEW m \in Methods
  PROVE  Failure(want, m) \in Returned
BY DEF Failure, Returned

\* What a built request carries, and what that does to the nonce count.
LEMMA BuiltShape ==
  ASSUME TypeOK, NEW m \in Methods, NEW a \in [nonce: Nat, nc: Nat]
  PROVE  /\ Built(seq, m, a) \in Request
         /\ Counted(a) \in [nonce: Nat, nc: Nat] /\ Counted(a).nonce = a.nonce
         /\ Built(seq, m, a).cseq = seq /\ Built(seq, m, a).session = session
         /\ Built(seq, m, a).method = m
         /\ Built(seq, m, a).nonce = IF HasCredentials THEN a.nonce ELSE 0
         /\ Built(seq, m, a).nc = IF HasCredentials THEN Counted(a).nc ELSE 0
         /\ HasCredentials /\ a.nonce # 0 => Counted(a).nc = a.nc + 1
<1>1. /\ Counted(a) \in [nonce: Nat, nc: Nat] /\ Counted(a).nonce = a.nonce
      /\ HasCredentials /\ a.nonce # 0 => Counted(a).nc = a.nc + 1
  BY DEF Counted
<1>2. seq \in Nat \ {0} /\ session \in Nat
  BY DEF TypeOK
<1> QED BY <1>1, <1>2 DEF Built, Request, SessionHeader

\* What Transmit does, whichever way the write goes.
LEMMA TransmitEffect ==
  ASSUME TypeOK, NEW m \in Methods, NEW a \in [nonce: Nat, nc: Nat], NEW then, method' \in Methods,
         Transmit(m, a, then)
  PROVE  /\ seq' = seq + 1 /\ seq \in Nat \ {0}
         /\ auth' = Counted(a)
         /\ wire' \in {wire, Append(wire, Built(seq, m, a))}
         /\ \/ /\ phase' = then /\ wire' = Append(wire, Built(seq, m, a))
               /\ returned' = returned
            \/ /\ phase' = "idle"
               /\ returned' = Append(returned, Failure(seq, method'))
BY FailAppends DEF TypeOK, Transmit, NextSeq

-----------------------------------------------------------------------------
\* The two ways a Read goes on, and what Serve does.

Chunk(n) == SubSeq(stream, 1, n)

\* A Read whose 401 is answered with the request again.
Retried(n) ==
  /\ Parses(Chunk(n)) /\ Retries(stream[1].status)
  /\ Transmit(method, Challenged(stream[1].challenge), "second")
  /\ inStep' = (inStep /\ IsResponse(Chunk(n)) /\ phase' # "idle")
  /\ UNCHANGED session

\* A Read that ends the call.
Ended(n) ==
  /\ ~(Parses(Chunk(n)) /\ Retries(stream[1].status))
  /\ phase' = "idle"
  /\ inStep' = (inStep /\ IsResponse(Chunk(n)))
  /\ IF Parses(Chunk(n))
     THEN Return(seq - 1, stream[1], Body(Chunk(n)), inStep') /\ session' = Kept(stream[1])
     ELSE Fail(seq - 1) /\ UNCHANGED session
  /\ UNCHANGED <<seq, auth, wire>>

\* A Read goes on in one of these two ways.
LEMMA ReadSplits ==
  ASSUME TypeOK, Read
  PROVE  /\ phase # "idle" /\ method' = method /\ UNCHANGED serverVars
         /\ \E n \in 1..Len(stream) :
              /\ stream' = SubSeq(stream, n + 1, Len(stream))
              /\ Retried(n) \/ Ended(n)
<1>1. PICK n \in 1..Len(stream) :
        LET chunk == SubSeq(stream, 1, n) IN
        /\ stream' = SubSeq(stream, n + 1, Len(stream))
        /\ IF Parses(chunk) /\ Retries(chunk[1].status)
           THEN /\ Transmit(method, Challenged(chunk[1].challenge), "second")
                /\ inStep' = (inStep /\ IsResponse(chunk) /\ phase' # "idle")
                /\ UNCHANGED session
           ELSE /\ phase' = "idle"
                /\ inStep' = (inStep /\ IsResponse(chunk))
                /\ IF Parses(chunk)
                   THEN Return(seq - 1, chunk[1], Body(chunk), inStep') /\ session' = Kept(chunk[1])
                   ELSE Fail(seq - 1) /\ UNCHANGED session
                /\ UNCHANGED <<seq, auth, wire>>
  BY DEF Read
<1>2. Chunk(n)[1] = stream[1]
  BY Prefix DEF Chunk, TypeOK
<1>3. Retried(n) \/ Ended(n)
  BY <1>1, <1>2 DEF Chunk, Retried, Ended
<1> QED BY <1>1, <1>3 DEF Read

\* What a call that parsed a response returns.
Reply(first, body, m, still) ==
  [want |-> seq - 1, of |-> first.of, method |-> m, status |-> first.status, inStep |-> still,
   length |-> IF first.status >= 400 THEN 0 ELSE first.length,
   body |-> IF first.status >= 400 THEN << >> ELSE body]

\* A body is made of pieces.
LEMMA BodyType ==
  ASSUME NEW chunk \in Seq(Piece), Parses(chunk)
  PROVE  Body(chunk) \in Seq(Piece)
<1>1. Len(chunk) >= 2 /\ Len(chunk) \in Nat /\ chunk[1] \in Piece
  BY DEF Parses
<1>3. chunk[1].length \in 0..2
  BY <1>1 DEF Piece
<1>2. \A m \in Int : m <= Len(chunk) => SubSeq(chunk, 3, m) \in Seq(Piece)
  <2> SUFFICES ASSUME NEW m \in Int, m <= Len(chunk) PROVE SubSeq(chunk, 3, m) \in Seq(Piece)
    OBVIOUS
  <2>1. \A i \in 3..m : chunk[i] \in Piece
    BY <1>1
  <2> QED BY <2>1, SubSeqProperties
<1> QED BY <1>1, <1>2, <1>3 DEF Body

\* What a Read that ends the call adds to returned.
LEMMA EndedEffect ==
  ASSUME TypeOK, NEW n \in 1..Len(stream), Ended(n), phase # "idle", method' = method
  PROVE  /\ seq - 1 \in Nat
         /\ IF Parses(Chunk(n))
            THEN /\ returned' = Append(returned, Reply(stream[1], Body(Chunk(n)), method, inStep'))
                 /\ Reply(stream[1], Body(Chunk(n)), method, inStep') \in Returned
            ELSE /\ returned' = Append(returned, Failure(seq - 1, method))
                 /\ Failure(seq - 1, method) \in Returned
<1>1. /\ seq - 1 \in Nat /\ stream[1] \in Piece /\ method \in Methods /\ inStep' \in BOOLEAN
      /\ Chunk(n) \in Seq(Piece)
  BY Prefix DEF TypeOK, Ended, Chunk
<1>2. CASE Parses(Chunk(n))
  <2>1. returned' = Append(returned, Reply(stream[1], Body(Chunk(n)), method, inStep'))
    BY <1>2 DEF Ended, Return, Reply
  <2>2. Body(Chunk(n)) \in Seq(Piece) /\ << >> \in Seq(Piece)
    BY <1>1, <1>2, BodyType
  <2>3. Reply(stream[1], Body(Chunk(n)), method, inStep') \in Returned
    BY <1>1, <2>2 DEF Reply, Returned, Piece
  <2> QED BY <1>1, <1>2, <2>1, <2>3
<1>3. CASE ~Parses(Chunk(n))
  BY <1>1, <1>3, FailAppends, FailureIsReturned DEF Ended
<1> QED BY <1>2, <1>3

\* A Read that retries has read a challenge, with credentials to answer it.
LEMMA RetriedEffect ==
  ASSUME TypeOK, NEW n \in 1..Len(stream), Retried(n), method' = method
  PROVE  /\ stream[1] \in Piece /\ IsStart(stream[1]) /\ Challenges(stream[1])
         /\ HasCredentials /\ phase = "first"
         /\ LET a == Challenged(stream[1].challenge) IN
            /\ a \in [nonce: Nat, nc: Nat] /\ a.nonce = stream[1].challenge /\ a.nc = 0
            /\ Transmit(method, a, "second")
<1>1. stream[1] \in Piece /\ Chunk(n)[1] = stream[1]
  BY Prefix DEF TypeOK, Chunk
<1> QED BY <1>1 DEF Retried, Parses, Retries, Challenges, IsStart, Challenged, Piece

\* Init has these types.
LEMMA InitTypes == Init => TypeOK /\ SessionsKnown
<1> SUFFICES ASSUME Init PROVE TypeOK /\ SessionsKnown
  OBVIOUS
<1>1. << >> \in Seq(Request) /\ << >> \in Seq(Piece) /\ << >> \in Seq(Returned)
  OBVIOUS
<1>2. MaxSessions \in Nat
  BY ClientAssumption
<1>3. TypeOK
  BY <1>1, <1>2 DEF Init, TypeOK, NoAuth, Methods
<1>4. SessionsKnown
  BY DEF Init, SessionsKnown
<1> QED BY <1>3, <1>4

-----------------------------------------------------------------------------
\* Serve, by the answer it gives and by what that means for nonce and sessions.
ServedWith(r, status, challenge, id) ==
  /\ stream' = stream \o Answer(r, status, challenge, id)
  /\ id <= opened'
  /\ status = 401 => challenge = nonce + 1 /\ nonce' = nonce + 1 /\ counted' = 0
  /\ status # 401 => nonce' = nonce /\ counted' = r.nc
  /\ r.nonce = nonce /\ nonce # 0 /\ r.nc > counted => status # 401
  /\ IF status # 200 THEN live' = live
     ELSE /\ r.method = "SETUP" => live' = live \cup {id} /\ r.session \in {0, id}
          /\ r.method = "TEARDOWN" => live' = live \ {r.session}
          /\ r.method \in {"DESCRIBE", "PLAY"} => live' = live

\* What Serve does, in one of its ways.
LEMMA ServeEffect ==
  ASSUME TypeOK, SessionsKnown, Serve
  PROVE  /\ wire # << >> /\ wire[1] \in Request /\ 1 \in DOMAIN wire
         /\ received' = Append(received, wire[1]) /\ wire' = Tail(wire)
         /\ \E status \in Statuses, challenge \in Nat, id \in Nat :
              ServedWith(wire[1], status, challenge, id)
         /\ opened' \in 0..MaxSessions /\ opened <= opened'
         /\ live' \subseteq 1..opened' /\ playing' \subseteq live'
         /\ nonce' \in Nat /\ counted' \in Nat
<1> DEFINE r == wire[1]
<1>1. wire # << >> /\ Head(wire) = r /\ r \in Request /\ 1 \in DOMAIN wire
  BY DEF Serve, TypeOK
<1>2. /\ nonce \in Nat /\ counted \in Nat /\ opened \in Nat /\ MaxSessions \in Nat /\ opened <= MaxSessions
      /\ live \subseteq 1..opened /\ playing \subseteq live
  BY ClientAssumption DEF TypeOK
<1>3. r.session \in Nat /\ r.session <= opened /\ r.nc \in Nat /\ r.method \in Methods
  BY <1>1 DEF SessionsKnown, Request
<1> HIDE DEF r
<1> SUFFICES /\ \E status \in Statuses, challenge \in Nat, id \in Nat :
                  ServedWith(r, status, challenge, id)
             /\ opened' \in 0..MaxSessions /\ opened <= opened'
             /\ live' \subseteq 1..opened' /\ playing' \subseteq live'
             /\ nonce' \in Nat /\ counted' \in Nat
  BY <1>1 DEF Serve, r
<1>4. CASE r.nonce = nonce /\ r.nonce # 0 /\ r.nc > counted /\ Refuse(r)
  <2>1. nonce' = nonce /\ counted' = r.nc
    BY <1>1, <1>2, <1>4 DEF Serve, r
  <2>2. stream' = stream \o Answer(r, 404, 0, 0) /\ UNCHANGED sessionVars
    BY <1>4 DEF Refuse
  <2>3. 404 \in Statuses /\ 0 \in Nat
    BY DEF Statuses
  <2>4. ServedWith(r, 404, 0, 0)
    BY <1>2, <2>1, <2>2 DEF ServedWith, sessionVars
  <2> QED BY <1>2, <1>3, <2>1, <2>2, <2>3, <2>4 DEF sessionVars
<1>5. CASE r.nonce = nonce /\ r.nonce # 0 /\ r.nc > counted /\ Carries(r) /\ CarryOut(r)
  <2> DEFINE id == Target(r)
  <2>1. nonce' = nonce /\ counted' = r.nc
    BY <1>1, <1>2, <1>5 DEF Serve, r
  <2>2. /\ stream' = stream \o Answer(r, 200, 0, id)
        /\ opened' = IF id > opened THEN id ELSE opened
        /\ live' = IF r.method = "SETUP" THEN live \cup {id}
                   ELSE IF r.method = "TEARDOWN" THEN live \ {id} ELSE live
        /\ playing' = IF r.method = "PLAY" THEN playing \cup {id}
                      ELSE IF r.method = "TEARDOWN" THEN playing \ {id} ELSE playing
    BY <1>5 DEF CarryOut
  <2>3. /\ id \in Nat
        /\ r.method = "SETUP" /\ r.session = 0 => id = opened + 1 /\ opened < MaxSessions
        /\ ~(r.method = "SETUP" /\ r.session = 0) => id = r.session
        /\ r.method # "DESCRIBE" /\ ~(r.method = "SETUP" /\ r.session = 0) => r.session \in live
    BY <1>2, <1>3, <1>5 DEF Target, Carries
  <2> HIDE DEF id
  <2>4. id <= opened' /\ opened' \in 0..MaxSessions /\ opened <= opened'
    BY <1>2, <1>3, <2>2, <2>3
  <2>5. /\ r.method = "SETUP" => live' = live \cup {id} /\ playing' = playing
        /\ r.method = "TEARDOWN" => live' = live \ {id} /\ playing' = playing \ {id}
        /\ r.method = "PLAY" => live' = live /\ playing' = playing \cup {id}
        /\ r.method = "DESCRIBE" => live' = live /\ playing' = playing
    BY <2>2
  <2>6. live' \subseteq 1..opened' /\ playing' \subseteq live'
    <3>1. r.method = "SETUP" => id \in 1..opened'
      BY <1>2, <1>3, <2>3, <2>4
    <3>2. r.method = "PLAY" => id \in live
      BY <2>3
    <3>3. live \subseteq 1..opened'
      BY <1>2, <2>4
    <3> QED BY <1>2, <1>3, <2>5, <3>1, <3>2, <3>3 DEF Methods
  <2>7. 200 \in Statuses /\ 0 \in Nat
    BY DEF Statuses
  <2>8. r.method = "TEARDOWN" => id = r.session
    BY <2>3
  <2>9. r.method = "SETUP" => r.session = 0 \/ r.session = id
    BY <2>3
  <2>10. ServedWith(r, 200, 0, id)
    BY <2>1, <2>2, <2>4, <2>5, <2>8, <2>9 DEF ServedWith
  <2> QED BY <1>2, <1>3, <2>1, <2>3, <2>4, <2>6, <2>7, <2>10
<1>6. CASE ~(r.nonce = nonce /\ r.nonce # 0 /\ r.nc > counted)
  <2>1. /\ stream' = stream \o Answer(r, 401, nonce + 1, 0) /\ nonce' = nonce + 1 /\ counted' = 0
        /\ UNCHANGED sessionVars
    BY <1>1, <1>6 DEF Serve, r
  <2>2. 401 \in Statuses /\ nonce + 1 \in Nat /\ 0 \in Nat
    BY <1>2 DEF Statuses
  <2>3. ServedWith(r, 401, nonce + 1, 0)
    BY <1>2, <1>6, <2>1 DEF ServedWith, sessionVars
  <2> QED BY <1>2, <2>1, <2>2, <2>3 DEF sessionVars
<1> QED BY <1>1, <1>4, <1>5, <1>6 DEF Serve, r

-----------------------------------------------------------------------------
\* Types.

\* The types of wire, received, stream and returned after a step.
LEMMA TypeStep ==
  ASSUME TypeOK, SessionsKnown, [Next]_vars
  PROVE  TypeOK' /\ SessionsKnown'
<1>1. /\ seq \in Nat \ {0} /\ auth \in [nonce: Nat, nc: Nat] /\ session \in 0..opened
      /\ method \in Methods /\ wire \in Seq(Request) /\ stream \in Seq(Piece)
      /\ opened \in 0..MaxSessions /\ live \subseteq 1..opened /\ playing \subseteq live
      /\ received \in Seq(Request) /\ returned \in Seq(Returned) /\ inStep \in BOOLEAN
      /\ nonce \in Nat /\ counted \in Nat /\ opened \in Nat
  BY ClientAssumption DEF TypeOK
<1>2. /\ \A i \in DOMAIN wire : wire[i].session <= opened
      /\ \A i \in DOMAIN stream : stream[i].session <= opened
  BY DEF SessionsKnown
<1>3. ASSUME NEW m \in Methods, NEW a \in [nonce: Nat, nc: Nat], NEW then \in {"first", "second"},
             Transmit(m, a, then), method' \in Methods
      PROVE  /\ seq' \in Nat \ {0} /\ auth' \in [nonce: Nat, nc: Nat]
             /\ wire' \in Seq(Request) /\ returned' \in Seq(Returned)
             /\ phase' \in {"idle", "first", "second"}
             /\ \A i \in DOMAIN wire' : wire'[i].session <= opened
  <2> DEFINE r == Built(seq, m, a)
  <2>1. r \in Request /\ r.session = session /\ auth' \in [nonce: Nat, nc: Nat]
    BY <1>3, BuiltShape, TransmitEffect
  <2>2. /\ seq' = seq + 1 /\ wire' \in {wire, Append(wire, r)}
        /\ phase' \in {then, "idle"} /\ returned' \in {returned, Append(returned, Failure(seq, method'))}
    BY <1>3, TransmitEffect
  <2>3. Failure(seq, method') \in Returned
    BY <1>1, <1>3, FailureIsReturned
  <2> HIDE DEF r
  <2> DEFINE w == Append(wire, r)
  <2>4. /\ w \in Seq(Request) /\ DOMAIN w = DOMAIN wire \cup {Len(wire) + 1} /\ w[Len(wire) + 1] = r
        /\ \A i \in DOMAIN wire : w[i] = wire[i]
    BY <1>1, <2>1, Appended
  <2>5. r.session <= opened
    BY <1>1, <2>1
  <2>6. wire' = wire \/ wire' = w
    BY <2>2
  <2> HIDE DEF w
  <2>7. \A i \in DOMAIN w : w[i].session <= opened
    BY <1>2, <2>4, <2>5
  <2>8. wire' \in Seq(Request) /\ \A i \in DOMAIN wire' : wire'[i].session <= opened
    BY <1>1, <1>2, <2>4, <2>6, <2>7
  <2>9. Append(returned, Failure(seq, method')) \in Seq(Returned)
    BY <1>1, <2>3, Appended
  <2>10. returned' \in Seq(Returned)
    BY <1>1, <2>2, <2>9
  <2>11. seq' \in Nat \ {0} /\ phase' \in {"idle", "first", "second"}
    BY <1>1, <1>3, <2>2
  <2> QED BY <2>1, <2>8, <2>10, <2>11
<1>4. ASSUME NEW m \in Methods, Send(m) PROVE TypeOK' /\ SessionsKnown'
  <2>1. method' = m /\ Transmit(m, auth, "first") /\ inStep' = (inStep /\ phase' # "idle")
        /\ UNCHANGED <<session, stream, nonce, counted, opened, live, playing, received>>
    BY <1>4 DEF Send, serverVars, nonceVars, sessionVars
  <2>2. /\ seq' \in Nat \ {0} /\ auth' \in [nonce: Nat, nc: Nat]
        /\ wire' \in Seq(Request) /\ returned' \in Seq(Returned)
        /\ phase' \in {"idle", "first", "second"}
        /\ \A i \in DOMAIN wire' : wire'[i].session <= opened
    BY <1>1, <1>3, <2>1
  <2>3. TypeOK'
    BY <1>1, <2>1, <2>2 DEF TypeOK
  <2>4. SessionsKnown'
    BY <1>2, <2>1, <2>2 DEF SessionsKnown
  <2> QED BY <2>3, <2>4
<1>5. ASSUME Read PROVE TypeOK' /\ SessionsKnown'
  <2>1. PICK n \in 1..Len(stream) : stream' = SubSeq(stream, n + 1, Len(stream)) /\ (Retried(n) \/ Ended(n))
    BY <1>5, ReadSplits
  <2>2. phase # "idle" /\ method' = method
        /\ UNCHANGED <<nonce, counted, opened, live, playing, received>>
    BY <1>5, ReadSplits DEF serverVars, nonceVars, sessionVars
  <2>3. n \in 0..Len(stream) /\ stream[1] \in Piece /\ 1 \in DOMAIN stream
    BY <1>1
  <2>4. stream' \in Seq(Piece) /\ \A i \in DOMAIN stream' : stream'[i].session <= opened
    BY <1>1, <1>2, <2>1, <2>3, Suffix
  <2>5. CASE Retried(n)
    <3>1. /\ seq' \in Nat \ {0} /\ auth' \in [nonce: Nat, nc: Nat]
          /\ wire' \in Seq(Request) /\ returned' \in Seq(Returned)
          /\ phase' \in {"idle", "first", "second"}
          /\ \A i \in DOMAIN wire' : wire'[i].session <= opened
      BY <1>1, <1>3, <2>2, <2>5, RetriedEffect
    <3>2. inStep' \in BOOLEAN /\ session' = session
      BY <2>5 DEF Retried
    <3>3. TypeOK'
      BY <1>1, <2>2, <2>4, <3>1, <3>2 DEF TypeOK
    <3>4. SessionsKnown'
      BY <2>2, <2>4, <3>1 DEF SessionsKnown
    <3> QED BY <3>3, <3>4
  <2>6. CASE Ended(n)
    <3>1. \E e \in Returned : returned' = Append(returned, e)
      BY <2>2, <2>6, EndedEffect
    <3>7. returned' \in Seq(Returned)
      BY <1>1, <3>1, Appended
    <3>2. inStep' \in BOOLEAN /\ phase' = "idle" /\ UNCHANGED <<seq, auth, wire>>
      BY <2>6 DEF Ended
    <3>3. session' \in {session, stream[1].session}
      BY <2>6 DEF Ended, Kept
    <3>4. session' \in 0..opened
      BY <1>1, <1>2, <2>3, <3>3 DEF Piece
    <3>5. TypeOK'
      BY <1>1, <2>2, <2>4, <3>2, <3>4, <3>7 DEF TypeOK
    <3>6. SessionsKnown'
      BY <1>2, <2>2, <2>4, <3>2 DEF SessionsKnown
    <3> QED BY <3>5, <3>6
  <2> QED BY <2>1, <2>5, <2>6
<1>6. ASSUME ReadFails PROVE TypeOK' /\ SessionsKnown'
  <2>1. /\ phase' = "idle" /\ inStep' = FALSE
        /\ UNCHANGED <<method, seq, auth, session, wire, stream, nonce, counted, opened, live, playing, received>>
        /\ returned' = Append(returned, Failure(seq - 1, method)) /\ Failure(seq - 1, method) \in Returned
    BY <1>1, <1>6, FailAppends, FailureIsReturned DEF ReadFails, connVars, serverVars, nonceVars, sessionVars
  <2>2. returned' \in Seq(Returned)
    BY <1>1, <2>1, Appended
  <2>3. TypeOK'
    BY <1>1, <2>1, <2>2 DEF TypeOK
  <2>4. SessionsKnown'
    BY <1>2, <2>1 DEF SessionsKnown
  <2> QED BY <2>3, <2>4
<1>7. ASSUME ReadFrame PROVE TypeOK' /\ SessionsKnown'
  <2>1. /\ inStep' \in BOOLEAN
        /\ UNCHANGED <<phase, method, seq, auth, session, wire, nonce, counted, opened, live, playing,
                       received, returned>>
        /\ \E n \in 1..Len(stream) : stream' = SubSeq(stream, n + 1, Len(stream))
    BY <1>7 DEF ReadFrame, clientVars, serverVars, nonceVars, sessionVars
  <2>2. PICK n \in 0..Len(stream) : stream' = SubSeq(stream, n + 1, Len(stream))
    BY <1>1, <2>1
  <2>3. stream' \in Seq(Piece) /\ \A i \in DOMAIN stream' : stream'[i].session <= opened
    BY <1>1, <1>2, <2>2, Suffix
  <2>4. TypeOK'
    BY <1>1, <2>1, <2>3 DEF TypeOK
  <2>5. SessionsKnown'
    BY <1>2, <2>1, <2>3 DEF SessionsKnown
  <2> QED BY <2>4, <2>5
<1>8. ASSUME Serve PROVE TypeOK' /\ SessionsKnown'
  <2>1. /\ wire # << >> /\ wire[1] \in Request
        /\ received' = Append(received, wire[1]) /\ wire' = Tail(wire)
        /\ opened' \in 0..MaxSessions /\ opened <= opened'
        /\ live' \subseteq 1..opened' /\ playing' \subseteq live'
        /\ nonce' \in Nat /\ counted' \in Nat
    BY <1>8, ServeEffect
  <2>2. UNCHANGED <<seq, auth, session, phase, method, returned, inStep>>
    BY <1>8 DEF Serve, clientVars
  <2>3. PICK status \in Statuses, challenge \in Nat, id \in Nat :
          ServedWith(wire[1], status, challenge, id)
    BY <1>8, ServeEffect
  <2> DEFINE a == Answer(wire[1], status, challenge, id)
  <2>4. /\ stream' = stream \o a /\ id <= opened' /\ a \in Seq(Piece)
        /\ \A i \in DOMAIN a : a[i].session = id
    BY <2>1, <2>3, AnswerShape DEF ServedWith, IsAnswer
  <2> HIDE DEF a
  <2>5. stream' \in Seq(Piece) /\ \A i \in 1..Len(stream') :
          stream'[i] = IF i <= Len(stream) THEN stream[i] ELSE a[i - Len(stream)]
    BY <1>1, <2>4, ConcatProperties
  <2>6. Len(stream') = Len(stream) + Len(a)
    BY <1>1, <2>4, ConcatProperties
  <2>7. \A i \in DOMAIN stream' : stream'[i].session <= opened'
    <3> SUFFICES ASSUME NEW i \in 1..Len(stream') PROVE stream'[i].session <= opened'
      BY <2>5
    <3>1. CASE i <= Len(stream)
      <4>1. stream'[i] = stream[i] /\ i \in DOMAIN stream /\ stream[i] \in Piece
        BY <1>1, <2>5, <3>1
      <4>2. stream[i].session \in Nat /\ stream[i].session <= opened
        BY <1>2, <4>1 DEF Piece
      <4> QED BY <1>1, <2>1, <4>1, <4>2
    <3>2. CASE ~(i <= Len(stream))
      <4>1. stream'[i] = a[i - Len(stream)] /\ i - Len(stream) \in DOMAIN a
        BY <1>1, <2>4, <2>5, <2>6, <3>2
      <4> QED BY <2>4, <4>1
    <3> QED BY <3>1, <3>2
  <2>8. wire' \in Seq(Request) /\ \A i \in DOMAIN wire' : i + 1 \in DOMAIN wire /\ wire'[i] = wire[i + 1]
    BY <1>1, <2>1, HeadTailProperties
  <2>9. \A i \in DOMAIN wire' : wire'[i].session <= opened'
    <3> SUFFICES ASSUME NEW i \in DOMAIN wire' PROVE wire'[i].session <= opened'
      OBVIOUS
    <3>1. i + 1 \in DOMAIN wire /\ wire'[i] = wire[i + 1] /\ wire[i + 1] \in Request
      BY <1>1, <2>8
    <3>2. wire[i + 1].session \in Nat /\ wire[i + 1].session <= opened
      BY <1>2, <3>1 DEF Request
    <3> QED BY <1>1, <2>1, <3>1, <3>2
  <2>10. received' \in Seq(Request)
    BY <1>1, <2>1, Appended
  <2>11. session' \in 0..opened'
    BY <1>1, <2>1, <2>2
  <2>12. TypeOK'
    BY <2>1, <2>2, <2>5, <2>8, <2>10, <2>11 DEF TypeOK
  <2>13. SessionsKnown'
    BY <2>7, <2>9 DEF SessionsKnown
  <2> QED BY <2>12, <2>13
<1>9. ASSUME SendFrame PROVE TypeOK' /\ SessionsKnown'
  <2>1. stream' = Append(stream, Frame)
        /\ UNCHANGED <<phase, method, seq, auth, session, wire, nonce, counted, opened, live, playing,
                       received, returned, inStep>>
    BY <1>9 DEF SendFrame, clientVars, serverVars, nonceVars, sessionVars
  <2>2. Frame.session = 0 /\ 0 <= opened
    BY <1>1 DEF Frame
  <2>3. stream' \in Seq(Piece) /\ \A i \in DOMAIN stream' : stream'[i].session <= opened
    BY <1>1, <1>2, <2>1, <2>2, FrameIsPiece, Appended
  <2>4. TypeOK'
    BY <1>1, <2>1, <2>3 DEF TypeOK
  <2>5. SessionsKnown'
    BY <1>2, <2>1, <2>3 DEF SessionsKnown
  <2> QED BY <2>4, <2>5
<1>10. ASSUME Expire PROVE TypeOK' /\ SessionsKnown'
  BY <1>1, <1>2, <1>10 DEF TypeOK, SessionsKnown, Expire, clientVars, connVars, sessionVars
<1>11. ASSUME UNCHANGED vars PROVE TypeOK' /\ SessionsKnown'
  BY <1>11 DEF TypeOK, SessionsKnown, vars, clientVars, connVars, serverVars, nonceVars, sessionVars
<1>12. Teardown => \E m \in Methods : Send(m)
  BY DEF Teardown, Methods
<1> QED BY <1>4, <1>5, <1>6, <1>7, <1>8, <1>9, <1>10, <1>11, <1>12 DEF Next

-----------------------------------------------------------------------------
\* The steps, by what they do to requests, responses and challenges.

\* A step in which the client writes a request with these credentials, after it has read
\* n pieces.
Asks(n, a) ==
  /\ stream' = SubSeq(stream, n + 1, Len(stream))
  /\ \/ a = auth
     \/ n >= 1 /\ HasCredentials /\ Challenges(stream[1]) /\ a.nonce = stream[1].challenge /\ a.nc = 0
  /\ seq' = seq + 1 /\ auth' = Counted(a)
  /\ \E m \in Methods : wire' \in {wire, Append(wire, Built(seq, m, a))}
  /\ \E m \in Methods : returned' \in {returned, Append(returned, Failure(seq, m))}
  /\ UNCHANGED <<received, nonce>>

\* A step in which it reads n pieces, and perhaps a call returns e.
Gets(n, e) ==
  /\ stream' = SubSeq(stream, n + 1, Len(stream))
  /\ e.of = 0 \/ (n >= 1 /\ IsStart(stream[1]) /\ e.of = stream[1].of)
  /\ e.want = seq - 1
  /\ returned' \in {returned, Append(returned, e)}
  /\ UNCHANGED <<seq, auth, wire, received, nonce>>

\* A step of the server, the network or nobody that takes no request.
Rests ==
  /\ stream' \in {stream, Append(stream, Frame)}
  /\ nonce' \in {nonce, nonce + 1}
  /\ UNCHANGED <<seq, auth, wire, received, returned>>

Credentials == [nonce: Nat, nc: Nat]

\* Every step is one of the four.
LEMMA NextIsEffect ==
  ASSUME TypeOK, [Next]_vars
  PROVE  \/ \E n \in 0..Len(stream), a \in Credentials : Asks(n, a)
         \/ \E n \in 0..Len(stream), e \in Returned : Gets(n, e)
         \/ Serve
         \/ Rests
<1>1. /\ seq \in Nat \ {0} /\ auth \in Credentials /\ method \in Methods /\ stream \in Seq(Piece)
      /\ wire \in Seq(Request) /\ returned \in Seq(Returned) /\ nonce \in Nat /\ Len(stream) \in Nat
  BY DEF TypeOK, Credentials
<1>2. ASSUME NEW m \in Methods, Send(m) PROVE Asks(0, auth)
  <2>1. /\ method' = m /\ Transmit(m, auth, "first") /\ UNCHANGED <<stream, received, nonce>>
    BY <1>2 DEF Send, serverVars, nonceVars
  <2>2. /\ seq' = seq + 1 /\ auth' = Counted(auth)
        /\ wire' \in {wire, Append(wire, Built(seq, m, auth))}
        /\ returned' \in {returned, Append(returned, Failure(seq, m))}
    BY <1>1, <2>1, TransmitEffect DEF Credentials
  <2>3. SubSeq(stream, 0 + 1, Len(stream)) = stream
    BY <1>1, SubSeqFull
  <2> QED BY <2>1, <2>2, <2>3 DEF Asks
<1>3. ASSUME Read
      PROVE  \/ \E n \in 0..Len(stream), a \in Credentials : Asks(n, a)
             \/ \E n \in 0..Len(stream), e \in Returned : Gets(n, e)
  <2>1. PICK n \in 1..Len(stream) : stream' = SubSeq(stream, n + 1, Len(stream)) /\ (Retried(n) \/ Ended(n))
    BY <1>3, ReadSplits
  <2>2. phase # "idle" /\ method' = method /\ UNCHANGED <<nonce, received>>
    BY <1>3, ReadSplits DEF serverVars, nonceVars
  <2>3. n \in 0..Len(stream) /\ n >= 1
    BY <1>1
  <2>4. CASE Retried(n)
    <3> DEFINE a == Challenged(stream[1].challenge)
    <3>1. /\ a \in Credentials /\ a.nonce = stream[1].challenge /\ a.nc = 0
          /\ Transmit(method, a, "second") /\ HasCredentials /\ Challenges(stream[1])
      BY <2>2, <2>4, RetriedEffect DEF Credentials
    <3> HIDE DEF a
    <3>2. /\ seq' = seq + 1 /\ auth' = Counted(a)
          /\ wire' \in {wire, Append(wire, Built(seq, method, a))}
          /\ returned' \in {returned, Append(returned, Failure(seq, method))}
      BY <1>1, <2>2, <3>1, TransmitEffect DEF Credentials
    <3>3. Asks(n, a)
      BY <1>1, <2>1, <2>2, <2>3, <3>1, <3>2 DEF Asks
    <3> QED BY <2>3, <3>1, <3>3
  <2>5. CASE Ended(n)
    <3>1. UNCHANGED <<seq, auth, wire>>
      BY <2>5 DEF Ended
    <3>2. CASE Parses(Chunk(n))
      <4> DEFINE e == Reply(stream[1], Body(Chunk(n)), method, inStep')
      <4>1. e \in Returned /\ returned' = Append(returned, e)
        BY <2>2, <2>5, <3>2, EndedEffect
      <4>2. e.of = stream[1].of /\ e.want = seq - 1
        BY DEF Reply
      <4>3. IsStart(stream[1])
        BY <1>1, <3>2, Prefix DEF Parses, Chunk, IsStart
      <4> HIDE DEF e
      <4> QED BY <2>1, <2>2, <2>3, <3>1, <4>1, <4>2, <4>3 DEF Gets
    <3>3. CASE ~Parses(Chunk(n))
      <4> DEFINE e == Failure(seq - 1, method)
      <4>1. e \in Returned /\ returned' = Append(returned, e)
        BY <2>2, <2>5, <3>3, EndedEffect
      <4>2. e.of = 0 /\ e.want = seq - 1
        BY DEF Failure
      <4> HIDE DEF e
      <4> QED BY <2>1, <2>2, <2>3, <3>1, <4>1, <4>2 DEF Gets
    <3> QED BY <3>2, <3>3
  <2> QED BY <2>1, <2>4, <2>5
<1>4. ASSUME ReadFails \/ ReadFrame PROVE \E n \in 0..Len(stream), e \in Returned : Gets(n, e)
  <2> DEFINE e == Failure(seq - 1, method)
  <2>1. e \in Returned /\ e.of = 0 /\ e.want = seq - 1
    BY <1>1, FailureIsReturned DEF Failure
  <2>2. SubSeq(stream, 0 + 1, Len(stream)) = stream
    BY <1>1, SubSeqFull
  <2>3. CASE ReadFails
    <3>1. UNCHANGED <<method, seq, auth, wire, stream, received, nonce>> /\ Fail(seq - 1)
      BY <2>3 DEF ReadFails, connVars, serverVars, nonceVars
    <3>2. returned' = Append(returned, e)
      BY <3>1, FailAppends
    <3> HIDE DEF e
    <3>3. Gets(0, e)
      BY <2>1, <2>2, <3>1, <3>2 DEF Gets
    <3> QED BY <1>1, <2>1, <3>3
  <2>4. CASE ReadFrame
    <3>1. PICK n \in 1..Len(stream) : stream' = SubSeq(stream, n + 1, Len(stream))
      BY <2>4 DEF ReadFrame
    <3>2. UNCHANGED <<seq, auth, wire, received, nonce, returned>>
      BY <2>4 DEF ReadFrame, clientVars, serverVars, nonceVars
    <3> HIDE DEF e
    <3>3. Gets(n, e)
      BY <2>1, <3>1, <3>2 DEF Gets
    <3> QED BY <1>1, <2>1, <3>3
  <2> QED BY <1>4, <2>3, <2>4
<1>5. SendFrame \/ Expire \/ UNCHANGED vars => Rests
  BY DEF SendFrame, Expire, Rests, vars, clientVars, connVars, serverVars, nonceVars
<1>6. Teardown => \E m \in Methods : Send(m)
  BY DEF Teardown, Methods
<1> QED BY <1>1, <1>2, <1>3, <1>4, <1>5, <1>6 DEF Next

\* Where the pieces of the stream come from in a step of the server that takes a request.
LEMMA ServedStream ==
  ASSUME TypeOK, SessionsKnown, Serve
  PROVE  /\ DOMAIN stream' = 1..Len(stream') /\ Len(stream) < Len(stream')
         /\ \A i \in DOMAIN stream : i \in DOMAIN stream' /\ stream'[i] = stream[i]
         /\ nonce' \in {nonce, nonce + 1}
         /\ \A i \in DOMAIN stream' :
              \/ i \in DOMAIN stream /\ stream'[i] = stream[i]
              \/ /\ i > Len(stream) /\ stream'[i].of = wire[1].cseq
                 /\ IsStart(stream'[i]) => i = Len(stream) + 1
                 /\ Challenges(stream'[i]) => stream'[i].challenge = nonce + 1 /\ nonce' = nonce + 1
<1>1. stream \in Seq(Piece) /\ nonce \in Nat /\ Len(stream) \in Nat
  BY DEF TypeOK
<1>2. PICK status \in Statuses, challenge \in Nat, id \in Nat :
        ServedWith(wire[1], status, challenge, id)
  BY ServeEffect
<1>3. wire[1] \in Request
  BY ServeEffect
<1> DEFINE a == Answer(wire[1], status, challenge, id)
<1>4. IsAnswer(a, wire[1], status, challenge, id)
  BY <1>3, AnswerShape
<1>5. /\ stream' = stream \o a /\ nonce' \in {nonce, nonce + 1}
      /\ status = 401 => challenge = nonce + 1 /\ nonce' = nonce + 1
  BY <1>2 DEF ServedWith
<1> HIDE DEF a
<1>6. /\ stream' \in Seq(Piece) /\ Len(stream') = Len(stream) + Len(a)
      /\ \A i \in 1..(Len(stream) + Len(a)) :
           stream'[i] = IF i <= Len(stream) THEN stream[i] ELSE a[i - Len(stream)]
  BY <1>1, <1>4, <1>5, ConcatProperties DEF IsAnswer
<1>7. DOMAIN stream' = 1..Len(stream') /\ DOMAIN stream = 1..Len(stream) /\ DOMAIN a = 1..Len(a)
      /\ Len(a) \in Nat /\ Len(a) >= 2
  BY <1>1, <1>4, <1>6 DEF IsAnswer
<1>8. \A i \in DOMAIN stream : i \in DOMAIN stream' /\ stream'[i] = stream[i]
  BY <1>1, <1>6, <1>7
<1>9. ASSUME NEW i \in DOMAIN stream', i \notin DOMAIN stream
      PROVE  /\ i > Len(stream) /\ stream'[i].of = wire[1].cseq
             /\ IsStart(stream'[i]) => i = Len(stream) + 1
             /\ Challenges(stream'[i]) => stream'[i].challenge = nonce + 1 /\ nonce' = nonce + 1
  <2>1. i > Len(stream) /\ i - Len(stream) \in DOMAIN a /\ stream'[i] = a[i - Len(stream)]
    BY <1>1, <1>6, <1>7, <1>9
  <2>2. IsStart(stream'[i]) => i - Len(stream) = 1
    BY <1>4, <2>1 DEF IsStart, IsAnswer
  <2> QED BY <1>1, <1>4, <1>5, <1>7, <2>1, <2>2 DEF Challenges, IsAnswer
<1> QED BY <1>1, <1>5, <1>6, <1>7, <1>8, <1>9

\* Reading n pieces moves those after them up.
LEMMA ReadStream ==
  ASSUME TypeOK, NEW n \in 0..Len(stream), stream' = SubSeq(stream, n + 1, Len(stream))
  PROVE  \A i \in DOMAIN stream' :
           /\ i \in Nat \ {0} /\ i + n \in DOMAIN stream /\ stream'[i] = stream[i + n]
           /\ n >= 1 => 1 \in DOMAIN stream /\ 1 < i + n
<1>1. stream \in Seq(Piece) /\ DOMAIN stream = 1..Len(stream) /\ Len(stream) \in Nat
  BY DEF TypeOK
<1>2. stream' \in Seq(Piece) /\ \A i \in DOMAIN stream' : i + n \in DOMAIN stream /\ stream'[i] = stream[i + n]
  BY <1>1, Suffix
<1>3. \A i \in DOMAIN stream' : i \in Nat \ {0}
  BY <1>2
<1> QED BY <1>1, <1>2, <1>3

\* Taking the first request off the wire moves the others up.
LEMMA ServedWire ==
  ASSUME TypeOK, SessionsKnown, Serve
  PROVE  /\ 1 \in DOMAIN wire
         /\ \A i \in DOMAIN wire' :
              i \in Nat \ {0} /\ i + 1 \in DOMAIN wire /\ wire'[i] = wire[i + 1] /\ 1 < i + 1
<1>1. wire \in Seq(Request) /\ wire # << >> /\ 1 \in DOMAIN wire /\ wire' = Tail(wire)
  BY ServeEffect DEF TypeOK
<1> QED BY <1>1, HeadTailProperties

-----------------------------------------------------------------------------
\* Challenges and numbers.

\* What the types say of the elements of the sequences.
LEMMA ElementTypes ==
  ASSUME TypeOK
  PROVE  /\ seq \in Nat \ {0} /\ nonce \in Nat /\ counted \in Nat
         /\ auth \in Credentials /\ auth.nonce \in Nat /\ auth.nc \in Nat
         /\ stream \in Seq(Piece) /\ Len(stream) \in Nat /\ DOMAIN stream = 1..Len(stream)
         /\ wire \in Seq(Request) /\ Len(wire) \in Nat /\ DOMAIN wire = 1..Len(wire)
         /\ received \in Seq(Request) /\ Len(received) \in Nat /\ DOMAIN received = 1..Len(received)
         /\ returned \in Seq(Returned) /\ Len(returned) \in Nat /\ DOMAIN returned = 1..Len(returned)
         /\ \A i \in DOMAIN wire : wire[i] \in Request
         /\ \A i \in DOMAIN received : received[i] \in Request
         /\ \A i \in DOMAIN stream : stream[i].of \in Nat /\ stream[i].challenge \in Nat
         /\ \A i \in DOMAIN wire :
              wire[i].cseq \in Nat \ {0} /\ wire[i].nonce \in Nat /\ wire[i].nc \in Nat
         /\ \A i \in DOMAIN received : received[i].nonce \in Nat /\ received[i].nc \in Nat
         /\ \A i \in DOMAIN returned : returned[i].of \in Nat /\ returned[i].want \in Nat
<1>1. /\ seq \in Nat \ {0} /\ nonce \in Nat /\ counted \in Nat /\ auth \in Credentials
      /\ stream \in Seq(Piece) /\ wire \in Seq(Request)
      /\ received \in Seq(Request) /\ returned \in Seq(Returned)
  BY DEF TypeOK, Credentials
<1>2. /\ \A p \in Piece : p.of \in Nat /\ p.challenge \in Nat
      /\ \A r \in Request : r.cseq \in Nat \ {0} /\ r.nonce \in Nat /\ r.nc \in Nat
      /\ \A e \in Returned : e.of \in Nat /\ e.want \in Nat
      /\ \A a \in Credentials : a.nonce \in Nat /\ a.nc \in Nat
  BY DEF Piece, Request, Returned, Credentials
<1>3. /\ Len(stream) \in Nat /\ DOMAIN stream = 1..Len(stream)
      /\ Len(wire) \in Nat /\ DOMAIN wire = 1..Len(wire)
      /\ Len(received) \in Nat /\ DOMAIN received = 1..Len(received)
      /\ Len(returned) \in Nat /\ DOMAIN returned = 1..Len(returned)
  BY <1>1
<1>4. /\ \A i \in DOMAIN stream : stream[i] \in Piece
      /\ \A i \in DOMAIN wire : wire[i] \in Request
      /\ \A i \in DOMAIN received : received[i] \in Request
      /\ \A i \in DOMAIN returned : returned[i] \in Returned
  BY <1>1
<1> QED BY <1>1, <1>2, <1>3, <1>4

\* Every step keeps the challenges in order.
LEMMA ChallengesStep ==
  ASSUME TypeOK, SessionsKnown, ChallengesInOrder, [Next]_vars
  PROVE  ChallengesInOrder'
<1>1. /\ nonce \in Nat /\ auth \in Credentials /\ auth.nonce \in Nat
      /\ stream \in Seq(Piece) /\ Len(stream) \in Nat /\ DOMAIN stream = 1..Len(stream)
      /\ \A i \in DOMAIN stream : stream[i].challenge \in Nat
  BY ElementTypes
<1>2. /\ auth.nonce <= nonce
      /\ \A i \in DOMAIN stream :
           Challenges(stream[i]) => auth.nonce < stream[i].challenge /\ stream[i].challenge <= nonce
      /\ \A i, j \in DOMAIN stream :
           i < j /\ Challenges(stream[i]) /\ Challenges(stream[j])
             => stream[i].challenge < stream[j].challenge
  BY DEF ChallengesInOrder
<1>3. ASSUME NEW n \in 0..Len(stream), stream' = SubSeq(stream, n + 1, Len(stream)), nonce' = nonce,
             auth'.nonce = auth.nonce \/
             (n >= 1 /\ Challenges(stream[1]) /\ auth'.nonce = stream[1].challenge)
      PROVE  ChallengesInOrder'
  <2>1. \A i \in DOMAIN stream' :
          /\ i \in Nat \ {0} /\ i + n \in DOMAIN stream /\ stream'[i] = stream[i + n]
          /\ n >= 1 => 1 \in DOMAIN stream /\ 1 < i + n
    BY <1>3, ReadStream
  <2>2. \A i \in DOMAIN stream' :
          Challenges(stream'[i]) => auth'.nonce < stream'[i].challenge /\ stream'[i].challenge <= nonce'
    BY <1>1, <1>2, <1>3, <2>1
  <2>3. ASSUME NEW i \in DOMAIN stream', NEW j \in DOMAIN stream', i < j,
               Challenges(stream'[i]), Challenges(stream'[j])
        PROVE  stream'[i].challenge < stream'[j].challenge
    <3>1. i + n \in DOMAIN stream /\ j + n \in DOMAIN stream /\ i + n < j + n
      BY <2>1, <2>3
    <3> QED BY <1>2, <2>1, <2>3, <3>1
  <2>4. auth'.nonce <= nonce'
    BY <1>1, <1>2, <1>3
  <2> QED BY <2>2, <2>3, <2>4 DEF ChallengesInOrder
<1>4. ASSUME NEW n \in 0..Len(stream), NEW a \in Credentials, Asks(n, a) PROVE ChallengesInOrder'
  <2>1. Counted(a).nonce = a.nonce
    BY DEF Counted, Credentials
  <2> QED BY <1>3, <1>4, <2>1 DEF Asks
<1>5. ASSUME NEW n \in 0..Len(stream), NEW e, Gets(n, e) PROVE ChallengesInOrder'
  BY <1>3, <1>5 DEF Gets
<1>6. ASSUME Serve PROVE ChallengesInOrder'
  <2>1. auth' = auth
    BY <1>6 DEF Serve, clientVars
  <2>2. /\ nonce' \in {nonce, nonce + 1}
        /\ \A i \in DOMAIN stream' :
             \/ i \in DOMAIN stream /\ stream'[i] = stream[i]
             \/ /\ i > Len(stream) /\ stream'[i].of = wire[1].cseq
                /\ IsStart(stream'[i]) => i = Len(stream) + 1
                /\ Challenges(stream'[i]) => stream'[i].challenge = nonce + 1 /\ nonce' = nonce + 1
    BY <1>6, ServedStream
  <2>3. ASSUME NEW i \in DOMAIN stream', Challenges(stream'[i])
        PROVE  auth'.nonce < stream'[i].challenge /\ stream'[i].challenge <= nonce'
    BY <1>1, <1>2, <2>1, <2>2, <2>3
  <2>4. ASSUME NEW i \in DOMAIN stream', NEW j \in DOMAIN stream', i < j,
               Challenges(stream'[i]), Challenges(stream'[j])
        PROVE  stream'[i].challenge < stream'[j].challenge
    <3>1. IsStart(stream'[i]) /\ IsStart(stream'[j])
      BY <2>4 DEF Challenges
    <3>2. CASE i \notin DOMAIN stream
      BY <1>1, <2>2, <2>4, <3>1, <3>2
    <3>3. CASE i \in DOMAIN stream /\ j \in DOMAIN stream
      BY <1>1, <1>2, <2>2, <2>4, <3>3
    <3>4. CASE i \in DOMAIN stream /\ j \notin DOMAIN stream
      BY <1>1, <1>2, <2>2, <2>4, <3>4
    <3> QED BY <3>2, <3>3, <3>4
  <2>5. auth'.nonce <= nonce'
    BY <1>1, <1>2, <2>1, <2>2
  <2> QED BY <2>3, <2>4, <2>5 DEF ChallengesInOrder
<1>7. ASSUME Rests PROVE ChallengesInOrder'
  <2>1. auth' = auth /\ nonce <= nonce' /\ nonce' \in Nat
    BY <1>1, <1>7 DEF Rests
  <2>2. \A i \in DOMAIN stream' : ~IsStart(stream'[i]) \/ (i \in DOMAIN stream /\ stream'[i] = stream[i])
    BY <1>1, <1>7, FrameIsPiece, Appended DEF Rests, IsStart, Frame
  <2>3. \A i \in DOMAIN stream' :
          Challenges(stream'[i]) => i \in DOMAIN stream /\ stream'[i] = stream[i]
    BY <2>2 DEF Challenges
  <2> QED BY <1>1, <1>2, <2>1, <2>3 DEF ChallengesInOrder
<1> QED BY <1>4, <1>5, <1>6, <1>7, NextIsEffect

-----------------------------------------------------------------------------
\* Every step keeps the numbers in order, and what is returned.
LEMMA NumbersStep ==
  ASSUME TypeOK, SessionsKnown, NumbersInOrder, ResponsesInOrder, [Next]_vars
  PROVE  NumbersInOrder' /\ ResponsesInOrder'
<1>1. /\ seq \in Nat \ {0} /\ stream \in Seq(Piece) /\ wire \in Seq(Request)
      /\ returned \in Seq(Returned)
      /\ Len(stream) \in Nat /\ DOMAIN stream = 1..Len(stream)
      /\ Len(wire) \in Nat /\ DOMAIN wire = 1..Len(wire)
      /\ Len(returned) \in Nat /\ DOMAIN returned = 1..Len(returned)
      /\ \A i \in DOMAIN stream : stream[i].of \in Nat
      /\ \A i \in DOMAIN wire : wire[i].cseq \in Nat \ {0}
      /\ \A i \in DOMAIN returned : returned[i].of \in Nat /\ returned[i].want \in Nat
  BY ElementTypes
<1>2. /\ \A i, j \in DOMAIN wire : i < j => wire[i].cseq < wire[j].cseq
      /\ \A i \in DOMAIN wire : wire[i].cseq < seq
      /\ \A i, j \in DOMAIN stream :
           i < j /\ IsStart(stream[i]) /\ IsStart(stream[j]) => stream[i].of < stream[j].of
      /\ \A i \in DOMAIN stream : IsStart(stream[i]) =>
           0 < stream[i].of /\ stream[i].of < seq /\ \A j \in DOMAIN wire : stream[i].of < wire[j].cseq
      /\ \A i \in DOMAIN returned :
           /\ returned[i].of < seq
           /\ \A j \in DOMAIN wire : returned[i].of < wire[j].cseq
           /\ \A j \in DOMAIN stream : IsStart(stream[j]) => returned[i].of < stream[j].of
  BY DEF NumbersInOrder
<1>3. /\ \A i, j \in DOMAIN returned :
           i < j /\ returned[i].of # 0 /\ returned[j].of # 0 => returned[i].of < returned[j].of
      /\ \A i \in DOMAIN returned : returned[i].of <= returned[i].want
  BY DEF ResponsesInOrder
<1>4. ASSUME NEW n \in 0..Len(stream), NEW a \in Credentials, Asks(n, a)
      PROVE  NumbersInOrder' /\ ResponsesInOrder'
  <2>1. \A i \in DOMAIN stream' :
          /\ i \in Nat \ {0} /\ i + n \in DOMAIN stream /\ stream'[i] = stream[i + n]
          /\ n >= 1 => 1 \in DOMAIN stream /\ 1 < i + n
    BY <1>4, ReadStream DEF Asks
  <2>2. seq' = seq + 1
    BY <1>4 DEF Asks
  <2>3. \A i \in DOMAIN wire' : \/ i \in DOMAIN wire /\ wire'[i] = wire[i]
                                \/ i = Len(wire) + 1 /\ wire'[i].cseq = seq
    <3>1. PICK m \in Methods : wire' \in {wire, Append(wire, Built(seq, m, a))}
      BY <1>4 DEF Asks
    <3>2. Built(seq, m, a) \in Request /\ Built(seq, m, a).cseq = seq
      BY BuiltShape DEF Credentials
    <3>3. \A i \in DOMAIN wire' : \/ i \in DOMAIN wire /\ wire'[i] = wire[i]
                                  \/ i = Len(wire) + 1 /\ wire'[i] = Built(seq, m, a)
      BY <1>1, <3>1, <3>2, PerhapsAppended
    <3> QED BY <3>2, <3>3
  <2>4. \A i \in DOMAIN returned' :
          \/ i \in DOMAIN returned /\ returned'[i] = returned[i]
          \/ i = Len(returned) + 1 /\ returned'[i].of = 0 /\ returned'[i].want = seq
    <3>1. PICK m \in Methods : returned' \in {returned, Append(returned, Failure(seq, m))}
      BY <1>4 DEF Asks
    <3>2. Failure(seq, m) \in Returned /\ Failure(seq, m).of = 0 /\ Failure(seq, m).want = seq
      BY <1>1, FailureIsReturned DEF Failure
    <3> QED BY <1>1, <3>1, <3>2, Appended
  <2>5. \A i, j \in DOMAIN wire' : i < j => wire'[i].cseq < wire'[j].cseq
    BY <1>1, <1>2, <2>2, <2>3
  <2>6. \A i \in DOMAIN wire' : wire'[i].cseq < seq'
    BY <1>1, <1>2, <2>2, <2>3
  <2>7. \A i, j \in DOMAIN stream' :
          i < j /\ IsStart(stream'[i]) /\ IsStart(stream'[j]) => stream'[i].of < stream'[j].of
    <3> SUFFICES ASSUME NEW i \in DOMAIN stream', NEW j \in DOMAIN stream', i < j,
                        IsStart(stream'[i]), IsStart(stream'[j])
                 PROVE  stream'[i].of < stream'[j].of
      OBVIOUS
    <3>1. i + n \in DOMAIN stream /\ j + n \in DOMAIN stream /\ i + n < j + n
      BY <2>1
    <3> QED BY <1>2, <2>1, <3>1
  <2>8. \A i \in DOMAIN stream' : IsStart(stream'[i]) =>
          0 < stream'[i].of /\ stream'[i].of < seq' /\ \A j \in DOMAIN wire' : stream'[i].of < wire'[j].cseq
    <3> SUFFICES ASSUME NEW i \in DOMAIN stream', IsStart(stream'[i])
                 PROVE  /\ 0 < stream'[i].of /\ stream'[i].of < seq'
                        /\ \A j \in DOMAIN wire' : stream'[i].of < wire'[j].cseq
      OBVIOUS
    <3>1. /\ stream'[i].of \in Nat /\ 0 < stream'[i].of /\ stream'[i].of < seq
          /\ \A j \in DOMAIN wire : stream'[i].of < wire[j].cseq
      BY <1>1, <1>2, <2>1
    <3> QED BY <1>1, <2>2, <2>3, <3>1
  <2>9. \A i \in DOMAIN returned' : returned'[i].of < seq'
    BY <1>1, <1>2, <2>2, <2>4
  <2>10. \A i \in DOMAIN returned', j \in DOMAIN wire' : returned'[i].of < wire'[j].cseq
    <3> SUFFICES ASSUME NEW i \in DOMAIN returned', NEW j \in DOMAIN wire'
                 PROVE  returned'[i].of < wire'[j].cseq
      OBVIOUS
    <3>1. wire'[j].cseq = seq \/ (j \in DOMAIN wire /\ wire'[j] = wire[j])
      BY <2>3
    <3>2. returned'[i].of = 0 \/ (i \in DOMAIN returned /\ returned'[i] = returned[i])
      BY <2>4
    <3> QED BY <1>1, <1>2, <3>1, <3>2
  <2>11. \A i \in DOMAIN returned', j \in DOMAIN stream' :
           IsStart(stream'[j]) => returned'[i].of < stream'[j].of
    BY <1>1, <1>2, <2>1, <2>4
  <2>12. NumbersInOrder'
    BY <2>5, <2>6, <2>7, <2>8, <2>9, <2>10, <2>11 DEF NumbersInOrder
  <2>13. ResponsesInOrder'
    <3>1. \A i \in DOMAIN returned' : returned'[i].of <= returned'[i].want
      BY <1>1, <1>2, <1>3, <2>4
    <3>2. ASSUME NEW i \in DOMAIN returned', NEW j \in DOMAIN returned', i < j,
                 returned'[i].of # 0, returned'[j].of # 0
          PROVE  returned'[i].of < returned'[j].of
      BY <1>1, <1>3, <2>4, <3>2
    <3> QED BY <3>1, <3>2 DEF ResponsesInOrder
  <2> QED BY <2>12, <2>13
<1>5. ASSUME NEW n \in 0..Len(stream), NEW e \in Returned, Gets(n, e)
      PROVE  NumbersInOrder' /\ ResponsesInOrder'
  <2>1. \A i \in DOMAIN stream' :
          /\ i \in Nat \ {0} /\ i + n \in DOMAIN stream /\ stream'[i] = stream[i + n]
          /\ n >= 1 => 1 \in DOMAIN stream /\ 1 < i + n
    BY <1>5, ReadStream DEF Gets
  <2>2. seq' = seq
    BY <1>5 DEF Gets
  <2>3. wire' = wire
    BY <1>5 DEF Gets
  <2>4. \A i \in DOMAIN returned' : \/ i \in DOMAIN returned /\ returned'[i] = returned[i]
                                    \/ i = Len(returned) + 1 /\ returned'[i] = e
    BY <1>1, <1>5, PerhapsAppended DEF Gets
  <2>14. /\ e.of \in Nat /\ e.of < seq /\ e.of <= e.want
         /\ \A j \in DOMAIN wire : e.of < wire[j].cseq
         /\ \A j \in DOMAIN stream' : IsStart(stream'[j]) => e.of < stream'[j].of
         /\ e.of # 0 => \A i \in DOMAIN returned : returned[i].of < e.of
    <3>1. e.want = seq - 1
      BY <1>5 DEF Gets
    <3>2. CASE e.of = 0
      BY <1>1, <1>2, <2>1, <3>1, <3>2
    <3>3. CASE n >= 1 /\ IsStart(stream[1]) /\ e.of = stream[1].of
      <4>1. 1 \in DOMAIN stream
        BY <1>1, <3>3
      <4>2. e.of < seq /\ e.of \in Nat /\ \A j \in DOMAIN wire : e.of < wire[j].cseq
        BY <1>1, <1>2, <3>3, <4>1
      <4>3. \A j \in DOMAIN stream' : IsStart(stream'[j]) => e.of < stream'[j].of
        BY <1>2, <2>1, <3>3, <4>1
      <4>4. \A i \in DOMAIN returned : returned[i].of < e.of
        BY <1>2, <3>3, <4>1
      <4> QED BY <1>1, <3>1, <4>2, <4>3, <4>4
    <3> QED BY <1>5, <3>2, <3>3 DEF Gets
  <2>5. \A i, j \in DOMAIN wire' : i < j => wire'[i].cseq < wire'[j].cseq
    BY <1>1, <1>2, <2>2, <2>3
  <2>6. \A i \in DOMAIN wire' : wire'[i].cseq < seq'
    BY <1>1, <1>2, <2>2, <2>3
  <2>7. \A i, j \in DOMAIN stream' :
          i < j /\ IsStart(stream'[i]) /\ IsStart(stream'[j]) => stream'[i].of < stream'[j].of
    <3> SUFFICES ASSUME NEW i \in DOMAIN stream', NEW j \in DOMAIN stream', i < j,
                        IsStart(stream'[i]), IsStart(stream'[j])
                 PROVE  stream'[i].of < stream'[j].of
      OBVIOUS
    <3>1. i + n \in DOMAIN stream /\ j + n \in DOMAIN stream /\ i + n < j + n
      BY <2>1
    <3> QED BY <1>2, <2>1, <3>1
  <2>8. \A i \in DOMAIN stream' : IsStart(stream'[i]) =>
          0 < stream'[i].of /\ stream'[i].of < seq' /\ \A j \in DOMAIN wire' : stream'[i].of < wire'[j].cseq
    BY <1>1, <1>2, <2>1, <2>2, <2>3
  <2>9. \A i \in DOMAIN returned' : returned'[i].of < seq'
    BY <1>1, <1>2, <2>2, <2>4, <2>14
  <2>10. \A i \in DOMAIN returned', j \in DOMAIN wire' : returned'[i].of < wire'[j].cseq
    BY <1>1, <1>2, <2>3, <2>4, <2>14
  <2>11. \A i \in DOMAIN returned', j \in DOMAIN stream' :
           IsStart(stream'[j]) => returned'[i].of < stream'[j].of
    BY <1>1, <1>2, <2>1, <2>4, <2>14
  <2>12. NumbersInOrder'
    BY <2>5, <2>6, <2>7, <2>8, <2>9, <2>10, <2>11 DEF NumbersInOrder
  <2>13. ResponsesInOrder'
    <3>1. \A i \in DOMAIN returned' : returned'[i].of <= returned'[i].want
      BY <1>1, <1>3, <2>4, <2>14
    <3>2. ASSUME NEW i \in DOMAIN returned', NEW j \in DOMAIN returned', i < j,
                 returned'[i].of # 0, returned'[j].of # 0
          PROVE  returned'[i].of < returned'[j].of
      BY <1>1, <1>3, <2>4, <2>14, <3>2
    <3> QED BY <3>1, <3>2 DEF ResponsesInOrder
  <2> QED BY <2>12, <2>13
<1>6. ASSUME Serve PROVE NumbersInOrder' /\ ResponsesInOrder'
  <2>1. \A i \in DOMAIN stream' :
          \/ i \in DOMAIN stream /\ stream'[i] = stream[i]
          \/ /\ i > Len(stream) /\ stream'[i].of = wire[1].cseq
             /\ IsStart(stream'[i]) => i = Len(stream) + 1
    BY <1>6, ServedStream
  <2>2. seq' = seq
    BY <1>6 DEF Serve, clientVars
  <2>3. /\ 1 \in DOMAIN wire
        /\ \A i \in DOMAIN wire' : i \in Nat \ {0} /\ i + 1 \in DOMAIN wire /\ wire'[i] = wire[i + 1] /\ 1 < i + 1
    BY <1>6, ServedWire
  <2>4. returned' = returned
    BY <1>6 DEF Serve
  <2>15. \A i \in DOMAIN stream' : i \in Nat
    BY <1>6, ServedStream
  <2>5. \A i, j \in DOMAIN wire' : i < j => wire'[i].cseq < wire'[j].cseq
    BY <1>1, <1>2, <2>2, <2>3
  <2>6. \A i \in DOMAIN wire' : wire'[i].cseq < seq'
    BY <1>1, <1>2, <2>2, <2>3
  <2>7. \A i, j \in DOMAIN stream' :
          i < j /\ IsStart(stream'[i]) /\ IsStart(stream'[j]) => stream'[i].of < stream'[j].of
    <3> SUFFICES ASSUME NEW i \in DOMAIN stream', NEW j \in DOMAIN stream', i < j,
                        IsStart(stream'[i]), IsStart(stream'[j])
                 PROVE  stream'[i].of < stream'[j].of
      OBVIOUS
    <3>1. CASE i \notin DOMAIN stream
      BY <1>1, <2>1, <2>15, <3>1
    <3>2. CASE i \in DOMAIN stream /\ j \in DOMAIN stream
      BY <1>1, <1>2, <2>1, <3>2
    <3>3. CASE i \in DOMAIN stream /\ j \notin DOMAIN stream
      BY <1>1, <1>2, <2>1, <2>3, <3>3
    <3> QED BY <3>1, <3>2, <3>3
  <2>8. \A i \in DOMAIN stream' : IsStart(stream'[i]) =>
          0 < stream'[i].of /\ stream'[i].of < seq' /\ \A j \in DOMAIN wire' : stream'[i].of < wire'[j].cseq
    BY <1>1, <1>2, <2>1, <2>2, <2>3
  <2>9. \A i \in DOMAIN returned' : returned'[i].of < seq'
    BY <1>1, <1>2, <2>2, <2>4
  <2>10. \A i \in DOMAIN returned', j \in DOMAIN wire' : returned'[i].of < wire'[j].cseq
    BY <1>1, <1>2, <2>3, <2>4
  <2>11. \A i \in DOMAIN returned', j \in DOMAIN stream' :
           IsStart(stream'[j]) => returned'[i].of < stream'[j].of
    BY <1>1, <1>2, <2>1, <2>3, <2>4
  <2>12. NumbersInOrder'
    BY <2>5, <2>6, <2>7, <2>8, <2>9, <2>10, <2>11 DEF NumbersInOrder
  <2>13. ResponsesInOrder'
    <3>1. \A i \in DOMAIN returned' : returned'[i].of <= returned'[i].want
      BY <1>1, <1>2, <1>3, <2>4
    <3>2. ASSUME NEW i \in DOMAIN returned', NEW j \in DOMAIN returned', i < j,
                 returned'[i].of # 0, returned'[j].of # 0
          PROVE  returned'[i].of < returned'[j].of
      BY <1>1, <1>3, <2>4, <3>2
    <3> QED BY <3>1, <3>2 DEF ResponsesInOrder
  <2> QED BY <2>12, <2>13
<1>7. ASSUME Rests PROVE NumbersInOrder' /\ ResponsesInOrder'
  <2>1. \A i \in DOMAIN stream' : ~IsStart(stream'[i]) \/ (i \in DOMAIN stream /\ stream'[i] = stream[i])
    BY <1>1, <1>7, FrameIsPiece, Appended DEF Rests, IsStart, Frame
  <2>2. seq' = seq
    BY <1>7 DEF Rests
  <2>3. wire' = wire
    BY <1>7 DEF Rests
  <2>4. returned' = returned
    BY <1>7 DEF Rests
  <2>5. \A i, j \in DOMAIN wire' : i < j => wire'[i].cseq < wire'[j].cseq
    BY <1>1, <1>2, <2>2, <2>3
  <2>6. \A i \in DOMAIN wire' : wire'[i].cseq < seq'
    BY <1>1, <1>2, <2>2, <2>3
  <2>7. \A i, j \in DOMAIN stream' :
          i < j /\ IsStart(stream'[i]) /\ IsStart(stream'[j]) => stream'[i].of < stream'[j].of
    BY <1>1, <1>2, <2>1
  <2>8. \A i \in DOMAIN stream' : IsStart(stream'[i]) =>
          0 < stream'[i].of /\ stream'[i].of < seq' /\ \A j \in DOMAIN wire' : stream'[i].of < wire'[j].cseq
    BY <1>1, <1>2, <2>1, <2>2, <2>3
  <2>9. \A i \in DOMAIN returned' : returned'[i].of < seq'
    BY <1>1, <1>2, <2>2, <2>4
  <2>10. \A i \in DOMAIN returned', j \in DOMAIN wire' : returned'[i].of < wire'[j].cseq
    BY <1>1, <1>2, <2>3, <2>4
  <2>11. \A i \in DOMAIN returned', j \in DOMAIN stream' :
           IsStart(stream'[j]) => returned'[i].of < stream'[j].of
    BY <1>1, <1>2, <2>1, <2>4
  <2>12. NumbersInOrder'
    BY <2>5, <2>6, <2>7, <2>8, <2>9, <2>10, <2>11 DEF NumbersInOrder
  <2>13. ResponsesInOrder'
    <3>1. \A i \in DOMAIN returned' : returned'[i].of <= returned'[i].want
      BY <1>1, <1>2, <1>3, <2>4
    <3>2. ASSUME NEW i \in DOMAIN returned', NEW j \in DOMAIN returned', i < j,
                 returned'[i].of # 0, returned'[j].of # 0
          PROVE  returned'[i].of < returned'[j].of
      BY <1>1, <1>3, <2>4, <3>2
    <3> QED BY <3>1, <3>2 DEF ResponsesInOrder
  <2> QED BY <2>12, <2>13
<1> QED BY <1>4, <1>5, <1>6, <1>7, NextIsEffect

-----------------------------------------------------------------------------
\* Nonce counts.

\* A request follows on all that the client has come to, and the client then has come to it.
LEMMA RequestFollows ==
  ASSUME TypeOK, ChallengesInOrder, CountsInOrder,
         NEW n \in 0..Len(stream), NEW a \in Credentials, Asks(n, a), NEW m \in Methods
  PROVE  /\ Reached(Built(seq, m, a), auth')
         /\ \A r \in Request : Reached(r, auth) => Before(r, Built(seq, m, a)) /\ Reached(r, auth')
         /\ HasCredentials \/ auth'.nonce = 0
<1>1. /\ auth.nonce \in Nat /\ auth.nc \in Nat /\ a.nonce \in Nat /\ a.nc \in Nat
      /\ auth' = Counted(a) /\ Counted(a).nonce = a.nonce /\ Counted(a).nc \in Nat
      /\ HasCredentials /\ a.nonce # 0 => Counted(a).nc = a.nc + 1
      /\ ~(HasCredentials /\ a.nonce # 0) => Counted(a).nc = a.nc
  BY ElementTypes DEF Asks, Counted, Credentials
<1>2. /\ Built(seq, m, a).nonce = IF HasCredentials THEN a.nonce ELSE 0
      /\ Built(seq, m, a).nc = IF HasCredentials THEN Counted(a).nc ELSE 0
  BY BuiltShape DEF Credentials
<1>3. a = auth \/ (HasCredentials /\ auth.nonce < a.nonce)
  <2>1. CASE n >= 1 /\ HasCredentials /\ Challenges(stream[1]) /\ a.nonce = stream[1].challenge
    <3>1. 1 \in DOMAIN stream
      BY <2>1, ElementTypes
    <3> QED BY <2>1, <3>1 DEF ChallengesInOrder
  <2> QED BY <2>1 DEF Asks
<1>4. HasCredentials \/ auth.nonce = 0
  BY DEF CountsInOrder
<1>5. \A r \in Request : r.nonce \in Nat /\ r.nc \in Nat
  BY DEF Request
<1>6. ASSUME NEW r \in Request, Reached(r, auth)
      PROVE  Before(r, Built(seq, m, a)) /\ Reached(r, auth')
  <2>1. r.nonce < auth.nonce \/ (r.nonce = auth.nonce /\ r.nc <= auth.nc)
    BY <1>6 DEF Reached
  <2>2. CASE a = auth
    BY <1>1, <1>2, <1>4, <1>5, <2>1, <2>2 DEF Before, Reached
  <2>3. CASE HasCredentials /\ auth.nonce < a.nonce
    BY <1>1, <1>2, <1>5, <2>1, <2>3 DEF Before, Reached
  <2> QED BY <1>3, <2>2, <2>3
<1>7. Reached(Built(seq, m, a), auth') /\ (HasCredentials \/ auth'.nonce = 0)
  BY <1>1, <1>2, <1>3, <1>4 DEF Reached
<1> QED BY <1>6, <1>7

\* Every step keeps nonces and counts in order.
LEMMA CountsStep ==
  ASSUME TypeOK, SessionsKnown, ChallengesInOrder, CountsInOrder, [Next]_vars
  PROVE  CountsInOrder'
<1>1. /\ wire \in Seq(Request) /\ DOMAIN wire = 1..Len(wire) /\ Len(wire) \in Nat
      /\ received \in Seq(Request) /\ DOMAIN received = 1..Len(received) /\ Len(received) \in Nat
      /\ \A i \in DOMAIN wire : wire[i] \in Request
      /\ \A i \in DOMAIN received : received[i] \in Request
  BY ElementTypes
<1>2. /\ HasCredentials \/ auth.nonce = 0
      /\ \A i, j \in DOMAIN wire : i < j => Before(wire[i], wire[j])
      /\ \A i, j \in DOMAIN received : i < j => Before(received[i], received[j])
      /\ \A i \in DOMAIN received, j \in DOMAIN wire : Before(received[i], wire[j])
      /\ \A i \in DOMAIN wire : Reached(wire[i], auth)
      /\ \A i \in DOMAIN received : Reached(received[i], auth)
  BY DEF CountsInOrder
<1>3. ASSUME NEW n \in 0..Len(stream), NEW a \in Credentials, Asks(n, a) PROVE CountsInOrder'
  <2>1. PICK m \in Methods : wire' \in {wire, Append(wire, Built(seq, m, a))}
    BY <1>3 DEF Asks
  <2> DEFINE r == Built(seq, m, a)
  <2>2. /\ Reached(r, auth')
        /\ HasCredentials \/ auth'.nonce = 0
        /\ \A q \in Request : Reached(q, auth) => Before(q, r) /\ Reached(q, auth')
    BY <1>3, RequestFollows
  <2>3. r \in Request
    BY BuiltShape DEF Credentials
  <2>4. received' = received /\ wire' \in {wire, Append(wire, r)}
    BY <1>3, <2>1 DEF Asks
  <2> HIDE DEF r
  <2>5. \A i \in DOMAIN wire' : \/ i \in DOMAIN wire /\ wire'[i] = wire[i]
                                \/ i = Len(wire) + 1 /\ i \notin DOMAIN wire /\ wire'[i] = r
    BY <1>1, <2>3, <2>4, PerhapsAppended
  <2>6. \A i, j \in DOMAIN wire' : i < j => Before(wire'[i], wire'[j])
    <3> SUFFICES ASSUME NEW i \in DOMAIN wire', NEW j \in DOMAIN wire', i < j
                 PROVE  Before(wire'[i], wire'[j])
      OBVIOUS
    <3>1. i \in DOMAIN wire /\ wire'[i] = wire[i]
      BY <1>1, <2>5
    <3>2. wire[i] \in Request /\ Reached(wire[i], auth)
      BY <1>1, <1>2, <3>1
    <3> QED BY <1>2, <2>2, <2>5, <3>1, <3>2
  <2>7. \A i \in DOMAIN received', j \in DOMAIN wire' : Before(received'[i], wire'[j])
    BY <1>1, <1>2, <2>2, <2>4, <2>5
  <2>8. \A i \in DOMAIN wire' : Reached(wire'[i], auth')
    BY <1>1, <1>2, <2>2, <2>5
  <2>9. \A i \in DOMAIN received' : Reached(received'[i], auth')
    BY <1>1, <1>2, <2>2, <2>4
  <2>10. HasCredentials \/ auth'.nonce = 0
    BY <2>2
  <2> QED BY <2>4, <2>6, <2>7, <2>8, <2>9, <2>10 DEF CountsInOrder
<1>4. ASSUME Serve PROVE CountsInOrder'
  <2>1. auth' = auth
    BY <1>4 DEF Serve, clientVars
  <2>2. /\ 1 \in DOMAIN wire
        /\ \A i \in DOMAIN wire' :
             i \in Nat \ {0} /\ i + 1 \in DOMAIN wire /\ wire'[i] = wire[i + 1] /\ 1 < i + 1
    BY <1>4, ServedWire
  <2>3. received' = Append(received, wire[1]) /\ wire[1] \in Request
    BY <1>4, ServeEffect
  <2>4. \A i \in DOMAIN received' :
          \/ i \in DOMAIN received /\ received'[i] = received[i]
          \/ i = Len(received) + 1 /\ i \notin DOMAIN received /\ received'[i] = wire[1]
    BY <1>1, <2>3, PerhapsAppended
  <2>5. \A i, j \in DOMAIN wire' : i < j => Before(wire'[i], wire'[j])
    <3> SUFFICES ASSUME NEW i \in DOMAIN wire', NEW j \in DOMAIN wire', i < j
                 PROVE  Before(wire'[i], wire'[j])
      OBVIOUS
    <3>1. i + 1 \in DOMAIN wire /\ j + 1 \in DOMAIN wire /\ i + 1 < j + 1
      BY <2>2
    <3> QED BY <1>2, <2>2, <3>1
  <2>6. \A i, j \in DOMAIN received' : i < j => Before(received'[i], received'[j])
    <3> SUFFICES ASSUME NEW i \in DOMAIN received', NEW j \in DOMAIN received', i < j
                 PROVE  Before(received'[i], received'[j])
      OBVIOUS
    <3>1. i \in DOMAIN received /\ received'[i] = received[i]
      BY <1>1, <2>4
    <3> QED BY <1>2, <2>2, <2>4, <3>1
  <2>7. \A i \in DOMAIN received', j \in DOMAIN wire' : Before(received'[i], wire'[j])
    BY <1>2, <2>2, <2>4
  <2>8. /\ \A i \in DOMAIN wire' : Reached(wire'[i], auth')
        /\ \A i \in DOMAIN received' : Reached(received'[i], auth')
    BY <1>2, <2>1, <2>2, <2>4
  <2> QED BY <1>2, <2>1, <2>5, <2>6, <2>7, <2>8 DEF CountsInOrder
<1>5. ASSUME UNCHANGED <<wire, received, auth>> PROVE CountsInOrder'
  BY <1>5 DEF CountsInOrder
<1>6. \A n \in 0..Len(stream), e \in Returned : Gets(n, e) => UNCHANGED <<wire, received, auth>>
  BY DEF Gets
<1>7. Rests => UNCHANGED <<wire, received, auth>>
  BY DEF Rests
<1> QED BY <1>3, <1>4, <1>5, <1>6, <1>7, NextIsEffect

\* In that order no nonce comes with a count twice.
LEMMA CountsAreFresh == TypeOK /\ CountsInOrder => NonceCountsFresh
<1> SUFFICES ASSUME TypeOK, CountsInOrder, NEW i \in DOMAIN received, NEW j \in DOMAIN received,
                    i < j, received[i].nonce = received[j].nonce, received[i].nonce # 0
             PROVE  received[i].nc < received[j].nc
  BY DEF NonceCountsFresh
<1>1. Before(received[i], received[j]) /\ received[i].nonce \in Nat /\ received[j].nonce \in Nat
  BY ElementTypes DEF CountsInOrder
<1> QED BY <1>1 DEF Before

-----------------------------------------------------------------------------
\* What the calls returned.

\* An entry of returned that is in step is the whole response to its own last request.
Good(e) ==
  e.inStep =>
    /\ e.of = e.want
    /\ \A k \in DOMAIN e.body : e.body[k].of = e.want
    /\ Len(e.body) = e.length
    /\ HasCredentials => e.status # 401

\* After a call in step nothing is on the wire, and after a Teardown there is no session.
Settled(e, requests, sessions) ==
  e.inStep => requests = << >> /\ (e.method = "TEARDOWN" /\ e.status = 200 => sessions = {})

History ==
  /\ \A i \in DOMAIN returned : Good(returned[i])
  /\ returned # << >> /\ phase = "idle" => Settled(returned[Len(returned)], wire, live)

\* This is what the three properties of calls in step say.
LEMMA HistoryMeans ==
  History => InStepAnswersOwnRequest /\ OneRetryIsEnough /\ TeardownLeavesNothing
BY DEF History, Good, Settled, InStepAnswersOwnRequest, OneRetryIsEnough, TeardownLeavesNothing

\* A call that returns a good entry keeps the history good.
LEMMA HistoryGrows ==
  ASSUME TypeOK, History, NEW e \in Returned, returned' = Append(returned, e),
         Good(e), Settled(e, wire', live')
  PROVE  History'
<1>1. returned \in Seq(Returned)
  BY DEF TypeOK
<1>2. \A i \in DOMAIN returned' : Good(returned'[i])
  <2>1. \A i \in DOMAIN returned' : \/ i \in DOMAIN returned /\ returned'[i] = returned[i]
                                    \/ returned'[i] = e
    BY <1>1, PerhapsAppended
  <2> QED BY <2>1 DEF History
<1>3. returned'[Len(returned')] = e
  BY <1>1
<1> QED BY <1>2, <1>3 DEF History, Good, Settled

\* A step that returns nothing keeps it good.
LEMMA HistoryKept ==
  ASSUME History, returned' = returned,
         phase' # "idle" \/ UNCHANGED <<phase, wire, live>>
  PROVE  History'
BY DEF History, Good, Settled

\* A failure is never in step.
LEMMA FailureIsGood ==
  ASSUME NEW want, NEW m
  PROVE  Good(Failure(want, m)) /\ Settled(Failure(want, m), wire', live')
BY DEF Good, Settled, Failure

\* What a Read that ends a call in step finds.
LEMMA EndedInStep ==
  ASSUME TypeOK, InStepShape, phase # "idle", inStep, NEW n \in 1..Len(stream), IsResponse(Chunk(n))
  PROVE  /\ Answered /\ n = 2 + stream[1].length /\ Parses(Chunk(n))
         /\ \A i \in DOMAIN stream : i > n => stream[i] = Frame
<1>1. /\ stream \in Seq(Piece) /\ Len(stream) \in Nat /\ stream[1] \in Piece /\ stream # << >>
      /\ DOMAIN stream = 1..Len(stream)
  BY DEF TypeOK
<1>2. Chunk(n) \in Seq(Piece) /\ Len(Chunk(n)) = n /\ Chunk(n)[1] = stream[1]
  BY <1>1, Prefix DEF Chunk
<1>3. Parses(Chunk(n)) /\ stream[1].part = "start" /\ n = 2 + stream[1].length
  BY <1>2 DEF IsResponse, Parses
<1>4. stream[1] # Frame
  BY <1>3 DEF Frame
<1>5. Answered
  BY <1>1, <1>4 DEF InStepShape, Asked
<1>6. \A i \in DOMAIN stream : i > n => stream[i] = Frame
  BY <1>1, <1>3, <1>5 DEF Answered, Piece
<1> QED BY <1>3, <1>5, <1>6

\* The body of a whole response is all that follows its headers.
LEMMA WholeBody ==
  ASSUME TypeOK, NEW n \in 1..Len(stream), n = 2 + stream[1].length, Parses(Chunk(n))
  PROVE  /\ Len(Body(Chunk(n))) = stream[1].length
         /\ \A k \in DOMAIN Body(Chunk(n)) : k + 2 \in 1..n /\ Body(Chunk(n))[k] = stream[k + 2]
<1>1. stream \in Seq(Piece) /\ Len(stream) \in Nat /\ stream[1] \in Piece
  BY DEF TypeOK
<1>2. /\ Chunk(n) \in Seq(Piece) /\ Len(Chunk(n)) = n
      /\ \A i \in 1..n : Chunk(n)[i] = stream[i]
  BY <1>1, Prefix DEF Chunk
<1>3. stream[1].length \in 0..2 /\ n \in Nat
  BY <1>1 DEF Piece
<1> DEFINE b == SubSeq(Chunk(n), 3, n)
<1>4. Body(Chunk(n)) = b
  BY <1>2, <1>3 DEF Body
<1>5. /\ b \in Seq(Piece) /\ Len(b) = IF 3 <= n THEN n - 3 + 1 ELSE 0
      /\ \A k \in 1..(n - 3 + 1) : b[k] = Chunk(n)[3 + k - 1]
  <2>1. 3 \in Int /\ n \in Int /\ \A i \in 3..n : Chunk(n)[i] \in Piece
    BY <1>1, <1>2, <1>3
  <2> QED BY <2>1, SubSeqProperties
<1> HIDE DEF b
<1>6. Len(b) = n - 2 /\ DOMAIN b = 1..(n - 2)
  BY <1>3, <1>5
<1>7. \A k \in DOMAIN b : k + 2 \in 1..n /\ b[k] = stream[k + 2]
  <2> SUFFICES ASSUME NEW k \in DOMAIN b PROVE k + 2 \in 1..n /\ b[k] = stream[k + 2]
    OBVIOUS
  <2>3. k \in 1..(n - 2) /\ n \in Nat
    BY <1>3, <1>6
  <2>1. k \in 1..(n - 3 + 1) /\ 3 + k - 1 = k + 2 /\ k + 2 \in 1..n
    BY <2>3
  <2>2. b[k] = Chunk(n)[k + 2]
    BY <1>5, <2>1
  <2> QED BY <1>2, <2>1, <2>2
<1>8. n - 2 = stream[1].length
  BY <1>3
<1> QED BY <1>4, <1>6, <1>7, <1>8

\* What a call that parsed a response returns is good.
LEMMA ReplyIsGood ==
  ASSUME TypeOK, InStepShape, phase # "idle", NEW n \in 1..Len(stream), Ended(n),
         Parses(Chunk(n)), method' = method, live' = live
  PROVE  LET e == Reply(stream[1], Body(Chunk(n)), method, inStep') IN Good(e) /\ Settled(e, wire', live')
<1> DEFINE e == Reply(stream[1], Body(Chunk(n)), method, inStep')
<1>1. CASE ~inStep'
  BY <1>1 DEF Good, Settled, Reply
<1>2. CASE inStep'
  <2>1. inStep /\ IsResponse(Chunk(n))
    BY <1>2 DEF Ended
  <2>2. Answered /\ n = 2 + stream[1].length
    BY <2>1, EndedInStep
  <2>3. /\ Len(Body(Chunk(n))) = stream[1].length
        /\ \A k \in DOMAIN Body(Chunk(n)) : k + 2 \in 1..n /\ Body(Chunk(n))[k] = stream[k + 2]
    BY <2>2, WholeBody
  <2>4. /\ stream \in Seq(Piece) /\ Len(stream) \in Nat /\ DOMAIN stream = 1..Len(stream)
        /\ stream[1].length \in 0..2 /\ stream[1].status \in Statuses \cup {0}
    <3>1. stream \in Seq(Piece) /\ stream[1] \in Piece
      BY DEF TypeOK
    <3> QED BY <3>1 DEF Piece
  <2>5. \A i \in 1..n : stream[i].of = seq - 1
    BY <2>2, <2>4 DEF Answered
  <2>6. \A k \in DOMAIN Body(Chunk(n)) : Body(Chunk(n))[k].of = seq - 1
    BY <2>3, <2>5
  <2>7. stream[1].of = seq - 1
    BY <2>4, <2>5
  <2>8. HasCredentials => stream[1].status # 401
    BY <2>2 DEF Ended, Answered, Retries
  <2>9. /\ e.inStep = inStep' /\ e.of = seq - 1 /\ e.want = seq - 1 /\ e.status = stream[1].status
        /\ e.method = method
        /\ e.length = IF stream[1].status >= 400 THEN 0 ELSE stream[1].length
        /\ e.body = IF stream[1].status >= 400 THEN << >> ELSE Body(Chunk(n))
    BY <2>7 DEF Reply
  <2>10. wire' = << >> /\ (method = "TEARDOWN" /\ stream[1].status = 200 => live' = {})
    BY <2>2 DEF Answered, Ended
  <2> HIDE DEF e
  <2>11. (\A k \in DOMAIN e.body : e.body[k].of = e.want) /\ Len(e.body) = e.length
    BY <2>3, <2>6, <2>9
  <2>12. Good(e)
    BY <2>8, <2>9, <2>11 DEF Good
  <2>13. Settled(e, wire', live')
    BY <2>9, <2>10 DEF Settled
  <2> QED BY <2>12, <2>13 DEF e
<1> QED BY <1>1, <1>2

\* Every step keeps the history good.
LEMMA HistoryStep ==
  ASSUME TypeOK, SessionsKnown, InStepShape, History, [Next]_vars
  PROVE  History'
<1>1. seq \in Nat \ {0} /\ seq - 1 \in Nat /\ auth \in Credentials /\ method \in Methods
  BY DEF TypeOK, Credentials
<1>2. ASSUME NEW m \in Methods, NEW a \in Credentials, NEW then \in {"first", "second"},
             Transmit(m, a, then), method' \in Methods
      PROVE  History'
  <2>1. \/ phase' = then /\ returned' = returned
        \/ returned' = Append(returned, Failure(seq, method'))
    BY <1>2, TransmitEffect DEF Credentials
  <2>2. CASE phase' = then /\ returned' = returned
    BY <1>2, <2>2, HistoryKept
  <2>3. CASE returned' = Append(returned, Failure(seq, method'))
    <3>1. PICK m2 \in Methods : returned' = Append(returned, Failure(seq, m2))
      BY <1>2, <2>3
    <3>2. Failure(seq, m2) \in Returned
      BY <1>1, FailureIsReturned
    <3> QED BY <3>1, <3>2, FailureIsGood, HistoryGrows
  <2> QED BY <2>1, <2>2, <2>3
<1>3. ASSUME NEW m \in Methods, Send(m) PROVE History'
  BY <1>1, <1>2, <1>3 DEF Send
<1>4. ASSUME Read PROVE History'
  <2>1. PICK n \in 1..Len(stream) : Retried(n) \/ Ended(n)
    BY <1>4, ReadSplits
  <2>2. phase # "idle" /\ method' = method /\ live' = live
    BY <1>4, ReadSplits DEF serverVars, sessionVars
  <2>3. CASE Retried(n)
    BY <1>1, <1>2, <2>2, <2>3, RetriedEffect DEF Credentials
  <2>4. CASE Ended(n)
    <3>1. CASE Parses(Chunk(n))
      <4>1. PICK e \in Returned : /\ returned' = Append(returned, e)
                                 /\ e = Reply(stream[1], Body(Chunk(n)), method, inStep')
        BY <2>2, <2>4, <3>1, EndedEffect
      <4>2. Good(e) /\ Settled(e, wire', live')
        BY <2>2, <2>4, <3>1, <4>1, ReplyIsGood
      <4> QED BY <4>1, <4>2, HistoryGrows
    <3>2. CASE ~Parses(Chunk(n))
      <4>1. PICK e \in Returned : returned' = Append(returned, e) /\ e = Failure(seq - 1, method)
        BY <2>2, <2>4, <3>2, EndedEffect
      <4> QED BY <4>1, FailureIsGood, HistoryGrows
    <3> QED BY <3>1, <3>2
  <2> QED BY <2>1, <2>3, <2>4
<1>5. ASSUME ReadFails PROVE History'
  <2>1. returned' = Append(returned, Failure(seq - 1, method)) /\ Failure(seq - 1, method) \in Returned
    BY <1>1, <1>5, FailAppends, FailureIsReturned DEF ReadFails
  <2> QED BY <2>1, FailureIsGood, HistoryGrows
<1>6. ASSUME ReadFrame \/ SendFrame \/ Expire \/ UNCHANGED vars PROVE History'
  <2>1. UNCHANGED <<phase, wire, live, returned>>
    BY <1>6 DEF ReadFrame, SendFrame, Expire, vars, clientVars, connVars, serverVars, sessionVars
  <2> QED BY <2>1, HistoryKept
<1>7. ASSUME Serve PROVE History'
  <2>1. returned' = returned /\ phase' = phase /\ wire # << >>
    BY <1>7 DEF Serve, clientVars
  <2> QED BY <2>1 DEF History, Good, Settled
<1>8. Teardown => \E m \in Methods : Send(m)
  BY DEF Teardown, Methods
<1> QED BY <1>3, <1>4, <1>5, <1>6, <1>7, <1>8 DEF Next

-----------------------------------------------------------------------------
\* The connection in step: the client.

\* What is behind a prefix that only frames follow is frames.
LEMMA FramesLeft ==
  ASSUME TypeOK, NEW n \in 0..Len(stream), stream' = SubSeq(stream, n + 1, Len(stream)),
         \A i \in DOMAIN stream : i > n => stream[i] = Frame
  PROVE  OnlyFrames(stream') /\ (stream' # << >> => stream'[1] = Frame)
<1>1. \A i \in DOMAIN stream' : i \in Nat \ {0} /\ i + n \in DOMAIN stream /\ stream'[i] = stream[i + n]
  BY ReadStream
<1>2. n \in Nat /\ stream \in Seq(Piece)
  BY DEF TypeOK
<1>3. \A i \in DOMAIN stream' : stream'[i] = Frame
  BY <1>1, <1>2
<1>4. stream' \in Seq(Piece)
  BY <1>2, Suffix
<1>5. stream' # << >> => 1 \in DOMAIN stream'
  BY <1>4
<1> QED BY <1>3, <1>5 DEF OnlyFrames

\* A request that is written in step to an empty wire is asked, or a frame comes first.
LEMMA AskedOrFrame ==
  ASSUME TypeOK, NEW m \in Methods, NEW a \in Credentials, NEW then \in {"first", "second"},
         wire = << >>, wire' = Append(wire, Built(seq, m, a)), seq' = seq + 1,
         phase' = then, method' = m, session' = session, nonce' = nonce, counted' = counted,
         live' \subseteq {session}, stream' # << >> => stream'[1] = Frame,
         HasCredentials /\ then = "second" => a.nonce = nonce /\ nonce # 0 /\ a.nc = counted
  PROVE  InStepShape'
<1>1. /\ Built(seq, m, a).cseq = seq /\ Built(seq, m, a).method = m
      /\ Built(seq, m, a).session = session
      /\ Built(seq, m, a).nonce = IF HasCredentials THEN a.nonce ELSE 0
      /\ Built(seq, m, a).nc = IF HasCredentials THEN Counted(a).nc ELSE 0
      /\ HasCredentials /\ a.nonce # 0 => Counted(a).nc = a.nc + 1
  BY BuiltShape DEF Credentials
<1>2. wire' = <<Built(seq, m, a)>>
  OBVIOUS
<1>3. seq' - 1 = seq /\ counted \in Nat
  BY DEF TypeOK
<1> DEFINE r == Built(seq, m, a)
<1> HIDE DEF r
<1>4. Len(wire') = 1 /\ wire'[1] = r
  BY <1>2 DEF r
<1>5. /\ r.cseq = seq /\ r.method = m /\ r.session = session
      /\ HasCredentials /\ then = "second" => r.nonce = nonce /\ nonce # 0 /\ r.nc > counted
  BY <1>1, <1>3 DEF r
<1>6. CASE stream' = << >>
  BY <1>3, <1>4, <1>5, <1>6 DEF InStepShape, Asked
<1>7. CASE stream' # << >>
  BY <1>7 DEF InStepShape
<1> QED BY <1>6, <1>7

\* Sending a request keeps the shape of the connection.
LEMMA ShapeSend ==
  ASSUME TypeOK, InStepShape, NEW m \in Methods, Send(m)
  PROVE  InStepShape'
<1>1. CASE ~inStep'
  BY <1>1 DEF InStepShape
<1>2. CASE inStep'
  <2>1. /\ method' = m /\ Transmit(m, auth, "first") /\ inStep /\ phase' # "idle" /\ phase = "idle"
        /\ UNCHANGED <<session, stream, nonce, counted, live>>
    BY <1>2 DEF Send, serverVars, nonceVars, sessionVars
  <2>2. wire = << >> /\ OnlyFrames(stream) /\ live \subseteq {session}
    BY <2>1 DEF InStepShape
  <2>3. seq' = seq + 1 /\ phase' = "first" /\ wire' = Append(wire, Built(seq, m, auth))
    BY <2>1, TransmitEffect DEF TypeOK
  <2>4. auth \in Credentials /\ stream \in Seq(Piece)
    BY DEF TypeOK, Credentials
  <2>5. stream' # << >> => stream'[1] = Frame
    BY <2>1, <2>2, <2>4 DEF OnlyFrames
  <2> QED BY <2>1, <2>2, <2>3, <2>4, <2>5, AskedOrFrame
<1> QED BY <1>1, <1>2

\* Reading a response keeps it.
LEMMA ShapeRead ==
  ASSUME TypeOK, ChallengesInOrder, InStepShape, Read
  PROVE  InStepShape'
<1>1. CASE ~inStep'
  BY <1>1 DEF InStepShape
<1>2. CASE inStep'
  <2>1. PICK n \in 1..Len(stream) : stream' = SubSeq(stream, n + 1, Len(stream)) /\ (Retried(n) \/ Ended(n))
    BY ReadSplits
  <2>2. phase # "idle" /\ method' = method /\ UNCHANGED <<nonce, counted, live>>
    BY ReadSplits DEF serverVars, nonceVars, sessionVars
  <2>3. inStep /\ IsResponse(Chunk(n))
    BY <1>2, <2>1 DEF Retried, Ended
  <2>4. Answered /\ \A i \in DOMAIN stream : i > n => stream[i] = Frame
    BY <2>2, <2>3, EndedInStep
  <2>5. n \in 0..Len(stream) /\ 1 \in DOMAIN stream /\ stream \in Seq(Piece) /\ method \in Methods
        /\ nonce \in Nat /\ auth.nonce \in Nat
    BY DEF TypeOK
  <2>6. OnlyFrames(stream') /\ (stream' # << >> => stream'[1] = Frame)
    BY <2>1, <2>4, <2>5, FramesLeft
  <2>7. CASE Retried(n)
    <3> DEFINE a == Challenged(stream[1].challenge)
    <3>1. /\ a \in Credentials /\ a.nonce = stream[1].challenge /\ a.nc = 0
          /\ Transmit(method, a, "second") /\ HasCredentials /\ Challenges(stream[1])
      BY <2>2, <2>7, RetriedEffect DEF Credentials
    <3> HIDE DEF a
    <3>2. phase' # "idle" /\ session' = session
      BY <1>2, <2>7 DEF Retried
    <3>3. seq' = seq + 1 /\ phase' = "second" /\ wire' = Append(wire, Built(seq, method, a))
      BY <2>2, <2>5, <3>1, <3>2, TransmitEffect DEF Credentials
    <3>4. stream[1].challenge = nonce /\ counted = 0 /\ live \subseteq {session} /\ wire = << >>
      BY <2>4, <3>1 DEF Answered, Challenges
    <3>5. nonce # 0
      BY <2>5, <3>1, <3>4 DEF ChallengesInOrder
    <3>6. HasCredentials /\ "second" = "second" => a.nonce = nonce /\ nonce # 0 /\ a.nc = counted
      BY <3>1, <3>4, <3>5
    <3>7. live' \subseteq {session}
      BY <2>2, <3>4
    <3> QED BY <2>2, <2>5, <2>6, <3>1, <3>2, <3>3, <3>4, <3>6, <3>7, AskedOrFrame
  <2>8. CASE Ended(n)
    <3>1. phase' = "idle" /\ wire' = wire
      BY <2>8 DEF Ended
    <3>2. Parses(Chunk(n))
      BY <2>3 DEF IsResponse
    <3>3. session' = IF method = "SETUP" /\ stream[1].status = 200 THEN stream[1].session ELSE session
      BY <2>8, <3>2 DEF Ended, Kept
    <3>4. live' \subseteq {session'} /\ wire' = << >>
      BY <2>2, <2>4, <3>1, <3>3 DEF Answered
    <3> QED BY <2>6, <3>1, <3>4 DEF InStepShape
  <2> QED BY <2>1, <2>7, <2>8
<1> QED BY <1>1, <1>2

\* Reading frames between calls keeps it.
LEMMA ShapeReadFrame ==
  ASSUME TypeOK, InStepShape, ReadFrame
  PROVE  InStepShape'
<1>1. CASE ~inStep'
  BY <1>1 DEF InStepShape
<1>2. CASE inStep'
  <2>1. PICK n \in 1..Len(stream) : stream' = SubSeq(stream, n + 1, Len(stream))
                                    /\ inStep' = (inStep /\ \A k \in 1..n : stream[k] = Frame)
    BY DEF ReadFrame
  <2>2. phase = "idle" /\ UNCHANGED <<phase, session, wire, live>>
    BY DEF ReadFrame, clientVars, serverVars, sessionVars
  <2>3. wire = << >> /\ OnlyFrames(stream) /\ live \subseteq {session}
    BY <1>2, <2>1, <2>2 DEF InStepShape
  <2>4. n \in 0..Len(stream)
    BY DEF TypeOK
  <2>5. OnlyFrames(stream')
    BY <2>1, <2>3, <2>4, FramesLeft DEF OnlyFrames
  <2> QED BY <2>2, <2>3, <2>5 DEF InStepShape
<1> QED BY <1>1, <1>2

-----------------------------------------------------------------------------
\* The connection in step: the server and the frames.

\* The server takes the request that is asked, and its answer has then arrived.
LEMMA AskedIsAnswered ==
  ASSUME TypeOK, SessionsKnown, Asked, Serve, phase # "idle"
  PROVE  Answered'
<1>1. /\ wire[1] \in Request /\ wire' = Tail(wire) /\ UNCHANGED <<seq, session, phase, method>>
  BY ServeEffect DEF Serve, clientVars
<1>2. PICK status \in Statuses, challenge \in Nat, id \in Nat :
        ServedWith(wire[1], status, challenge, id)
  BY ServeEffect
<1> DEFINE a == Answer(wire[1], status, challenge, id)
<1>3. IsAnswer(a, wire[1], status, challenge, id)
  BY <1>1, AnswerShape
<1>4. stream' = stream \o a
  BY <1>2 DEF ServedWith
<1> HIDE DEF a
<1>5. stream' = a
  BY <1>3, <1>4 DEF Asked, IsAnswer
<1>6. wire' = << >>
  BY <1>1 DEF Asked, TypeOK
<1>7. /\ a \in Seq(Piece) /\ a[1].length \in 0..2 /\ Len(a) = 2 + a[1].length
      /\ a[1].part = "start" /\ DOMAIN a = 1..Len(a) /\ 1 \in DOMAIN a /\ a # << >>
      /\ \A i \in DOMAIN a : a[i].of = seq - 1
      /\ a[1].status = status /\ a[1].challenge = challenge /\ a[1].session = id
  <2>1. /\ a \in Seq(Piece) /\ a[1].length \in 0..2 /\ Len(a) = 2 + a[1].length
        /\ a[1].part = "start" /\ DOMAIN a = 1..Len(a)
    BY <1>3 DEF IsAnswer
  <2>2. 1 \in DOMAIN a /\ a # << >>
    BY <2>1
  <2> QED BY <1>3, <2>1, <2>2 DEF IsAnswer, Asked
<1>8. HasCredentials /\ status = 401 => phase = "first" /\ challenge = nonce' /\ counted' = 0
  <2>1. phase \in {"first", "second"}
    BY DEF TypeOK
  <2>2. HasCredentials /\ phase = "second" =>
          wire[1].nonce = nonce /\ nonce # 0 /\ wire[1].nc > counted
    BY DEF Asked
  <2>3. /\ status = 401 => challenge = nonce + 1 /\ nonce' = nonce + 1 /\ counted' = 0
        /\ wire[1].nonce = nonce /\ nonce # 0 /\ wire[1].nc > counted => status # 401
    BY <1>2 DEF ServedWith
  <2> QED BY <2>1, <2>2, <2>3
<1>9. live' \subseteq IF status = 200 /\ method = "SETUP" THEN {id}
                      ELSE IF status = 200 /\ method = "TEARDOWN" THEN {} ELSE {session}
  <2>1. live \subseteq {session} /\ wire[1].method = method /\ wire[1].session = session
        /\ 0 \notin live /\ method \in Methods
    BY DEF Asked, TypeOK
  <2>2. IF status # 200 THEN live' = live
        ELSE /\ method = "SETUP" => live' = live \cup {id} /\ session \in {0, id}
             /\ method = "TEARDOWN" => live' = live \ {session}
             /\ method \in {"DESCRIBE", "PLAY"} => live' = live
    BY <1>2, <2>1 DEF ServedWith
  <2> QED BY <2>1, <2>2 DEF Methods
<1>10. \A i \in DOMAIN a : i <= 2 + a[1].length
  BY <1>7
<1> QED BY <1>1, <1>5, <1>6, <1>7, <1>8, <1>9, <1>10 DEF Answered, IsStart

\* The server keeps it.
LEMMA ShapeServe ==
  ASSUME TypeOK, SessionsKnown, InStepShape, Serve
  PROVE  InStepShape'
<1>1. inStep' = inStep /\ phase' = phase /\ wire # << >>
  BY DEF Serve, clientVars
<1>2. CASE inStep /\ phase # "idle" /\ stream # << >> /\ stream[1] = Frame
  <2>1. stream \in Seq(Piece) /\ 1 \in DOMAIN stream
    BY <1>2 DEF TypeOK
  <2>2. 1 \in DOMAIN stream' /\ stream'[1] = stream[1]
    BY <2>1, ServedStream
  <2> QED BY <1>1, <1>2, <2>2 DEF InStepShape
<1>3. CASE inStep /\ phase # "idle" /\ Asked
  BY <1>1, <1>3, AskedIsAnswered DEF InStepShape
<1> QED BY <1>1, <1>2, <1>3 DEF InStepShape, Answered

\* A frame that is sent keeps it.
LEMMA ShapeSendFrame ==
  ASSUME TypeOK, InStepShape, SendFrame
  PROVE  InStepShape'
<1>1. /\ stream' = Append(stream, Frame)
      /\ UNCHANGED <<seq, session, phase, method, wire, nonce, counted, live, inStep>>
  BY DEF SendFrame, clientVars, serverVars, nonceVars, sessionVars
<1>2. stream \in Seq(Piece) /\ Len(stream) \in Nat /\ DOMAIN stream = 1..Len(stream)
  BY DEF TypeOK
<1>3. /\ \A i \in DOMAIN stream' : \/ i \in DOMAIN stream /\ stream'[i] = stream[i]
                                   \/ i = Len(stream) + 1 /\ stream'[i] = Frame
      /\ stream' # << >> /\ Len(stream') = Len(stream) + 1 /\ Len(stream) + 1 \in DOMAIN stream'
      /\ stream'[Len(stream) + 1] = Frame
      /\ \A i \in DOMAIN stream : stream'[i] = stream[i]
  BY <1>1, <1>2, FrameIsPiece, Appended
<1>4. CASE inStep /\ phase = "idle"
  BY <1>1, <1>3, <1>4 DEF InStepShape, OnlyFrames
<1>5. CASE inStep /\ phase # "idle" /\ stream # << >> /\ stream[1] = Frame
  BY <1>1, <1>2, <1>3, <1>5 DEF InStepShape
<1>6. CASE inStep /\ phase # "idle" /\ Asked
  <2>1. stream'[1] = Frame
    BY <1>3, <1>6 DEF Asked
  <2> QED BY <1>1, <1>3, <1>6, <2>1 DEF InStepShape
<1>7. CASE inStep /\ phase # "idle" /\ Answered
  <2>1. 1 \in DOMAIN stream /\ stream'[1] = stream[1] /\ stream[1].length \in 0..2
    <3>1. 1 \in DOMAIN stream /\ stream[1] \in Piece
      BY <1>2, <1>7 DEF Answered
    <3> QED BY <1>3, <3>1 DEF Piece
  <2>2. Len(stream') >= 2 + stream'[1].length
    BY <1>2, <1>3, <1>7, <2>1 DEF Answered
  <2>3. ASSUME NEW i \in DOMAIN stream'
        PROVE  IF i <= 2 + stream'[1].length THEN stream'[i].of = seq' - 1 ELSE stream'[i] = Frame
    <3>1. CASE i \in DOMAIN stream
      BY <1>1, <1>3, <1>7, <2>1, <3>1 DEF Answered
    <3>2. CASE i = Len(stream) + 1 /\ stream'[i] = Frame
      <4>1. ~(i <= 2 + stream'[1].length)
        BY <1>2, <1>7, <2>1, <3>2 DEF Answered
      <4> QED BY <3>2, <4>1
    <3> QED BY <1>3, <3>1, <3>2
  <2>4. Answered'
    BY <1>1, <1>3, <1>7, <2>1, <2>2, <2>3 DEF Answered
  <2> QED BY <1>1, <1>7, <2>4 DEF InStepShape
<1> QED BY <1>1, <1>4, <1>5, <1>6, <1>7 DEF InStepShape

\* Every step keeps it.
LEMMA ShapeStep ==
  ASSUME TypeOK, SessionsKnown, ChallengesInOrder, InStepShape, [Next]_vars
  PROVE  InStepShape'
<1>1. \A m \in Methods : Send(m) => InStepShape'
  BY ShapeSend
<1>2. Teardown => \E m \in Methods : Send(m)
  BY DEF Teardown, Methods
<1>3. ReadFails => InStepShape'
  BY DEF ReadFails, InStepShape
<1>4. Expire => InStepShape'
  BY DEF Expire, clientVars, connVars, sessionVars, InStepShape, OnlyFrames
<1>5. UNCHANGED vars => InStepShape'
  BY DEF vars, clientVars, connVars, serverVars, nonceVars, sessionVars, InStepShape, OnlyFrames,
         Asked, Answered
<1> QED BY <1>1, <1>2, <1>3, <1>4, <1>5, ShapeRead, ShapeReadFrame, ShapeServe, ShapeSendFrame DEF Next

-----------------------------------------------------------------------------
\* The inductive invariant.
IInv ==
  /\ TypeOK
  /\ SessionsKnown /\ ChallengesInOrder /\ CountsInOrder /\ NumbersInOrder
  /\ ResponsesInOrder /\ InStepShape /\ History

\* The inductive invariant holds in every reachable state.
LEMMA IInvHolds == Spec => []IInv
<1>1. Init => IInv
  <2> SUFFICES ASSUME Init PROVE IInv
    OBVIOUS
  <2>1. TypeOK /\ SessionsKnown
    BY InitTypes
  <2>2. ChallengesInOrder /\ CountsInOrder /\ NumbersInOrder /\ ResponsesInOrder
    BY DEF Init, NoAuth, ChallengesInOrder, CountsInOrder, NumbersInOrder, ResponsesInOrder
  <2>3. InStepShape /\ History
    BY DEF Init, InStepShape, OnlyFrames, History
  <2> QED BY <2>1, <2>2, <2>3 DEF IInv
<1>2. IInv /\ [Next]_vars => IInv'
  BY TypeStep, ChallengesStep, CountsStep, NumbersStep, ShapeStep, HistoryStep DEF IInv
<1> QED BY <1>1, <1>2, PTL DEF Spec

\* Sequence numbers, challenges, sessions and what DoRequest returns keep their types
\* (sdk/rtsp.go:137-173).
THEOREM TypeCorrect == Spec => []TypeOK
BY IInvHolds, PTL DEF IInv

\* Whatever is lost, late or merged, the server never sees a nonce with a count it has seen
\* (sdk/rtsp.go:280-329).
THEOREM NonceCountsNeverRepeat == Spec => []NonceCountsFresh
<1>1. IInv => NonceCountsFresh
  BY CountsAreFresh DEF IInv
<1> QED BY <1>1, IInvHolds, PTL

\* DoRequest never returns a response twice or one older than it returned, although it
\* compares no CSeq (sdk/rtsp.go:137-173).
THEOREM ReturnsInOrder == Spec => []ResponsesInOrder
BY IInvHolds, PTL DEF IInv

\* A call on a connection in step returns the whole response to its own last request
\* (sdk/rtsp.go:137-173).
THEOREM CallsAnswered == Spec => []InStepAnswersOwnRequest
<1>1. IInv => InStepAnswersOwnRequest
  BY HistoryMeans DEF IInv
<1> QED BY <1>1, IInvHolds, PTL

\* With the right password the one retry of DoRequest suffices on such a connection
\* (sdk/rtsp.go:137-173).
THEOREM OneRetrySuffices == Spec => []OneRetryIsEnough
<1>1. IInv => OneRetryIsEnough
  BY HistoryMeans DEF IInv
<1> QED BY <1>1, IInvHolds, PTL

\* A Teardown that succeeded on such a connection leaves no session of this client on the
\* server (sdk/rtsp.go:176-183).
THEOREM TeardownIsComplete == Spec => []TeardownLeavesNothing
<1>1. IInv => TeardownLeavesNothing
  BY HistoryMeans DEF IInv
<1> QED BY <1>1, IInvHolds, PTL
===============================================================================
