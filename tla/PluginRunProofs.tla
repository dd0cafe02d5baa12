---------------------------- MODULE PluginRunProofs ----------------------------
(***************************************************************************)
(* What a plugin run does, for any inputs, grants, requests, payloads,     *)
(* readings, values and metrics: each part of its work has an invariant of *)
(* its own (exchanges, inputs and config, checks, outcome, builders,       *)
(* metrics), which the actions of the other parts leave alone.  The lemmas *)
(* on recursion are those of MetricEnvelopeProofs.                         *)
(***************************************************************************)
EXTENDS PluginRun, MetricEnvelopeProofs, FiniteSetTheorems

-----------------------------------------------------------------------------
(* Exchanges with the host. *)

\* What the handler's request has in common with the plugin's.
Alike(s, r) ==
  /\ s.kind = r.kind /\ s.method = r.method /\ s.scheme = r.scheme /\ s.host = r.host
  /\ s.port = r.port /\ s.path = r.path /\ s.insecure = r.insecure /\ s.mode = r.mode
  /\ s.timed = r.timed

GrantsInv ==
  /\ grants \in Seq(Range(grants))
  /\ \A i \in DOMAIN grants : grants[i].expires \in Nat

\* Outside the plugin function there is no call.
BetweenCalls ==
  run # "working" =>
    phase = "idle" /\ request = None /\ seen = None /\ answer = None /\ outcome = None

\* How far the call in progress has come.
PhaseInv ==
  /\ phase # "idle" => request # None /\ answer = None /\ outcome = None
  /\ phase = "arriving" => seen = None
  /\ phase = "granting" =>
       /\ request \in HTTPRequests /\ seen = Decoded(request)
       /\ \A j \in 1..(index - 1) : ~Covers(grants[j], seen, asOf)

SeenInv ==
  /\ seen.kind = "http" => request \in HTTPRequests /\ Alike(seen, request)
  /\ seen.kind = "grpc" => request \in GRPCRequests /\ seen.limit = request.limit

\* Whose Authorization the handler sees.
Carried ==
  Reached =>
    \/ Covering = {} /\ seen.auth = request.auth
    \/ \E first \in Covering :
         /\ \A j \in Covering : first <= j
         /\ seen.auth = Bearer(grants[first])
         /\ Authorizes(grants[first], request)

CallInv ==
  /\ ExchangeTypeOK
  /\ GrantsInv
  /\ PhaseInv
  /\ SeenInv
  /\ Carried
  /\ DeniedForCause
  /\ RequestsArriveWhole
  /\ AnswersArriveWhole
  /\ MessagesWithinLimitsFit
  /\ FailuresAreTold

ExchangeInv == CallInv /\ BetweenCalls

-----------------------------------------------------------------------------
\* What can be asked for.
LEMMA RequestKinds ==
  /\ \A r \in HTTPRequests : r.kind = "http"
  /\ \A r \in GRPCRequests : r.kind = "grpc" /\ r.limit \in Int
  BY RequestsAssumption

LEMMA NoneIsNone ==
  /\ None.kind = "none" /\ \A code : Error(code).kind = "error" /\ Error(code) # None
  /\ None \notin HTTPRequests /\ None \notin GRPCRequests
  BY RequestKinds DEF None, Error

LEMMA ErrorsDiffer == \A c, d : Error(c) = Error(d) => c = d
<1> SUFFICES ASSUME NEW c, NEW d, Error(c) = Error(d) PROVE c = d
  OBVIOUS
<1>1. Error(c).code = c /\ Error(d).code = d
  BY DEF Error
<1> QED
  BY <1>1

\* Grants look at what the handler's request has in common with the plugin's.
LEMMA AlikeCovers ==
  ASSUME NEW s, NEW r, Alike(s, r), NEW grant, NEW t
  PROVE  /\ Covers(grant, s, t) <=> Covers(grant, r, t)
         /\ Authorizes(grant, s) <=> Authorizes(grant, r)
  BY DEF Alike, Covers, Allows, Authorizes, InjectTargets, HostNames, Port, PathAllowed

LEMMA DecodedRequest ==
  ASSUME NEW r \in HTTPRequests
  PROVE  /\ Alike(Decoded(r), r)
         /\ Decoded(r).auth = r.auth
         /\ [Decoded(r) EXCEPT !.auth = r.auth, !.body = r.body, !.base64 = r.base64] = r
         /\ Decoded(r).body = r.body <=> r.body # "raw" \/ r.base64
         /\ Decoded(r).base64 # r.base64 => r.body = "none" /\ ~Decoded(r).base64
  BY RequestsAssumption DEF Decoded, Alike

\* A longer message has a longer encoding.
LEMMA EncodedLenGrows ==
  ASSUME NEW m \in Nat, NEW n \in Nat, EncodedLen(m) > EncodedLen(n)
  PROVE  m > n
  BY DEF EncodedLen

\* What a call that comes to no answer, stays where it is, fails or succeeds is told.
LEMMA NothingTold ==
  ASSUME answer' = None,
         \/ outcome' = None
         \/ \E code \in {"canceled", "shape", "not found", "invalid", "denied"} : outcome' = Error(code)
  PROVE  FailuresAreTold'
<1>1. None.kind = "none" /\ \A code : Error(code) # None
  BY NoneIsNone
<1>2. \A code \in {"timeout", "internal", "too large"} : outcome' # Error(code)
  BY <1>1, ErrorsDiffer
<1> QED
  BY <1>1, <1>2 DEF FailuresAreTold

LEMMA SameTold ==
  ASSUME FailuresAreTold, UNCHANGED <<answer, outcome>>
  PROVE  FailuresAreTold'
  BY DEF FailuresAreTold

LEMMA FailureTold ==
  ASSUME NEW a, answer' = a, NEW code \in {"timeout", "internal", "too large"},
         outcome' = Error(code), code = "timeout" <=> TimedOut(a),
         code = "internal" => a.kind = "failure", code = "too large" => a.kind = "response"
  PROVE  FailuresAreTold'
<1>1. \A d : outcome' = Error(d) => code = d
  BY ErrorsDiffer
<1>2. outcome' = Error("timeout") <=> TimedOut(a)
  BY <1>1
<1>3. /\ outcome' = Error("internal") => a.kind = "failure"
      /\ outcome' = Error("too large") => a.kind = "response"
  BY <1>1
<1> QED
  BY <1>2, <1>3 DEF FailuresAreTold, TimedOut

LEMMA ResponseTold ==
  ASSUME NEW a, answer' = a, ~TimedOut(a), outcome'.kind = "response"
  PROVE  FailuresAreTold'
<1>1. \A d : outcome' # Error(d)
  BY NoneIsNone
<1> QED
  BY <1>1 DEF FailuresAreTold, TimedOut

-----------------------------------------------------------------------------
LEMMA FreshCall ==
  ASSUME CallInv, NEW r \in HTTPRequests \cup GRPCRequests,
         CallHost(r) \/ RefuseLocally(r, Error("canceled")) \/ RefuseLocally(r, Error("shape"))
  PROVE  CallInv'
<1> USE NoneIsNone DEF CallInv
<1>1. /\ request' = r /\ seen' = None /\ answer' = None /\ requests' \in 1..MaxRequests
      /\ UNCHANGED <<hostVars, now, asOf, index>>
      /\ \/ phase' = "arriving" /\ outcome' = None
         \/ phase' = "idle" /\ outcome' \in {Error("canceled"), Error("shape")}
  BY LimitAssumption DEF CallHost, RefuseLocally, Finish, ExchangeTypeOK
<1>2. ExchangeTypeOK'
  BY <1>1, LimitAssumption DEF ExchangeTypeOK, hostVars
<1>3. GrantsInv'
  BY <1>1 DEF GrantsInv, hostVars
<1>4. PhaseInv'
  BY <1>1 DEF PhaseInv
<1>5. SeenInv' /\ Carried' /\ RequestsArriveWhole'
  <2>1. seen'.kind = "none"
    BY <1>1
  <2> QED
    BY <2>1 DEF SeenInv, Carried, Reached, RequestsArriveWhole
<1>6. DeniedForCause' /\ AnswersArriveWhole' /\ MessagesWithinLimitsFit'
  <2>1. /\ outcome' # Error("denied") /\ outcome' # Error("too large")
        /\ outcome'.kind # "response"
    <3>1. CASE outcome' = None
      BY <3>1
    <3>2. CASE outcome' = Error("canceled")
      BY <3>2 DEF Error
    <3>3. CASE outcome' = Error("shape")
      BY <3>3 DEF Error
    <3> QED
      BY <1>1, <3>1, <3>2, <3>3
  <2> QED
    BY <2>1 DEF DeniedForCause, AnswersArriveWhole, MessagesWithinLimitsFit
<1>7. FailuresAreTold'
  BY <1>1, NothingTold
<1> QED
  BY <1>2, <1>3, <1>4, <1>5, <1>6, <1>7

\* The host refuses the call as it arrives.
LEMMA RefusedCall ==
  ASSUME CallInv, phase = "arriving",
         NEW code \in {"not found", "invalid", "denied"}, Finish(Error(code)),
         code = "denied" => request.kind = "http" /\ request.host = "" /\ grants # << >>,
         UNCHANGED <<hostVars, now, request, seen, asOf, index, answer, requests>>
  PROVE  CallInv'
<1> USE NoneIsNone DEF CallInv
<1>1. phase' = "idle" /\ outcome' = Error(code) /\ seen = None /\ answer = None
  BY DEF Finish, PhaseInv
<1>2. ExchangeTypeOK' /\ GrantsInv'
  BY <1>1 DEF ExchangeTypeOK, GrantsInv, hostVars
<1>3. PhaseInv' /\ SeenInv' /\ Carried' /\ RequestsArriveWhole'
  BY <1>1 DEF PhaseInv, SeenInv, Carried, Reached, RequestsArriveWhole
<1>4. DeniedForCause'
  BY <1>1 DEF DeniedForCause, hostVars, Error
<1>5. AnswersArriveWhole' /\ MessagesWithinLimitsFit'
  BY <1>1 DEF AnswersArriveWhole, MessagesWithinLimitsFit, Error
<1>6. FailuresAreTold'
  BY <1>1, NothingTold
<1> QED
  BY <1>2, <1>3, <1>4, <1>5, <1>6

LEMMA ArriveHTTPKeeps ==
  ASSUME CallInv, ArriveHTTP
  PROVE  CallInv'
<1> USE NoneIsNone
<1>1. phase = "arriving" /\ request \in HTTPRequests
  BY RequestKinds DEF CallInv, ArriveHTTP, ExchangeTypeOK, PhaseInv
<1>2. ASSUME NEW code \in {"not found", "invalid", "denied"}, Finish(Error(code)),
             code = "denied" => request.host = "" /\ grants # << >>,
             UNCHANGED <<seen, asOf, index>>
      PROVE  CallInv'
  BY <1>1, <1>2, RefusedCall, RequestKinds DEF ArriveHTTP
<1>3. CASE /\ seen' = Decoded(request) /\ asOf' = now /\ index' = 1
           /\ phase' = "granting" /\ UNCHANGED outcome
  <2> USE DEF CallInv
  <2>1. /\ Alike(seen', request) /\ seen'.kind = "http" /\ answer = None /\ outcome = None
        /\ UNCHANGED <<hostVars, now, request, answer, requests>>
    BY <1>1, <1>3, DecodedRequest, RequestKinds DEF Alike, ArriveHTTP, PhaseInv
  <2>2. ExchangeTypeOK' /\ GrantsInv'
    BY <1>1, <1>3, <2>1, RequestKinds DEF ExchangeTypeOK, GrantsInv, hostVars
  <2>3. PhaseInv' /\ SeenInv' /\ Carried'
    BY <1>1, <1>3, <2>1 DEF PhaseInv, SeenInv, Carried, Reached
  <2>4. RequestsArriveWhole'
    BY <1>1, <1>3, <2>1, DecodedRequest DEF RequestsArriveWhole
  <2>5. DeniedForCause' /\ AnswersArriveWhole' /\ MessagesWithinLimitsFit'
    BY <1>3, <2>1 DEF DeniedForCause, AnswersArriveWhole, MessagesWithinLimitsFit, Error
  <2>6. FailuresAreTold'
    BY <1>3, <2>1, NothingTold
  <2> QED
    BY <2>2, <2>3, <2>4, <2>5, <2>6
<1> QED
  BY <1>2, <1>3 DEF ArriveHTTP

LEMMA JudgeGrantKeeps ==
  ASSUME CallInv, JudgeGrant
  PROVE  CallInv'
<1> USE NoneIsNone
<1>1. /\ request \in HTTPRequests /\ request.kind = "http" /\ seen = Decoded(request)
      /\ Alike(seen, request) /\ seen.auth = request.auth /\ seen.kind = "http"
      /\ \A j \in 1..(index - 1) : ~Covers(grants[j], seen, asOf)
      /\ answer = None /\ outcome = None
      /\ index \in 1..Len(grants) /\ Len(grants) \in Nat /\ DOMAIN grants = 1..Len(grants)
      /\ UNCHANGED <<hostVars, now, request, asOf, answer, requests>>
  <2>1. /\ request \in HTTPRequests /\ seen = Decoded(request) /\ answer = None /\ outcome = None
        /\ \A j \in 1..(index - 1) : ~Covers(grants[j], seen, asOf)
        /\ UNCHANGED <<hostVars, now, request, asOf, answer, requests>>
    BY DEF CallInv, JudgeGrant, PhaseInv
  <2>2. index \in 1..Len(grants) /\ Len(grants) \in Nat /\ DOMAIN grants = 1..Len(grants)
    BY DEF CallInv, JudgeGrant, ExchangeTypeOK, GrantsInv
  <2>3. Alike(seen, request) /\ seen.auth = request.auth
    BY <2>1, DecodedRequest
  <2> QED
    BY <2>1, <2>2, <2>3, RequestKinds DEF Alike
<1> DEFINE grant == grants[index]
<1>2. CASE Denies(grant) /\ Finish(Error("denied")) /\ UNCHANGED <<seen, index>>
  <2>1. phase' = "idle" /\ outcome' = Error("denied")
    BY <1>2 DEF Finish
  <2>2. ExchangeTypeOK' /\ GrantsInv'
    BY <1>1, <1>2, <2>1 DEF CallInv, ExchangeTypeOK, GrantsInv, hostVars
  <2>3. PhaseInv' /\ SeenInv' /\ Carried'
    BY <1>1, <1>2, <2>1 DEF CallInv, PhaseInv, SeenInv, Carried, Reached
  <2>4. RequestsArriveWhole' /\ AnswersArriveWhole' /\ MessagesWithinLimitsFit'
    BY <1>1, <1>2, <2>1 DEF CallInv, RequestsArriveWhole, AnswersArriveWhole, MessagesWithinLimitsFit, Error
  <2>5. /\ Covers(grant, request, asOf)
        /\ ~Authorizes(grant, request)
    BY <1>1, <1>2, AlikeCovers DEF Denies
  <2>6. /\ Allows(grant.allow, request) /\ grant.type = "oauth2_client_credentials"
        /\ grant.expires = 0 \/ asOf < grant.expires
    BY <2>5, <1>1, LimitAssumption DEF Covers, Expired, CallInv, ExchangeTypeOK, GrantsInv
  <2>7. DeniedForCause'
    <3>1. index \in DOMAIN grants /\ grants # << >>
      BY <1>1
    <3>2. /\ grants' = grants /\ request' = request /\ asOf' = asOf /\ secrets' = secrets
          /\ answer' = None
      BY <1>1 DEF hostVars
    <3>3. Authorizes(grant, request)' <=> Authorizes(grant, request)
      BY <1>2, <3>2 DEF Authorizes
    <3> QED
      BY <1>1, <1>2, <2>5, <2>6, <3>1, <3>2, <3>3 DEF DeniedForCause
  <2>8. FailuresAreTold'
    BY <1>1, <2>1, NothingTold
  <2> QED
    BY <2>2, <2>3, <2>4, <2>7, <2>8 DEF CallInv
<1>3. CASE /\ Injects(grant) /\ seen' = [seen EXCEPT !.auth = Bearer(grant)] /\ phase' = "handling"
           /\ UNCHANGED <<index, outcome>>
  <2>1. /\ Alike(seen', request) /\ seen'.auth = Bearer(grant)
        /\ [seen' EXCEPT !.auth = request.auth, !.body = request.body,
                          !.base64 = request.base64] = request
        /\ seen'.body = request.body <=> request.body # "raw" \/ request.base64
        /\ seen'.base64 # request.base64 => request.body = "none" /\ ~seen'.base64
    <3>1. PICK r \in HTTPRequests : r = request
      BY <1>1
    <3>2. PICK token : token = Bearer(grant)
      OBVIOUS
    <3>3. PICK sent : sent = [seen EXCEPT !.auth = token] /\ sent = seen'
      BY <1>1, <1>3, <3>2
    <3>4. /\ Alike(sent, r) /\ sent.auth = token
          /\ [sent EXCEPT !.auth = r.auth, !.body = r.body, !.base64 = r.base64] = r
          /\ sent.body = r.body <=> r.body # "raw" \/ r.base64
          /\ sent.base64 # r.base64 => r.body = "none" /\ ~sent.base64
      <4>1. PICK d : d = seen /\ d = Decoded(r)
        BY <1>1, <3>1
      <4>2. sent = [d EXCEPT !.auth = token]
        BY <3>3, <4>1
      <4> QED
        BY <4>1, <4>2, RequestsAssumption DEF Decoded, Alike
    <3> QED
      BY <3>1, <3>2, <3>3, <3>4
  <2>2. ExchangeTypeOK' /\ GrantsInv'
    BY <1>1, <1>3, <2>1 DEF CallInv, ExchangeTypeOK, GrantsInv, hostVars, Alike
  <2>3. PhaseInv' /\ SeenInv'
    BY <1>1, <1>3, <2>1, RequestKinds DEF CallInv, PhaseInv, SeenInv, Alike
  <2>4. Carried'
    <3>1. \A g : Covers(g, seen', asOf) <=> Covers(g, seen, asOf)
      BY <1>1, <2>1, AlikeCovers
    <3>2. Covers(grant, seen, asOf) /\ Authorizes(grant, request)
      BY <1>1, <1>3, AlikeCovers DEF Injects
    <3>3. Covering' = {i \in DOMAIN grants : Covers(grants[i], seen, asOf)}
      BY <1>1, <3>1 DEF Covering, hostVars
    <3>4. index \in Covering' /\ \A j \in Covering' : index <= j
      BY <1>1, <3>2, <3>3
    <3>5. Authorizes(grant, request)'
      BY <1>1, <1>3, <3>2 DEF Authorizes, hostVars
    <3> QED
      BY <1>1, <1>3, <2>1, <3>4, <3>5 DEF Carried, hostVars
  <2>5. RequestsArriveWhole'
    BY <1>1, <2>1 DEF RequestsArriveWhole, Alike
  <2>6. DeniedForCause' /\ AnswersArriveWhole' /\ MessagesWithinLimitsFit'
    BY <1>1, <1>3 DEF DeniedForCause, AnswersArriveWhole, MessagesWithinLimitsFit, Error
  <2>7. FailuresAreTold'
    BY <1>1, <1>3, NothingTold
  <2> QED
    BY <2>2, <2>3, <2>4, <2>5, <2>6, <2>7 DEF CallInv
<1>4. CASE ~Denies(grant) /\ ~Injects(grant) /\ index' = index + 1 /\ UNCHANGED <<seen, phase, outcome>>
  <2>1. ~Covers(grant, seen, asOf)
    BY <1>4 DEF Denies, Injects
  <2>2. ExchangeTypeOK' /\ GrantsInv'
    BY <1>1, <1>4 DEF CallInv, ExchangeTypeOK, GrantsInv, hostVars
  <2>3. PhaseInv'
    BY <1>1, <1>4, <2>1 DEF CallInv, PhaseInv, JudgeGrant, hostVars
  <2>4. SeenInv' /\ Carried' /\ RequestsArriveWhole'
    BY <1>1, <1>4 DEF CallInv, SeenInv, Carried, Reached, RequestsArriveWhole, JudgeGrant
  <2>5. DeniedForCause' /\ AnswersArriveWhole' /\ MessagesWithinLimitsFit'
    BY <1>1, <1>4 DEF DeniedForCause, AnswersArriveWhole, MessagesWithinLimitsFit, Error
  <2>6. FailuresAreTold'
    BY <1>1, <1>4, NothingTold
  <2> QED
    BY <2>2, <2>3, <2>4, <2>5, <2>6 DEF CallInv
<1> QED
  BY <1>2, <1>3, <1>4 DEF JudgeGrant

LEMMA PassUncoveredKeeps ==
  ASSUME CallInv, PassUncovered
  PROVE  CallInv'
<1> USE NoneIsNone
<1>1. /\ request \in HTTPRequests /\ request.kind = "http" /\ seen = Decoded(request)
      /\ seen.auth = request.auth /\ seen.kind = "http" /\ Alike(seen, request)
      /\ answer = None /\ outcome = None /\ phase' = "handling"
      /\ UNCHANGED <<hostVars, now, request, seen, asOf, index, answer, outcome, requests>>
  <2>1. /\ request \in HTTPRequests /\ seen = Decoded(request) /\ answer = None /\ outcome = None
        /\ phase' = "handling"
        /\ UNCHANGED <<hostVars, now, request, seen, asOf, index, answer, outcome, requests>>
    BY DEF CallInv, PassUncovered, PhaseInv
  <2>2. Alike(seen, request) /\ seen.auth = request.auth
    BY <2>1, DecodedRequest
  <2> QED
    BY <2>1, <2>2, RequestKinds DEF Alike
<1>2. Covering = {}
  BY <1>1 DEF CallInv, PassUncovered, PhaseInv, Covering, GrantsInv, ExchangeTypeOK
<1>3. ExchangeTypeOK' /\ GrantsInv'
  BY <1>1 DEF CallInv, ExchangeTypeOK, GrantsInv, hostVars
<1>4. Carried'
  BY <1>1, <1>2 DEF Carried, Covering, hostVars
<1>5. PhaseInv' /\ SeenInv' /\ RequestsArriveWhole'
  BY <1>1 DEF CallInv, PhaseInv, SeenInv, RequestsArriveWhole
<1>6. DeniedForCause' /\ AnswersArriveWhole' /\ MessagesWithinLimitsFit'
  BY <1>1 DEF DeniedForCause, AnswersArriveWhole, MessagesWithinLimitsFit, Error
<1>7. FailuresAreTold'
  BY <1>1, NothingTold
<1> QED
  BY <1>3, <1>4, <1>5, <1>6, <1>7 DEF CallInv

LEMMA ArriveGRPCKeeps ==
  ASSUME CallInv, ArriveGRPC
  PROVE  CallInv'
<1> USE NoneIsNone
<1>1. phase = "arriving" /\ request \in GRPCRequests
  BY RequestKinds DEF CallInv, ArriveGRPC, ExchangeTypeOK, PhaseInv
<1>2. ASSUME NEW code \in {"not found", "invalid"}, Finish(Error(code)), UNCHANGED seen
      PROVE  CallInv'
  BY <1>1, <1>2, RefusedCall DEF ArriveGRPC
<1>3. CASE /\ Accepted(request.metadata)
           /\ seen' = [request EXCEPT !.metadata = Normalized(@)]
           /\ phase' = "handling" /\ UNCHANGED outcome
  <2>1. /\ UNCHANGED <<hostVars, now, request, asOf, index, answer, outcome, requests>>
        /\ answer = None /\ outcome = None
    BY <1>3 DEF CallInv, PhaseInv, ArriveGRPC
  <2>2. /\ seen'.kind = "grpc" /\ seen'.limit = request.limit
        /\ seen'.metadata = Normalized(request.metadata)
        /\ request.kind = "grpc"
    BY <1>1, <1>3, RequestsAssumption
  <2>3. ExchangeTypeOK' /\ GrantsInv'
    BY <1>1, <1>3, <2>1, <2>2 DEF CallInv, ExchangeTypeOK, GrantsInv, hostVars
  <2>4. PhaseInv' /\ SeenInv' /\ Carried'
    BY <1>1, <1>3, <2>1, <2>2 DEF PhaseInv, SeenInv, Carried, Reached
  <2>5. RequestsArriveWhole'
    <3>1. \A m \in request.metadata : m.name \notin ForbiddenNames
      BY <1>3 DEF Accepted
    <3>2. ASSUME NEW m \in request.metadata PROVE seen'.metadata[m.name] = m
      <4>1. PICK name : name = m.name /\ name \in {n.name : n \in request.metadata}
        OBVIOUS
      <4>2. seen'.metadata[name] = CHOOSE n \in request.metadata : n.name = name
        BY <2>2, <4>1 DEF Normalized
      <4>3. \A n \in request.metadata : n.name = name => n = m
        BY <1>3, <4>1 DEF Accepted
      <4> QED
        BY <4>1, <4>2, <4>3
    <3> QED
      BY <2>1, <2>2, <3>1, <3>2 DEF RequestsArriveWhole
  <2>6. DeniedForCause' /\ AnswersArriveWhole' /\ MessagesWithinLimitsFit'
    BY <2>1 DEF DeniedForCause, AnswersArriveWhole, MessagesWithinLimitsFit, Error
  <2>7. FailuresAreTold'
    BY <2>1, NothingTold
  <2> QED
    BY <2>3, <2>4, <2>5, <2>6, <2>7 DEF CallInv
<1> QED
  BY <1>2, <1>3 DEF ArriveGRPC

\* The handler has answered: what the call returns says nothing of a denial.
LEMMA AnsweredCall ==
  ASSUME CallInv, phase = "handling", NEW a \in Answers, answer' = a,
         NEW result, Finish(result), result.kind \in {"error", "response"},
         result # Error("denied"),
         UNCHANGED <<hostVars, now, request, seen, asOf, index, requests>>
  PROVE  /\ ExchangeTypeOK' /\ GrantsInv' /\ PhaseInv' /\ SeenInv' /\ Carried'
         /\ DeniedForCause' /\ RequestsArriveWhole'
<1>1. phase' = "idle" /\ outcome' = result
  BY DEF Finish
<1>2. ExchangeTypeOK' /\ GrantsInv'
  BY <1>1 DEF CallInv, ExchangeTypeOK, GrantsInv, hostVars
<1>3. PhaseInv' /\ SeenInv' /\ RequestsArriveWhole' /\ DeniedForCause'
  BY <1>1 DEF CallInv, PhaseInv, SeenInv, RequestsArriveWhole, DeniedForCause
<1>4. Carried'
  BY <1>1 DEF CallInv, Carried, Reached, Covering, Authorizes, hostVars
<1> QED
  BY <1>2, <1>3, <1>4

\* An answer is a response or a failure, and has a length if it is a response.
LEMMA AnswerKinds ==
  ASSUME NEW a \in Answers
  PROVE  /\ a.kind \in {"response", "failure"} /\ a # None
         /\ a.late \in BOOLEAN
         /\ a.kind = "failure" => a.deadline \in BOOLEAN
         /\ a.kind = "response" => a.length \in Nat /\ a.overhead \in Nat
<1>1. CASE a \in [kind: {"response"}, status: {"ok", "error"}, length: Lengths,
                 overhead: {0} \cup Overheads, late: BOOLEAN]
  <2>1. a.kind = "response" /\ a.late \in BOOLEAN /\ a.length \in Nat /\ a.overhead \in Nat
    <3>1. Lengths \subseteq Nat /\ {0} \cup Overheads \subseteq Nat
      BY LimitAssumption
    <3>2. a.kind = "response" /\ a.length \in Lengths /\ a.overhead \in {0} \cup Overheads
      BY <1>1
    <3>3. a.late \in BOOLEAN
      BY <1>1
    <3> QED
      BY <3>1, <3>2, <3>3
  <2> QED
    BY <2>1 DEF None
<1>2. CASE a \in [kind: {"failure"}, deadline: BOOLEAN, late: BOOLEAN]
  BY <1>2 DEF None
<1> QED
  BY <1>1, <1>2 DEF Answers

LEMMA HandleHTTPKeeps ==
  ASSUME CallInv, NEW a \in Answers, HandleHTTP(a)
  PROVE  CallInv'
<1> USE AnswerKinds
<1>1. /\ phase = "handling" /\ seen.kind = "http" /\ answer' = a
      /\ request \in HTTPRequests /\ Alike(seen, request) /\ request.kind = "http"
      /\ UNCHANGED <<hostVars, now, request, seen, asOf, index, requests>>
  BY RequestKinds DEF HandleHTTP, CallInv, SeenInv
<1>2. ASSUME NEW code \in {"timeout", "internal", "too large"}, Finish(Error(code)),
             code = "timeout" <=> TimedOut(a),
             code = "internal" => a.kind = "failure", code = "too large" => a.kind = "response"
      PROVE  CallInv'
  <2>1. PICK error : error = Error(code) /\ error.kind = "error" /\ error # Error("denied")
    <3>1. code # "denied"
      BY <1>2
    <3>2. Error(code).kind = "error" /\ Error(code) # Error("denied")
      BY ONLY <3>1, NoneIsNone, ErrorsDiffer
    <3> QED
      BY ONLY <3>2
  <2>2. outcome' = error
    BY <1>2, <2>1 DEF Finish
  <2>3. AnswersArriveWhole' /\ MessagesWithinLimitsFit'
    BY <1>1, <2>1, <2>2 DEF AnswersArriveWhole, MessagesWithinLimitsFit
  <2>4. FailuresAreTold'
    BY <1>1, <1>2, <2>1, <2>2, FailureTold
  <2> QED
    BY <1>1, <1>2, <2>1, <2>3, <2>4, AnsweredCall DEF CallInv
<1>3. CASE a.kind = "response" /\ Fits(a, HTTPBuffer) /\ Finish(Response(a))
  <2>1. PICK response :
          /\ response = Response(a) /\ response.kind = "response" /\ response.of = requests
          /\ response.status = a.status /\ response.length = a.length
          /\ response.headers => seen.mode # "status_body"
    <3>1. PICK response : response = Response(a)
      OBVIOUS
    <3>2. /\ response.kind = "response" /\ response.of = requests
          /\ response.status = a.status /\ response.length = a.length
      BY <3>1 DEF Response
    <3>3. response.headers => seen.mode # "status_body"
      BY <1>1, <3>1 DEF Response
    <3> QED
      BY <3>1, <3>2, <3>3
  <2>2. outcome' = response
    BY <1>3, <2>1 DEF Finish
  <2>3. Encoded(a)' = Encoded(a) /\ HTTPBuffer' = HTTPBuffer
    BY <1>1 DEF Encoded, HTTPBuffer, hostVars
  <2>4. AnswersArriveWhole'
    BY <1>1, <1>3, <2>1, <2>2, <2>3 DEF AnswersArriveWhole, Fits, Alike
  <2>5. MessagesWithinLimitsFit'
    BY <1>1 DEF MessagesWithinLimitsFit
  <2>6. response # Error("denied")
    BY <2>1 DEF Error
  <2>7. ~TimedOut(a)
    BY <1>3 DEF TimedOut
  <2>8. FailuresAreTold'
    BY <1>1, <2>1, <2>2, <2>7, ResponseTold
  <2> QED
    BY <1>1, <1>3, <2>1, <2>4, <2>5, <2>6, <2>8, AnsweredCall DEF CallInv
<1>4. CASE a.kind = "failure" /\ TimedOut(a) /\ Finish(Error("timeout"))
  BY <1>2, <1>4
<1>5. CASE a.kind = "failure" /\ ~TimedOut(a) /\ Finish(Error("internal"))
  BY <1>2, <1>5
<1>6. CASE a.kind = "response" /\ Finish(Error("too large"))
  <2>1. ~TimedOut(a)
    BY <1>6 DEF TimedOut
  <2> QED
    BY <1>2, <1>6, <2>1
<1> QED
  BY <1>3, <1>4, <1>5, <1>6 DEF HandleHTTP

\* A message that the host's limit or the buffer holds back is over a limit that was set.
LEMMA LimitsAreSetLimits ==
  ASSUME CallInv, request \in GRPCRequests, seen.kind = "grpc", seen.limit = request.limit,
         NEW a \in Answers, a.kind = "response", a.overhead <= GRPCOverhead,
         ~(a.length <= HostLimit(seen) /\ Fits(a, GRPCBuffer(request)))
  PROVE  a.length > MaxGRPCResponse \/ a.length > ClientLimit(request)
<1>1. /\ a.length \in Nat /\ a.overhead \in Nat /\ request.limit \in Int
      /\ grpcLimit \in Nat /\ MaxGRPCResponse \in Nat /\ GRPCOverhead \in Nat
  BY AnswerKinds, RequestKinds, LimitAssumption DEF CallInv, ExchangeTypeOK
<1>2. ClientLimit(request) \in Nat
  BY <1>1 DEF ClientLimit, Lowered
<1>3. CASE a.length > HostLimit(seen)
  BY <1>1, <1>3 DEF HostLimit, ClientLimit, Lowered
<1>4. CASE a.length <= HostLimit(seen) /\ ~Fits(a, GRPCBuffer(request))
  <2>1. EncodedLen(a.length) \in Int /\ EncodedLen(ClientLimit(request)) \in Int
    BY <1>1, <1>2 DEF EncodedLen
  <2>2. EncodedLen(a.length) > EncodedLen(ClientLimit(request))
    BY <1>1, <1>4, <2>1 DEF Fits, Encoded, GRPCBuffer
  <2> QED
    BY <1>1, <1>2, <2>2, EncodedLenGrows
<1>5. HostLimit(seen) \in Int
  BY <1>1 DEF HostLimit, Lowered
<1> QED
  BY <1>1, <1>3, <1>4, <1>5

\* UNAVAILABLE has no message to be too large.
LEMMA UnavailableFits ==
  ASSUME CallInv, request \in GRPCRequests, seen.kind = "grpc", seen.limit = request.limit, NEW a
  PROVE  Unavailable(a).length <= HostLimit(seen) /\ Fits(Unavailable(a), GRPCBuffer(request))
<1>1. /\ request.limit \in Int /\ grpcLimit \in Nat
      /\ MaxGRPCResponse \in Nat /\ GRPCOverhead \in Nat
  BY RequestKinds, LimitAssumption DEF CallInv, ExchangeTypeOK
<1>2. PICK given1 : given1 = Unavailable(a) /\ given1.length = 0 /\ given1.overhead = 0
  <2>1. Unavailable(a).length = 0 /\ Unavailable(a).overhead = 0
    BY ONLY TRUE DEF Unavailable
  <2> QED
    BY ONLY <2>1
<1>3. HostLimit(seen) \in Nat /\ ClientLimit(request) \in Nat
  BY <1>1 DEF HostLimit, ClientLimit, Lowered
<1>4. Encoded(given1) = 0
  BY <1>2 DEF Encoded, EncodedLen
<1>5. GRPCBuffer(request) >= 0
  BY <1>1, <1>3 DEF GRPCBuffer, EncodedLen
<1> QED
  BY <1>2, <1>3, <1>4, <1>5 DEF Fits

LEMMA HandleGRPCKeeps ==
  ASSUME CallInv, NEW a \in Answers, HandleGRPC(a)
  PROVE  CallInv'
<1> USE AnswerKinds
<1>1. /\ phase = "handling" /\ seen.kind = "grpc" /\ answer' = a
      /\ request \in GRPCRequests /\ request.kind = "grpc" /\ seen.limit = request.limit
      /\ UNCHANGED <<hostVars, now, request, seen, asOf, index, requests>>
  BY RequestKinds DEF HandleGRPC, CallInv, SeenInv
<1> DEFINE given0 == IF a.kind = "failure" THEN Unavailable(a) ELSE a
           fits == given0.length <= HostLimit(seen) /\ Fits(given0, GRPCBuffer(request))
<1>2. ASSUME NEW code \in {"timeout"}, Finish(Error(code)), TimedOut(a) PROVE CallInv'
  <2>1. PICK error : /\ error = Error(code) /\ error.kind = "error" /\ error # Error("denied")
                     /\ error # Error("too large")
    <3>1. PICK error : error = Error(code) /\ error.kind = "error"
      BY NoneIsNone
    <3>2. Error(code) # Error("denied")
      BY <1>2, ErrorsDiffer
    <3>3. Error(code) # Error("too large")
      BY <1>2, ErrorsDiffer
    <3> QED
      BY <3>1, <3>2, <3>3
  <2>2. outcome' = error
    BY <1>2, <2>1 DEF Finish
  <2>3. AnswersArriveWhole' /\ MessagesWithinLimitsFit'
    BY <1>1, <2>1, <2>2 DEF AnswersArriveWhole, MessagesWithinLimitsFit
  <2>4. FailuresAreTold'
    BY <1>1, <1>2, <2>1, <2>2, FailureTold
  <2> QED
    BY <1>1, <1>2, <2>1, <2>3, <2>4, AnsweredCall DEF CallInv
<1>3. ASSUME NEW code \in {"too large"}, Finish(Error(code)), ~fits, ~TimedOut(a) PROVE CallInv'
  <2>1. PICK error : error = Error(code) /\ error.kind = "error" /\ error # Error("denied")
    BY <1>3, NoneIsNone, ErrorsDiffer
  <2>2. outcome' = error
    BY <1>3, <2>1 DEF Finish
  <2>3. AnswersArriveWhole'
    BY <1>1, <2>1, <2>2 DEF AnswersArriveWhole
  <2>4. MessagesWithinLimitsFit'
    <3>1. SUFFICES ASSUME a.kind = "response", a.overhead <= GRPCOverhead
                   PROVE  a.length > MaxGRPCResponse \/ a.length > ClientLimit(request)'
      BY <1>1 DEF MessagesWithinLimitsFit
    <3>2. ClientLimit(request)' = ClientLimit(request)
      BY <1>1 DEF ClientLimit, hostVars
    <3>3. ~(a.length <= HostLimit(seen) /\ Fits(a, GRPCBuffer(request)))
      BY <1>3, <3>1
    <3> QED
      BY <1>1, <3>1, <3>2, <3>3, LimitsAreSetLimits
  <2>5. a.kind = "response"
    BY <1>1, <1>3, UnavailableFits
  <2>6. FailuresAreTold'
    BY <1>1, <1>3, <2>1, <2>2, <2>5, FailureTold
  <2> QED
    BY <1>1, <1>3, <2>1, <2>3, <2>4, <2>6, AnsweredCall DEF CallInv
<1>4. CASE ~TimedOut(a) /\ fits /\ Finish(Response(given0))
  <2>1. PICK given1 : given1 = given0
    OBVIOUS
  <2>2. PICK response :
          /\ response = Response(given1) /\ response.kind = "response" /\ response.of = requests
          /\ response.status = given1.status /\ response.length = given1.length
    <3>1. PICK response : response = Response(given1)
      OBVIOUS
    <3> QED
      BY <3>1 DEF Response
  <2>3. outcome' = response
    BY <1>4, <2>1, <2>2 DEF Finish
  <2>4. a.kind = "failure" => given1.status = "unavailable" /\ ~a.late
    BY <1>4, <2>1 DEF Unavailable, TimedOut
  <2>5. a.kind = "response" => given1 = a /\ Encoded(a) <= GRPCBuffer(request)
    BY <1>4, <2>1 DEF Fits
  <2>6. Encoded(a)' = Encoded(a) /\ GRPCBuffer(request)' = GRPCBuffer(request)
    BY <1>1 DEF Encoded, GRPCBuffer, ClientLimit, hostVars
  <2>7. AnswersArriveWhole'
    <3>1. CASE a.kind = "failure"
      BY <1>1, <2>2, <2>3, <2>4, <3>1 DEF AnswersArriveWhole
    <3>2. CASE a.kind = "response"
      <4>1. /\ outcome'.of = requests' /\ outcome'.status = answer'.status
            /\ outcome'.length = answer'.length
        BY <1>1, <2>2, <2>3, <2>5, <3>2
      <4>2. Encoded(a)' <= GRPCBuffer(request)'
        BY <2>5, <2>6, <3>2
      <4> QED
        BY <1>1, <3>2, <4>1, <4>2 DEF AnswersArriveWhole
    <3> QED
      BY <3>1, <3>2
  <2>8. MessagesWithinLimitsFit' /\ response # Error("denied")
    <3>1. response # Error("denied") /\ response # Error("too large")
      BY <2>2, NoneIsNone
    <3> QED
      BY <2>3, <3>1 DEF MessagesWithinLimitsFit
  <2>9. FailuresAreTold'
    BY <1>1, <1>4, <2>2, <2>3, ResponseTold
  <2> QED
    BY <1>1, <1>4, <2>1, <2>2, <2>7, <2>8, <2>9, AnsweredCall DEF CallInv
<1> QED
  BY <1>2, <1>3, <1>4 DEF HandleGRPC

LEMMA TickKeeps ==
  ASSUME CallInv, Tick
  PROVE  CallInv'
<1>1. UNCHANGED <<hostVars, callVars, requests>> /\ now' = now + 1 /\ now < MaxTime
  BY DEF Tick
<1>2. ExchangeTypeOK' /\ GrantsInv'
  BY <1>1, LimitAssumption DEF CallInv, ExchangeTypeOK, GrantsInv, hostVars, callVars
<1>3. PhaseInv' /\ SeenInv' /\ RequestsArriveWhole'
  BY <1>1 DEF CallInv, PhaseInv, SeenInv, RequestsArriveWhole, hostVars, callVars
<1>4. Carried' /\ DeniedForCause'
  BY <1>1 DEF CallInv, Carried, Reached, Covering, Authorizes, DeniedForCause, hostVars, callVars
<1>5. AnswersArriveWhole' /\ MessagesWithinLimitsFit'
  BY <1>1 DEF CallInv, AnswersArriveWhole, MessagesWithinLimitsFit, Encoded, HTTPBuffer, GRPCBuffer,
              ClientLimit, hostVars, callVars
<1>6. FailuresAreTold'
  BY <1>1, SameTold DEF CallInv, callVars
<1> QED
  BY <1>2, <1>3, <1>4, <1>5, <1>6 DEF CallInv

LEMMA ExchangeKeeps ==
  ASSUME CallInv, ExchangeNext
  PROVE  CallInv'
<1>1. ASSUME NEW r \in HTTPRequests, HTTPDo(r) PROVE CallInv'
  BY <1>1, FreshCall DEF HTTPDo
<1>2. ASSUME NEW r \in GRPCRequests, GRPCUnary(r) PROVE CallInv'
  BY <1>2, FreshCall DEF GRPCUnary
<1>3. ASSUME NEW a \in Answers, HandleHTTP(a) \/ HandleGRPC(a) PROVE CallInv'
  BY <1>3, HandleHTTPKeeps, HandleGRPCKeeps
<1> QED
  BY <1>1, <1>2, <1>3, ArriveHTTPKeeps, JudgeGrantKeeps, PassUncoveredKeeps, ArriveGRPCKeeps, TickKeeps
     DEF ExchangeNext

\* Without a call there is nothing to keep but the host's part.
LEMMA NoCallKeeps ==
  ASSUME CallInv, phase' = "idle", request' = None, seen' = None, answer' = None, outcome' = None,
         UNCHANGED <<grants, handlers, httpLimit, grpcLimit, now, asOf, index, requests>>
  PROVE  CallInv'
<1> USE NoneIsNone
<1>1. ExchangeTypeOK' /\ GrantsInv'
  BY DEF CallInv, ExchangeTypeOK, GrantsInv
<1>2. PhaseInv' /\ SeenInv' /\ Carried' /\ RequestsArriveWhole'
  BY DEF PhaseInv, SeenInv, Carried, Reached, RequestsArriveWhole
<1>3. DeniedForCause' /\ AnswersArriveWhole' /\ MessagesWithinLimitsFit' /\ FailuresAreTold'
  BY NothingTold DEF DeniedForCause, AnswersArriveWhole, MessagesWithinLimitsFit
<1> QED
  BY <1>1, <1>2, <1>3 DEF CallInv

LEMMA ExchangeStarts ==
  ASSUME Init
  PROVE  ExchangeInv
<1> USE NoneIsNone DEF Init, ExchangeInit
<1>1. PICK host \in Hosts :
        /\ grants = host.grants /\ handlers = host.handlers
        /\ httpLimit = host.httpLimit /\ grpcLimit = host.grpcLimit
  OBVIOUS
<1>2. GrantsInv
  BY <1>1, HostsAssumption DEF GrantsInv
<1>3. ExchangeTypeOK
  <2>1. handlers \subseteq {"http", "grpc"} /\ httpLimit \in Nat /\ grpcLimit \in Nat
    BY <1>1, HostsAssumption, LimitAssumption
  <2>2. now \in 1..MaxTime /\ asOf \in 1..now /\ requests \in 0..MaxRequests
    BY LimitAssumption
  <2>3. index \in 1..(Len(grants) + 1)
    BY <1>2 DEF GrantsInv
  <2> QED
    BY <2>1, <2>2, <2>3 DEF ExchangeTypeOK
<1>4. PhaseInv /\ SeenInv /\ Carried /\ RequestsArriveWhole
  BY DEF PhaseInv, SeenInv, Carried, Reached, RequestsArriveWhole
<1>5. DeniedForCause /\ AnswersArriveWhole /\ MessagesWithinLimitsFit /\ FailuresAreTold
  BY DEF DeniedForCause, AnswersArriveWhole, MessagesWithinLimitsFit, FailuresAreTold
<1> QED
  BY <1>2, <1>3, <1>4, <1>5 DEF ExchangeInv, CallInv, BetweenCalls

\* What a step of the run means for the exchanges.
LEMMA StepOfExchange ==
  ASSUME [Next]_vars
  PROVE  \/ UNCHANGED exchangeVars /\ (run' = run \/ run' = "working")
         \/ MakeRequests
         \/ StartRun
         \/ FunctionReturned
<1>1. CASE LoadInputs \/ CheckTargets \/ BuildValues \/ SendMetrics \/ UNCHANGED vars
  BY <1>1 DEF LoadInputs, CheckTargets, BuildValues, SendMetrics, vars, runVars
<1>2. CASE AskConfig
  BY <1>2 DEF AskConfig
<1>3. CASE MakeRequests \/ StartRun
  BY <1>3
<1>4. ASSUME NEW result \in Results \cup {None}, NEW failed \in BOOLEAN, NEW length \in DocumentSizes,
             Execute(result, failed, length)
      PROVE  FunctionReturned
  BY <1>4 DEF Execute
<1>5. ASSUME NEW status \in {"", "failed"}, NEW length \in DocumentSizes, ActOn(status, length)
      PROVE  FunctionReturned
  BY <1>5 DEF ActOn
<1> QED
  BY <1>1, <1>2, <1>3, <1>4, <1>5 DEF Next

LEMMA UnchangedExchange ==
  ASSUME CallInv, UNCHANGED exchangeVars
  PROVE  CallInv'
<1> USE DEF CallInv, exchangeVars, hostVars, callVars
<1>1. ExchangeTypeOK' /\ GrantsInv'
  BY DEF ExchangeTypeOK, GrantsInv
<1>2. PhaseInv' /\ SeenInv' /\ RequestsArriveWhole'
  BY DEF PhaseInv, SeenInv, RequestsArriveWhole
<1>3. Carried' /\ DeniedForCause'
  BY DEF Carried, Reached, Covering, Authorizes, DeniedForCause
<1>4. AnswersArriveWhole' /\ MessagesWithinLimitsFit'
  BY DEF AnswersArriveWhole, MessagesWithinLimitsFit, Encoded, HTTPBuffer, GRPCBuffer, ClientLimit
<1>5. FailuresAreTold'
  BY SameTold
<1> QED
  BY <1>1, <1>2, <1>3, <1>4, <1>5

LEMMA ExchangeStep ==
  ASSUME ExchangeInv, [Next]_vars
  PROVE  ExchangeInv'
<1> USE DEF ExchangeInv
<1>1. CASE UNCHANGED exchangeVars /\ (run' = run \/ run' = "working")
  BY <1>1, UnchangedExchange DEF exchangeVars, callVars, BetweenCalls
<1>2. CASE MakeRequests
  BY <1>2, ExchangeKeeps DEF MakeRequests, Doing, BetweenCalls, runVars
<1>3. CASE StartRun
  <2>1. run # "working" /\ UNCHANGED <<grants, handlers, httpLimit, grpcLimit, now, callVars, requests>>
    BY <1>3 DEF StartRun
  <2>2. /\ phase' = "idle" /\ request' = None /\ seen' = None /\ answer' = None /\ outcome' = None
        /\ UNCHANGED <<asOf, index>>
    BY <2>1 DEF BetweenCalls, callVars
  <2> QED
    BY <2>1, <2>2, NoCallKeeps DEF BetweenCalls
<1>4. CASE FunctionReturned
  <2>1. /\ phase' = "idle" /\ request' = None /\ seen' = None /\ answer' = None /\ outcome' = None
        /\ UNCHANGED <<grants, handlers, httpLimit, grpcLimit, now, asOf, index, requests>>
    BY <1>4 DEF FunctionReturned, hostVars
  <2> QED
    BY <2>1, NoCallKeeps DEF BetweenCalls
<1> QED
  BY <1>1, <1>2, <1>3, <1>4, StepOfExchange

LEMMA ExchangeInvHolds == Spec => []ExchangeInv
  BY ExchangeStarts, ExchangeStep, PTL DEF Spec

\* The first covering grant is the least of them.
LEMMA FirstGrant == ExchangeInv => CoveredRequestsCarryTheirGrant
<1> SUFFICES ASSUME ExchangeInv, Reached, Covering # {}, NEW first,
                    first = CHOOSE i \in Covering : \A j \in Covering : i <= j
             PROVE  seen.auth = Bearer(grants[first]) /\ Authorizes(grants[first], request)
  BY DEF CoveredRequestsCarryTheirGrant, ExchangeInv, CallInv, Carried
<1>1. PICK least \in Covering :
        /\ \A j \in Covering : least <= j
        /\ seen.auth = Bearer(grants[least])
        /\ Authorizes(grants[least], request)
  BY DEF ExchangeInv, CallInv, Carried
<1>2. Covering \subseteq Nat
  BY DEF Covering, ExchangeInv, CallInv, GrantsInv
<1>3. first \in Covering /\ \A j \in Covering : first <= j
  BY <1>1
<1>4. first = least
  BY <1>1, <1>2, <1>3
<1> QED
  BY <1>1, <1>4

\* A request some live grant covers reaches the handler under the token of the first such
\* grant, which its target, its TLS policy and the credential fields fit, for any grants
\* and requests and however the clock runs meanwhile (sdk/local_credentials.go:31-35).
THEOREM CoveredRequestsCarry == Spec => []CoveredRequestsCarryTheirGrant
  BY ExchangeInvHolds, FirstGrant, PTL

\* A denial has a cause: a URL without a host, or a live grant that covers the request and
\* does not fit it (sdk/local_credentials.go:18-70).
THEOREM DenialsHaveCause == Spec => []DeniedForCause
<1>1. ExchangeInv => DeniedForCause
  BY DEF ExchangeInv, CallInv
<1> QED
  BY <1>1, ExchangeInvHolds, PTL

\* For any requests, limits and handlers: text and base64 bodies reach the handler byte for
\* byte, raw bytes without base64 never do, and of the rest of a request only a grant's
\* Authorization and an empty body's flag differ; a response comes back whole, nothing that
\* fits is refused, and a timeout is told from a failure and a late response
\* (sdk/http.go:122-188, sdk/local_host.go:176-250, sdk/grpc.go:169-210).
THEOREM ExchangesAreWhole == Spec => []ExchangesArriveWhole
<1>1. ExchangeInv => ExchangesArriveWhole
  BY DEF ExchangeInv, CallInv, ExchangesArriveWhole
<1> QED
  BY <1>1, ExchangeInvHolds, PTL

-----------------------------------------------------------------------------
(* Inputs and config. *)

Merged == Overlay(given.envFiles[EnvFile.name].assigned, given.process)

\* What each stage of LoadLocalInputs has found out.
InputsInv ==
  /\ InputsTypeOK
  /\ given.runtimeLength \in Nat
  /\ stage = "environment" => unread = {} /\ DOMAIN credentials = {}
  /\ stage \in {"config", "action", "credentials", "loaded"} => merged = Merged
  /\ stage \in {"action", "credentials", "loaded"} => config = ConfigText
  /\ stage \in {"credentials", "loaded"} =>
       action = IF ActionText = Blank THEN Nothing ELSE ActionText

\* What the run has made of the inputs.
ConfigInv ==
  /\ configLength \in 0..MaxPayload /\ attempt \in DOMAIN ConfigSizes
  /\ run \in {"loading", "asking", "working", "finished", "refused"}
  /\ run \in {"asking", "working", "finished"} =>
       /\ stage = "loaded"
       /\ secrets = {field \in DOMAIN credentials : credentials[field] # Blank}
  /\ run \in {"loading", "asking", "refused"} => pluginConfig = None
  /\ ConfigReachesPlugin

LEMMA InputsStart ==
  ASSUME Init
  PROVE  InputsInv /\ ConfigInv
<1> USE DEF Init, InputsInit
<1>1. InputsInv
  BY ScenariosAssumption DEF InputsInv, InputsTypeOK, NoAssignments
<1>2. ConfigInv
  <2>1. MaxPayload \in Nat /\ 1 \in DOMAIN ConfigSizes
    BY SizesAssumption DEF Last
  <2> QED
    BY <2>1 DEF ConfigInv, ConfigReachesPlugin
<1> QED
  BY <1>1, <1>2

\* The texts the inputs name.
LEMMA TextsKeep ==
  ASSUME given' = given
  PROVE  /\ Merged' = Merged
         /\ merged' = merged => ConfigText' = ConfigText /\ ActionText' = ActionText
<1>1. Merged' = Merged
  BY DEF Merged, EnvFile
<1>2. ASSUME merged' = merged PROVE ConfigText' = ConfigText /\ ActionText' = ActionText
  BY <1>2 DEF ConfigText, ActionText, Sources
<1> QED
  BY <1>1, <1>2

LEMMA InputsKeep ==
  ASSUME InputsInv, InputsNext
  PROVE  InputsInv' /\ given' = given
<1>1. CASE stage' = "refused" /\ UNCHANGED <<given, merged, config, action, unread, credentials>>
  BY <1>1 DEF InputsInv, InputsTypeOK
<1>2. CASE LoadEnvironment /\ stage' = "config"
  <2>1. /\ merged' = Merged /\ UNCHANGED <<given, config, action, unread, credentials>>
        /\ stage = "environment" /\ unread = {} /\ DOMAIN credentials = {}
    BY <1>2 DEF LoadEnvironment, Refuse, Merged, InputsInv
  <2>2. InputsTypeOK'
    BY <1>2, <2>1 DEF InputsInv, InputsTypeOK
  <2> QED
    BY <1>2, <2>1, <2>2, TextsKeep DEF InputsInv
<1>3. CASE ResolveConfig /\ stage' = "action"
  <2>1. /\ ConfigText \in Objects /\ config' = ConfigText /\ merged = Merged
        /\ UNCHANGED <<given, merged, action, unread, credentials>>
    BY <1>3 DEF ResolveConfig, Refuse, InputsInv
  <2>2. InputsTypeOK'
    BY <1>3, <2>1 DEF InputsInv, InputsTypeOK
  <2> QED
    BY <1>3, <2>1, <2>2, TextsKeep DEF InputsInv
<1>4. CASE ResolveAction /\ stage' = "credentials"
  <2>1. /\ ActionText \in Objects \cup {Blank} /\ unread' = DOMAIN merged
        /\ action' = IF ActionText = Blank THEN Nothing ELSE ActionText
        /\ merged = Merged /\ config = ConfigText
        /\ UNCHANGED <<given, merged, config, credentials>>
    BY <1>4 DEF ResolveAction, Refuse, InputsInv
  <2>2. InputsTypeOK'
    BY <1>4, <2>1 DEF InputsInv, InputsTypeOK
  <2> QED
    BY <1>4, <2>1, <2>2, TextsKeep DEF InputsInv
<1>5. ASSUME NEW key \in unread, ReadKey(key) PROVE InputsInv' /\ given' = given
  <2>1. /\ UNCHANGED <<given, stage, merged, config, action>> /\ unread' = unread \ {key}
        /\ key \in DOMAIN merged
    BY <1>5 DEF ReadKey, InputsInv, InputsTypeOK
  <2>2. CASE UNCHANGED credentials
    <3>1. InputsTypeOK'
      BY <2>1, <2>2 DEF InputsInv, InputsTypeOK
    <3> QED
      BY <2>1, <3>1, TextsKeep DEF InputsInv
  <2>3. CASE /\ key \in DOMAIN FieldOf
             /\ credentials' = Overlay(credentials, Entry(FieldOf[key], merged[key]))
    <3>1. PICK field : field = FieldOf[key]
      OBVIOUS
    <3>2. /\ DOMAIN credentials' = DOMAIN credentials \cup {field}
          /\ credentials'[field] = merged[key]
          /\ \A f \in DOMAIN credentials : f # field => credentials'[f] = credentials[f]
      BY <2>3, <3>1 DEF Overlay, Entry
    <3>3. ASSUME NEW f \in DOMAIN credentials'
          PROVE  \E k \in DOMAIN FieldOf \cap DOMAIN merged : FieldOf[k] = f /\ credentials'[f] = merged[k]
      <4>1. CASE f = field
        BY <2>1, <2>3, <3>1, <3>2, <4>1
      <4>2. CASE f # field
        BY <3>2, <3>3, <4>2 DEF InputsInv, InputsTypeOK
      <4> QED
        BY <4>1, <4>2
    <3>4. InputsTypeOK'
      BY <2>1, <3>3 DEF InputsInv, InputsTypeOK
    <3> QED
      BY <2>1, <3>4, TextsKeep DEF InputsInv
  <2> QED
    BY <1>5, <2>2, <2>3 DEF ReadKey
<1>6. CASE FinishLoading
  <2>1. /\ UNCHANGED <<given, merged, config, action, unread, credentials>>
        /\ stage = "credentials" /\ stage' = "loaded"
    BY <1>6 DEF FinishLoading
  <2>2. InputsTypeOK'
    BY <2>1 DEF InputsInv, InputsTypeOK
  <2> QED
    BY <2>1, <2>2, TextsKeep DEF InputsInv
<1> QED
  BY <1>1, <1>2, <1>3, <1>4, <1>5, <1>6
     DEF InputsNext, LoadEnvironment, ResolveConfig, ResolveAction, Refuse

LEMMA UnchangedInputs ==
  ASSUME InputsInv, UNCHANGED inputVars
  PROVE  InputsInv'
  BY DEF inputVars, InputsInv, InputsTypeOK, Merged, EnvFile, ConfigText, ActionText, Sources, Lookup

\* What a step of the run means for the inputs and the config.
LEMMA StepOfInputs ==
  ASSUME [Next]_vars
  PROVE  \/ LoadInputs
         \/ StartRun
         \/ AskConfig
         \/ /\ UNCHANGED <<inputVars, secrets, configLength, attempt, pluginConfig>>
            /\ run' = run \/ (run = "working" /\ run' = "finished")
<1>1. CASE CheckTargets \/ BuildValues \/ SendMetrics \/ UNCHANGED vars
  BY <1>1 DEF CheckTargets, BuildValues, SendMetrics, vars, runVars, exchangeVars, hostVars
<1>2. CASE MakeRequests
  <2>1. UNCHANGED secrets
    BY <1>2 DEF MakeRequests, ExchangeNext, HTTPDo, GRPCUnary, CallHost, RefuseLocally, ArriveHTTP,
                JudgeGrant, PassUncovered, HandleHTTP, ArriveGRPC, HandleGRPC, Tick, hostVars
  <2> QED
    BY <1>2, <2>1 DEF MakeRequests, runVars
<1>3. CASE FunctionReturned
  BY <1>3 DEF FunctionReturned, hostVars
<1>4. ASSUME NEW result \in Results \cup {None}, NEW failed \in BOOLEAN, NEW length \in DocumentSizes,
             Execute(result, failed, length)
      PROVE  FunctionReturned
  BY <1>4 DEF Execute
<1>5. ASSUME NEW status \in {"", "failed"}, NEW length \in DocumentSizes, ActOn(status, length)
      PROVE  FunctionReturned
  BY <1>5 DEF ActOn
<1> QED
  BY <1>1, <1>2, <1>3, <1>4, <1>5 DEF Next

\* The largest buffer holds every config RunLocalHost accepts.
LEMMA LargestBuffer ==
  ASSUME ConfigInv, ~AsksAgain(attempt)
  PROVE  configLength <= ConfigSizes[attempt]
<1>1. attempt = Len(ConfigSizes) /\ ConfigSizes[Len(ConfigSizes)] = MaxPayload
  BY SizesAssumption DEF ConfigInv, AsksAgain, Last
<1> QED
  BY <1>1 DEF ConfigInv

LEMMA InputsStep ==
  ASSUME InputsInv, ConfigInv, [Next]_vars
  PROVE  InputsInv' /\ ConfigInv'
<1>1. CASE LoadInputs
  <2>1. InputsInv'
    BY <1>1, InputsKeep DEF LoadInputs
  <2>2. ConfigInv'
    BY <1>1 DEF LoadInputs, ConfigInv, ConfigReachesPlugin, runVars
  <2> QED
    BY <2>1, <2>2
<1>2. CASE StartRun
  <2>1. InputsInv'
    BY <1>2, UnchangedInputs DEF StartRun
  <2>2. ConfigInv'
    BY <1>2 DEF StartRun, ConfigInv, ConfigReachesPlugin, InputsInv, inputVars
  <2> QED
    BY <2>1, <2>2
<1>3. CASE AskConfig
  <2>1. InputsInv'
    BY <1>3, UnchangedInputs DEF AskConfig
  <2>2. ConfigInv'
    <3>1. /\ run = "asking" /\ UNCHANGED <<given, stage, config, action, credentials, secrets, configLength>>
      BY <1>3 DEF AskConfig, inputVars, exchangeVars, hostVars
    <3>2. CASE AsksAgain(attempt) /\ attempt' = attempt + 1 /\ UNCHANGED <<run, pluginConfig>>
      <4>1. attempt' \in DOMAIN ConfigSizes
        BY <3>2, SizesAssumption DEF AsksAgain, ConfigInv
      <4> QED
        BY <3>1, <3>2, <4>1 DEF ConfigInv, ConfigReachesPlugin
    <3>3. CASE /\ run' = "working" /\ UNCHANGED attempt
               /\ pluginConfig' = [kind |-> "config", document |-> RuntimeConfig]
      BY <3>1, <3>3 DEF ConfigInv, ConfigReachesPlugin, RuntimeConfig
    <3>4. ~(configLength > ConfigSizes[attempt] /\ ~AsksAgain(attempt))
      BY LargestBuffer, SizesAssumption DEF ConfigInv
    <3> QED
      BY <1>3, <3>2, <3>3, <3>4 DEF AskConfig
  <2> QED
    BY <2>1, <2>2
<1>4. CASE /\ UNCHANGED <<inputVars, secrets, configLength, attempt, pluginConfig>>
           /\ run' = run \/ (run = "working" /\ run' = "finished")
  BY <1>4, UnchangedInputs DEF ConfigInv, ConfigReachesPlugin, inputVars
<1> QED
  BY <1>1, <1>2, <1>3, <1>4, StepOfInputs

LEMMA InputsInvHold == Spec => [](InputsInv /\ ConfigInv)
  BY InputsStart, InputsStep, PTL DEF Spec

\* The first source that is used decides.
LEMMA FirstOfFour ==
  ASSUME NEW sources, DOMAIN sources = 1..4
  PROVE  /\ sources[1].used => FirstUsed(sources) = sources[1].text
         /\ ~sources[1].used /\ sources[2].used => FirstUsed(sources) = sources[2].text
         /\ ~sources[1].used /\ ~sources[2].used /\ sources[3].used => FirstUsed(sources) = sources[3].text
<1> DEFINE Decides(i) == sources[i].used /\ \A j \in 1..(i - 1) : ~sources[j].used
<1>1. ASSUME NEW i \in 1..4, Decides(i) PROVE FirstUsed(sources) = sources[i].text
  <2>1. \A j \in 1..4 : Decides(j) => j = i
    BY <1>1
  <2>2. i = CHOOSE j \in DOMAIN sources : Decides(j)
    BY <1>1, <2>1
  <2> QED
    BY <2>2 DEF FirstUsed
<1>2. sources[1].used => Decides(1)
  OBVIOUS
<1>3. ~sources[1].used /\ sources[2].used => Decides(2)
  OBVIOUS
<1>4. ~sources[1].used /\ ~sources[2].used /\ sources[3].used => Decides(3)
  OBVIOUS
<1> QED
  BY <1>1, <1>2, <1>3, <1>4

LEMMA SourcesInOrder ==
  ASSUME NEW json, NEW file, NEW env, NEW jsonKey, NEW fileKey
  PROVE  LET text == FirstUsed(Sources(json, file, env, jsonKey, fileKey)) IN
         /\ json # Blank => text = json
         /\ json = Blank /\ file # Blank => text = given.files[file]
         /\ json = Blank /\ file = Blank /\ Lookup(env, jsonKey) # Blank => text = Lookup(env, jsonKey)
<1>1. PICK sources : sources = Sources(json, file, env, jsonKey, fileKey)
  OBVIOUS
<1>2. /\ DOMAIN sources = 1..4
      /\ sources[1].used = (json # Blank) /\ sources[1].text = json
      /\ sources[2].used = (file # Blank) /\ sources[2].text = given.files[file]
      /\ sources[3].used = (Lookup(env, jsonKey) # Blank) /\ sources[3].text = Lookup(env, jsonKey)
  BY <1>1 DEF Sources
<1> QED
  BY <1>1, <1>2, FirstOfFour

LEMMA ExplicitDecides ==
  ASSUME InputsInv
  PROVE  ExplicitInputsShutOut
<1> SUFFICES ASSUME stage = "loaded" PROVE ExplicitInputsShutOut
  BY DEF ExplicitInputsShutOut
<1>1. /\ merged = Merged /\ config = ConfigText
      /\ action = IF ActionText = Blank THEN Nothing ELSE ActionText
  BY DEF InputsInv
<1>2. Lookup(given.process, ConfigJSON) # Blank => Lookup(merged, ConfigJSON) = Lookup(given.process, ConfigJSON)
  BY <1>1 DEF Merged, Overlay, Lookup
<1> QED
  BY <1>1, <1>2, SourcesInOrder DEF ExplicitInputsShutOut, ConfigText, ActionText

\* For any inputs, the config a plugin works on is the one they gave: decided by the first
\* source that was set, and delivered whole through buffers that grow
\* (sdk/local_inputs.go:27, 182-209, sdk/config.go:27-55).
THEOREM ConfigIsGiven == Spec => []ConfigIsTheOneGiven
<1>1. InputsInv /\ ConfigInv => ConfigIsTheOneGiven
  BY ExplicitDecides DEF ConfigInv, ConfigIsTheOneGiven
<1> QED
  BY <1>1, InputsInvHold, PTL

-----------------------------------------------------------------------------
(* Lists filtered and flattened. *)

Chosen(items, places) == {items[i] : i \in places \cap DOMAIN items}

LEMMA KeptIsChosen ==
  ASSUME NEW S, NEW items \in Seq(S), NEW chosen
  PROVE  Kept(items, chosen) \in Seq(Chosen(items, chosen))
<1> USE DEF Chosen
<1> DEFINE C == {items[i] : i \in chosen \cap DOMAIN items}
           Next0(f, n) == IF n = 0 THEN << >>
                          ELSE IF n \in chosen THEN Append(f[n - 1], items[n]) ELSE f[n - 1]
<1>1. Len(items) \in Nat /\ DOMAIN items = 1..Len(items)
  OBVIOUS
<1>2. PICK step : step = [n \in Nat |-> [list \in Seq(C) |->
                            IF n \in chosen \cap DOMAIN items THEN Append(list, items[n]) ELSE list]]
  OBVIOUS
<1>3. step \in [Nat -> [Seq(C) -> Seq(C)]]
  <2>1. ASSUME NEW n \in Nat, NEW list \in Seq(C)
        PROVE  (IF n \in chosen \cap DOMAIN items THEN Append(list, items[n]) ELSE list) \in Seq(C)
    <3>1. CASE n \in chosen \cap DOMAIN items
      <4>1. items[n] \in C
        BY <3>1
      <4> HIDE DEF C
      <4> QED
        BY <3>1, <4>1, AppendProperties
    <3>2. CASE n \notin chosen \cap DOMAIN items
      BY <3>2
    <3> QED
      BY <3>1, <3>2
  <2> HIDE DEF C
  <2> QED
    BY <1>2, <2>1
<1>4. << >> \in Seq(C)
  OBVIOUS
<1>5. PICK f \in [Nat -> Seq(C)] : f[0] = << >> /\ \A n \in Nat : f[n + 1] = step[n + 1][f[n]]
  <2> HIDE DEF C
  <2>1. PICK T : T = Seq(C)
    OBVIOUS
  <2>2. << >> \in T /\ step \in StepsOn(T)
    BY <1>3, <1>4, <2>1 DEF StepsOn
  <2>3. PICK start \in T : start = << >>
    BY <2>2
  <2>4. PICK f : Follows(f, T, start, step)
    BY <2>2, Recursion
  <2> QED
    BY <2>1, <2>3, <2>4 DEF Follows
<1>6. ASSUME NEW n \in 0..Len(items) PROVE f[n] = Next0(f, n)
  <2>1. CASE n = 0
    BY <1>5, <2>1
  <2>2. CASE n # 0
    <3>1. n - 1 \in Nat /\ (n - 1) + 1 = n
      BY <1>1, <2>2
    <3>2. f[n] = step[n][f[n - 1]] /\ f[n - 1] \in Seq(C)
      BY <1>5, <3>1
    <3>3. n \in DOMAIN items /\ n \in Nat
      BY <1>1, <2>2
    <3> HIDE DEF C
    <3> QED
      BY <1>2, <2>2, <3>2, <3>3
  <2> QED
    BY <2>1, <2>2
<1>7. PICK g : g = [n \in 0..Len(items) |-> f[n]]
  OBVIOUS
<1>8. g = [n \in 0..Len(items) |-> Next0(g, n)]
  <2>1. ASSUME NEW n \in 0..Len(items) PROVE g[n] = Next0(g, n)
    BY <1>1, <1>6, <1>7
  <2> QED
    BY <1>7, <2>1
<1>9. PICK kept : /\ kept = CHOOSE k : k = [n \in 0..Len(items) |-> Next0(k, n)]
                  /\ Kept(items, chosen) = kept[Len(items)]
  BY DEF Kept
<1>10. kept = [n \in 0..Len(items) |-> Next0(kept, n)]
  BY <1>8, <1>9
<1>11. PICK fine : fine = {m \in Nat : m <= Len(items) => kept[m] = f[m]}
  OBVIOUS
<1>12. 0 \in fine
  BY <1>1, <1>5, <1>10, <1>11
<1>13. ASSUME NEW m \in Nat, m \in fine PROVE m + 1 \in fine
  <2> SUFFICES ASSUME m + 1 <= Len(items) PROVE kept[m + 1] = f[m + 1]
    BY <1>11
  <2>1. kept[m] = f[m] /\ m + 1 \in 0..Len(items) /\ (m + 1) - 1 = m /\ m + 1 # 0
    BY <1>1, <1>11, <1>13
  <2>2. kept[m + 1] = Next0(kept, m + 1)
    BY <1>10, <2>1
  <2>3. f[m + 1] = Next0(f, m + 1)
    BY <1>6, <2>1
  <2> QED
    BY <2>1, <2>2, <2>3
<1>14. kept[Len(items)] = f[Len(items)]
  <2>1. \A m \in Nat : m \in fine
    BY <1>12, <1>13, Induction
  <2> QED
    BY <1>1, <1>11, <2>1
<1> QED
  BY <1>1, <1>5, <1>9, <1>14

-----------------------------------------------------------------------------
FlatItem == [name: STRING, entity: STRING, item: PayloadItem]
Target == [instance: STRING, descriptor: STRING, uid: STRING, service: STRING, device: STRING]

LEMMA FlattenItemsType ==
  ASSUME NEW payload \in Payloads
  PROVE  FlattenItems(payload) \in Seq(FlatItem)
<1>1. payload.inputs \in Seq(PayloadInput)
  BY PayloadsAssumption
<1>2. PICK list \in Seq(PayloadInput) : list = payload.inputs
  BY <1>1
<1> DEFINE Flat(i) == [k \in DOMAIN list[i].items |->
                         [name |-> list[i].name, entity |-> list[i].entity, item |-> list[i].items[k]]]
<1>3. ASSUME NEW i \in DOMAIN list PROVE Flat(i) \in Seq(FlatItem)
  <2>1. PICK input \in PayloadInput : input = list[i]
    BY <1>2
  <2>2. PICK items \in Seq(PayloadItem) : items = input.items
    BY <2>1 DEF PayloadInput
  <2>3. ASSUME NEW k \in DOMAIN items
        PROVE  [name |-> input.name, entity |-> input.entity, item |-> items[k]] \in FlatItem
    <3>1. items[k] \in PayloadItem /\ input.name \in STRING /\ input.entity \in STRING
      BY <2>1, <2>2 DEF PayloadInput
    <3> QED
      BY <3>1 DEF FlatItem
  <2>4. PICK flat : flat = [k \in DOMAIN items |->
                              [name |-> input.name, entity |-> input.entity, item |-> items[k]]]
    OBVIOUS
  <2>5. DOMAIN flat = 1..Len(items) /\ Len(items) \in Nat /\ \A k \in 1..Len(items) : flat[k] \in FlatItem
    BY <2>3, <2>4
  <2>6. flat \in [1..Len(items) -> FlatItem]
    BY <2>4, <2>5
  <2>7. flat \in Seq(FlatItem)
    BY <2>5, <2>6
  <2> QED
    BY <2>1, <2>2, <2>4, <2>7
<1>4. PICK seqs : seqs = [i \in DOMAIN list |-> Flat(i)]
  OBVIOUS
<1>5. seqs \in Seq(Seq(FlatItem))
  <2> HIDE DEF Flat
  <2>1. seqs \in [1..Len(list) -> Seq(FlatItem)] /\ Len(list) \in Nat
    BY <1>3, <1>4
  <2> QED
    BY <2>1
<1>6. FlattenItems(payload) = FlattenSeq(seqs)
  BY <1>2, <1>4 DEF FlattenItems
<1> QED
  BY <1>5, <1>6, FlattenType

\* A context for each item.
LEMMA ContextsOf ==
  ASSUME NEW items \in Seq(FlatItem)
  PROVE  /\ Contexts(items) \in Seq(Target)
         /\ DOMAIN Contexts(items) = DOMAIN items
         /\ \A i \in DOMAIN items : Contexts(items)[i] = Context(items[i].item)
<1>1. ASSUME NEW i \in DOMAIN items PROVE Context(items[i].item) \in Target
  <2>0. PICK flat \in FlatItem : flat = items[i]
    OBVIOUS
  <2>1. PICK item \in PayloadItem : item = items[i].item
    BY <2>0 DEF FlatItem
  <2> QED
    BY <2>1 DEF Context, PayloadItem, Target
<1>2. Contexts(items) \in [1..Len(items) -> Target] /\ Len(items) \in Nat
  BY <1>1 DEF Contexts
<1> QED
  BY <1>2 DEF Contexts

-----------------------------------------------------------------------------
(* Targets. *)

Statuses == {"", "UNKNOWN", "OK", "WARNING", "CRITICAL"}
GivenStatuses == {"", "CRITICAL"}
Unsaid == {"", "UNKNOWN"}
BuiltFields == {"kind", "status", "summary", "instance", "service", "device", "labels"}
Reading == [value: Values, warn: Int, crit: Int]

\* A target is what one item of the payload says, and that item is one that decodes.
OfItem(payload, target) ==
  \E i \in DOMAIN FlattenItems(payload) :
    /\ target = Context(FlattenItems(payload)[i].item)
    /\ target.instance # Blank

TargetsOf(payload, list) ==
  list \in Seq(Target) /\ \A k \in DOMAIN list : OfItem(payload, list[k])

ItemsOf(payload, items) ==
  /\ items \in Seq(FlatItem)
  /\ \A k \in DOMAIN items : \E i \in DOMAIN FlattenItems(payload) : items[k] = FlattenItems(payload)[i]

\* What a result says of a target.
Speaks(result, target) ==
  /\ result.instance = target.instance /\ result.service = target.service
  /\ result.device = target.device
  /\ result.labels["check_instance_id"] = target.instance
  /\ result.labels["descriptor_id"] = target.descriptor
  /\ target.uid # Blank => result.labels["target_uid"] = target.uid

\* The label is the UID of the last of the first n targets that has one.
UIDFrom(labels, list, n) ==
  "target_uid" \in DOMAIN labels =>
    \E k \in 1..n :
      /\ list[k].uid = labels["target_uid"]
      /\ \A j \in (k + 1)..n : list[j].uid = Blank

TargetsInv ==
  /\ inputs \in Payloads \cup {Unbuilt}
  /\ inputs = Unbuilt => targets = << >>
  /\ targets \in Seq(Target)
  /\ checking \in 0..Len(targets)
  /\ \A i \in DOMAIN targets : Valid(inputs) /\ OfItem(inputs, targets[i])

BuiltInv ==
  built # Unbuilt =>
    /\ DOMAIN built = BuiltFields /\ built.kind = "result" /\ built.status \in Statuses
    /\ checking \in DOMAIN targets /\ Speaks(built, targets[checking])
    /\ UIDFrom(built.labels, targets, checking)

ReadingsInv ==
  /\ readings \in [given: GivenStatuses, taken: Seq(Reading)]
  /\ built # Unbuilt => built.status = StatusOf(readings)

ChecksInv == TargetsInv /\ BuiltInv /\ ReadingsInv

\* The items a plugin takes are items of the payload.
LEMMA ChosenItems ==
  ASSUME NEW payload \in Payloads, NEW chosen
  PROVE  ItemsOf(payload, Kept(FlattenItems(payload), chosen))
<1>1. PICK items \in Seq(FlatItem) : items = FlattenItems(payload)
  BY FlattenItemsType
<1>2. PICK S : S = Chosen(items, chosen)
  OBVIOUS
<1>3. PICK kept \in Seq(S) : kept = Kept(items, chosen)
  BY <1>1, <1>2, KeptIsChosen
<1>4. \A k \in DOMAIN kept : kept[k] \in FlatItem /\ \E i \in DOMAIN items : kept[k] = items[i]
  BY <1>1, <1>2, <1>3 DEF Chosen
<1>5. kept \in Seq(FlatItem)
  BY <1>3, <1>4
<1> QED
  BY <1>1, <1>3, <1>4, <1>5 DEF ItemsOf

\* An item that decodes names an instance.
LEMMA DecodedInstance ==
  ASSUME NEW item \in PayloadItem, Decodes(item)
  PROVE  Context(item).instance # Blank
  BY PayloadsAssumption DEF Decodes, Context, Blank

LEMMA DecodedTargets ==
  ASSUME NEW payload \in Payloads, NEW items, ItemsOf(payload, items),
         \A k \in DOMAIN items : Decodes(items[k].item)
  PROVE  TargetsOf(payload, Contexts(items))
<1> USE DEF ItemsOf
<1>1. /\ Contexts(items) \in Seq(Target) /\ DOMAIN Contexts(items) = DOMAIN items
      /\ \A k \in DOMAIN items : Contexts(items)[k] = Context(items[k].item)
  BY ContextsOf
<1>2. ASSUME NEW k \in DOMAIN items PROVE Context(items[k].item).instance # Blank
  <2>1. PICK flat \in FlatItem : flat = items[k]
    OBVIOUS
  <2>2. flat.item \in PayloadItem /\ Decodes(flat.item)
    BY <2>1 DEF FlatItem
  <2> QED
    BY <2>1, <2>2, DecodedInstance
<1> QED
  BY <1>1, <1>2 DEF TargetsOf, OfItem

LEMMA AllTargets ==
  ASSUME NEW payload \in Payloads
  PROVE  TargetContexts(payload) = << >> \/ TargetsOf(payload, TargetContexts(payload))
<1>1. PICK items : items = FlattenItems(payload)
  OBVIOUS
<1>2. ItemsOf(payload, items)
  BY <1>1, FlattenItemsType DEF ItemsOf
<1>3. CASE \A i \in DOMAIN items : Decodes(items[i].item)
  <2>1. TargetsOf(payload, Contexts(items))
    BY <1>2, <1>3, DecodedTargets
  <2> QED
    BY <1>1, <1>3, <2>1 DEF TargetContexts
<1> QED
  BY <1>1, <1>3 DEF TargetContexts

LEMMA SomeTargets ==
  ASSUME NEW payload \in Payloads, NEW kind, NEW name
  PROVE  TargetsOf(payload, Contexts(Decoding(ItemsBy(payload, kind, name))))
<1>1. PICK places : ItemsBy(payload, kind, name) = Kept(FlattenItems(payload), places)
  BY DEF ItemsBy
<1>2. PICK items : items = ItemsBy(payload, kind, name)
  OBVIOUS
<1>3. ItemsOf(payload, items)
  BY <1>1, <1>2, ChosenItems
<1>4. PICK chosen : chosen = {i \in DOMAIN items : Decodes(items[i].item)}
  OBVIOUS
<1>5. PICK S : S = Chosen(items, chosen)
  OBVIOUS
<1>6. PICK kept \in Seq(S) : kept = Kept(items, chosen)
  <2>1. items \in Seq(FlatItem)
    BY <1>3 DEF ItemsOf
  <2> QED
    BY <1>5, <2>1, KeptIsChosen
<1>7. ASSUME NEW k \in DOMAIN kept PROVE \E i \in DOMAIN items : kept[k] = items[i] /\ Decodes(items[i].item)
  <2>1. kept[k] \in Chosen(items, chosen)
    BY <1>5, <1>6
  <2>2. PICK i \in chosen \cap DOMAIN items : kept[k] = items[i]
    BY <2>1 DEF Chosen
  <2> QED
    BY <1>4, <2>2
<1>8. \A k \in DOMAIN kept : Decodes(kept[k].item) /\ kept[k] \in FlatItem
  BY <1>3, <1>7 DEF ItemsOf
<1>9. kept \in Seq(FlatItem)
  BY <1>6, <1>8
<1>10. ItemsOf(payload, kept)
  BY <1>3, <1>7, <1>9 DEF ItemsOf
<1>11. kept = Decoding(ItemsBy(payload, kind, name))
  BY <1>2, <1>4, <1>6 DEF Decoding
<1>12. TargetsOf(payload, Contexts(kept))
  BY <1>8, <1>10, DecodedTargets
<1> QED
  BY <1>11, <1>12

LEMMA TakeInputsKeeps ==
  ASSUME ChecksInv, NEW payload \in Payloads, TakeInputs(payload)
  PROVE  ChecksInv'
<1>1. targets = << >> /\ checking = 0 /\ built = Unbuilt
  <2>1. inputs = Unbuilt /\ targets = << >>
    BY DEF TakeInputs, ChecksInv, TargetsInv
  <2> QED
    BY <2>1 DEF ChecksInv, TargetsInv, BuiltInv
<1>2. UNCHANGED <<checking, built, readings>> /\ inputs' = payload
  BY DEF TakeInputs
<1>3. payload # Unbuilt
  <2>1. PICK record \in [schema: STRING, policy: STRING, agent: STRING, generated: STRING,
                         version: Int, inputs: Seq(PayloadInput)] : record = payload
    BY PayloadsAssumption
  <2>2. "schema" \in DOMAIN payload /\ "schema" \notin DOMAIN Unbuilt
    BY <2>1 DEF Unbuilt
  <2> QED
    BY <2>2
<1>4. CASE targets' = << >>
  <2>1. TargetsInv'
    BY <1>1, <1>2, <1>3, <1>4 DEF TargetsInv
  <2> QED
    BY <1>1, <1>2, <2>1 DEF ChecksInv, BuiltInv, ReadingsInv
<1>5. ASSUME NEW list, TargetsOf(payload, list), Valid(payload), targets' = list
      PROVE  ChecksInv'
  <2>1. TargetsInv'
    BY <1>1, <1>2, <1>3, <1>5 DEF TargetsInv, TargetsOf
  <2> QED
    BY <1>1, <1>2, <2>1 DEF ChecksInv, BuiltInv, ReadingsInv
<1>6. CASE ~Valid(payload)
  BY <1>4, <1>6 DEF TakeInputs
<1>7. CASE Valid(payload) /\ targets' = TargetContexts(payload)
  BY <1>4, <1>5, <1>7, AllTargets
<1>8. ASSUME Valid(payload), NEW kind, NEW name, targets' = Contexts(Decoding(ItemsBy(payload, kind, name)))
      PROVE  ChecksInv'
  BY <1>5, <1>8, SomeTargets
<1>9. CASE Valid(payload)
  <2>1. \/ targets' = TargetContexts(payload)
        \/ \E kind \in {"entity", "name"}, name \in {"", "Host", "service"} :
             targets' = Contexts(Decoding(ItemsBy(payload, kind, name)))
    BY <1>9 DEF TakeInputs
  <2> QED
    BY <1>7, <1>8, <1>9, <2>1
<1> QED
  BY <1>6, <1>9

\* The labels a target leaves name it.
LEMMA LabelsName ==
  ASSUME NEW labels, NEW target \in Target, NEW written, written = Labelled(labels, target)
  PROVE  /\ written["check_instance_id"] = target.instance
         /\ written["descriptor_id"] = target.descriptor
         /\ target.uid # Blank => written["target_uid"] = target.uid
         /\ target.uid = Blank /\ "target_uid" \in DOMAIN written =>
              "target_uid" \in DOMAIN labels /\ written["target_uid"] = labels["target_uid"]
<1>1. PICK one : one = Overlay(labels, Entry("check_instance_id", target.instance))
  OBVIOUS
<1>2. PICK two : two = Overlay(one, Entry("descriptor_id", target.descriptor))
  OBVIOUS
<1>3. PICK three : three = Overlay(two, Entry("target_uid", target.uid))
  OBVIOUS
<1>4. /\ "check_instance_id" \in DOMAIN one /\ one["check_instance_id"] = target.instance
  BY <1>1 DEF Overlay, Entry
<1>5. /\ {"check_instance_id", "descriptor_id"} \subseteq DOMAIN two
      /\ two["check_instance_id"] = target.instance /\ two["descriptor_id"] = target.descriptor
  BY <1>2, <1>4 DEF Overlay, Entry
<1>6. /\ three["check_instance_id"] = target.instance /\ three["descriptor_id"] = target.descriptor
      /\ three["target_uid"] = target.uid
  BY <1>3, <1>5 DEF Overlay, Entry
<1>7. written = IF target.uid = Blank THEN two ELSE three
  BY <1>1, <1>2, <1>3, Zenon DEF Labelled, Blank
<1>8. "target_uid" \in DOMAIN two =>
        "target_uid" \in DOMAIN labels /\ two["target_uid"] = labels["target_uid"]
  BY <1>1, <1>2 DEF Overlay, Entry
<1> QED
  BY <1>5, <1>6, <1>7, <1>8

\* One target further, the label is that target's or what it was.
LEMMA UIDFollows ==
  ASSUME NEW n \in Nat, NEW list \in Seq(Target), n < Len(list), NEW labels,
         UIDFrom(labels, list, n), NEW written, written = Labelled(labels, list[n + 1])
  PROVE  UIDFrom(written, list, n + 1)
<1>1. PICK target \in Target : target = list[n + 1]
  OBVIOUS
<1>2. /\ target.uid # Blank => written["target_uid"] = target.uid
      /\ target.uid = Blank /\ "target_uid" \in DOMAIN written =>
           "target_uid" \in DOMAIN labels /\ written["target_uid"] = labels["target_uid"]
  BY <1>1, LabelsName
<1>3. CASE target.uid # Blank
  <2>1. list[n + 1].uid = written["target_uid"] /\ n + 1 \in 1..n + 1
    BY <1>1, <1>2, <1>3
  <2>2. \A j \in (n + 1 + 1)..(n + 1) : FALSE
    OBVIOUS
  <2> QED
    BY <2>1, <2>2 DEF UIDFrom
<1>4. CASE target.uid = Blank
  <2>1. SUFFICES ASSUME "target_uid" \in DOMAIN written
                 PROVE  \E k \in 1..n + 1 :
                          /\ list[k].uid = written["target_uid"]
                          /\ \A j \in (k + 1)..(n + 1) : list[j].uid = Blank
    BY DEF UIDFrom
  <2>2. PICK k \in 1..n : /\ list[k].uid = labels["target_uid"]
                          /\ \A j \in (k + 1)..n : list[j].uid = Blank
    BY <1>2, <1>4, <2>1 DEF UIDFrom
  <2>3. \A j \in (k + 1)..(n + 1) : list[j].uid = Blank
    BY <1>1, <1>4, <2>2
  <2> QED
    BY <1>2, <1>4, <2>1, <2>2, <2>3
<1> QED
  BY <1>3, <1>4

LEMMA ForTargetSpeaks ==
  ASSUME NEW result, DOMAIN result = BuiltFields, result.kind = "result", result.status \in Statuses,
         NEW target \in Target, NEW spoken, spoken = ForTarget(result, target)
  PROVE  /\ DOMAIN spoken = BuiltFields /\ spoken.kind = "result" /\ spoken.status = result.status
         /\ Speaks(spoken, target) /\ spoken.labels = Labelled(result.labels, target)
<1>1. PICK labels : labels = Labelled(result.labels, target)
  OBVIOUS
<1>2. spoken = [result EXCEPT !.instance = target.instance, !.service = target.service,
                              !.device = target.device, !.labels = labels]
  BY <1>1 DEF ForTarget
<1>3. /\ DOMAIN spoken = BuiltFields /\ spoken.kind = "result" /\ spoken.status = result.status
      /\ spoken.instance = target.instance /\ spoken.service = target.service
      /\ spoken.device = target.device /\ spoken.labels = labels
  BY <1>2 DEF BuiltFields
<1>4. /\ labels["check_instance_id"] = target.instance
      /\ labels["descriptor_id"] = target.descriptor
      /\ target.uid # Blank => labels["target_uid"] = target.uid
  BY <1>1, LabelsName
<1> QED
  BY <1>1, <1>3, <1>4 DEF Speaks

\* What ForTarget is called on: a result that says nothing of the next target yet, with the
\* status that its readings come to.
LEMMA TargetBase ==
  ASSUME ChecksInv, NEW status \in GivenStatuses, CheckTarget(status, "given")
  PROVE  \E base :
           /\ DOMAIN base = BuiltFields /\ base.kind = "result" /\ base.status \in Statuses
           /\ built' = ForTarget(base, targets[checking'])
           /\ UIDFrom(base.labels, targets, checking)
           /\ readings' \in [given: GivenStatuses, taken: Seq(Reading)]
           /\ base.status = StatusOf(readings')
<1>1. /\ DOMAIN Fresh = BuiltFields /\ Fresh.kind = "result" /\ DOMAIN Fresh.labels = {}
  <2>1. DOMAIN Fresh = BuiltFields /\ Fresh.kind = "result" /\ Fresh.labels = << >>
    BY Zenon DEF Fresh, BuiltFields
  <2> QED
    BY <2>1
<1>2. UIDFrom(Fresh.labels, targets, checking)
  BY <1>1 DEF UIDFrom
<1>3. ASSUME NEW result \in {Fresh, built} \ {Unbuilt},
             built' = ForTarget([result EXCEPT !.status = status, !.summary = "given"],
                                targets[checking']),
             readings' = [given |-> status, taken |-> << >>]
      PROVE  \E base :
               /\ DOMAIN base = BuiltFields /\ base.kind = "result" /\ base.status \in Statuses
               /\ built' = ForTarget(base, targets[checking'])
               /\ UIDFrom(base.labels, targets, checking)
               /\ readings' \in [given: GivenStatuses, taken: Seq(Reading)]
               /\ base.status = StatusOf(readings')
  <2>1. /\ DOMAIN result = BuiltFields /\ result.kind = "result"
        /\ UIDFrom(result.labels, targets, checking)
    BY <1>1, <1>2, <1>3 DEF ChecksInv, BuiltInv
  <2>2. PICK base : base = [result EXCEPT !.status = status, !.summary = "given"]
    OBVIOUS
  <2>3. /\ DOMAIN base = BuiltFields /\ base.kind = "result" /\ base.status = status
        /\ base.labels = result.labels
    BY <2>1, <2>2 DEF BuiltFields
  <2>4. status \in Statuses
    BY Zenon DEF Statuses, GivenStatuses
  <2>5. StatusOf([given |-> status, taken |-> << >>]) = status
    BY DEF StatusOf
  <2>6. [given |-> status, taken |-> << >>] \in [given: GivenStatuses, taken: Seq(Reading)]
    OBVIOUS
  <2>7. readings' \in [given: GivenStatuses, taken: Seq(Reading)] /\ base.status = StatusOf(readings')
    BY <1>3, <2>3, <2>5, <2>6
  <2> QED
    BY <1>3, <2>1, <2>2, <2>3, <2>4, <2>7
<1>4. CASE /\ built # Unbuilt
           /\ built' = ForTarget(built, targets[checking']) /\ UNCHANGED readings
  BY <1>4 DEF ChecksInv, BuiltInv, ReadingsInv
<1> QED
  BY <1>3, <1>4 DEF CheckTarget

LEMMA CheckTargetKeeps ==
  ASSUME ChecksInv, NEW status \in GivenStatuses, CheckTarget(status, "given")
  PROVE  ChecksInv'
<1>1. PICK base :
        /\ DOMAIN base = BuiltFields /\ base.kind = "result" /\ base.status \in Statuses
        /\ built' = ForTarget(base, targets[checking'])
        /\ UIDFrom(base.labels, targets, checking)
        /\ readings' \in [given: GivenStatuses, taken: Seq(Reading)]
        /\ base.status = StatusOf(readings')
  BY TargetBase
<1>2. checking < Len(targets) /\ checking' = checking + 1 /\ UNCHANGED <<inputs, targets>>
  BY DEF CheckTarget
<1>3. TargetsInv' /\ checking' \in DOMAIN targets
  <2>0. targets \in Seq(Target) /\ checking \in 0..Len(targets)
    BY DEF ChecksInv, TargetsInv
  <2>1. checking' \in DOMAIN targets /\ checking' \in 0..Len(targets)
    BY <1>2, <2>0
  <2> QED
    BY <1>2, <2>1 DEF ChecksInv, TargetsInv
<1>4. PICK target \in Target : target = targets[checking']
  BY <1>3 DEF ChecksInv, TargetsInv
<1>5. PICK spoken : spoken = ForTarget(base, target)
  OBVIOUS
<1>6. built' = spoken
  BY <1>1, <1>4, <1>5
<1>7. /\ DOMAIN spoken = BuiltFields /\ spoken.kind = "result" /\ spoken.status = base.status
      /\ Speaks(spoken, target) /\ spoken.labels = Labelled(base.labels, target)
  BY <1>1, <1>5, ForTargetSpeaks
<1>8. UIDFrom(spoken.labels, targets, checking')
  <2>1. targets \in Seq(Target) /\ checking \in Nat /\ checking < Len(targets)
    BY <1>2 DEF ChecksInv, TargetsInv
  <2>2. spoken.labels = Labelled(base.labels, targets[checking + 1])
    BY <1>2, <1>4, <1>7
  <2>3. PICK labels : labels = base.labels /\ UIDFrom(labels, targets, checking)
    BY <1>1
  <2>4. UIDFrom(spoken.labels, targets, checking + 1)
    BY <2>1, <2>2, <2>3, UIDFollows
  <2> QED
    BY <1>2, <2>4
<1>9. BuiltInv'
  BY <1>1, <1>2, <1>3, <1>4, <1>6, <1>7, <1>8 DEF BuiltInv
<1>10. ReadingsInv'
  BY <1>1, <1>6, <1>7 DEF ReadingsInv
<1> QED
  BY <1>3, <1>9, <1>10 DEF ChecksInv

-----------------------------------------------------------------------------
\* The readings at or above one of their limits, and above which.
Over(taken, k, limit) == ~taken[k].value.nan /\ limit > 0 /\ taken[k].value.at >= limit
Criticals(taken) == {k \in DOMAIN taken : Over(taken, k, taken[k].crit)}
Breaches(taken) == Criticals(taken) \cup {k \in DOMAIN taken : Over(taken, k, taken[k].warn)}

\* What the last of them is.
Critical(reading) == Reaches(reading.value, Threshold(reading.crit))
Warned(reading) == Reaches(reading.value, Threshold(reading.warn))

LEMMA StatusByBreaches ==
  ASSUME NEW history
  PROVE  StatusOf(history) =
           IF Breaches(history.taken) # {}
             THEN IF Max(Breaches(history.taken)) \in Criticals(history.taken) THEN "CRITICAL" ELSE "WARNING"
           ELSE IF history.taken # << >> /\ history.given \in Unsaid THEN "OK"
           ELSE history.given
  BY Zenon DEF StatusOf, Breaches, Criticals, Over, Unsaid

LEMMA BreachOfLast ==
  ASSUME NEW taken \in Seq(Reading), NEW reading \in Reading,
         NEW longer, longer = Append(taken, reading), NEW n, n = Len(taken) + 1
  PROVE  /\ n \in Nat /\ n \notin DOMAIN taken /\ \A k \in Breaches(taken) : k \in Nat /\ k < n
         /\ n \in Criticals(longer) <=> Critical(reading)
         /\ n \in Breaches(longer) <=>
              Critical(reading) \/ Warned(reading)
         /\ Criticals(longer) \ {n} = Criticals(taken) /\ Breaches(longer) \ {n} = Breaches(taken)
<1>1. /\ DOMAIN longer = DOMAIN taken \cup {n} /\ longer[n] = reading /\ n \in Nat /\ n \notin DOMAIN taken
      /\ \A k \in DOMAIN taken : longer[k] = taken[k] /\ k \in Nat /\ k < n
  OBVIOUS
<1>2. \A limit : limit \in {reading.warn, reading.crit} =>
        (Over(longer, n, limit) <=> Reaches(reading.value, Threshold(limit)))
  BY <1>1 DEF Over, Reaches, Threshold
<1>3. \A k \in DOMAIN taken : \A limit : Over(longer, k, limit) <=> Over(taken, k, limit)
  BY <1>1 DEF Over
<1> QED
  BY <1>1, <1>2, <1>3 DEF Breaches, Criticals, Critical, Warned

\* A result is judged by its readings one after another.
LEMMA StatusGrows ==
  ASSUME NEW status \in GivenStatuses, NEW taken \in Seq(Reading), NEW reading \in Reading,
         NEW longer, longer = Append(taken, reading),
         NEW before, before = StatusOf([given |-> status, taken |-> taken])
  PROVE  StatusOf([given |-> status, taken |-> longer])
           = Judged(before, reading.value, Threshold(reading.warn), Threshold(reading.crit))
<1>1. PICK n : n = Len(taken) + 1
  OBVIOUS
<1>4. /\ n \in Nat /\ n \notin DOMAIN taken /\ \A k \in Breaches(taken) : k \in Nat /\ k < n
      /\ n \in Criticals(longer) <=> Critical(reading)
      /\ n \in Breaches(longer) <=> Critical(reading) \/ Warned(reading)
      /\ Criticals(longer) \ {n} = Criticals(taken) /\ Breaches(longer) \ {n} = Breaches(taken)
  BY <1>1, BreachOfLast
<1>5. PICK after : after = StatusOf([given |-> status, taken |-> longer])
  OBVIOUS
<1>6. after = IF Breaches(longer) # {}
                THEN IF Max(Breaches(longer)) \in Criticals(longer) THEN "CRITICAL" ELSE "WARNING"
              ELSE IF longer # << >> /\ status \in Unsaid THEN "OK" ELSE status
  BY <1>5, StatusByBreaches
<1>7. before = IF Breaches(taken) # {}
                 THEN IF Max(Breaches(taken)) \in Criticals(taken) THEN "CRITICAL" ELSE "WARNING"
               ELSE IF taken # << >> /\ status \in Unsaid THEN "OK" ELSE status
  BY StatusByBreaches
<1>8. longer # << >>
  OBVIOUS
<1>9. CASE Critical(reading) \/ Warned(reading)
  <2>1. n \in Breaches(longer) /\ \A k \in Breaches(longer) : n >= k /\ k \in Nat
    BY <1>4, <1>9
  <2>2. Max(Breaches(longer)) = n
    <3>1. PICK over : over = Breaches(longer)
      OBVIOUS
    <3>2. PICK greatest : greatest = CHOOSE x \in over : \A y \in over : x >= y
      OBVIOUS
    <3>3. greatest \in over /\ \A y \in over : greatest >= y
      BY <1>4, <2>1, <3>1, <3>2
    <3>4. greatest = n
      BY <1>4, <2>1, <3>1, <3>3
    <3> QED
      BY <3>1, <3>2, <3>4 DEF Max
  <2>3. after = IF Critical(reading) THEN "CRITICAL" ELSE "WARNING"
    BY <1>4, <1>6, <2>1, <2>2
  <2> QED
    BY <1>5, <1>9, <2>3 DEF Judged, Critical, Warned
<1>10. CASE ~Critical(reading) /\ ~Warned(reading)
  <2>1. Breaches(longer) = Breaches(taken) /\ Criticals(longer) = Criticals(taken)
    BY <1>4, <1>10
  <2>a. "OK" \notin Unsaid /\ "WARNING" \notin Unsaid /\ "CRITICAL" \notin Unsaid
    BY Zenon DEF Unsaid
  <2>2. after = IF before \in Unsaid THEN "OK" ELSE before
    BY <1>6, <1>7, <1>8, <2>1, <2>a
  <2> QED
    BY <1>5, <1>10, <2>2 DEF Judged, Critical, Warned, Unsaid
<1> QED
  BY <1>9, <1>10

LEMMA ApplyThresholdsKeeps ==
  ASSUME ChecksInv, NEW value \in Values, NEW limits \in Limits, ApplyThresholds(value, limits)
  PROVE  ChecksInv'
<1>1. PICK reading \in Reading : reading = [value |-> value, warn |-> limits[1], crit |-> limits[2]]
  BY ReadingsAssumption DEF Reading
<1>2. PICK status \in GivenStatuses, taken \in Seq(Reading) :
        /\ readings = [given |-> status, taken |-> taken]
        /\ readings.given = status /\ readings.taken = taken
  BY DEF ChecksInv, ReadingsInv
<1>3. PICK longer : longer = Append(taken, reading)
  OBVIOUS
<1>4. PICK judged : judged = Judged(built.status, value, Threshold(limits[1]), Threshold(limits[2]))
  OBVIOUS
<1>5. /\ built # Unbuilt /\ UNCHANGED <<inputs, targets, checking>>
      /\ built' = [built EXCEPT !.status = judged]
  BY <1>4 DEF ApplyThresholds
<1>6. readings' = [given |-> status, taken |-> longer]
  BY <1>1, <1>2, <1>3 DEF ApplyThresholds
<1>7. judged \in Statuses
  BY <1>4, <1>5, Zenon DEF Judged, ChecksInv, BuiltInv, Statuses
<1>8. judged = StatusOf([given |-> status, taken |-> longer])
  <2>1. built.status = StatusOf([given |-> status, taken |-> taken])
    BY <1>2, <1>5 DEF ChecksInv, ReadingsInv
  <2>2. PICK before : before = built.status
    OBVIOUS
  <2>3. reading.value = value /\ reading.warn = limits[1] /\ reading.crit = limits[2]
    BY <1>1
  <2>4. judged = Judged(before, reading.value, Threshold(reading.warn), Threshold(reading.crit))
    BY <1>4, <2>2, <2>3
  <2> QED
    BY <1>3, <2>1, <2>2, <2>4, StatusGrows
<1>9. /\ DOMAIN built' = BuiltFields /\ built'.kind = "result" /\ built'.status = judged
      /\ built'.instance = built.instance /\ built'.service = built.service
      /\ built'.device = built.device /\ built'.labels = built.labels
  <2>1. DOMAIN built = BuiltFields /\ built.kind = "result"
    BY <1>5 DEF ChecksInv, BuiltInv
  <2> QED
    BY <1>5, <2>1 DEF BuiltFields
<1>10. TargetsInv'
  BY <1>5 DEF ChecksInv, TargetsInv
<1>11. BuiltInv'
  BY <1>5, <1>7, <1>9 DEF ChecksInv, BuiltInv, Speaks
<1>12. ReadingsInv'
  <2>1. [given |-> status, taken |-> longer] \in [given: GivenStatuses, taken: Seq(Reading)]
    BY <1>2, <1>3
  <2> QED
    BY <1>6, <1>8, <1>9, <2>1 DEF ReadingsInv
<1> QED
  BY <1>10, <1>11, <1>12 DEF ChecksInv

LEMMA ChecksStart ==
  ASSUME ChecksInit
  PROVE  ChecksInv
<1>1. readings \in [given: GivenStatuses, taken: Seq(Reading)]
  <2>1. PICK status \in GivenStatuses : status = ""
    BY Zenon DEF GivenStatuses
  <2>2. readings = [given |-> status, taken |-> << >>]
    BY <2>1, Zenon DEF ChecksInit
  <2> QED
    BY <2>2
<1>2. inputs = Unbuilt /\ targets = << >> /\ checking = 0 /\ built = Unbuilt
  BY Zenon DEF ChecksInit
<1> QED
  BY <1>1, <1>2 DEF ChecksInv, TargetsInv, BuiltInv, ReadingsInv

LEMMA ChecksKeep ==
  ASSUME ChecksInv, ChecksNext
  PROVE  ChecksInv'
<1>1. \/ \E payload \in Payloads : TakeInputs(payload)
      \/ \E status \in GivenStatuses : CheckTarget(status, "given")
      \/ \E value \in Values, limits \in Limits : ApplyThresholds(value, limits)
  BY Zenon DEF ChecksNext, GivenStatuses
<1> QED
  BY <1>1, TakeInputsKeeps, CheckTargetKeeps, ApplyThresholdsKeeps

LEMMA UnchangedChecks ==
  ASSUME ChecksInv, UNCHANGED checkVars
  PROVE  ChecksInv'
<1>1. UNCHANGED <<inputs, targets, checking, built, readings>>
  BY DEF checkVars
<1> QED
  BY <1>1 DEF ChecksInv, TargetsInv, BuiltInv, ReadingsInv

LEMMA StepOfChecks ==
  ASSUME [Next]_vars
  PROVE  ChecksNext \/ UNCHANGED checkVars
<1>1. CASE LoadInputs \/ MakeRequests \/ CheckTargets \/ BuildValues \/ SendMetrics \/ UNCHANGED vars
  BY <1>1 DEF LoadInputs, MakeRequests, CheckTargets, BuildValues, SendMetrics, vars, workVars
<1>2. CASE StartRun \/ AskConfig \/ FunctionReturned
  BY <1>2 DEF StartRun, AskConfig, FunctionReturned, workVars
<1>3. ASSUME NEW result \in Results \cup {None}, NEW failed \in BOOLEAN, NEW length \in DocumentSizes,
             Execute(result, failed, length)
      PROVE  FunctionReturned
  BY <1>3 DEF Execute
<1>4. ASSUME NEW status, NEW length \in DocumentSizes, ActOn(status, length)
      PROVE  FunctionReturned
  BY <1>4 DEF ActOn
<1> QED
  BY <1>1, <1>2, <1>3, <1>4, Zenon DEF Next

LEMMA ChecksInvHolds == Spec => []ChecksInv
<1>1. Init => ChecksInv
  BY ChecksStart DEF Init
<1>2. ChecksInv /\ [Next]_vars => ChecksInv'
  BY ChecksKeep, UnchangedChecks, StepOfChecks
<1> QED
  BY <1>1, <1>2, PTL DEF Spec

\* For any payloads, a result speaks of one target of a valid payload, in its ids and in its
\* labels, but for the target_uid label of a target without a UID: that is left as the last
\* target with a UID put it (sdk/plugin_inputs.go:114-152, sdk/result.go:164-166, 199-217).
THEOREM ResultSpeaks == Spec => []ResultSpeaksOfOneTarget
<1>1. ASSUME ChecksInv, built # Unbuilt PROVE ResultSpeaksOfOneTarget
  <2>1. PICK target : /\ target = targets[checking] /\ Speaks(built, target)
                      /\ Valid(inputs) /\ OfItem(inputs, target)
    BY <1>1 DEF ChecksInv, TargetsInv, BuiltInv
  <2>2. PICK i \in DOMAIN FlattenItems(inputs) :
          target = Context(FlattenItems(inputs)[i].item) /\ target.instance # Blank
    BY <2>1 DEF OfItem
  <2>3. PICK flat : flat = FlattenItems(inputs)[i] /\ flat \in Range(FlattenItems(inputs))
    BY <2>2 DEF Range
  <2>4. /\ target.instance = flat.item.instance /\ target.service = flat.item.service
        /\ target.device = flat.item.device /\ target.uid = flat.item.uid
        /\ target.descriptor = flat.item.descriptor
    BY <2>2, <2>3 DEF Context
  <2>5. LabelIsLastUID
    BY <1>1, Zenon DEF ChecksInv, BuiltInv, UIDFrom, LabelIsLastUID, Blank
  <2> QED
    BY <2>1, <2>2, <2>3, <2>4, <2>5, Zenon DEF ResultSpeaksOfOneTarget, Speaks, Blank
<1>2. ChecksInv => ResultSpeaksOfOneTarget
  BY <1>1 DEF ResultSpeaksOfOneTarget
<1> QED
  BY <1>2, ChecksInvHolds, PTL

-----------------------------------------------------------------------------
(* Results. *)

\* Nothing is submitted before the plugin function has returned.
SubmitInv ==
  /\ captured.kind \in {"none", "result", "action"} /\ returned.kind \in {"none", "ok", "error"}
  /\ run # "finished" => captured = None /\ returned = None
  /\ OutcomeSubmitted /\ ReadingsReachTheHost

\* What a result says once it has its defaults.
LEMMA DefaultsComplete ==
  ASSUME BuiltInv, NEW result \in Results \cup {None}, NEW failed \in BOOLEAN
  PROVE  LET stored == WithDefaults(IF failed THEN Failed(result) ELSE result) IN
         /\ stored.kind = "result"
         /\ stored.status # "" /\ stored.summary # ""
         /\ failed => stored.status = "CRITICAL"
<1>1. result = None \/ (/\ result.kind = "result"
                        /\ {"kind", "status", "summary"} \subseteq DOMAIN result)
  BY DEF Results, BuiltInv, BuiltFields
<1>2. PICK given0 : /\ given0 = IF failed THEN Failed(result) ELSE result
                    /\ given0 = None \/ (/\ given0.kind = "result"
                                         /\ {"kind", "status", "summary"} \subseteq DOMAIN given0)
                    /\ failed => given0 # None /\ given0.status = "CRITICAL"
  <2>1. CASE ~failed
    BY <1>1, <2>1
  <2>2. CASE failed /\ result = None
    <3>1. Failed(result) = [kind |-> "result", status |-> "CRITICAL", summary |-> "error"]
      BY <2>2 DEF Failed
    <3> QED
      BY <2>2, <3>1 DEF None
  <2>3. CASE failed /\ result # None
    <3>1. PICK summary : summary = IF result.summary = "" THEN "error" ELSE result.summary
      OBVIOUS
    <3>2. PICK f : f = [result EXCEPT !.status = "CRITICAL", !.summary = summary]
      OBVIOUS
    <3>3. f = Failed(result)
      BY <2>3, <3>1, <3>2 DEF Failed
    <3>4. /\ f.kind = "result" /\ f.status = "CRITICAL"
          /\ {"kind", "status", "summary"} \subseteq DOMAIN f
      BY <1>1, <2>3, <3>2
    <3>5. f # None
      BY <3>4 DEF None
    <3> QED
      BY <2>3, <3>3, <3>4, <3>5
  <2> QED
    BY <2>1, <2>2, <2>3
<1>3. PICK base : base = IF given0 = None THEN NoResult ELSE given0
  OBVIOUS
<1>4. base.kind = "result" /\ {"kind", "status", "summary"} \subseteq DOMAIN base
  BY <1>2, <1>3 DEF NoResult
<1>5. PICK status : status = IF given0 = None THEN "UNKNOWN"
                             ELSE IF given0.status = "" THEN "UNKNOWN" ELSE given0.status
  OBVIOUS
<1>a. status # "" /\ (failed => status = "CRITICAL")
  <2>1. CASE given0 = None
    BY <1>2, <1>5, <2>1
  <2>2. CASE given0 # None /\ given0.status = ""
    BY <1>2, <1>5, <2>2
  <2>3. CASE given0 # None /\ given0.status # ""
    BY <1>2, <1>5, <2>3
  <2> QED
    BY <2>1, <2>2, <2>3
<1>6. PICK said : said = IF given0 = None THEN "" ELSE given0.summary
  OBVIOUS
<1>b. PICK summary : summary = IF said = "" THEN status ELSE said
  OBVIOUS
<1>c. summary # ""
  BY <1>a, <1>b
<1>7. PICK stored : stored = [base EXCEPT !.status = status, !.summary = summary]
  OBVIOUS
<1>8. stored = WithDefaults(given0)
  BY <1>3, <1>5, <1>6, <1>b, <1>7 DEF WithDefaults
<1>9. stored.kind = "result" /\ stored.status = status /\ stored.summary = summary
  BY <1>4, <1>7
<1> QED
  BY <1>2, <1>a, <1>c, <1>8, <1>9

\* The result of a function that did not fail is stored as it was built, with the defaults.
LEMMA DefaultsKeep ==
  ASSUME BuiltInv, NEW result \in Results \cup {None}, NEW stored, stored = WithDefaults(result),
         "instance" \in DOMAIN stored
  PROVE  /\ built # Unbuilt
         /\ stored.instance = built.instance
         /\ stored.status = IF built.status = "" THEN "UNKNOWN" ELSE built.status
<1>1. PICK base : base = IF result = None THEN NoResult ELSE result
  OBVIOUS
<1>2. PICK status : status = IF result = None THEN "UNKNOWN"
                             ELSE IF result.status = "" THEN "UNKNOWN" ELSE result.status
  OBVIOUS
<1>3. PICK summary : summary = IF (IF result = None THEN "" ELSE result.summary) = "" THEN status
                               ELSE IF result = None THEN "" ELSE result.summary
  OBVIOUS
<1>4. stored = [base EXCEPT !.status = status, !.summary = summary]
  BY <1>1, <1>2, <1>3, Zenon DEF WithDefaults
<1>5. "instance" \in DOMAIN base
  BY <1>4
<1>6. result # None
  <2>1. "instance" \notin DOMAIN NoResult
    BY Zenon DEF NoResult
  <2> QED
    BY <1>1, <1>5, <2>1
<1>7. built # Unbuilt /\ result = built
  <2>1. CASE built = Unbuilt
    <3>1. DOMAIN result = {"kind", "status", "summary"}
      BY <1>6, <2>1, Zenon DEF Results
    <3> QED
      BY <1>1, <1>5, <1>6, <3>1
  <2>2. CASE built # Unbuilt
    BY <1>6, <2>2, Zenon DEF Results
  <2> QED
    BY <2>1, <2>2
<1>8. base = built /\ {"status", "instance"} \subseteq DOMAIN base
  BY <1>1, <1>6, <1>7 DEF BuiltInv, BuiltFields
<1>9. stored.instance = built.instance /\ stored.status = status
  BY <1>4, <1>8
<1> QED
  BY <1>2, <1>6, <1>7, <1>9, Zenon

LEMMA ExecuteKeeps ==
  ASSUME ConfigInv, ChecksInv, NEW result \in Results \cup {None}, NEW failed \in BOOLEAN,
         NEW length \in DocumentSizes, SubmitInv, Execute(result, failed, length)
  PROVE  SubmitInv'
<1>1. PICK stored : stored = WithDefaults(IF failed THEN Failed(result) ELSE result)
  OBVIOUS
<1>2. /\ stored.kind = "result" /\ stored.status # "" /\ stored.summary # ""
      /\ failed => stored.status = "CRITICAL"
  BY <1>1, DefaultsComplete, Zenon DEF ChecksInv
<1>3. ~failed /\ "instance" \in DOMAIN stored =>
        /\ built # Unbuilt
        /\ stored.instance = built.instance
        /\ stored.status = IF built.status = "" THEN "UNKNOWN" ELSE built.status
  BY <1>1, DefaultsKeep, Zenon DEF ChecksInv
<1>4. /\ run = "working" /\ run' = "finished" /\ concluded' = [kind |-> "check", failed |-> failed]
      /\ captured = None /\ UNCHANGED <<inputs, targets, checking, built, readings>>
  <2>1. run = "working" /\ run' = "finished" /\ UNCHANGED workVars
    BY DEF Execute, FunctionReturned
  <2> QED
    BY <2>1, Zenon DEF Execute, SubmitInv, workVars, checkVars
<1>5. built # Unbuilt => built.status = StatusOf(readings) /\ built.instance = targets[checking].instance
  BY DEF ChecksInv, BuiltInv, ReadingsInv, Speaks
<1>6. CASE captured' = None /\ \E code \in {"serialize", "too large"} : returned' = Error(code)
  <2>1. captured'.kind = "none" /\ returned'.kind = "error"
    BY <1>6, NoneIsNone
  <2> QED
    BY <1>4, <1>6, <2>1 DEF SubmitInv, OutcomeSubmitted, ReadingsReachTheHost
<1>7. CASE captured' = stored /\ returned' = [kind |-> "ok"]
  <2>1. captured' # None
    BY <1>2, <1>7, NoneIsNone
  <2>2. OutcomeSubmitted'
    BY <1>2, <1>4, <1>7, <2>1 DEF OutcomeSubmitted
  <2>3. ReadingsReachTheHost'
    BY <1>3, <1>4, <1>5, <1>7 DEF ReadingsReachTheHost
  <2>4. captured'.kind = "result" /\ returned'.kind = "ok"
    BY <1>2, <1>7
  <2> QED
    BY <1>4, <2>2, <2>3, <2>4 DEF SubmitInv
<1> QED
  BY <1>1, <1>4, <1>6, <1>7, Zenon DEF Execute, Submit

\* What an action may say for itself.
ActionStatuses == {"", "failed"}

LEMMA ActOnKeeps ==
  ASSUME ConfigInv, NEW status \in ActionStatuses,
         NEW length \in DocumentSizes, SubmitInv, ActOn(status, length)
  PROVE  SubmitInv'
<1>1. PICK said : said = IF status = "" THEN "succeeded" ELSE status
  OBVIOUS
<1>2. PICK stored : stored = [kind |-> "action", for |-> pluginConfig.document.invocation, status |-> said]
  OBVIOUS
<1>3. run = "working" /\ run' = "finished" /\ captured = None /\ UNCHANGED action
  <2>1. run = "working" /\ run' = "finished" /\ UNCHANGED inputVars
    BY DEF ActOn, FunctionReturned
  <2> QED
    BY <2>1, Zenon DEF SubmitInv, inputVars
<1>4. ActionLoads => pluginConfig.document.invocation = action /\ action # Nothing
  BY <1>3 DEF ActionLoads, ConfigInv, ConfigReachesPlugin
<1>5. CASE captured' = None /\ \E code \in {"config", "serialize", "too large"} : returned' = Error(code)
  <2>1. captured'.kind = "none" /\ returned'.kind = "error"
    BY <1>5, NoneIsNone
  <2> QED
    BY <1>3, <1>5, <2>1 DEF SubmitInv, OutcomeSubmitted, ReadingsReachTheHost
<1>6. CASE captured' = stored /\ returned' = [kind |-> "ok"] /\ ActionLoads
  <2>1. captured'.kind = "action" /\ captured'.for = action /\ action # Nothing /\ captured' # None
    BY <1>2, <1>4, <1>6, NoneIsNone
  <2>2. OutcomeSubmitted' /\ ReadingsReachTheHost'
    BY <1>3, <1>6, <2>1 DEF OutcomeSubmitted, ReadingsReachTheHost
  <2>3. captured'.kind = "action" /\ returned'.kind = "ok"
    BY <1>6, <2>1
  <2> QED
    BY <1>3, <2>2, <2>3 DEF SubmitInv
<1> QED
  BY <1>1, <1>2, <1>3, <1>5, <1>6, Zenon DEF ActOn, Submit

\* No other step touches what was submitted.
LEMMA StepOfSubmission ==
  ASSUME [Next]_vars
  PROVE  \/ \E result \in Results \cup {None}, failed \in BOOLEAN, length \in DocumentSizes :
              Execute(result, failed, length)
         \/ \E status \in ActionStatuses, length \in DocumentSizes : ActOn(status, length)
         \/ /\ UNCHANGED <<concluded, captured, returned>>
            /\ \/ run # "finished" /\ run' # "finished"
               \/ UNCHANGED <<run, action, targets, checking, readings>>
<1>1. CASE LoadInputs
  BY <1>1 DEF LoadInputs, runVars
<1>2. CASE StartRun
  BY <1>2 DEF StartRun
<1>3. CASE AskConfig
  BY <1>3 DEF AskConfig
<1>4. CASE MakeRequests \/ CheckTargets \/ BuildValues \/ SendMetrics
  BY <1>4 DEF MakeRequests, CheckTargets, BuildValues, SendMetrics, Doing, runVars
<1>5. CASE UNCHANGED vars
  BY <1>5 DEF vars, runVars, workVars, checkVars, inputVars
<1> QED
  BY <1>1, <1>2, <1>3, <1>4, <1>5, Zenon DEF Next, ActionStatuses

LEMMA SubmitKeeps ==
  ASSUME ConfigInv, ChecksInv, SubmitInv, [Next]_vars
  PROVE  SubmitInv'
<1>1. CASE /\ UNCHANGED <<concluded, captured, returned>>
           /\ \/ run # "finished" /\ run' # "finished"
              \/ UNCHANGED <<run, action, targets, checking, readings>>
  <2>1. CASE run # "finished" /\ run' # "finished"
    <3>1. captured'.kind = "none" /\ captured' = None /\ returned' = None
      BY <1>1, <2>1, NoneIsNone DEF SubmitInv
    <3> QED
      BY <2>1, <3>1 DEF SubmitInv, OutcomeSubmitted, ReadingsReachTheHost
  <2>2. CASE UNCHANGED <<run, action, targets, checking, readings>>
    BY <1>1, <2>2 DEF SubmitInv, OutcomeSubmitted, ReadingsReachTheHost
  <2> QED
    BY <1>1, <2>1, <2>2
<1> QED
  BY <1>1, ExecuteKeeps, ActOnKeeps, StepOfSubmission

LEMMA SubmitInvHolds == Spec => []SubmitInv
<1>1. Init => SubmitInv
  BY NoneIsNone, Zenon DEF Init, SubmitInv, OutcomeSubmitted, ReadingsReachTheHost
<1> QED
  BY <1>1, SubmitKeeps, InputsInvHold, ChecksInvHolds, PTL DEF Spec

\* For any inputs, config buffers and results: a run returns no error exactly when a result
\* was stored, which is complete and says CRITICAL after a failure
\* (sdk/execute.go:6-42, sdk/action.go:274-310, 458-467).
THEOREM OutcomeIsSubmitted == Spec => []OutcomeSubmitted
<1>1. SubmitInv => OutcomeSubmitted
  BY DEF SubmitInv
<1> QED
  BY <1>1, SubmitInvHolds, PTL

\* However many targets and readings there are, of one target or of several that share a
\* result, the result the host stores is the last target's, with the status its readings
\* come to (sdk/result.go:59-68, 432-441).
THEOREM ReadingsReach == Spec => []ReadingsReachTheHost
<1>1. SubmitInv => ReadingsReachTheHost
  BY DEF SubmitInv
<1> QED
  BY <1>1, SubmitInvHolds, PTL

-----------------------------------------------------------------------------
(* Credentials. *)

\* A credential the host holds was given a value in the environment or in its file.
LEMMA SecretsAreGiven ==
  ASSUME InputsInv, ConfigInv, run = "working", NEW field \in secrets
  PROVE  \E key \in DOMAIN FieldOf :
           /\ FieldOf[key] = field
           /\ \/ Lookup(given.process, key) # Blank
              \/ Lookup(given.envFiles[EnvFile.name].assigned, key) # Blank
<1>1. stage = "loaded" /\ merged = Merged /\ field \in DOMAIN credentials /\ credentials[field] # Blank
  BY DEF ConfigInv, InputsInv
<1>2. PICK key \in DOMAIN FieldOf \cap DOMAIN merged :
        FieldOf[key] = field /\ credentials[field] = merged[key]
  BY <1>1 DEF InputsInv, InputsTypeOK
<1>3. PICK file : file = given.envFiles[EnvFile.name].assigned
  OBVIOUS
<1>4. PICK process : process = given.process
  OBVIOUS
<1>5. merged = Overlay(file, process)
  BY <1>1, <1>3, <1>4 DEF Merged
<1>6. \/ key \in DOMAIN process /\ merged[key] = process[key]
      \/ key \in DOMAIN file /\ merged[key] = file[key]
  BY <1>2, <1>5 DEF Overlay
<1>7. Lookup(process, key) # Blank \/ Lookup(file, key) # Blank
  BY <1>1, <1>2, <1>6 DEF Lookup
<1> QED
  BY <1>2, <1>3, <1>4, <1>7

\* For any environment, env file and grants, a grant's token is sent only when the inputs
\* gave a value to each credential field the grant needs (sdk/local_inputs.go:92-101,
\* sdk/local_credentials.go:66-70).
THEOREM TokensRest == Spec => []TokensRestOnGivenCredentials
<1>1. ASSUME ExchangeInv, InputsInv, ConfigInv, Reached, seen.auth # request.auth
      PROVE  TokensRestOnGivenCredentials
  <2>1. run = "working"
    BY <1>1, NoneIsNone DEF ExchangeInv, BetweenCalls, Reached
  <2>2. PICK i \in Covering : Authorizes(grants[i], request)
    BY <1>1 DEF ExchangeInv, CallInv, Carried
  <2>3. DOMAIN grants[i].spec.fields \subseteq secrets
    BY <2>2 DEF Authorizes
  <2> QED
    BY <1>1, <2>1, <2>3, SecretsAreGiven DEF TokensRestOnGivenCredentials
<1>2. ExchangeInv /\ InputsInv /\ ConfigInv => TokensRestOnGivenCredentials
  BY <1>1 DEF TokensRestOnGivenCredentials
<1> QED
  BY <1>2, ExchangeInvHolds, InputsInvHold, PTL

-----------------------------------------------------------------------------
(* Lists that are appended to and written into. *)

\* A list of whatever it holds.
IsList(list) == list \in Seq(Range(list))

LEMMA ListShape ==
  ASSUME NEW list, IsList(list)
  PROVE  Len(list) \in Nat /\ DOMAIN list = 1..Len(list)
  BY DEF IsList

LEMMA ListOf ==
  ASSUME NEW list, NEW S, list \in Seq(S)
  PROVE  IsList(list)
<1>1. Len(list) \in Nat /\ DOMAIN list = 1..Len(list)
  OBVIOUS
<1>2. PICK R : R = Range(list)
  OBVIOUS
<1>3. \A i \in DOMAIN list : list[i] \in R
  BY <1>2 DEF Range
<1>4. list \in Seq(R)
  BY <1>1, <1>3
<1> QED
  BY <1>2, <1>4 DEF IsList

Appended(longer, list, x) == longer = Append(list, x)

LEMMA ListGrows ==
  ASSUME NEW list, IsList(list), NEW x, NEW longer, Appended(longer, list, x)
  PROVE  /\ IsList(longer) /\ Len(longer) = Len(list) + 1
         /\ DOMAIN longer = 1..(Len(list) + 1)
         /\ \A i \in DOMAIN list : longer[i] = list[i]
         /\ longer[Len(list) + 1] = x
<1>1. PICK R : R = Range(list)
  OBVIOUS
<1>2. PICK S : S = R \cup {x}
  OBVIOUS
<1>3. list \in Seq(R)
  BY <1>1 DEF IsList
<1>4. list \in Seq(S)
  BY <1>2, <1>3
<1>5. x \in S
  BY <1>2
<1>6. /\ longer \in Seq(S) /\ Len(longer) = Len(list) + 1 /\ longer[Len(list) + 1] = x
      /\ \A i \in 1..Len(list) : longer[i] = list[i]
  BY <1>4, <1>5, AppendProperties DEF Appended
<1>7. DOMAIN longer = 1..(Len(list) + 1) /\ DOMAIN list = 1..Len(list)
  BY <1>3, <1>6
<1> QED
  BY <1>6, <1>7, ListOf

LEMMA ListFrom ==
  ASSUME NEW S, NEW n \in Nat, NEW list \in [1..n -> S]
  PROVE  list \in Seq(S)
  OBVIOUS

Rewritten(written, list, i, x) == written = [list EXCEPT ![i] = x]

LEMMA ListWritten ==
  ASSUME NEW list, IsList(list), NEW i \in DOMAIN list, NEW x,
         NEW written, Rewritten(written, list, i, x)
  PROVE  /\ IsList(written) /\ Len(written) = Len(list) /\ DOMAIN written = DOMAIN list
         /\ written[i] = x /\ \A j \in DOMAIN list : j # i => written[j] = list[j]
<1>1. PICK R : R = Range(list)
  OBVIOUS
<1>2. PICK S : S = R \cup {x}
  OBVIOUS
<1>3. list \in Seq(R)
  BY <1>1 DEF IsList
<1>4. list \in Seq(S) /\ x \in S
  BY <1>2, <1>3
<1>5. PICK n \in Nat : n = Len(list) /\ DOMAIN list = 1..n
  BY <1>3
<1>6. /\ DOMAIN written = 1..n /\ written[i] = x
      /\ \A j \in 1..n : j # i => written[j] = list[j]
  BY <1>5 DEF Rewritten
<1>7. \A j \in 1..n : written[j] \in S
  BY <1>4, <1>5, <1>6
<1>8. written \in [1..n -> S]
  BY <1>6, <1>7 DEF Rewritten
<1>9. written \in Seq(S) /\ Len(written) = n
  <2>1. written \in Seq(S)
    BY <1>8, ListFrom
  <2>2. DOMAIN written = 1..Len(written) /\ Len(written) \in Nat
    BY <2>1
  <2> QED
    BY <1>5, <1>6, <2>1, <2>2
<1> QED
  BY <1>5, <1>6, <1>9, ListOf

-----------------------------------------------------------------------------
(* Where values come from. *)

Parented(values) ==
  IsList(values) /\ \A v \in DOMAIN values : values[v].parent \in 0..(v - 1)

\* Ancestors, of any values.
Lineage(values) ==
  CHOOSE above : above = [v \in DOMAIN values |->
    IF values[v].parent = 0 THEN {} ELSE {values[v].parent} \cup above[values[v].parent]]

Above(above, parent) == IF parent = 0 THEN {} ELSE {parent} \cup above[parent]

Traces(values, above, n) ==
  /\ above \in [1..n -> SUBSET Nat]
  /\ \A v \in 1..n : above[v] = Above(above, values[v].parent)

LEMMA SomeLineage ==
  ASSUME NEW values, Parented(values)
  PROVE  \E above : Traces(values, above, Len(values))
<1>1. Len(values) \in Nat /\ DOMAIN values = 1..Len(values)
  BY ListShape DEF Parented
<1>2. PICK good : good = {m \in Nat : m <= Len(values) => \E above : Traces(values, above, m)}
  OBVIOUS
<1>3. 0 \in good
  <2>1. PICK above : above = [v \in 1..0 |-> {}]
    OBVIOUS
  <2>2. Traces(values, above, 0)
    BY <2>1 DEF Traces
  <2> QED
    BY <1>2, <2>2
<1>4. ASSUME NEW m \in Nat, m \in good PROVE m + 1 \in good
  <2> SUFFICES ASSUME m + 1 <= Len(values) PROVE \E above : Traces(values, above, m + 1)
    BY <1>2
  <2>1. PICK f : Traces(values, f, m)
    BY <1>1, <1>2, <1>4
  <2>2. PICK next \in Nat : next = m + 1 /\ next \in DOMAIN values /\ next \notin 1..m
    BY <1>1
  <2>3. PICK parent : parent = values[next].parent /\ parent \in 0..m
    BY <2>2 DEF Parented
  <2>4. f \in [1..m -> SUBSET Nat] /\ \A v \in 1..m : f[v] = Above(f, values[v].parent)
    BY <2>1 DEF Traces
  <2>5. PICK last \in SUBSET Nat : last = Above(f, parent)
    <3>1. CASE parent = 0
      BY <3>1 DEF Above
    <3>2. CASE parent # 0
      <4>1. parent \in 1..m
        BY <2>3, <3>2
      <4>2. f[parent] \subseteq Nat /\ parent \in Nat
        BY <2>4, <4>1
      <4>3. Above(f, parent) = {parent} \cup f[parent]
        BY <3>2 DEF Above
      <4> QED
        BY <4>2, <4>3
    <3> QED
      BY <3>1, <3>2
  <2>6. PICK g : g = [v \in 1..next |-> IF v = next THEN last ELSE f[v]]
    OBVIOUS
  <2>7. g[next] = last /\ \A v \in 1..m : v \in 1..next /\ g[v] = f[v] /\ f[v] \in SUBSET Nat
    BY <2>2, <2>4, <2>6
  <2>8. \A v \in 1..next : v = next \/ v \in 1..m
    BY <2>2
  <2>9. g \in [1..next -> SUBSET Nat]
    <3>1. \A v \in 1..next : g[v] \in SUBSET Nat
      BY <2>7, <2>8
    <3> QED
      BY <2>6, <3>1
  <2>10. \A p \in 0..m : Above(g, p) = Above(f, p)
    <3> SUFFICES ASSUME NEW p \in 0..m, p # 0 PROVE g[p] = f[p]
      BY DEF Above
    <3>1. p \in 1..m
      OBVIOUS
    <3> QED
      BY <2>7, <3>1
  <2>11. ASSUME NEW v \in 1..next PROVE g[v] = Above(g, values[v].parent)
    <3>1. CASE v = next
      BY <2>3, <2>5, <2>7, <2>10, <3>1
    <3>2. CASE v \in 1..m
      <4>1. PICK p : p = values[v].parent /\ p \in 0..(v - 1)
        BY <1>1, <2>2, <3>2 DEF Parented
      <4>2. p \in 0..m
        BY <3>2, <4>1
      <4> QED
        BY <2>4, <2>7, <2>10, <3>2, <4>1, <4>2
    <3> QED
      BY <2>8, <3>1, <3>2
  <2>12. Traces(values, g, next)
    BY <2>9, <2>11 DEF Traces
  <2> QED
    BY <2>2, <2>12
<1>5. \A m \in Nat : m \in good
  BY <1>3, <1>4, Induction
<1> QED
  BY <1>1, <1>2, <1>5

LEMMA LineageTraces ==
  ASSUME NEW values, Parented(values), NEW above, above = Lineage(values)
  PROVE  \A v \in DOMAIN values : above[v] = Above(above, values[v].parent)
<1> DEFINE Solves(f) == f = [v \in DOMAIN values |->
             IF values[v].parent = 0 THEN {} ELSE {values[v].parent} \cup f[values[v].parent]]
<1>1. DOMAIN values = 1..Len(values)
  BY ListShape DEF Parented
<1>2. PICK f : Traces(values, f, Len(values))
  BY SomeLineage
<1>3. Solves(f)
  <2>1. PICK g : g = [v \in DOMAIN values |->
          IF values[v].parent = 0 THEN {} ELSE {values[v].parent} \cup f[values[v].parent]]
    OBVIOUS
  <2>2. \A v \in DOMAIN values : f[v] = g[v]
    BY <1>1, <1>2, <2>1 DEF Traces, Above
  <2>3. f = [v \in DOMAIN values |-> f[v]]
    BY <1>1, <1>2 DEF Traces
  <2> QED
    BY <2>1, <2>2, <2>3
<1>4. Solves(Lineage(values))
  <2>1. PICK chosen : chosen = CHOOSE k : Solves(k)
    OBVIOUS
  <2>2. Solves(chosen)
    <3> HIDE DEF Solves
    <3> QED
      BY <1>3, <2>1
  <2>3. chosen = Lineage(values)
    BY <2>1, Zenon DEF Lineage
  <2> QED
    BY <2>2, <2>3
<1> QED
  BY <1>4 DEF Above

\* A value more leaves the others' ancestors as they are.
LEMMA LineageGrows ==
  ASSUME NEW values, Parented(values), NEW value, value.parent \in 0..Len(values),
         NEW more, Appended(more, values, value),
         NEW old, old = Lineage(values), NEW new, new = Lineage(more)
  PROVE  /\ Parented(more)
         /\ \A v \in DOMAIN values : new[v] = old[v]
         /\ new[Len(values) + 1] = Above(old, value.parent)
<1>1. PICK n \in Nat : n = Len(values) /\ DOMAIN values = 1..n
  BY ListShape DEF Parented
<1>2. PICK next \in Nat : next = n + 1
  OBVIOUS
<1>3. /\ IsList(more) /\ DOMAIN more = 1..next /\ more[next] = value
      /\ \A v \in 1..n : v \in 1..next /\ more[v] = values[v]
  <2>1. /\ IsList(more) /\ DOMAIN more = 1..(Len(values) + 1) /\ more[Len(values) + 1] = value
        /\ \A v \in DOMAIN values : more[v] = values[v]
    <3>1. IsList(values)
      BY DEF Parented
    <3> QED
      BY <3>1, ListGrows
  <2> QED
    BY <1>1, <1>2, <2>1
<1>4. \A v \in 1..next : v = next \/ v \in 1..n
  BY <1>1, <1>2
<1>5. \A v \in 1..n : values[v].parent \in 0..(v - 1)
  BY <1>1 DEF Parented
<1>6. Parented(more)
  <2>1. ASSUME NEW v \in 1..next PROVE more[v].parent \in 0..(v - 1)
    <3>1. CASE v = next
      BY <1>1, <1>2, <1>3, <3>1
    <3>2. CASE v \in 1..n
      BY <1>3, <1>5, <3>2
    <3> QED
      BY <1>4, <3>1, <3>2
  <2> QED
    BY <1>3, <2>1 DEF Parented
<1>7. \A v \in 1..n : old[v] = Above(old, values[v].parent)
  BY <1>1, LineageTraces
<1>8. \A v \in 1..next : new[v] = Above(new, more[v].parent)
  BY <1>3, <1>6, LineageTraces
<1>9. PICK same : same = {m \in Nat : \A v \in 1..n : v <= m => new[v] = old[v]}
  OBVIOUS
<1>10. ASSUME NEW m \in Nat, m \in same PROVE m + 1 \in same
  <2>1. \A v \in 1..n : v <= m => new[v] = old[v]
    BY <1>9, <1>10
  <2>2. ASSUME NEW v \in 1..n, v = m + 1 PROVE new[v] = old[v]
    <3>1. PICK parent : parent = values[v].parent /\ parent \in 0..(v - 1)
      BY <1>5
    <3>2. parent # 0 => parent \in 1..n /\ parent <= m
      BY <1>1, <2>2, <3>1
    <3>3. parent # 0 => new[parent] = old[parent]
      BY <2>1, <3>2
    <3>4. Above(new, parent) = Above(old, parent)
      BY <3>3 DEF Above
    <3>5. new[v] = Above(new, parent)
      BY <1>3, <1>8, <3>1
    <3>6. old[v] = Above(old, parent)
      BY <1>7, <3>1
    <3> QED
      BY <3>4, <3>5, <3>6
  <2>3. \A v \in 1..n : v <= m + 1 => new[v] = old[v]
    BY <2>1, <2>2
  <2> QED
    BY <1>9, <2>3
<1>11. n \in same
  <2>1. 0 \in same
    BY <1>9
  <2>2. \A m \in Nat : m \in same
    BY <1>10, <2>1, Induction
  <2> QED
    BY <2>2
<1>12. \A v \in 1..n : new[v] = old[v]
  BY <1>9, <1>11
<1>13. new[next] = Above(old, value.parent)
  <2>1. new[next] = Above(new, value.parent)
    BY <1>2, <1>3, <1>8
  <2>2. value.parent # 0 => value.parent \in 1..n
    BY <1>1
  <2>3. Above(new, value.parent) = Above(old, value.parent)
    BY <1>12, <2>2 DEF Above
  <2> QED
    BY <2>1, <2>3
<1> QED
  BY <1>1, <1>2, <1>6, <1>12, <1>13

\* values, and one more made from one of them.
GrownTo(values, value, more, n, next) ==
  /\ n \in Nat /\ next \in Nat /\ next = n + 1
  /\ DOMAIN values = 1..n /\ DOMAIN more = 1..next /\ more[next] = value
  /\ \A v \in 1..n : v \in 1..next /\ v # next /\ more[v] = values[v]
  /\ \A v \in 1..next : v = next \/ v \in 1..n
  /\ value.parent \in 0..n
  /\ \A v \in 1..n : Lineage(more)[v] = Lineage(values)[v]
  /\ Lineage(more)[next] = Above(Lineage(values), value.parent)

LEMMA Growing ==
  ASSUME NEW values, Parented(values), NEW value, value.parent \in 0..Len(values),
         NEW more, Appended(more, values, value)
  PROVE  Parented(more) /\ GrownTo(values, value, more, Len(values), Len(values) + 1)
<1>1. PICK old : old = Lineage(values)
  OBVIOUS
<1>2. PICK new : new = Lineage(more)
  OBVIOUS
<1>3. /\ Parented(more)
      /\ \A v \in DOMAIN values : new[v] = old[v]
      /\ new[Len(values) + 1] = Above(old, value.parent)
  BY <1>1, <1>2, LineageGrows
<1>4. IsList(values)
  BY DEF Parented
<1>5. Len(values) \in Nat /\ DOMAIN values = 1..Len(values)
  BY <1>4, ListShape
<1>6. /\ DOMAIN more = 1..(Len(values) + 1) /\ more[Len(values) + 1] = value
      /\ \A v \in DOMAIN values : more[v] = values[v]
  BY <1>4, ListGrows
<1>7. PICK n \in Nat : n = Len(values)
  BY <1>5
<1>8. PICK next \in Nat : next = n + 1
  OBVIOUS
<1>9. GrownTo(values, value, more, n, next)
  BY <1>1, <1>2, <1>3, <1>5, <1>6, <1>7, <1>8 DEF GrownTo
<1> QED
  BY <1>3, <1>7, <1>8, <1>9

Kids(values, a) == {w \in DOMAIN values : values[w].parent = a}

\* No value that v comes from was used for anything else, unless it held nothing yet.
Straight(values, v) ==
  \A a \in Lineage(values)[v] : values[a].cell = 0 \/ Cardinality(Kids(values, a)) = 1

HaveKids(values) ==
  \A v \in DOMAIN values : \A a \in Lineage(values)[v] : a \in 1..(v - 1) /\ Kids(values, a) # {}

InLine(values, u, v) == u = v \/ u \in Lineage(values)[v] \/ v \in Lineage(values)[u]

\* The values that share a cell with one that was come to straight come before or after it.
Chained(values) ==
  \A v \in DOMAIN values :
    Straight(values, v) /\ values[v].cell # 0 =>
      \A u \in DOMAIN values : values[u].cell = values[v].cell => InLine(values, u, v)

LEMMA KidsGrow ==
  ASSUME NEW values, NEW value, NEW more, NEW n, NEW next, GrownTo(values, value, more, n, next),
         NEW a
  PROVE  /\ value.parent = a => Kids(more, a) = Kids(values, a) \cup {next}
         /\ value.parent # a => Kids(more, a) = Kids(values, a)
         /\ next \notin Kids(values, a)
  BY DEF GrownTo, Kids

\* A second child.
LEMMA SecondKid ==
  ASSUME NEW values, NEW value, NEW more, NEW n, NEW next, GrownTo(values, value, more, n, next),
         Kids(values, value.parent) # {}
  PROVE  Cardinality(Kids(more, value.parent)) # 1
<1>1. PICK kids : kids = Kids(more, value.parent)
  OBVIOUS
<1>2. next \in kids /\ \E other \in kids : other # next
  BY <1>1, KidsGrow
<1>3. IsFiniteSet(kids)
  <2>1. kids \subseteq 1..next /\ 1 \in Int /\ next \in Int
    BY <1>1 DEF Kids, GrownTo
  <2>2. IsFiniteSet(1..next)
    BY <2>1, FS_Interval
  <2> QED
    BY <2>1, <2>2, FS_Subset
<1>4. ASSUME Cardinality(kids) = 1 PROVE FALSE
  <2>1. PICK one : kids = {one}
    BY <1>3, <1>4, FS_Singleton
  <2> QED
    BY <1>2, <2>1
<1> QED
  BY <1>1, <1>4

LEMMA StraightGrows ==
  ASSUME NEW values, NEW value, NEW more, NEW n, NEW next, GrownTo(values, value, more, n, next),
         HaveKids(values)
  PROVE  /\ HaveKids(more)
         /\ \A v \in DOMAIN values : Straight(more, v) =>
              /\ Straight(values, v)
              /\ value.parent \in Lineage(values)[v] => values[value.parent].cell = 0
         /\ value.parent # 0 /\ Straight(more, next) =>
              /\ Straight(values, value.parent)
              /\ values[value.parent].cell # 0 => Kids(values, value.parent) = {}
         /\ \A v \in DOMAIN values : Kids(more, v) = {} => v # value.parent /\ Kids(values, v) = {}
<1>1. PICK from : from = value.parent
  OBVIOUS
<1>2. PICK old : old = Lineage(values)
  OBVIOUS
<1>3. PICK new : new = Lineage(more)
  OBVIOUS
<1>4. /\ n \in Nat /\ next \in Nat /\ next = n + 1 /\ from \in 0..n
      /\ DOMAIN values = 1..n /\ DOMAIN more = 1..next /\ more[next] = value
      /\ \A v \in 1..n : v \in 1..next /\ v # next /\ more[v] = values[v] /\ new[v] = old[v]
      /\ \A v \in 1..next : v = next \/ v \in 1..n
      /\ new[next] = Above(old, from)
  BY <1>1, <1>2, <1>3 DEF GrownTo
<1>5. \A a : /\ from = a => Kids(more, a) = Kids(values, a) \cup {next}
             /\ from # a => Kids(more, a) = Kids(values, a)
             /\ next \notin Kids(values, a)
  BY <1>1, KidsGrow
<1>6. Kids(values, from) # {} => Cardinality(Kids(more, from)) # 1
  BY <1>1, SecondKid
<1>7. \A v \in 1..n : \A a \in old[v] : a \in 1..(v - 1) /\ a \in 1..n /\ Kids(values, a) # {}
  BY <1>2, <1>4 DEF HaveKids
<1>8. from # 0 => from \in 1..n /\ new[next] = {from} \cup old[from]
  BY <1>4 DEF Above
<1>9. HaveKids(more)
  <2>1. ASSUME NEW v \in 1..n, NEW a \in new[v] PROVE a \in 1..(v - 1) /\ Kids(more, a) # {}
    BY <1>4, <1>5, <1>7, <2>1
  <2>2. ASSUME NEW a \in new[next] PROVE a \in 1..(next - 1) /\ Kids(more, a) # {}
    <3>1. from # 0
      BY <1>4, <2>2 DEF Above
    <3>2. a = from \/ a \in old[from]
      BY <1>8, <2>2, <3>1
    <3>3. CASE a = from
      BY <1>4, <1>5, <1>8, <3>1, <3>3
    <3>4. CASE a \in old[from]
      BY <1>4, <1>5, <1>7, <1>8, <3>1, <3>4
    <3> QED
      BY <3>2, <3>3, <3>4
  <2> QED
    BY <1>3, <1>4, <2>1, <2>2 DEF HaveKids
<1>10. ASSUME NEW v \in 1..n, \A a \in old[v] : more[a].cell = 0 \/ Cardinality(Kids(more, a)) = 1
       PROVE  /\ Straight(values, v)
              /\ from \in old[v] => values[from].cell = 0
  <2>1. ASSUME NEW a \in old[v] PROVE values[a].cell = 0 \/ (a # from /\ Cardinality(Kids(values, a)) = 1)
    <3>1. a \in 1..n /\ Kids(values, a) # {} /\ more[a] = values[a]
      BY <1>4, <1>7
    <3>2. CASE a = from
      BY <1>6, <1>10, <3>1, <3>2
    <3>3. CASE a # from
      BY <1>5, <1>10, <3>1, <3>3
    <3> QED
      BY <3>2, <3>3
  <2> QED
    BY <1>2, <2>1 DEF Straight
<1>11. ASSUME NEW v \in DOMAIN values, Straight(more, v)
       PROVE  /\ Straight(values, v)
              /\ value.parent \in Lineage(values)[v] => values[value.parent].cell = 0
  <2>1. \A a \in old[v] : more[a].cell = 0 \/ Cardinality(Kids(more, a)) = 1
    BY <1>3, <1>4, <1>11 DEF Straight
  <2> QED
    BY <1>1, <1>2, <1>4, <1>10, <2>1
<1>12. ASSUME value.parent # 0, Straight(more, next)
       PROVE  /\ Straight(values, value.parent)
              /\ values[value.parent].cell # 0 => Kids(values, value.parent) = {}
  <2>1. from \in 1..n /\ \A a \in {from} \cup old[from] : more[a].cell = 0 \/ Cardinality(Kids(more, a)) = 1
    BY <1>1, <1>3, <1>8, <1>12 DEF Straight
  <2>2. Straight(values, from)
    BY <1>10, <2>1
  <2>3. values[from].cell # 0 => Kids(values, from) = {}
    BY <1>4, <1>6, <2>1
  <2> QED
    BY <1>1, <2>2, <2>3
<1>13. \A v \in DOMAIN values : Kids(more, v) = {} => v # value.parent /\ Kids(values, v) = {}
  BY <1>1, <1>5
<1> QED
  BY <1>9, <1>11, <1>12, <1>13

LEMMA ChainGrows ==
  ASSUME NEW values, NEW value, NEW more, NEW n, NEW next, GrownTo(values, value, more, n, next),
         HaveKids(values), Chained(values), value.parent # 0,
         \/ value.cell = values[value.parent].cell
         \/ \A u \in DOMAIN values : values[u].cell # value.cell
  PROVE  Chained(more)
<1>1. PICK from : from = value.parent
  OBVIOUS
<1>2. PICK old : old = Lineage(values)
  OBVIOUS
<1>3. PICK new : new = Lineage(more)
  OBVIOUS
<1>4. /\ n \in Nat /\ next \in Nat /\ from \in 1..n
      /\ DOMAIN values = 1..n /\ DOMAIN more = 1..next /\ more[next] = value
      /\ \A v \in 1..n : v \in 1..next /\ v # next /\ more[v] = values[v] /\ new[v] = old[v]
      /\ \A v \in 1..next : v = next \/ v \in 1..n
      /\ new[next] = {from} \cup old[from]
  BY <1>1, <1>2, <1>3 DEF GrownTo, Above
<1>5. \A v \in 1..n : Straight(more, v) =>
        Straight(values, v) /\ (from \in old[v] => values[from].cell = 0)
  BY <1>1, <1>2, <1>4, StraightGrows
<1>6. Straight(more, next) => Straight(values, from) /\ (values[from].cell # 0 => Kids(values, from) = {})
  BY <1>1, StraightGrows
<1>7. \A v, u \in 1..n : Straight(values, v) /\ values[v].cell # 0 /\ values[u].cell = values[v].cell =>
        u = v \/ u \in old[v] \/ v \in old[u]
  BY <1>2, <1>4 DEF Chained, InLine
<1>8. value.cell = values[from].cell \/ \A u \in 1..n : values[u].cell # value.cell
  BY <1>1, <1>4
<1>9. \A u \in 1..n : from \in old[u] => Kids(values, from) # {}
  BY <1>2, <1>4 DEF HaveKids
<1>10. ASSUME NEW v \in 1..next, NEW u \in 1..next, Straight(more, v), more[v].cell # 0,
              more[u].cell = more[v].cell
       PROVE  u = v \/ u \in new[v] \/ v \in new[u]
  <2>1. CASE u \in 1..n /\ v \in 1..n
    BY <1>4, <1>5, <1>7, <1>10, <2>1
  <2>2. CASE u = next /\ v = next
    BY <2>2
  \* The one more shares its cell with what it was made from.
  <2>3. CASE v = next /\ u \in 1..n
    <3>1. value.cell = values[from].cell /\ values[from].cell # 0 /\ values[u].cell = values[from].cell
      BY <1>4, <1>8, <1>10, <2>3
    <3>2. u = from \/ u \in old[from] \/ from \in old[u]
      BY <1>4, <1>6, <1>7, <1>10, <2>3, <3>1
    <3>3. from \notin old[u]
      BY <1>6, <1>9, <1>10, <2>3, <3>1
    <3> QED
      BY <1>4, <2>3, <3>2, <3>3
  <2>4. CASE u = next /\ v \in 1..n
    <3>1. values[from].cell = values[v].cell /\ values[v].cell # 0
      BY <1>4, <1>8, <1>10, <2>4
    <3>2. from = v \/ from \in old[v] \/ v \in old[from]
      BY <1>4, <1>5, <1>7, <1>10, <2>4, <3>1
    <3>3. from \notin old[v]
      BY <1>5, <1>10, <2>4, <3>1
    <3> QED
      BY <1>4, <2>4, <3>2, <3>3
  <2> QED
    BY <1>4, <2>1, <2>2, <2>3, <2>4
<1> QED
  BY <1>3, <1>4, <1>10 DEF Chained, InLine

Shape(values, memory) ==
  /\ Parented(values) /\ IsList(memory)
  /\ \A v \in DOMAIN values :
       /\ values[v].cell \in 0..Len(memory) /\ values[v].length \in Nat
       /\ values[v].cell = 0 => values[v].meant = << >>

Reads(values, memory, v) == values[v].cell # 0 => memory[values[v].cell] = values[v].meant

LEMMA ShapeGrows ==
  ASSUME NEW values, NEW memory, Shape(values, memory),
         NEW value, value.parent \in 0..Len(values), value.length \in Nat,
         value.cell = 0 => value.meant = << >>,
         NEW more, Appended(more, values, value),
         NEW after, IsList(after), Len(memory) <= Len(after), value.cell \in 0..Len(after)
  PROVE  Shape(more, after) /\ GrownTo(values, value, more, Len(values), Len(values) + 1)
<1>1. Parented(more) /\ GrownTo(values, value, more, Len(values), Len(values) + 1)
  BY Growing DEF Shape
<1>2. PICK n, next : GrownTo(values, value, more, n, next)
  BY <1>1
<1>3. Len(memory) \in Nat /\ Len(after) \in Nat
  BY ListShape DEF Shape
<1>4. ASSUME NEW v \in 1..next
      PROVE  /\ more[v].cell \in 0..Len(after) /\ more[v].length \in Nat
             /\ more[v].cell = 0 => more[v].meant = << >>
  <2>1. CASE v = next
    BY <1>2, <2>1 DEF GrownTo
  <2>2. CASE v \in 1..n
    <3>1. more[v] = values[v] /\ v \in DOMAIN values
      BY <1>2, <2>2 DEF GrownTo
    <3> QED
      BY <1>3, <3>1 DEF Shape
  <2> QED
    BY <1>2, <2>1, <2>2 DEF GrownTo
<1>5. DOMAIN more = 1..next
  BY <1>2 DEF GrownTo
<1> QED
  BY <1>1, <1>4, <1>5 DEF Shape

-----------------------------------------------------------------------------
(* Maps that are written in place, and maps of a value's own. *)

\* Values that are written in place.
InPlaceInv(values, memory) ==
  /\ HaveKids(values) /\ Chained(values)
  /\ \A v \in DOMAIN values : Straight(values, v) /\ Kids(values, v) = {} => Reads(values, memory, v)

\* The cell a value gets of its own, or takes over from the one it is made from.
Written(memory, cell, content, after) ==
  \/ cell = Len(memory) + 1 /\ Appended(after, memory, content)
  \/ cell \in DOMAIN memory /\ Rewritten(after, memory, cell, content)

LEMMA CellWritten ==
  ASSUME NEW memory, IsList(memory), NEW cell, NEW content, NEW after,
         Written(memory, cell, content, after)
  PROVE  /\ IsList(after) /\ Len(memory) <= Len(after) /\ cell \in 1..Len(after)
         /\ after[cell] = content
         /\ \A c \in DOMAIN memory : c # cell => after[c] = memory[c]
<1>1. Len(memory) \in Nat /\ DOMAIN memory = 1..Len(memory)
  BY ListShape
<1>2. CASE cell = Len(memory) + 1 /\ Appended(after, memory, content)
  BY <1>1, <1>2, ListGrows
<1>3. CASE cell \in DOMAIN memory /\ Rewritten(after, memory, cell, content)
  <2>1. PICK place \in DOMAIN memory : place = cell
    BY <1>3
  <2>2. /\ IsList(after) /\ Len(after) = Len(memory) /\ after[place] = content
        /\ \A c \in DOMAIN memory : c # place => after[c] = memory[c]
    BY <1>3, <2>1, ListWritten
  <2> QED
    BY <1>1, <2>1, <2>2
<1> QED
  BY <1>2, <1>3 DEF Written

LEMMA InPlaceGrows ==
  ASSUME NEW values, NEW memory, Shape(values, memory), InPlaceInv(values, memory),
         NEW from \in DOMAIN values, NEW value, value.parent = from,
         NEW more, NEW n, NEW next, GrownTo(values, value, more, n, next),
         NEW content, NEW after, Written(memory, value.cell, content, after),
         IF values[from].cell = 0 THEN value.cell = Len(memory) + 1 ELSE value.cell = values[from].cell,
         Reads(values, memory, from) => content = value.meant
  PROVE  InPlaceInv(more, after)
<1>1. /\ DOMAIN values = 1..n /\ DOMAIN more = 1..next /\ more[next] = value
      /\ \A v \in 1..n : v # next /\ more[v] = values[v]
      /\ \A v \in 1..next : v = next \/ v \in 1..n
      /\ from # 0
  BY DEF GrownTo
<1>2. /\ Len(memory) \in Nat /\ DOMAIN memory = 1..Len(memory)
  BY ListShape DEF Shape
<1>3. after[value.cell] = content /\ \A c \in DOMAIN memory : c # value.cell => after[c] = memory[c]
  BY CellWritten DEF Shape
<1>4. \A v \in 1..n : values[v].cell \in 0..Len(memory)
  BY <1>1 DEF Shape
<1>5. HaveKids(more)
  BY StraightGrows DEF InPlaceInv
<1>6. Chained(more)
  <2>1. \/ value.cell = values[from].cell
        \/ \A u \in DOMAIN values : values[u].cell # value.cell
    BY <1>1, <1>2, <1>4
  <2> QED
    BY <1>1, <2>1, ChainGrows DEF InPlaceInv
<1>7. ASSUME NEW v \in 1..n, Straight(more, v), Kids(more, v) = {} PROVE Reads(more, after, v)
  <2>1. /\ Straight(values, v) /\ v # from /\ Kids(values, v) = {}
        /\ from \in Lineage(values)[v] => values[from].cell = 0
    BY <1>1, <1>7, StraightGrows DEF InPlaceInv
  <2>2. Reads(values, memory, v)
    BY <1>1, <2>1 DEF InPlaceInv
  <2>3. ASSUME values[v].cell # 0 PROVE values[v].cell # value.cell
    <3>1. CASE values[from].cell = 0
      BY <1>2, <1>4, <3>1
    <3>2. CASE values[from].cell # 0 /\ values[v].cell = values[from].cell
      <4>1. from \in Lineage(values)[v] \/ v \in Lineage(values)[from]
        BY <1>1, <2>1, <2>3, <3>2 DEF InPlaceInv, Chained, InLine
      <4>2. v \notin Lineage(values)[from]
        BY <1>1, <2>1 DEF InPlaceInv, HaveKids
      <4> QED
        BY <2>1, <3>2, <4>1, <4>2
    <3> QED
      BY <3>1, <3>2
  <2>4. values[v].cell # 0 => values[v].cell \in DOMAIN memory
    BY <1>2, <1>4
  <2> QED
    BY <1>1, <1>3, <2>2, <2>3, <2>4 DEF Reads
<1>8. ASSUME Straight(more, next) PROVE Reads(more, after, next)
  <2>1. Straight(values, from) /\ (values[from].cell # 0 => Kids(values, from) = {})
    BY <1>1, <1>8, StraightGrows DEF InPlaceInv
  <2>2. Reads(values, memory, from)
    BY <2>1 DEF InPlaceInv, Reads
  <2> QED
    BY <1>1, <1>3, <2>2 DEF Reads
<1> QED
  BY <1>1, <1>5, <1>6, <1>7, <1>8 DEF InPlaceInv

\* Values with cells of their own, apart from the caller's.
ApartInv(values, memory, callers) ==
  \A v \in DOMAIN values : Reads(values, memory, v) /\ values[v].cell \notin callers

LEMMA ApartGrows ==
  ASSUME NEW values, NEW memory, Shape(values, memory), NEW callers, callers \subseteq DOMAIN memory,
         ApartInv(values, memory, callers),
         NEW value, NEW more, NEW n, NEW next, GrownTo(values, value, more, n, next),
         NEW after, Appended(after, memory, value.meant), value.cell = Len(memory) + 1
  PROVE  ApartInv(more, after, callers)
<1>1. /\ Len(memory) \in Nat /\ DOMAIN memory = 1..Len(memory)
  BY ListShape DEF Shape
<1>2. after[value.cell] = value.meant /\ \A c \in DOMAIN memory : after[c] = memory[c]
  BY ListGrows DEF Shape
<1>3. ASSUME NEW v \in 1..n PROVE Reads(more, after, v) /\ more[v].cell \notin callers
  <2>1. more[v] = values[v] /\ v \in DOMAIN values
    BY DEF GrownTo
  <2>2. values[v].cell # 0 => values[v].cell \in DOMAIN memory
    BY <1>1, <2>1 DEF Shape
  <2> QED
    BY <1>2, <2>1, <2>2 DEF ApartInv, Reads
<1>4. more[next] = value /\ value.cell \notin callers
  BY <1>1 DEF GrownTo
<1>5. Reads(more, after, next)
  BY <1>2, <1>4 DEF Reads
<1> QED
  BY <1>3, <1>4, <1>5 DEF ApartInv, GrownTo

\* The caller writes into its own.
LEMMA CallerWritesApart ==
  ASSUME NEW values, NEW memory, Shape(values, memory), NEW callers,
         ApartInv(values, memory, callers), NEW cell \in callers \cap DOMAIN memory,
         NEW content, NEW after, Written(memory, cell, content, after)
  PROVE  ApartInv(values, after, callers)
<1>1. \A c \in DOMAIN memory : c # cell => after[c] = memory[c]
  BY CellWritten DEF Shape
<1>2. /\ Len(memory) \in Nat /\ DOMAIN memory = 1..Len(memory)
  BY ListShape DEF Shape
<1>3. ASSUME NEW v \in DOMAIN values, values[v].cell # 0 PROVE after[values[v].cell] = memory[values[v].cell]
  <2>1. values[v].cell \in DOMAIN memory /\ values[v].cell # cell
    BY <1>2, <1>3 DEF Shape, ApartInv
  <2> QED
    BY <1>1, <2>1
<1> QED
  BY <1>3 DEF ApartInv, Reads

\* Slices, which read as far as they are long.
ReadsTo(values, memory, v) ==
  values[v].cell # 0 =>
    \A i \in 1..values[v].length : memory[values[v].cell][i] = values[v].meant[i]

SlicesInv(values, memory) ==
  /\ HaveKids(values) /\ Chained(values)
  /\ \A c \in DOMAIN memory : IsList(memory[c])
  /\ \A v \in DOMAIN values :
       /\ IsList(values[v].meant) /\ Len(values[v].meant) = values[v].length
       /\ values[v].cell # 0 => values[v].length <= Len(memory[values[v].cell])
       /\ \A a \in Lineage(values)[v] : values[a].length < values[v].length
       /\ Straight(values, v) => ReadsTo(values, memory, v)

\* The array one more entry is written into: the one it was appended to, or a copy.
TakenOver(values, memory, from, value, array) ==
  \/ /\ value.cell = values[from].cell /\ value.cell # 0
     /\ Len(array) = Len(memory[value.cell])
     /\ \A i \in 1..values[from].length : array[i] = memory[value.cell][i]
  \/ /\ value.cell = Len(memory) + 1
     /\ ReadsTo(values, memory, from) =>
          \A i \in 1..values[from].length : array[i] = values[from].meant[i]

LEMMA SlicesGrow ==
  ASSUME NEW values, NEW memory, Shape(values, memory), SlicesInv(values, memory),
         NEW from \in DOMAIN values, NEW value, value.parent = from,
         NEW more, NEW n, NEW next, GrownTo(values, value, more, n, next),
         NEW entry, value.length = values[from].length + 1,
         Appended(value.meant, values[from].meant, entry),
         NEW array, IsList(array), value.length <= Len(array), array[value.length] = entry,
         NEW after, Written(memory, value.cell, array, after),
         TakenOver(values, memory, from, value, array)
  PROVE  SlicesInv(more, after)
<1>1. /\ DOMAIN values = 1..n /\ DOMAIN more = 1..next /\ more[next] = value
      /\ \A v \in 1..n : v # next /\ more[v] = values[v] /\ Lineage(more)[v] = Lineage(values)[v]
      /\ \A v \in 1..next : v = next \/ v \in 1..n
      /\ from # 0 /\ Lineage(more)[next] = {from} \cup Lineage(values)[from]
  BY DEF GrownTo, Above
<1>2. /\ Len(memory) \in Nat /\ DOMAIN memory = 1..Len(memory)
  BY ListShape DEF Shape
<1>3. /\ IsList(after) /\ Len(memory) <= Len(after) /\ value.cell \in 1..Len(after)
      /\ after[value.cell] = array /\ \A c \in DOMAIN memory : c # value.cell => after[c] = memory[c]
  BY CellWritten DEF Shape
<1>4. PICK l \in Nat : l = values[from].length /\ value.length = l + 1
  BY DEF Shape
<1>5. \A v \in 1..n : values[v].cell \in 0..Len(memory) /\ values[v].length \in Nat
  BY <1>1 DEF Shape
<1>6. HaveKids(more)
  BY StraightGrows DEF SlicesInv
<1>7. Chained(more)
  <2>1. \/ value.cell = values[from].cell
        \/ \A u \in DOMAIN values : values[u].cell # value.cell
    BY <1>1, <1>2, <1>5 DEF TakenOver
  <2>2. HaveKids(values) /\ Chained(values) /\ value.parent # 0
    BY <1>1 DEF SlicesInv
  <2>3. \/ value.cell = values[value.parent].cell
        \/ \A u \in DOMAIN values : values[u].cell # value.cell
    BY <2>1
  <2> QED
    BY <2>2, <2>3, ChainGrows
<1>8. ASSUME NEW c \in DOMAIN after PROVE IsList(after[c])
  <2>1. c = value.cell \/ c \in DOMAIN memory
    <3>1. DOMAIN after = 1..Len(after) /\ Len(after) \in Nat
      BY <1>3, ListShape
    <3>2. CASE value.cell \in DOMAIN memory /\ Rewritten(after, memory, value.cell, array)
      <4>1. DOMAIN after = DOMAIN memory
        BY <3>2, ListWritten DEF Shape
      <4> QED
        BY <4>1
    <3>3. CASE value.cell = Len(memory) + 1 /\ Appended(after, memory, array)
      <4>1. DOMAIN after = 1..(Len(memory) + 1)
        BY <3>3, ListGrows DEF Shape
      <4> QED
        BY <1>2, <3>3, <4>1
    <3> QED
      BY <3>2, <3>3 DEF Written
  <2> QED
    BY <1>3, <2>1 DEF SlicesInv
\* The one more.
<1>9. /\ IsList(value.meant) /\ Len(value.meant) = l + 1 /\ value.meant[l + 1] = entry
      /\ \A i \in 1..l : value.meant[i] = values[from].meant[i]
  <2>1. PICK meant : meant = values[from].meant
    OBVIOUS
  <2>2. IsList(meant) /\ Len(meant) = l
    BY <1>1, <1>4, <2>1 DEF SlicesInv
  <2>3. DOMAIN meant = 1..l
    BY <2>2, ListShape
  <2>4. /\ IsList(value.meant) /\ Len(value.meant) = Len(meant) + 1
        /\ \A i \in DOMAIN meant : value.meant[i] = meant[i]
        /\ value.meant[Len(meant) + 1] = entry
    BY <2>1, <2>2, ListGrows
  <2> QED
    BY <2>1, <2>2, <2>3, <2>4
<1>10. \A a \in Lineage(more)[next] : more[a].length < value.length
  <2>1. \A a \in Lineage(values)[from] : a \in 1..n /\ values[a].length < l
    <3>1. \A a \in Lineage(values)[from] : a \in 1..(from - 1) /\ values[a].length < values[from].length
      BY <1>1 DEF SlicesInv, HaveKids
    <3> QED
      BY <1>1, <1>4, <3>1 DEF GrownTo
  <2> QED
    BY <1>1, <1>4, <1>5, <2>1
<1>11. ASSUME Straight(more, next) PROVE ReadsTo(more, after, next)
  <2>1. ReadsTo(values, memory, from)
    BY <1>1, <1>11, StraightGrows DEF SlicesInv
  <2>2. \A i \in 1..l : array[i] = values[from].meant[i]
    BY <1>1, <1>2, <1>4, <1>5, <2>1 DEF ReadsTo, TakenOver
  <2>3. \A i \in 1..(l + 1) : array[i] = value.meant[i]
    <3> SUFFICES ASSUME NEW i \in 1..(l + 1) PROVE array[i] = value.meant[i]
      OBVIOUS
    <3>1. CASE i = l + 1
      BY <1>4, <1>9, <3>1
    <3>2. CASE i \in 1..l
      BY <1>9, <2>2, <3>2
    <3> QED
      BY <3>1, <3>2
  <2> QED
    BY <1>1, <1>3, <1>4, <2>3 DEF ReadsTo
\* The others.
<1>12. ASSUME NEW v \in 1..n
       PROVE  /\ values[v].cell # 0 => values[v].length <= Len(after[values[v].cell])
              /\ \A a \in Lineage(more)[v] : more[a].length < values[v].length
  <2>1. values[v].cell # 0 => values[v].cell \in DOMAIN memory
    BY <1>2, <1>5
  <2>2. ASSUME values[v].cell # 0 PROVE values[v].length <= Len(after[values[v].cell])
    <3>1. values[v].length <= Len(memory[values[v].cell])
      BY <1>1, <2>2 DEF SlicesInv
    <3>2. CASE values[v].cell = value.cell
      <4>1. Len(array) = Len(memory[value.cell])
        BY <1>2, <2>1, <2>2, <3>2 DEF TakenOver
      <4> QED
        BY <1>3, <3>1, <3>2, <4>1
    <3>3. CASE values[v].cell # value.cell
      BY <1>3, <2>1, <2>2, <3>1, <3>3
    <3> QED
      BY <3>2, <3>3
  <2>3. \A a \in Lineage(values)[v] : a \in 1..n /\ values[a].length < values[v].length
    <3>1. \A a \in Lineage(values)[v] : a \in 1..(v - 1) /\ values[a].length < values[v].length
      BY <1>1 DEF SlicesInv, HaveKids
    <3> QED
      BY <3>1 DEF GrownTo
  <2> QED
    BY <1>1, <2>2, <2>3
<1>13. ASSUME NEW v \in 1..n, Straight(more, v) PROVE ReadsTo(more, after, v)
  <2>1. Straight(values, v) /\ (from \in Lineage(values)[v] => values[from].cell = 0)
    BY <1>1, <1>13, StraightGrows DEF SlicesInv
  <2>2. ReadsTo(values, memory, v)
    BY <1>1, <2>1 DEF SlicesInv
  <2>3. CASE values[v].cell # 0 /\ values[v].cell = value.cell
    <3>1. /\ value.cell = values[from].cell
          /\ \A i \in 1..values[from].length : array[i] = memory[value.cell][i]
      BY <1>2, <1>5, <2>3 DEF TakenOver
    <3>2. from = v \/ v \in Lineage(values)[from]
      BY <1>1, <2>1, <2>3, <3>1 DEF SlicesInv, Chained, InLine
    <3>3. values[v].length <= l
      BY <1>1, <1>4, <1>5, <3>2 DEF SlicesInv
    <3>4. \A i \in 1..values[v].length : array[i] = memory[value.cell][i]
      BY <1>4, <1>5, <3>1, <3>3
    <3> QED
      BY <1>1, <1>3, <2>2, <2>3, <3>4 DEF ReadsTo
  <2>4. CASE values[v].cell = 0 \/ values[v].cell # value.cell
    <3>1. values[v].cell # 0 => after[values[v].cell] = memory[values[v].cell]
      BY <1>2, <1>3, <1>5, <2>4
    <3> QED
      BY <1>1, <2>2, <3>1 DEF ReadsTo
  <2> QED
    BY <2>3, <2>4
<1>14. ASSUME NEW v \in 1..next
       PROVE  /\ IsList(more[v].meant) /\ Len(more[v].meant) = more[v].length
              /\ more[v].cell # 0 => more[v].length <= Len(after[more[v].cell])
              /\ \A a \in Lineage(more)[v] : more[a].length < more[v].length
              /\ Straight(more, v) => ReadsTo(more, after, v)
  <2>1. CASE v = next
    BY <1>1, <1>3, <1>4, <1>9, <1>10, <1>11, <2>1
  <2>2. CASE v \in 1..n
    <3>1. IsList(values[v].meant) /\ Len(values[v].meant) = values[v].length
      BY <1>1, <2>2 DEF SlicesInv
    <3> QED
      BY <1>1, <1>12, <1>13, <2>2, <3>1
  <2> QED
    BY <1>1, <2>1, <2>2
<1> QED
  BY <1>1, <1>6, <1>7, <1>8, <1>14 DEF SlicesInv

-----------------------------------------------------------------------------
(* Request headers. *)

\* The map all requests share is the first client's that had one.
HeadersInv(values, memory) ==
  /\ 1 \in DOMAIN memory
  /\ \A v \in DOMAIN values : values[v].cell # 1 => Reads(values, memory, v)
  /\ \/ /\ memory[1] = << >>
        /\ \A v \in DOMAIN values : values[v].cell = 1 => values[v].meant = << >>
     \/ /\ "Authorization" \in DOMAIN memory[1]
        /\ \E w \in DOMAIN values : values[w].cell = 1 /\ values[w].meant = memory[1]

LEMMA OwnHeaders ==
  ASSUME NEW values, NEW memory, Shape(values, memory), HeadersInv(values, memory),
         NEW value, NEW more, NEW n, NEW next, GrownTo(values, value, more, n, next),
         NEW after, Appended(after, memory, value.meant), value.cell = Len(memory) + 1
  PROVE  HeadersInv(more, after)
<1>1. /\ DOMAIN values = 1..n /\ DOMAIN more = 1..next /\ more[next] = value
      /\ \A v \in 1..n : more[v] = values[v] /\ v \in 1..next
      /\ \A v \in 1..next : v = next \/ v \in 1..n
  BY DEF GrownTo
<1>2. /\ Len(memory) \in Nat /\ DOMAIN memory = 1..Len(memory)
  BY ListShape DEF Shape
<1>3. /\ after[value.cell] = value.meant /\ \A c \in DOMAIN memory : after[c] = memory[c]
      /\ DOMAIN after = 1..(Len(memory) + 1)
  BY ListGrows DEF Shape
<1>4. 1 \in DOMAIN memory /\ 1 \in DOMAIN after /\ after[1] = memory[1] /\ value.cell # 1
  BY <1>2, <1>3 DEF HeadersInv
<1>5. ASSUME NEW v \in 1..next, more[v].cell # 1 PROVE Reads(more, after, v)
  <2>1. CASE v = next
    BY <1>1, <1>3, <2>1 DEF Reads
  <2>2. CASE v \in 1..n
    <3>1. values[v].cell # 0 => values[v].cell \in DOMAIN memory
      BY <1>1, <1>2, <2>2 DEF Shape
    <3> QED
      BY <1>1, <1>3, <1>5, <2>2, <3>1 DEF HeadersInv, Reads
  <2> QED
    BY <1>1, <2>1, <2>2
<1>6. \/ /\ after[1] = << >>
         /\ \A v \in 1..next : more[v].cell = 1 => more[v].meant = << >>
      \/ /\ "Authorization" \in DOMAIN after[1]
         /\ \E w \in 1..next : more[w].cell = 1 /\ more[w].meant = after[1]
  BY <1>1, <1>4 DEF HeadersInv
<1> QED
  BY <1>1, <1>4, <1>5, <1>6 DEF HeadersInv

LEMMA SharedHeaders ==
  ASSUME NEW values, NEW memory, Shape(values, memory), HeadersInv(values, memory),
         NEW value, NEW more, NEW n, NEW next, GrownTo(values, value, more, n, next),
         NEW filled, NEW after, Rewritten(after, memory, 1, filled), value.cell = 1,
         \/ /\ filled = memory[1]
            /\ value.meant = << >> \/ "Authorization" \in DOMAIN memory[1]
         \/ /\ "Authorization" \notin DOMAIN memory[1]
            /\ memory[1] = << >> => filled = value.meant
            /\ "Authorization" \in DOMAIN filled
  PROVE  HeadersInv(more, after)
<1>1. /\ DOMAIN values = 1..n /\ DOMAIN more = 1..next /\ more[next] = value /\ next \in 1..next
      /\ \A v \in 1..n : more[v] = values[v] /\ v \in 1..next
      /\ \A v \in 1..next : v = next \/ v \in 1..n
  BY DEF GrownTo
<1>2. /\ Len(memory) \in Nat /\ DOMAIN memory = 1..Len(memory)
  BY ListShape DEF Shape
<1>3. /\ after[1] = filled /\ DOMAIN after = DOMAIN memory /\ 1 \in DOMAIN memory
      /\ \A c \in DOMAIN memory : c # 1 => after[c] = memory[c]
  BY ListWritten DEF Shape, HeadersInv
<1>4. ASSUME NEW v \in 1..next, more[v].cell # 1 PROVE Reads(more, after, v)
  <2>1. v \in 1..n
    BY <1>1, <1>4
  <2>2. values[v].cell # 0 => values[v].cell \in DOMAIN memory
    BY <1>1, <1>2, <2>1 DEF Shape
  <2> QED
    BY <1>1, <1>3, <1>4, <2>1, <2>2 DEF HeadersInv, Reads
<1>5. \/ /\ after[1] = << >>
         /\ \A v \in 1..next : more[v].cell = 1 => more[v].meant = << >>
      \/ /\ "Authorization" \in DOMAIN after[1]
         /\ \E w \in 1..next : more[w].cell = 1 /\ more[w].meant = after[1]
  <2>1. CASE /\ memory[1] = << >>
             /\ \A v \in DOMAIN values : values[v].cell = 1 => values[v].meant = << >>
    <3>0. "Authorization" \notin DOMAIN memory[1]
      BY <2>1
    <3>1. CASE filled = memory[1] /\ value.meant = << >>
      BY <1>1, <1>3, <2>1, <3>1
    <3>2. CASE filled = value.meant /\ "Authorization" \in DOMAIN filled
      BY <1>1, <1>3, <3>2
    <3> QED
      BY <2>1, <3>0, <3>1, <3>2
  <2>2. CASE /\ "Authorization" \in DOMAIN memory[1]
             /\ \E w \in DOMAIN values : values[w].cell = 1 /\ values[w].meant = memory[1]
    BY <1>1, <1>3, <2>2
  <2> QED
    BY <2>1, <2>2 DEF HeadersInv
<1> QED
  BY <1>1, <1>3, <1>4, <1>5 DEF HeadersInv

LEMMA BlankIsNoStyle == Blank \notin Styles
  BY Zenon DEF Blank, Styles

LEMMA OneValue ==
  ASSUME NEW values, values = <<Held(0, 0, 0, NoEntries)>>
  PROVE  /\ Parented(values) /\ Len(values) = 1 /\ DOMAIN values = {1}
         /\ values[1] = Held(0, 0, 0, NoEntries) /\ Lineage(values)[1] = {}
<1>1. PICK value : value = Held(0, 0, 0, NoEntries)
  OBVIOUS
<1>2. value.parent = 0
  BY <1>1 DEF Held
<1>3. values = <<value>>
  BY <1>1
<1>4. values \in Seq({value}) /\ Len(values) = 1 /\ values[1] = value /\ DOMAIN values = 1..1
  BY <1>3
<1>5. Parented(values)
  <2>1. IsList(values)
    BY <1>4, ListOf
  <2> QED
    BY <1>2, <1>4, <2>1 DEF Parented
<1>6. Lineage(values)[1] = {}
  <2>1. PICK above : above = Lineage(values)
    OBVIOUS
  <2>2. above[1] = Above(above, values[1].parent)
    BY <1>4, <1>5, <2>1, LineageTraces
  <2> QED
    BY <1>2, <1>4, <2>1, <2>2 DEF Above
<1> QED
  BY <1>1, <1>4, <1>5, <1>6

\* A value with nothing in it.
LEMMA Begun ==
  ASSUME NEW values, values = <<Held(0, 0, 0, NoEntries)>>,
         NEW memory, IsList(memory), \A c \in DOMAIN memory : IsList(memory[c]),
         NEW callers, 0 \notin callers
  PROVE  /\ Shape(values, memory) /\ InPlaceInv(values, memory)
         /\ ApartInv(values, memory, callers) /\ SlicesInv(values, memory)
<1>1. PICK value : value = Held(0, 0, 0, NoEntries)
  OBVIOUS
<1>2. value.cell = 0 /\ value.length = 0 /\ value.meant = << >> /\ value.parent = 0
  BY <1>1 DEF Held, NoEntries
<1>3. /\ Parented(values) /\ Len(values) = 1 /\ DOMAIN values = {1}
      /\ values[1] = value /\ Lineage(values)[1] = {}
  BY <1>1, OneValue
<1>4. Len(memory) \in Nat
  BY ListShape
<1>5. Shape(values, memory)
  BY <1>2, <1>3, <1>4 DEF Shape
<1>6. HaveKids(values) /\ Chained(values)
  BY <1>2, <1>3 DEF HaveKids, Chained
<1>7. ApartInv(values, memory, callers)
  BY <1>2, <1>3 DEF ApartInv, Reads
<1>8. InPlaceInv(values, memory)
  BY <1>2, <1>3, <1>6 DEF InPlaceInv, Reads
<1>9. SlicesInv(values, memory)
  <2>1. IsList(value.meant) /\ Len(value.meant) = 0
    <3>1. << >> \in Seq({}) /\ Len(<< >>) = 0
      OBVIOUS
    <3> QED
      BY <1>2, <3>1, ListOf
  <2>2. ReadsTo(values, memory, 1)
    BY <1>2, <1>3 DEF ReadsTo
  <2> QED
    BY <1>2, <1>3, <1>6, <2>1, <2>2 DEF SlicesInv
<1> QED
  BY <1>5, <1>7, <1>8, <1>9

LEMMA InPlaceKeeps ==
  ASSUME Shape(held, cells), InPlaceInv(held, cells), NEW from \in DOMAIN held,
         NEW content, NEW meant, InPlace(from, content, meant),
         Reads(held, cells, from) => content = meant
  PROVE  Shape(held', cells') /\ InPlaceInv(held', cells')
<1>1. PICK cell : cell = IF held[from].cell = 0 THEN Len(cells) + 1 ELSE held[from].cell
  OBVIOUS
<1>2. PICK value : value = Held(cell, 0, from, meant)
  OBVIOUS
<1>3. value.cell = cell /\ value.length = 0 /\ value.parent = from /\ value.meant = meant
  BY <1>2 DEF Held
<1>4. PICK more : more = held'
  OBVIOUS
<1>5. PICK after : after = cells'
  OBVIOUS
<1>6. IsList(held) /\ IsList(cells)
  BY DEF Shape, Parented
<1>7. Len(held) \in Nat /\ DOMAIN held = 1..Len(held) /\ Len(cells) \in Nat /\ DOMAIN cells = 1..Len(cells)
  BY <1>6, ListShape
<1>8. Appended(more, held, value)
  BY <1>1, <1>2, <1>4 DEF InPlace, Appended
<1>9. Written(cells, value.cell, content, after)
  <2>1. CASE held[from].cell = 0
    BY <1>1, <1>3, <1>5, <2>1 DEF InPlace, Written, Appended
  <2>2. CASE held[from].cell # 0
    <3>1. cell = held[from].cell /\ cell \in DOMAIN cells
      BY <1>1, <1>7, <2>2 DEF Shape
    <3> QED
      BY <1>3, <1>5, <2>2, <3>1 DEF InPlace, Written, Rewritten
  <2> QED
    BY <2>1, <2>2
<1>10. IsList(after) /\ Len(cells) <= Len(after) /\ value.cell \in 1..Len(after)
  BY <1>6, <1>9, CellWritten
<1>11. from \in 1..Len(held) /\ from \in 0..Len(held) /\ Len(after) \in Nat
  BY <1>7, <1>10, ListShape
<1>12. value.cell \in 0..Len(after) /\ value.cell # 0
  BY <1>10, <1>11
<1>13. Shape(more, after) /\ GrownTo(held, value, more, Len(held), Len(held) + 1)
  BY <1>3, <1>8, <1>10, <1>11, <1>12, ShapeGrows
<1>14. PICK n, next : GrownTo(held, value, more, n, next)
  BY <1>13
<1>15. IF held[from].cell = 0 THEN value.cell = Len(cells) + 1 ELSE value.cell = held[from].cell
  BY <1>1, <1>3
<1>16. Reads(held, cells, from) => content = value.meant
  BY <1>3
<1>17. InPlaceInv(more, after)
  BY <1>3, <1>9, <1>14, <1>15, <1>16, InPlaceGrows
<1> QED
  BY <1>4, <1>5, <1>13, <1>17

LEMMA ApartKeeps ==
  ASSUME Shape(held, cells), NEW callers, callers \subseteq DOMAIN cells, ApartInv(held, cells, callers),
         NEW from \in DOMAIN held, NEW meant, Apart(from, meant, meant)
  PROVE  /\ Shape(held', cells') /\ ApartInv(held', cells', callers)
         /\ callers \subseteq DOMAIN cells'
<1>2. PICK value : value = Held(Len(cells) + 1, 0, from, meant)
  OBVIOUS
<1>3. value.cell = Len(cells) + 1 /\ value.length = 0 /\ value.parent = from /\ value.meant = meant
  BY <1>2 DEF Held
<1>4. PICK more : more = held'
  OBVIOUS
<1>5. PICK after : after = cells'
  OBVIOUS
<1>6. IsList(held) /\ IsList(cells)
  BY DEF Shape, Parented
<1>7. Len(held) \in Nat /\ DOMAIN held = 1..Len(held) /\ Len(cells) \in Nat /\ DOMAIN cells = 1..Len(cells)
  BY <1>6, ListShape
<1>8. Appended(more, held, value) /\ Appended(after, cells, value.meant)
  BY <1>2, <1>3, <1>4, <1>5 DEF Apart, Appended
<1>9. IsList(after) /\ Len(after) = Len(cells) + 1 /\ DOMAIN after = 1..(Len(cells) + 1)
  BY <1>6, <1>8, ListGrows
<1>10. /\ from \in 0..Len(held) /\ Len(cells) <= Len(after)
       /\ value.cell \in 0..Len(after) /\ value.cell # 0
  BY <1>3, <1>7, <1>9
<1>11. Shape(more, after) /\ GrownTo(held, value, more, Len(held), Len(held) + 1)
  BY <1>3, <1>8, <1>9, <1>10, ShapeGrows
<1>12. PICK n, next : GrownTo(held, value, more, n, next)
  BY <1>11
<1>13. ApartInv(more, after, callers)
  BY <1>3, <1>8, <1>12, ApartGrows
<1>14. callers \subseteq DOMAIN after
  BY <1>7, <1>9
<1> QED
  BY <1>4, <1>5, <1>11, <1>13, <1>14

LEMMA CallerKeeps ==
  ASSUME Shape(held, cells), 1 \in DOMAIN cells, ApartInv(held, cells, {1}),
         NEW entry, CallerWrites(entry)
  PROVE  Shape(held', cells') /\ 1 \in DOMAIN cells' /\ ApartInv(held', cells', {1})
<1>1. PICK after : after = cells'
  OBVIOUS
<1>2. PICK content : content = Overlay(cells[1], entry)
  OBVIOUS
<1>3. Rewritten(after, cells, 1, content) /\ held' = held
  BY <1>1, <1>2 DEF CallerWrites, Rewritten
<1>4. PICK cell \in {1} \cap DOMAIN cells : cell = 1
  OBVIOUS
<1>5. Written(cells, cell, content, after)
  BY <1>3, <1>4 DEF Written
<1>6. ApartInv(held, after, {1})
  BY <1>5, CallerWritesApart
<1>7. PICK callers : callers = {1}
  OBVIOUS
<1>8. PICK place \in DOMAIN cells : place = 1
  OBVIOUS
<1>9. IsList(after) /\ Len(after) = Len(cells) /\ DOMAIN after = DOMAIN cells
  BY <1>3, <1>8, ListWritten DEF Shape
<1>10. Shape(held, after)
  BY <1>9 DEF Shape
<1> QED
  BY <1>1, <1>3, <1>6, <1>9, <1>10

Concatenated(whole, one, two) == whole = one \o two

LEMMA ListJoined ==
  ASSUME NEW one, IsList(one), NEW two, IsList(two), NEW whole, Concatenated(whole, one, two)
  PROVE  IsList(whole) /\ Len(one) <= Len(whole) /\ \A i \in DOMAIN one : whole[i] = one[i]
<1>1. PICK S : S = Range(one) \cup Range(two)
  OBVIOUS
<1>2. PICK R : R = Range(one)
  OBVIOUS
<1>3. PICK T : T = Range(two)
  OBVIOUS
<1>4. one \in Seq(R) /\ two \in Seq(T) /\ S = R \cup T
  BY <1>1, <1>2, <1>3 DEF IsList
<1>5. one \in Seq(S) /\ two \in Seq(S)
  BY <1>4
<1>6. /\ whole \in Seq(S) /\ Len(whole) = Len(one) + Len(two)
      /\ \A i \in 1..(Len(one) + Len(two)) :
           whole[i] = IF i <= Len(one) THEN one[i] ELSE two[i - Len(one)]
  BY <1>5, ConcatProperties DEF Concatenated
<1>7. DOMAIN one = 1..Len(one) /\ Len(one) \in Nat /\ Len(two) \in Nat
  BY <1>5
<1> QED
  BY <1>6, <1>7, ListOf

Prefixed(part, list, n) == part = SubSeq(list, 1, n)

LEMMA ListPrefix ==
  ASSUME NEW list, IsList(list), NEW n \in Nat, n <= Len(list), NEW part, Prefixed(part, list, n)
  PROVE  IsList(part) /\ Len(part) = n /\ \A i \in 1..n : part[i] = list[i]
<1>1. PICK S : S = Range(list)
  OBVIOUS
<1>2. list \in Seq(S)
  BY <1>1 DEF IsList
<1>3. \A i \in 1..n : list[i] \in S
  BY <1>2
<1>4. /\ part \in Seq(S) /\ Len(part) = (IF 1 <= n THEN n - 1 + 1 ELSE 0)
      /\ \A i \in 1..(n - 1 + 1) : part[i] = list[1 + i - 1]
  BY <1>3, SubSeqProperties DEF Prefixed
<1> QED
  BY <1>4, ListOf

\* Lists that read alike are the same.
LEMMA SameLists ==
  ASSUME NEW one, IsList(one), NEW two, IsList(two), Len(one) = Len(two),
         \A i \in 1..Len(one) : one[i] = two[i]
  PROVE  one = two
<1>1. PICK R : R = Range(one)
  OBVIOUS
<1>2. PICK T : T = Range(two)
  OBVIOUS
<1>3. PICK S : S = R \cup T
  OBVIOUS
<1>4. one \in Seq(R) /\ two \in Seq(T)
  BY <1>1, <1>2 DEF IsList
<1>5. one \in Seq(S) /\ two \in Seq(S)
  BY <1>3, <1>4
<1> QED
  BY <1>5

LEMMA Spares ==
  ASSUME NEW n \in Nat, NEW x
  PROVE  IsList([i \in 1..n |-> x])
<1>1. [i \in 1..n |-> x] \in [1..n -> {x}]
  OBVIOUS
<1>2. [i \in 1..n |-> x] \in Seq({x})
  BY <1>1, ListFrom
<1> QED
  BY <1>2, ListOf

\* A slice that reads as far as it is long reads as what it was given.
LEMMA WholeSlices ==
  ASSUME NEW values, NEW memory, Shape(values, memory), SlicesInv(values, memory),
         NEW v \in DOMAIN values, NEW content,
         content = IF values[v].cell = 0 THEN << >>
                   ELSE SubSeq(memory[values[v].cell], 1, values[v].length)
  PROVE  /\ IsList(content) /\ Len(content) = values[v].length
         /\ ReadsTo(values, memory, v) => content = values[v].meant
<1>1. PICK l \in Nat : l = values[v].length
  BY DEF Shape
<1>2. PICK meant : meant = values[v].meant
  OBVIOUS
<1>3. IsList(meant) /\ Len(meant) = l
  BY <1>1, <1>2 DEF SlicesInv
<1>4. CASE values[v].cell = 0
  <2>1. meant = << >> /\ content = << >>
    BY <1>2, <1>4 DEF Shape
  <2> QED
    BY <1>1, <1>2, <1>3, <2>1
<1>5. CASE values[v].cell # 0
  <2>1. PICK array : array = memory[values[v].cell]
    OBVIOUS
  <2>2. IsList(array) /\ l <= Len(array)
    <3>1. IsList(memory)
      BY DEF Shape
    <3>2. Len(memory) \in Nat /\ DOMAIN memory = 1..Len(memory)
      BY <3>1, ListShape
    <3>3. values[v].cell \in DOMAIN memory
      BY <1>5, <3>2 DEF Shape
    <3> QED
      BY <1>1, <1>5, <2>1, <3>3 DEF SlicesInv
  <2>3. Prefixed(content, array, l)
    BY <1>1, <1>5, <2>1 DEF Prefixed
  <2>4. IsList(content) /\ Len(content) = l /\ \A i \in 1..l : content[i] = array[i]
    BY <2>2, <2>3, ListPrefix
  <2>5. ASSUME ReadsTo(values, memory, v) PROVE content = meant
    <3>1. \A i \in 1..l : array[i] = meant[i]
      BY <1>1, <1>2, <1>5, <2>1, <2>5 DEF ReadsTo
    <3> QED
      BY <1>3, <2>4, <3>1, SameLists
  <2> QED
    BY <1>1, <1>2, <2>4, <2>5
<1> QED
  BY <1>4, <1>5

LEMMA AppendKeeps ==
  ASSUME style = "append", SpareCells \in Nat, Shape(held, cells), SlicesInv(held, cells),
         NEW from \in DOMAIN held, NEW entry, AppendTo(from, entry)
  PROVE  Shape(held', cells') /\ SlicesInv(held', cells')
<1>1. PICK old : old = held[from]
  OBVIOUS
<1>2. PICK l \in Nat : l = old.length
  BY <1>1 DEF Shape
<1>3. PICK meant : meant = Append(old.meant, entry)
  OBVIOUS
<1>4. PICK more : more = held'
  OBVIOUS
<1>5. PICK after : after = cells'
  OBVIOUS
<1>6. IsList(held) /\ IsList(cells)
  BY DEF Shape, Parented
<1>7. /\ Len(held) \in Nat /\ DOMAIN held = 1..Len(held) /\ Len(cells) \in Nat
      /\ DOMAIN cells = 1..Len(cells)
  BY <1>6, ListShape
<1>8. PICK cell : cell = IF Spare(old) THEN old.cell ELSE Len(cells) + 1
  OBVIOUS
<1>9. PICK value : value = Held(cell, l + 1, from, meant)
  OBVIOUS
<1>10. value.cell = cell /\ value.length = l + 1 /\ value.parent = from /\ value.meant = meant
  BY <1>9 DEF Held
<1>11. Appended(more, held, value)
  BY <1>1, <1>2, <1>3, <1>4, <1>8, <1>9 DEF AppendTo, Appended
\* The array that is written.
<1>12. \E array :
          /\ IsList(array) /\ l + 1 <= Len(array) /\ array[l + 1] = entry
          /\ Written(cells, cell, array, after)
          /\ \/ /\ cell = old.cell /\ cell # 0 /\ Len(array) = Len(cells[cell])
                /\ \A i \in 1..l : array[i] = cells[cell][i]
             \/ /\ cell = Len(cells) + 1
                /\ ReadsTo(held, cells, from) => \A i \in 1..l : array[i] = old.meant[i]
  <2>1. CASE Spare(old)
    <3>1. cell = old.cell /\ cell # 0 /\ cell \in DOMAIN cells
      BY <1>1, <1>7, <1>8, <2>1 DEF Spare, Shape
    <3>2. PICK there : there = cells[cell]
      OBVIOUS
    <3>3. IsList(there) /\ l < Len(there)
      BY <1>2, <2>1, <3>1, <3>2 DEF Spare, SlicesInv
    <3>4. DOMAIN there = 1..Len(there) /\ Len(there) \in Nat
      BY <3>3, ListShape
    <3>5. PICK place \in DOMAIN there : place = l + 1
      BY <3>3, <3>4
    <3>6. PICK array : array = [there EXCEPT ![place] = entry]
      OBVIOUS
    <3>7. after = [cells EXCEPT ![old.cell][l + 1] = entry]
      BY <1>1, <1>2, <1>5, <2>1 DEF AppendTo
    <3>8. Rewritten(array, there, place, entry) /\ Rewritten(after, cells, cell, array)
      BY <3>1, <3>2, <3>5, <3>6, <3>7 DEF Rewritten
    <3>9. /\ IsList(array) /\ Len(array) = Len(there) /\ array[place] = entry
          /\ \A i \in DOMAIN there : i # place => array[i] = there[i]
      BY <3>3, <3>8, ListWritten
    <3>10. \A i \in 1..l : array[i] = there[i]
      BY <3>3, <3>4, <3>5, <3>9
    <3>11. Written(cells, cell, array, after)
      BY <3>1, <3>8 DEF Written
    <3> QED
      BY <3>1, <3>2, <3>4, <3>5, <3>9, <3>10, <3>11
  <2>2. CASE ~Spare(old)
    <3>1. PICK content : content = Content(old)
      OBVIOUS
    <3>2. PICK spare \in 0..SpareCells :
            after = Append(cells, Append(content, entry) \o [i \in 1..spare |-> NoEntries])
      BY <1>1, <1>5, <2>2, <3>1 DEF AppendTo
    <3>3. content = IF held[from].cell = 0 THEN << >>
                    ELSE SubSeq(cells[held[from].cell], 1, held[from].length)
      BY <1>1, <3>1 DEF Content, NoEntries
    <3>4. IsList(content) /\ Len(content) = l /\ (ReadsTo(held, cells, from) => content = old.meant)
      BY <1>1, <1>2, <3>3, WholeSlices
    <3>5. PICK longer : longer = Append(content, entry)
      OBVIOUS
    <3>6. PICK rest : rest = [i \in 1..spare |-> NoEntries]
      OBVIOUS
    <3>7. PICK array : array = longer \o rest
      OBVIOUS
    <3>8. Appended(longer, content, entry) /\ Concatenated(array, longer, rest) /\ Appended(after, cells, array)
      BY <3>2, <3>5, <3>6, <3>7 DEF Appended, Concatenated
    <3>9. /\ IsList(longer) /\ Len(longer) = l + 1 /\ DOMAIN longer = 1..(l + 1)
          /\ longer[l + 1] = entry /\ \A i \in DOMAIN content : longer[i] = content[i]
      BY <3>4, <3>8, ListGrows
    <3>10. IsList(rest)
      <4>1. spare \in Nat
        BY <3>2
      <4> QED
        BY <3>6, <4>1, Spares
    <3>11. IsList(array) /\ Len(longer) <= Len(array) /\ \A i \in DOMAIN longer : array[i] = longer[i]
      BY <3>8, <3>9, <3>10, ListJoined
    <3>12. DOMAIN content = 1..l
      BY <3>4, ListShape
    <3>13. array[l + 1] = entry /\ \A i \in 1..l : array[i] = content[i]
      BY <3>9, <3>11, <3>12
    <3>14. cell = Len(cells) + 1 /\ Written(cells, cell, array, after)
      BY <1>8, <2>2, <3>8 DEF Written
    <3> QED
      BY <3>4, <3>9, <3>11, <3>13, <3>14
  <2> QED
    BY <2>1, <2>2
<1>13. PICK array :
          /\ IsList(array) /\ value.length <= Len(array) /\ array[value.length] = entry
          /\ Written(cells, value.cell, array, after) /\ TakenOver(held, cells, from, value, array)
  BY <1>1, <1>2, <1>10, <1>12 DEF TakenOver
<1>14. IsList(after) /\ Len(cells) <= Len(after) /\ value.cell \in 1..Len(after)
  BY <1>6, <1>13, CellWritten
<1>15. Len(after) \in Nat /\ from \in 0..Len(held)
  BY <1>7, <1>14, ListShape
<1>16. value.cell \in 0..Len(after) /\ value.cell # 0 /\ value.length \in Nat
  BY <1>2, <1>10, <1>14, <1>15
<1>17. Shape(more, after) /\ GrownTo(held, value, more, Len(held), Len(held) + 1)
  BY <1>10, <1>11, <1>14, <1>15, <1>16, ShapeGrows
<1>18. PICK n, next : GrownTo(held, value, more, n, next)
  BY <1>17
<1>19. value.length = held[from].length + 1 /\ Appended(value.meant, held[from].meant, entry)
  BY <1>1, <1>2, <1>3, <1>10 DEF Appended
<1>20. SlicesInv(more, after)
  BY <1>10, <1>13, <1>18, <1>19, SlicesGrow
<1> QED
  BY <1>4, <1>5, <1>17, <1>20

\* A request: the client's credentials go into a map that has none.
Filled(there, meant, filled) ==
  \/ filled = there /\ (meant = NoEntries \/ "Authorization" \in DOMAIN there)
  \/ /\ "Authorization" \notin DOMAIN there
     /\ \E auth : meant = Entry("Authorization", auth)
     /\ filled = Overlay(there, meant)

LEMMA ContextFills ==
  ASSUME NEW auth, NEW own \in BOOLEAN, DoContext(auth, own)
  PROVE  \E meant, filled :
           \/ /\ Filled(NoEntries, meant, filled)
              /\ cells' = Append(cells, filled)
              /\ held' = Append(held, Held(Len(cells) + 1, 0, 0, meant))
           \/ /\ Filled(cells[1], meant, filled)
              /\ cells' = [cells EXCEPT ![1] = filled]
              /\ held' = Append(held, Held(1, 0, 0, meant))
<1>1. PICK there : there = IF own THEN NoEntries ELSE cells[1]
  OBVIOUS
<1>2. PICK meant : meant = IF auth = Blank THEN NoEntries ELSE Entry("Authorization", auth)
  OBVIOUS
<1>3. PICK filled : filled = IF auth # Blank /\ "Authorization" \notin DOMAIN there
                             THEN Overlay(there, Entry("Authorization", auth)) ELSE there
  OBVIOUS
<1>4. Filled(there, meant, filled)
  <2>1. CASE auth = Blank
    BY <1>2, <1>3, <2>1 DEF Filled
  <2>2. CASE auth # Blank /\ "Authorization" \in DOMAIN there
    BY <1>3, <2>2 DEF Filled
  <2>3. CASE auth # Blank /\ "Authorization" \notin DOMAIN there
    BY <1>2, <1>3, <2>3 DEF Filled
  <2> QED
    BY <2>1, <2>2, <2>3
<1>5. CASE own
  <2>1. there = NoEntries
    BY <1>1, <1>5
  <2>2. /\ cells' = Append(cells, filled)
        /\ held' = Append(held, Held(Len(cells) + 1, 0, 0, meant))
    BY <1>2, <1>3, <1>5, <2>1, Zenon DEF DoContext, Blank
  <2> QED
    BY <1>4, <2>1, <2>2
<1>6. CASE ~own
  <2>1. there = cells[1]
    BY <1>1, <1>6
  <2>2. /\ cells' = [cells EXCEPT ![1] = filled]
        /\ held' = Append(held, Held(1, 0, 0, meant))
    BY <1>2, <1>3, <1>6, <2>1, Zenon DEF DoContext, Blank
  <2> QED
    BY <1>4, <2>1, <2>2
<1> QED
  BY <1>5, <1>6

LEMMA FilledHeaders ==
  ASSUME NEW there, NEW meant, NEW filled, Filled(there, meant, filled)
  PROVE  /\ there = << >> => filled = meant
         /\ \/ filled = there /\ (meant = << >> \/ "Authorization" \in DOMAIN there)
            \/ "Authorization" \notin DOMAIN there /\ "Authorization" \in DOMAIN filled
<1>1. CASE filled = there /\ (meant = NoEntries \/ "Authorization" \in DOMAIN there)
  BY <1>1 DEF NoEntries
<1>2. CASE "Authorization" \notin DOMAIN there /\ filled = Overlay(there, meant)
           /\ \E auth : meant = Entry("Authorization", auth)
  <2>1. PICK auth : meant = Entry("Authorization", auth)
    BY <1>2
  <2>2. meant = [k \in {"Authorization"} |-> auth]
    BY <2>1 DEF Entry
  <2>3. "Authorization" \in DOMAIN filled
    BY <1>2, <2>2 DEF Overlay
  <2>4. ASSUME there = << >> PROVE filled = meant
    <3>1. filled = [key \in {"Authorization"} |-> auth]
      BY <1>2, <2>2, <2>4 DEF Overlay
    <3> QED
      BY <2>2, <3>1
  <2> QED
    BY <1>2, <2>3, <2>4
<1> QED
  BY <1>1, <1>2 DEF Filled

LEMMA HeadersKeep ==
  ASSUME Shape(held, cells), HeadersInv(held, cells),
         NEW auth, NEW own \in BOOLEAN, DoContext(auth, own)
  PROVE  Shape(held', cells') /\ HeadersInv(held', cells')
<1>1. PICK more : more = held'
  OBVIOUS
<1>2. PICK after : after = cells'
  OBVIOUS
<1>3. IsList(held) /\ IsList(cells)
  BY DEF Shape, Parented
<1>4. /\ Len(held) \in Nat /\ DOMAIN held = 1..Len(held) /\ Len(cells) \in Nat
      /\ DOMAIN cells = 1..Len(cells)
  BY <1>3, ListShape
<1>5. PICK meant, filled :
         \/ /\ Filled(NoEntries, meant, filled)
            /\ after = Append(cells, filled)
            /\ more = Append(held, Held(Len(cells) + 1, 0, 0, meant))
         \/ /\ Filled(cells[1], meant, filled)
            /\ after = [cells EXCEPT ![1] = filled]
            /\ more = Append(held, Held(1, 0, 0, meant))
  BY <1>1, <1>2, ContextFills
<1>6. CASE /\ Filled(NoEntries, meant, filled)
           /\ after = Append(cells, filled)
           /\ more = Append(held, Held(Len(cells) + 1, 0, 0, meant))
  <2>1. PICK value : value = Held(Len(cells) + 1, 0, 0, meant)
    OBVIOUS
  <2>2. value.cell = Len(cells) + 1 /\ value.length = 0 /\ value.parent = 0 /\ value.meant = meant
    BY <2>1 DEF Held
  <2>3. filled = meant
    BY <1>6, FilledHeaders DEF NoEntries
  <2>4. Appended(more, held, value) /\ Appended(after, cells, value.meant)
    BY <1>6, <2>1, <2>2, <2>3 DEF Appended
  <2>5. IsList(after) /\ Len(after) = Len(cells) + 1
    BY <1>3, <2>4, ListGrows
  <2>6. /\ value.parent \in 0..Len(held) /\ value.length \in Nat /\ Len(cells) <= Len(after)
        /\ value.cell \in 0..Len(after) /\ value.cell # 0
    BY <1>4, <2>2, <2>5
  <2>7. Shape(more, after) /\ GrownTo(held, value, more, Len(held), Len(held) + 1)
    BY <2>4, <2>5, <2>6, ShapeGrows
  <2>8. PICK n, next : GrownTo(held, value, more, n, next)
    BY <2>7
  <2>9. HeadersInv(more, after)
    BY <2>2, <2>4, <2>8, OwnHeaders
  <2> QED
    BY <1>1, <1>2, <2>7, <2>9
<1>7. CASE /\ Filled(cells[1], meant, filled)
           /\ after = [cells EXCEPT ![1] = filled]
           /\ more = Append(held, Held(1, 0, 0, meant))
  <2>1. PICK value : value = Held(1, 0, 0, meant)
    OBVIOUS
  <2>2. value.cell = 1 /\ value.length = 0 /\ value.parent = 0 /\ value.meant = meant
    BY <2>1 DEF Held
  <2>3. Appended(more, held, value) /\ Rewritten(after, cells, 1, filled)
    BY <1>7, <2>1 DEF Appended, Rewritten
  <2>4. PICK one \in DOMAIN cells : one = 1
    BY DEF HeadersInv
  <2>5. IsList(after) /\ Len(after) = Len(cells) /\ after[one] = filled
    BY <1>3, <2>3, <2>4, ListWritten
  <2>6. /\ value.parent \in 0..Len(held) /\ value.length \in Nat /\ Len(cells) <= Len(after)
        /\ value.cell \in 0..Len(after) /\ value.cell # 0
    BY <1>4, <2>2, <2>4, <2>5
  <2>7. Shape(more, after) /\ GrownTo(held, value, more, Len(held), Len(held) + 1)
    BY <2>3, <2>5, <2>6, ShapeGrows
  <2>8. PICK n, next : GrownTo(held, value, more, n, next)
    BY <2>7
  <2>9. /\ cells[1] = << >> => filled = value.meant
        /\ \/ filled = cells[1] /\ (value.meant = << >> \/ "Authorization" \in DOMAIN cells[1])
           \/ "Authorization" \notin DOMAIN cells[1] /\ "Authorization" \in DOMAIN filled
    <3>1. PICK there : there = cells[1]
      OBVIOUS
    <3>2. Filled(there, meant, filled)
      BY <1>7, <3>1
    <3> QED
      BY <2>2, <3>1, <3>2, FilledHeaders
  <2>10. HeadersInv(more, after)
    BY <2>2, <2>3, <2>8, <2>9, SharedHeaders
  <2> QED
    BY <1>1, <1>2, <2>7, <2>10
<1> QED
  BY <1>5, <1>6, <1>7

\* What each kind of value keeps.
Keeps(kind, values, memory) ==
  /\ kind \in {"merge", "replace"} => InPlaceInv(values, memory)
  /\ kind = "clone" => ApartInv(values, memory, {})
  /\ kind = "argument" => 1 \in DOMAIN memory /\ ApartInv(values, memory, {1})
  /\ kind = "append" => SlicesInv(values, memory)
  /\ kind = "headers" => HeadersInv(values, memory)

BuildInv ==
  \/ style = Blank /\ held = << >> /\ cells = << >>
  \/ style \in Styles /\ Shape(held, cells) /\ Keeps(style, held, cells)

LEMMA NewKeeps ==
  ASSUME NEW kind \in Styles, New(kind)
  PROVE  BuildInv'
<1>1. /\ style' = kind
      /\ cells' = IF kind \in {"argument", "headers"} THEN <<NoEntries>> ELSE << >>
      /\ held' = IF kind = "headers" THEN << >> ELSE <<Held(0, 0, 0, NoEntries)>>
  BY Zenon DEF New
<1>2. PICK values : values = held'
  OBVIOUS
<1>3. PICK memory : memory = cells'
  OBVIOUS
<1>4. PICK bare : bare = << >>
  OBVIOUS
<1>5. IsList(bare) /\ Len(bare) = 0 /\ DOMAIN bare = {}
  <2>1. << >> \in Seq({}) /\ Len(<< >>) = 0 /\ DOMAIN << >> = {}
    OBVIOUS
  <2> QED
    BY <1>4, <2>1, ListOf
<1>6. ASSUME kind \in {"argument", "headers"}
      PROVE  IsList(memory) /\ Len(memory) = 1 /\ DOMAIN memory = {1} /\ memory[1] = << >>
  <2>1. memory = <<bare>>
    BY <1>1, <1>3, <1>4, <1>6 DEF NoEntries
  <2>2. memory \in Seq({bare}) /\ Len(memory) = 1 /\ DOMAIN memory = {1} /\ memory[1] = bare
    BY <2>1
  <2> QED
    BY <1>4, <2>2, ListOf
<1>7. kind \notin {"argument", "headers"} => memory = bare
  BY <1>1, <1>3, <1>4
<1>8. IsList(memory) /\ \A c \in DOMAIN memory : IsList(memory[c])
  BY <1>4, <1>5, <1>6, <1>7
<1>9. CASE kind = "headers"
  <2>1. values = bare
    BY <1>1, <1>2, <1>4, <1>9
  <2>2. Shape(values, memory)
    BY <1>5, <1>8, <2>1 DEF Shape, Parented
  <2>3. HeadersInv(values, memory)
    BY <1>5, <1>6, <1>9, <2>1 DEF HeadersInv
  <2>4. Keeps(kind, values, memory)
    BY <1>9, <2>3 DEF Keeps
  <2> QED
    BY <1>1, <1>2, <1>3, <2>2, <2>4 DEF BuildInv
<1>10. CASE kind # "headers"
  <2>1. values = <<Held(0, 0, 0, NoEntries)>>
    BY <1>1, <1>2, <1>10
  <2>2. ASSUME NEW callers, 0 \notin callers
        PROVE  /\ Shape(values, memory) /\ InPlaceInv(values, memory)
               /\ ApartInv(values, memory, callers) /\ SlicesInv(values, memory)
    BY <1>8, <2>1, <2>2, Begun
  <2>3. /\ Shape(values, memory) /\ InPlaceInv(values, memory) /\ SlicesInv(values, memory)
        /\ ApartInv(values, memory, {})
    BY <2>2
  <2>4. ApartInv(values, memory, {1})
    BY <2>2
  <2>5. Keeps(kind, values, memory)
    BY <1>6, <1>10, <2>3, <2>4 DEF Keeps
  <2> QED
    BY <1>1, <1>2, <1>3, <2>3, <2>5 DEF BuildInv
<1> QED
  BY <1>9, <1>10

LEMMA SameContent ==
  ASSUME Shape(held, cells), style # "append", NEW from \in DOMAIN held, Reads(held, cells, from)
  PROVE  Content(held[from]) = held[from].meant
  BY DEF Shape, Reads, Content, NoEntries

LEMMA ExtendKeeps ==
  ASSUME Shape(held, cells), Keeps(style, held, cells), style \in Styles, style' = style,
         NEW from \in DOMAIN held, NEW entry, Extend(from, entry)
  PROVE  Shape(held', cells') /\ Keeps(style, held', cells')
<1>1. CASE style \in {"merge", "replace"}
  <2>1. InPlaceInv(held, cells)
    BY <1>1 DEF Keeps
  <2>2. PICK content, meant : InPlace(from, content, meant) /\ (Reads(held, cells, from) => content = meant)
    <3>1. CASE style = "merge"
      <4>1. PICK content : content = Content(held[from])
        OBVIOUS
      <4>2. PICK before : before = held[from].meant
        OBVIOUS
      <4>3. InPlace(from, Overlay(content, entry), Overlay(before, entry))
        BY <3>1, <4>1, <4>2 DEF Extend, Merge
      <4>4. Reads(held, cells, from) => content = before
        BY <3>1, <4>1, <4>2, SameContent
      <4> QED
        BY <4>3, <4>4
    <3>2. CASE style = "replace"
      BY <3>2 DEF Extend, Replace
    <3> QED
      BY <1>1, <3>1, <3>2
  <2>3. Shape(held', cells') /\ InPlaceInv(held', cells')
    BY <2>1, <2>2, InPlaceKeeps
  <2> QED
    BY <1>1, <2>3 DEF Keeps
<1>2. CASE style = "clone"
  <2>1. ApartInv(held, cells, {})
    BY <1>2 DEF Keeps
  <2>2. Reads(held, cells, from)
    BY <2>1 DEF ApartInv
  <2>3. Content(held[from]) = held[from].meant
    BY <1>2, <2>2, SameContent
  <2>4. PICK meant : meant = Overlay(held[from].meant, entry)
    OBVIOUS
  <2>5. Apart(from, meant, meant)
    BY <1>2, <2>3, <2>4 DEF Extend, Clone
  <2>6. PICK callers : callers = {}
    OBVIOUS
  <2>7. callers \subseteq DOMAIN cells /\ ApartInv(held, cells, callers)
    BY <2>1, <2>6
  <2>8. Shape(held', cells') /\ ApartInv(held', cells', callers)
    BY <2>5, <2>7, ApartKeeps
  <2> QED
    BY <1>2, <2>6, <2>8 DEF Keeps
<1>3. CASE style = "argument"
  <2>1. 1 \in DOMAIN cells /\ ApartInv(held, cells, {1})
    BY <1>3 DEF Keeps
  <2>2. PICK meant : meant = cells[1]
    OBVIOUS
  <2>3. Apart(from, meant, meant)
    BY <1>3, <2>2 DEF Extend, CloneArgument
  <2>4. PICK callers : callers = {1}
    OBVIOUS
  <2>5. callers \subseteq DOMAIN cells /\ ApartInv(held, cells, callers)
    BY <2>1, <2>4
  <2>6. Shape(held', cells') /\ ApartInv(held', cells', callers) /\ callers \subseteq DOMAIN cells'
    BY <2>3, <2>5, ApartKeeps
  <2> QED
    BY <1>3, <2>4, <2>6 DEF Keeps
<1>4. CASE style = "append"
  <2>1. SlicesInv(held, cells) /\ AppendTo(from, entry) /\ SpareCells \in Nat
    BY <1>4, BuildersAssumption DEF Keeps, Extend
  <2>2. Shape(held', cells') /\ SlicesInv(held', cells')
    BY <1>4, <2>1, AppendKeeps
  <2> QED
    BY <1>4, <2>2 DEF Keeps
<1> QED
  BY <1>1, <1>2, <1>3, <1>4 DEF Extend

LEMMA BuildKeeps ==
  ASSUME BuildInv, BuildNext
  PROVE  BuildInv'
<1>1. CASE \E kind \in Styles : New(kind)
  BY <1>1, NewKeeps
<1>2. CASE \E from \in DOMAIN held, entry \in Entries : Extend(from, entry) /\ style' = style
  <2>1. PICK from \in DOMAIN held, entry \in Entries : Extend(from, entry) /\ style' = style
    BY <1>2
  <2>2. style \in Styles /\ Shape(held, cells) /\ Keeps(style, held, cells)
    BY <2>1 DEF BuildInv
  <2>3. Shape(held', cells') /\ Keeps(style, held', cells')
    BY <2>1, <2>2, ExtendKeeps
  <2> QED
    BY <2>1, <2>2, <2>3 DEF BuildInv
<1>3. CASE \E auth \in AuthHeaders, own \in BOOLEAN :
             style = "headers" /\ DoContext(auth, own) /\ style' = style
  <2>1. PICK auth \in AuthHeaders, own \in BOOLEAN :
          style = "headers" /\ DoContext(auth, own) /\ style' = style
    BY <1>3
  <2>2. Shape(held, cells) /\ HeadersInv(held, cells) /\ style \in Styles
    BY <2>1, BlankIsNoStyle DEF BuildInv, Keeps, Styles
  <2>3. Shape(held', cells') /\ HeadersInv(held', cells')
    BY <2>1, <2>2, HeadersKeep
  <2>4. Keeps(style, held', cells')
    BY <2>1, <2>3 DEF Keeps
  <2> QED
    BY <2>1, <2>2, <2>3, <2>4 DEF BuildInv
<1>4. CASE style = "argument" /\ style' = style /\ \E entry \in Entries : CallerWrites(entry)
  <2>1. PICK entry \in Entries : CallerWrites(entry)
    BY <1>4
  <2>2. /\ Shape(held, cells) /\ 1 \in DOMAIN cells /\ ApartInv(held, cells, {1})
        /\ style \in Styles
    BY <1>4, BlankIsNoStyle DEF BuildInv, Keeps, Styles
  <2>3. Shape(held', cells') /\ 1 \in DOMAIN cells' /\ ApartInv(held', cells', {1})
    BY <2>1, <2>2, CallerKeeps
  <2>4. Keeps(style, held', cells')
    BY <1>4, <2>3 DEF Keeps
  <2> QED
    BY <1>4, <2>2, <2>3, <2>4 DEF BuildInv
<1> QED
  BY <1>1, <1>2, <1>3, <1>4 DEF BuildNext

LEMMA UnchangedBuild ==
  ASSUME BuildInv, UNCHANGED buildVars
  PROVE  BuildInv'
  BY DEF BuildInv, buildVars

LEMMA StepOfBuild ==
  ASSUME [Next]_vars
  PROVE  BuildNext \/ UNCHANGED buildVars
<1>1. CASE LoadInputs \/ MakeRequests \/ CheckTargets \/ BuildValues \/ SendMetrics \/ UNCHANGED vars
  BY <1>1 DEF LoadInputs, MakeRequests, CheckTargets, BuildValues, SendMetrics, vars, workVars
<1>2. CASE StartRun \/ AskConfig \/ FunctionReturned
  BY <1>2 DEF StartRun, AskConfig, FunctionReturned, workVars
<1>3. ASSUME NEW result \in Results \cup {None}, NEW failed \in BOOLEAN, NEW length \in DocumentSizes,
             Execute(result, failed, length)
      PROVE  FunctionReturned
  BY <1>3 DEF Execute
<1>4. ASSUME NEW status, NEW length \in DocumentSizes, ActOn(status, length)
      PROVE  FunctionReturned
  BY <1>4 DEF ActOn
<1> QED
  BY <1>1, <1>2, <1>3, <1>4, Zenon DEF Next

LEMMA BuildInvHolds == Spec => []BuildInv
<1>1. Init => BuildInv
  <2>1. BuildInit => style = Blank /\ held = << >> /\ cells = << >>
    BY Zenon DEF BuildInit, Blank
  <2> QED
    BY <2>1 DEF Init, BuildInv
<1>2. BuildInv /\ [Next]_vars => BuildInv'
  BY BuildKeeps, UnchangedBuild, StepOfBuild
<1> QED
  BY <1>1, <1>2, PTL DEF Spec

LEMMA LinearIsStraight ==
  ASSUME NEW v
  PROVE  Linear(v) = Straight(held, v) /\ Children(v) = Kids(held, v)
<1>1. Ancestors = Lineage(held)
  BY DEF Ancestors, Lineage
<1>2. \A a : Children(a) = Kids(held, a)
  BY DEF Children, Kids
<1> QED
  BY <1>1, <1>2 DEF Linear, Straight

\* For any entries and any number of values, clones and copies of arguments keep what they
\* were given, slices along straight chains do, shared maps do at the end of one, and a
\* camera request carries its own client's header unless its map is used with another
\* client (sdk/credential_grant.go:289-295, sdk/check_descriptor.go:46-111,
\* sdk/advisory.go:106-124, sdk/telemetry.go:81-106, sdk/camera_http.go:64-71).
THEOREM ValuesKeep == Spec => []ValuesKeepWhatTheyWereGiven
<1>1. ASSUME BuildInv, NEW v \in DOMAIN held
      PROVE  /\ style \in {"clone", "argument"} => Intact(v)
             /\ style = "append" /\ Linear(v) => Intact(v)
             /\ style \in {"merge", "replace"} /\ Linear(v) /\ Children(v) = {} => Intact(v)
             /\ /\ style = "headers"
                /\ \A w \in DOMAIN held : held[w].cell = held[v].cell => held[w].meant = held[v].meant
                => Intact(v)
  <2>1. Shape(held, cells) /\ Keeps(style, held, cells)
    BY <1>1 DEF BuildInv
  <2>2. style # "append" /\ Reads(held, cells, v) => Intact(v)
    BY <2>1, SameContent DEF Intact
  <2>3. ASSUME style \in {"clone", "argument"} PROVE Intact(v)
    BY <2>1, <2>2, <2>3 DEF Keeps, ApartInv
  <2>4. ASSUME style = "append", Linear(v) PROVE Intact(v)
    <3>1. SlicesInv(held, cells) /\ Straight(held, v)
      BY <2>1, <2>4, LinearIsStraight DEF Keeps
    <3>2. ReadsTo(held, cells, v)
      BY <3>1 DEF SlicesInv
    <3>3. PICK content : content = Content(held[v])
      OBVIOUS
    <3>4. content = IF held[v].cell = 0 THEN << >>
                    ELSE SubSeq(cells[held[v].cell], 1, held[v].length)
      BY <2>4, <3>3 DEF Content, NoEntries
    <3>5. content = held[v].meant
      BY <2>1, <3>1, <3>2, <3>4, WholeSlices
    <3> QED
      BY <3>3, <3>5 DEF Intact
  <2>5. ASSUME style \in {"merge", "replace"}, Linear(v), Children(v) = {} PROVE Intact(v)
    <3>1. InPlaceInv(held, cells) /\ Straight(held, v) /\ Kids(held, v) = {}
      BY <2>1, <2>5, LinearIsStraight DEF Keeps
    <3> QED
      BY <2>2, <2>5, <3>1 DEF InPlaceInv
  <2>6. ASSUME style = "headers",
               \A w \in DOMAIN held : held[w].cell = held[v].cell => held[w].meant = held[v].meant
        PROVE  Intact(v)
    <3>1. HeadersInv(held, cells)
      BY <2>1, <2>6 DEF Keeps
    <3>2. Reads(held, cells, v)
      BY <2>6, <3>1 DEF HeadersInv, Reads
    <3> QED
      BY <2>2, <2>6, <3>2
  <2> QED
    BY <2>3, <2>4, <2>5, <2>6
<1>2. BuildInv => ValuesKeepWhatTheyWereGiven
  BY <1>1 DEF ValuesKeepWhatTheyWereGiven
<1> QED
  BY <1>2, BuildInvHolds, PTL
-----------------------------------------------------------------------------
(* Metrics. *)

Sent(batch) == [kind |-> "sent", batch |-> Named(batch), bytes |-> metricBatchProto(batch)]

\* What the host has is some batch, whatever its values, in the bytes of the encoder.
EmittedInv == emitted = Unsent \/ \E batch \in MetricBatch : emitted = Sent(batch)

LEMMA TimedIsABatch ==
  ASSUME NEW batch \in MetricBatch, NEW time \in Int
  PROVE  [batch EXCEPT !.emittedAt = IF @ = 0 THEN time % WordSize ELSE @] \in MetricBatch
<1>1. WordSize \in Nat /\ WordSize > 0
  BY EnvelopeAssumption
<1>2. time % WordSize \in Word
  BY <1>1 DEF Word
<1> QED
  BY <1>2 DEF MetricBatch

LEMMA EmittedStep ==
  ASSUME EmittedInv, now \in Int, [Next]_vars
  PROVE  EmittedInv'
<1>1. CASE SendMetrics
  <2>1. PICK batch \in Batches : EmitMetrics(batch, now)
    BY <1>1 DEF SendMetrics
  <2>2. PICK timed \in MetricBatch :
          timed = [batch EXCEPT !.emittedAt = IF @ = 0 THEN now % WordSize ELSE @]
    BY TimedIsABatch, EnvelopeAssumption
  <2>3. emitted' = Sent(timed)
    BY <2>1, <2>2 DEF EmitMetrics, Sent
  <2> QED
    BY <2>3 DEF EmittedInv
<1>2. CASE UNCHANGED emitted
  BY <1>2 DEF EmittedInv
<1>3. CASE LoadInputs \/ StartRun \/ AskConfig \/ MakeRequests \/ CheckTargets \/ BuildValues
           \/ UNCHANGED vars
  BY <1>2, <1>3 DEF LoadInputs, StartRun, AskConfig, MakeRequests, CheckTargets, BuildValues,
                    vars, workVars
<1>4. FunctionReturned => UNCHANGED emitted
  BY DEF FunctionReturned, workVars
<1>5. ASSUME NEW result \in Results \cup {None}, NEW failed \in BOOLEAN, NEW length \in DocumentSizes,
             Execute(result, failed, length)
      PROVE  UNCHANGED emitted
  BY <1>4, <1>5 DEF Execute
<1>6. ASSUME NEW status, NEW length \in DocumentSizes, ActOn(status, length)
      PROVE  UNCHANGED emitted
  BY <1>4, <1>6 DEF ActOn
<1> QED
  BY <1>1, <1>2, <1>3, <1>5, <1>6, Zenon DEF Next

LEMMA EmittedInvHolds == Spec => []EmittedInv
<1>1. Init => EmittedInv
  BY DEF Init, EmittedInv
<1>2. ExchangeInv => now \in Int
  BY DEF ExchangeInv, CallInv, ExchangeTypeOK
<1>3. ExchangeInv /\ EmittedInv /\ [Next]_vars => EmittedInv'
  BY <1>2, EmittedStep
<1> QED
  BY <1>1, <1>3, ExchangeInvHolds, PTL DEF Spec

\* Whatever the batch, the host's bytes are it: every number with its sign and its width,
\* every text, entry, point and metric in its place, and what has only zero values left out
\* (sdk/metric_envelope.go:132-291).
THEOREM MetricsAreRead == Spec => []MetricsDecode
<1>1. ASSUME NEW batch \in MetricBatch, emitted = Sent(batch)
      PROVE  ReadBatch(emitted.bytes) = BatchMeaning(emitted.batch)
  <2>1. emitted.bytes = metricBatchProto(batch) /\ emitted.batch = Named(batch)
    BY <1>1 DEF Sent
  <2> QED
    BY <2>1, BatchRead
<1>2. EmittedInv => MetricsDecode
  BY <1>1 DEF EmittedInv, MetricsDecode
<1> QED
  BY <1>2, EmittedInvHolds, PTL

-----------------------------------------------------------------------------
(* Types. *)

\* The types of the variables, for every value of the constants
\* (sdk/local_host.go:58-70, sdk/config.go:27-55).
THEOREM TypesHold == Spec => []TypeOK
<1>1. ChecksInv => ChecksTypeOK
  <2>1. ASSUME ChecksInv, built # Unbuilt
        PROVE  built.status \in {"", "UNKNOWN", "OK", "WARNING", "CRITICAL"}
    <3>1. built.status \in Statuses
      BY <2>1 DEF ChecksInv, BuiltInv
    <3> QED
      BY <3>1, Zenon DEF Statuses
  <2>2. ChecksInv => targets \in Seq(Target) /\ checking \in 0..Len(targets)
    BY DEF ChecksInv, TargetsInv
  <2> QED
    BY <2>1, <2>2, Zenon DEF ChecksTypeOK, Target
<1>2. BuildInv => BuildTypeOK
  <2>1. BuildInv => style \in Styles \cup {Blank}
    BY DEF BuildInv
  <2>2. ASSUME BuildInv, NEW v \in DOMAIN held
        PROVE  /\ held[v].cell \in 0..Len(cells) /\ held[v].parent \in 0..(v - 1)
               /\ held[v].length \in Nat
    BY <2>2 DEF BuildInv, Shape, Parented
  <2> QED
    BY <2>1, <2>2, Zenon DEF BuildTypeOK, Blank
<1>3. ConfigInv => pluginConfig.kind \in {"none", "config", "error"}
  BY NoneIsNone DEF ConfigInv, ConfigReachesPlugin
<1>4. InputsInv => InputsTypeOK
  BY DEF InputsInv
<1>5. ExchangeInv => ExchangeTypeOK
  BY DEF ExchangeInv, CallInv
<1>6. ConfigInv => /\ run \in {"loading", "asking", "working", "finished", "refused"}
                   /\ configLength \in 0..MaxPayload /\ attempt \in DOMAIN ConfigSizes
  BY DEF ConfigInv
<1>7. SubmitInv => captured.kind \in {"none", "result", "action"} /\ returned.kind \in {"none", "ok", "error"}
  BY DEF SubmitInv
<1>8. ExchangeInv /\ InputsInv /\ ConfigInv /\ ChecksInv /\ BuildInv /\ SubmitInv => TypeOK
  BY <1>1, <1>2, <1>3, <1>4, <1>5, <1>6, <1>7, Zenon DEF TypeOK
<1> QED
  BY <1>8, ExchangeInvHolds, InputsInvHold, ChecksInvHolds, BuildInvHolds, SubmitInvHolds, PTL
=============================================================================
