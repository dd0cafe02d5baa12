----------------------------- MODULE HostExchange -----------------------------
(***************************************************************************)
(* The requests a plugin makes through its host, and the local host's side *)
(* of them: HTTPClient.DoContext and GRPCClient.Unary (sdk/http.go,        *)
(* sdk/grpc.go) against httpRequest with its credential grants and         *)
(* grpcUnary (sdk/local_host.go, sdk/local_credentials.go,                 *)
(* sdk/local_grpc.go).  Names are compared folded and trimmed throughout;  *)
(* a list of the code whose order does not matter is a set, and a string   *)
(* that may be unset a set of at most one.  Lengths are counted in units a *)
(* small instance can exhaust.                                             *)
(***************************************************************************)
EXTENDS Integers, Sequences, FiniteSets, SequencesExt

CONSTANTS
  HTTPRequests,      \* bound: the HTTP requests the plugin makes
  GRPCRequests,      \* bound: the gRPC requests the plugin makes
  Hosts,             \* bound: grants, handlers and the clients' limits a run starts with
  MaxHTTPResponse,   \* MaxHTTPResponseBytes
  MaxGRPCResponse,   \* MaxGRPCResponseBytes
  GRPCOverhead,      \* grpcResponseEnvelopeOverhead
  StatusLine,        \* the length of a status and its line feed
  ForbiddenNames,    \* metadata names that are empty, reserved, grpc-* or start with ":"
  BinaryNames,       \* metadata names that end in -bin
  Lengths,           \* bound: the length of a handler's body or message
  Overheads,         \* bound: what the JSON envelope takes beside the message
  MaxTime,           \* bound: the clock
  MaxRequests        \* bound: calls of one run

ASSUME LimitAssumption ==
  /\ MaxHTTPResponse \in Nat \ {0} /\ MaxGRPCResponse \in Nat \ {0}
  /\ GRPCOverhead \in Nat /\ StatusLine \in Nat
  /\ \A host \in Hosts : host.httpLimit \in Nat /\ host.grpcLimit \in Nat
  /\ Lengths \subseteq Nat /\ Overheads \subseteq Nat
  /\ MaxTime \in Nat \ {0} /\ MaxRequests \in Nat

\* What decodeLocalHTTPRequest and newGRPCRequestPayload can be given.
ASSUME RequestsAssumption ==
  /\ HTTPRequests \subseteq
       [kind: {"http"}, method: STRING, scheme: STRING, host: STRING, port: Nat, path: Seq(STRING),
        insecure: BOOLEAN, auth: Seq(STRING), body: {"none", "text", "raw"}, base64: BOOLEAN,
        mode: {"status_body", "envelope"}, timed: BOOLEAN]
  /\ GRPCRequests \subseteq
       [kind: {"grpc"}, host: STRING, port: Nat, method: STRING, transport: STRING,
        metadata: SUBSET [name: STRING, spelling: STRING, encoded: BOOLEAN],
        timeout: Int, limit: Int]

\* A host has a list of grants, each with a time it expires at, and may have handlers.
ASSUME HostsAssumption ==
  \A host \in Hosts :
    /\ host.handlers \subseteq {"http", "grpc"}
    /\ host.grants \in Seq(Range(host.grants))
    /\ \A i \in DOMAIN host.grants : host.grants[i].expires \in Nat

VARIABLES
  grants,      \* localHostExecution.grants
  secrets,     \* the fields of localHostExecution.credentials that are not blank
  handlers,    \* which of HTTPHandler and GRPCHandler are set
  httpLimit,   \* HTTP.MaxResponseBytes
  grpcLimit,   \* GRPC.MaxResponseBytes
  now,         \* the clock
  phase,       \* where the call in progress is
  request,     \* what the plugin asked for
  seen,        \* what the host made of it, and the handler is given
  asOf,        \* the time the grants are judged at
  index,       \* the grant the host has come to
  answer,      \* what the handler answered
  outcome,     \* what the call returned to the plugin
  requests     \* calls made

hostVars == <<grants, secrets, handlers, httpLimit, grpcLimit>>
callVars == <<phase, request, seen, asOf, index, answer, outcome>>
exchangeVars == <<hostVars, now, callVars, requests>>

None == [kind |-> "none"]
Error(code) == [kind |-> "error", code |-> code]

ExchangeInit ==
  /\ \E host \in Hosts :
       /\ grants = host.grants /\ handlers = host.handlers
       /\ httpLimit = host.httpLimit /\ grpcLimit = host.grpcLimit
  /\ secrets = {}
  /\ now = 1 /\ phase = "idle" /\ request = None /\ seen = None
  /\ asOf = 1 /\ index = 1 /\ answer = None /\ outcome = None
  /\ requests = 0

-----------------------------------------------------------------------------
(* Grants.  A grant without ExpiresAt expires at 0. *)

\* Mutant of Expired: a grant outlives its expiry.
ExpiredLate(grant, t) == grant.expires # 0 /\ t > grant.expires

Expired(grant, t) == grant.expires # 0 /\ t >= grant.expires

Admits(list, values) == list = {} \/ list \cap values # {}

\* The host of the URL without its port, and with the one it names.
HostNames(r) == {<<r.host, 0>>, <<r.host, r.port>>}

Port(r) ==
  IF r.port # 0 THEN r.port
  ELSE IF r.scheme = "https" THEN 443 ELSE IF r.scheme = "http" THEN 80 ELSE 0

\* A pattern is exact, plain (which covers what is under it when it ends in "/"), a
\* star with a prefix before it, or blank.
PathAllowed(patterns, path) ==
  \E p \in patterns :
    \/ p.kind \in {"exact", "plain"} /\ p.path = path
    \/ p.kind = "star" /\ IsPrefix(p.path, path)
    \/ p.kind = "plain" /\ Last(p.path) = "/" /\ IsPrefix(p.path, path)

\* localGrantAllows: hosts are required, the other lists restrict when set.
Allows(allow, r) ==
  /\ allow.hosts # {}
  /\ Admits(allow.schemes, {r.scheme})
  /\ Admits(allow.methods, {r.method})
  /\ allow.paths = {} \/ PathAllowed(allow.paths, r.path)
  /\ Admits(allow.hosts, HostNames(r))
  /\ Admits(allow.ports, {Port(r)} \ {0})

Covers(grant, r, t) ==
  /\ grant.type = "oauth2_client_credentials"
  /\ ~Expired(grant, t)
  /\ Allows(grant.allow, r)

InjectTargets(spec, r) ==
  /\ Admits(spec.methods, {r.method})
  /\ Admits(spec.hosts, HostNames(r))
  /\ Admits(spec.paths, {r.path})

\* oauth2ClientCredentialsFormFields accepts the spec: fields maps credential fields to
\* form fields, fixed maps form fields to literals.
FormValid(spec) ==
  /\ spec.token.method = "POST" /\ spec.token.host = "bare"
  /\ spec.token.port \in 1..65535 /\ spec.token.path = "absolute"
  /\ "" \notin DOMAIN spec.fields \cup Range(spec.fields) \cup DOMAIN spec.fixed
  /\ IsInjective(spec.fields)
  /\ Range(spec.fields) \cap DOMAIN spec.fixed = {}
  /\ "grant_type" \in DOMAIN spec.fixed /\ spec.fixed["grant_type"] = "client_credentials"
  /\ \A field \in {"client_id", "client_secret"} :
       field \in Range(spec.fields) \cup {f \in DOMAIN spec.fixed : spec.fixed[f] # ""}

\* Mutant of Authorizes: nobody looks whether the credential is there.
AuthorizesUnfilled(grant, r) ==
  InjectTargets(grant.spec, r) /\ (r.insecure => grant.spec.allowInsecure) /\ FormValid(grant.spec)

\* A covering grant lets the request go: its target, its TLS policy and the credential
\* fields it needs all fit.
Authorizes(grant, r) ==
  /\ InjectTargets(grant.spec, r)
  /\ r.insecure => grant.spec.allowInsecure
  /\ FormValid(grant.spec)
  /\ DOMAIN grant.spec.fields \subseteq secrets

Bearer(grant) == <<"Bearer", grant.id>>

\* The call ends.
Finish(result) == phase' = "idle" /\ outcome' = result

\* The call is over before the host is asked: its context is done, or a gRPC request
\* has no shape the client would send.
RefuseLocally(r, result) ==
  /\ phase = "idle" /\ requests < MaxRequests
  /\ request' = r /\ seen' = None /\ answer' = None
  /\ requests' = requests + 1
  /\ Finish(result)
  /\ UNCHANGED <<hostVars, now, asOf, index>>

CallHost(r) ==
  /\ phase = "idle" /\ requests < MaxRequests
  /\ request' = r /\ seen' = None /\ answer' = None /\ outcome' = None
  /\ requests' = requests + 1 /\ phase' = "arriving"
  /\ UNCHANGED <<hostVars, now, asOf, index>>

HTTPDo(r) == CallHost(r) \/ RefuseLocally(r, Error("canceled"))

\* newGRPCRequestPayload accepts the request.
Shaped(r) == r.host # "" /\ r.port \in 1..65535 /\ r.method = "/service/method"
             /\ r.transport \in {"", "tls", "h2c"}

GRPCUnary(r) ==
  \/ Shaped(r) /\ CallHost(r)
  \/ ~Shaped(r) /\ RefuseLocally(r, Error("shape"))
  \/ RefuseLocally(r, Error("canceled"))

-----------------------------------------------------------------------------
(* httpRequest. *)

\* Mutant of Decoded: every body travels as text.
DecodedAsText(r) ==
  [r EXCEPT !.body = IF @ = "raw" THEN "mangled" ELSE @, !.base64 = FALSE]

\* What the payload of DoContext decodes to.  A body that is not text and is not sent as
\* base64 comes out of its JSON string with the replacement character in it; an empty
\* body is not in the payload, in either form, and the flag is read off the payload.
Decoded(r) ==
  [r EXCEPT !.body = IF @ = "raw" /\ ~r.base64 THEN "mangled" ELSE @,
            !.base64 = @ /\ r.body # "none"]

\* decodeLocalHTTPRequest refuses a blank URL.
BlankURL(r) == r.host = "" /\ r.path = << >>

\* decodeLocalHTTPRequest, and the start of applyLocalCredentialGrants: with any grant
\* at all, a URL without a host is denied.
ArriveHTTP ==
  /\ phase = "arriving" /\ request.kind = "http"
  /\ LET blank == BlankURL(request)
         hostless == request.host = "" /\ grants # << >>
     IN
     \/ /\ "http" \notin handlers
        /\ Finish(Error("not found")) /\ UNCHANGED <<seen, asOf, index>>
     \/ /\ "http" \in handlers /\ blank
        /\ Finish(Error("invalid")) /\ UNCHANGED <<seen, asOf, index>>
     \/ /\ "http" \in handlers /\ ~blank /\ hostless
        /\ Finish(Error("denied")) /\ UNCHANGED <<seen, asOf, index>>
     \/ /\ "http" \in handlers /\ ~blank /\ ~hostless
        /\ seen' = Decoded(request) /\ asOf' = now /\ index' = 1
        /\ phase' = "granting" /\ UNCHANGED outcome
  /\ UNCHANGED <<hostVars, now, request, answer, requests>>

\* Mutant of Denies: a covering grant that does not fit is passed over.
DeniesNothing(grant) == FALSE

Denies(grant) == Covers(grant, seen, asOf) /\ ~Authorizes(grant, seen)

Injects(grant) == Covers(grant, seen, asOf) /\ Authorizes(grant, seen)

\* One grant of the loop: the first that covers the request decides.
JudgeGrant ==
  /\ phase = "granting" /\ index <= Len(grants)
  /\ LET grant == grants[index] IN
     \/ /\ Denies(grant)
        /\ Finish(Error("denied")) /\ UNCHANGED <<seen, index>>
     \/ /\ Injects(grant)
        /\ seen' = [seen EXCEPT !.auth = Bearer(grant)] /\ phase' = "handling"
        /\ UNCHANGED <<index, outcome>>
     \/ /\ ~Denies(grant) /\ ~Injects(grant)
        /\ index' = index + 1 /\ UNCHANGED <<seen, phase, outcome>>
  /\ UNCHANGED <<hostVars, now, request, asOf, answer, requests>>

PassUncovered ==
  /\ phase = "granting" /\ index > Len(grants)
  /\ phase' = "handling"
  /\ UNCHANGED <<hostVars, now, request, seen, asOf, index, answer, outcome, requests>>

\* base64.StdEncoding.EncodedLen.
EncodedLen(n) == 4 * ((n + 2) \div 3)

\* The length of the response as it is copied into the plugin's buffer.
Encoded(a) ==
  IF seen.kind = "http" /\ seen.mode = "status_body" THEN StatusLine + a.length
  ELSE a.overhead + EncodedLen(a.length)

HTTPBuffer == IF httpLimit = 0 THEN MaxHTTPResponse ELSE httpLimit

\* The answers a handler may give: a response, or an error that is DeadlineExceeded or
\* another; late when the deadline of its context has passed by then.
Answers ==
  [kind: {"response"}, status: {"ok", "error"}, length: Lengths, overhead: {0} \cup Overheads,
   late: BOOLEAN]
  \cup [kind: {"failure"}, deadline: BOOLEAN, late: BOOLEAN]

\* Mutant of TimedOut: the handler's context is not looked at.
TimedOutByError(a) == a.kind = "failure" /\ a.deadline

TimedOut(a) == a.kind = "failure" /\ (a.deadline \/ a.late)

\* A handler's response as the plugin gets it: headers travel in an envelope only.
Response(a) ==
  [kind |-> "response", status |-> a.status, length |-> a.length, of |-> requests,
   headers |-> seen.kind = "grpc" \/ seen.mode # "status_body"]

\* Mutant of Fits: the response is copied as far as it goes.
FitsAlways(a, size) == TRUE

Fits(a, size) == Encoded(a) <= size

\* A context without a deadline is never late; a status line has no envelope around it.
HandleHTTP(a) ==
  /\ phase = "handling" /\ seen.kind = "http"
  /\ a.late => seen.timed
  /\ a.kind = "response" /\ seen.mode = "status_body" => a.overhead = 0
  /\ answer' = a
  /\ \/ /\ a.kind = "failure" /\ TimedOut(a) /\ Finish(Error("timeout"))
     \/ /\ a.kind = "failure" /\ ~TimedOut(a) /\ Finish(Error("internal"))
     \/ /\ a.kind = "response" /\ ~Fits(a, HTTPBuffer) /\ Finish(Error("too large"))
     \/ /\ a.kind = "response" /\ Fits(a, HTTPBuffer) /\ Finish(Response(a))
  /\ UNCHANGED <<hostVars, now, request, seen, asOf, index, requests>>

-----------------------------------------------------------------------------
(* grpcUnary. *)

\* Mutant of Accepted: of two spellings of a name, one overwrites the other.
AcceptedOverwriting(metadata) == \A m \in metadata : m.name \notin ForbiddenNames

\* normalizeLocalGRPCMetadata accepts the metadata.
Accepted(metadata) ==
  /\ \A m \in metadata : m.name \notin ForbiddenNames /\ (m.name \in BinaryNames => m.encoded)
  /\ \A m, n \in metadata : m.name = n.name => m = n

\* What it makes of it: the metadata by its lower-case name.
Normalized(metadata) ==
  [name \in {m.name : m \in metadata} |-> CHOOSE m \in metadata : m.name = name]

\* decodeLocalGRPCRequest: its second look at the shape finds nothing that the first
\* did not.
ArriveGRPC ==
  /\ phase = "arriving" /\ request.kind = "grpc"
  /\ LET accepted == /\ Accepted(request.metadata)
                     /\ request.timeout >= 0 /\ request.limit >= 0
     IN
     \/ /\ "grpc" \notin handlers
        /\ Finish(Error("not found")) /\ UNCHANGED seen
     \/ /\ "grpc" \in handlers /\ ~accepted
        /\ Finish(Error("invalid")) /\ UNCHANGED seen
     \/ /\ "grpc" \in handlers /\ accepted
        /\ seen' = [request EXCEPT !.metadata = Normalized(@)]
        /\ phase' = "handling" /\ UNCHANGED outcome
  /\ UNCHANGED <<hostVars, now, request, asOf, index, answer, requests>>

\* A limit that lowers another when it is set.
Lowered(limit, by) == IF by > 0 /\ by < limit THEN by ELSE limit

\* The host's limit on a message.
HostLimit(r) == Lowered(MaxGRPCResponse, r.limit)

ClientLimit(r) == Lowered(IF grpcLimit = 0 THEN MaxGRPCResponse ELSE grpcLimit, r.limit)

\* Mutant of GRPCBuffer: the buffer makes no room for base64.
GRPCBufferRaw(r) == ClientLimit(r) + GRPCOverhead

GRPCBuffer(r) == EncodedLen(ClientLimit(r)) + GRPCOverhead

\* A failing handler is an answer too: UNAVAILABLE, with no message.
Unavailable(a) == [kind |-> "response", status |-> "unavailable", length |-> 0, overhead |-> 0,
                   late |-> a.late]

HandleGRPC(a) ==
  /\ phase = "handling" /\ seen.kind = "grpc"
  /\ answer' = a
  /\ LET given == IF a.kind = "failure" THEN Unavailable(a) ELSE a
         fits == given.length <= HostLimit(seen) /\ Fits(given, GRPCBuffer(request))
     IN
     \/ TimedOut(a) /\ Finish(Error("timeout"))
     \/ ~TimedOut(a) /\ ~fits /\ Finish(Error("too large"))
     \/ ~TimedOut(a) /\ fits /\ Finish(Response(given))
  /\ UNCHANGED <<hostVars, now, request, seen, asOf, index, requests>>

Tick ==
  /\ now < MaxTime /\ now' = now + 1
  /\ UNCHANGED <<hostVars, callVars, requests>>

ExchangeNext ==
  \/ \E r \in HTTPRequests : HTTPDo(r)
  \/ \E r \in GRPCRequests : GRPCUnary(r)
  \/ ArriveHTTP
  \/ JudgeGrant
  \/ PassUncovered
  \/ \E a \in Answers : HandleHTTP(a)
  \/ ArriveGRPC
  \/ \E a \in Answers : HandleGRPC(a)
  \/ Tick

-----------------------------------------------------------------------------
\* The types of the variables (sdk/local_host.go:58-70, sdk/http.go:118-120,
\* sdk/grpc.go:163-167).
ExchangeTypeOK ==
  /\ handlers \subseteq {"http", "grpc"}
  /\ httpLimit \in Nat /\ grpcLimit \in Nat
  /\ now \in 1..MaxTime /\ asOf \in 1..now /\ index \in 1..(Len(grants) + 1)
  /\ phase \in {"idle", "arriving", "granting", "handling"}
  /\ request \in HTTPRequests \cup GRPCRequests \cup {None}
  /\ answer \in Answers \cup {None}
  /\ seen.kind \in {"none", request.kind}
  /\ outcome.kind \in {"none", "error", "response"}
  /\ requests \in 0..MaxRequests

\* The grants that cover the request the handler was given.
Covering == {i \in DOMAIN grants : Covers(grants[i], seen, asOf)}

Reached == seen.kind = "http" /\ (phase = "handling" \/ answer # None)

\* A request some live grant covers reaches the handler under the token of the first
\* such grant, and only if that grant's target, TLS policy and credential fields fit it;
\* one that no grant covers keeps the Authorization the plugin gave it
\* (sdk/local_credentials.go:31-35, README.md "A covered request the grant cannot
\* authorize is denied").
CoveredRequestsCarryTheirGrant ==
  Reached =>
    IF Covering = {} THEN seen.auth = request.auth
    ELSE LET first == CHOOSE i \in Covering : \A j \in Covering : i <= j IN
         /\ seen.auth = Bearer(grants[first])
         /\ Authorizes(grants[first], request)

\* A denial has a cause: there are grants, and the URL names no host or a grant that was
\* live when the request arrived covers it and does not fit it.  In particular an expired
\* grant, or one of another type, denies nothing.
DeniedForCause ==
  outcome = Error("denied") =>
    /\ request.kind = "http" /\ grants # << >> /\ answer = None
    /\ \/ request.host = ""
       \/ \E i \in DOMAIN grants :
            /\ Allows(grants[i].allow, request) /\ grants[i].type = "oauth2_client_credentials"
            /\ grants[i].expires = 0 \/ asOf < grants[i].expires
            /\ ~Authorizes(grants[i], request)

\* What a call returns as a response is the handler's answer to that request, whole, in a
\* buffer it fitted, with headers when the mode carries them (sdk/http.go:179-187,
\* sdk/local_host.go:196-204).
AnswersArriveWhole ==
  outcome.kind = "response" =>
    /\ outcome.of = requests
    /\ answer.kind = "response" =>
         /\ outcome.status = answer.status /\ outcome.length = answer.length
         /\ Encoded(answer) <= IF seen.kind = "http" THEN HTTPBuffer ELSE GRPCBuffer(request)
    /\ answer.kind = "failure" =>
         seen.kind = "grpc" /\ outcome.status = "unavailable" /\ ~answer.late
    /\ request.kind = "http" /\ outcome.headers => request.mode # "status_body"

\* A message within every limit that was set, the host's, the client's and the request's,
\* is never refused as too large while its envelope stays within the room left for it: the
\* buffer is sized for the message in base64 (sdk/grpc.go:201-210, sdk/local_grpc.go:65-85).
MessagesWithinLimitsFit ==
  /\ outcome = Error("too large") /\ request.kind = "grpc" /\ answer.kind = "response"
  /\ answer.overhead <= GRPCOverhead
  => answer.length > MaxGRPCResponse \/ answer.length > ClientLimit(request)

\* What the handler is given is what the plugin sent: all of the request but the
\* Authorization of a grant and the flag of an empty body, text and base64 bodies byte for
\* byte, and raw bytes sent without base64 never; for gRPC every metadata entry under its
\* own name, none of them one the transport owns (sdk/http.go:149-156,
\* sdk/local_host.go:222-250, sdk/local_grpc.go:135-157).
RequestsArriveWhole ==
  /\ seen.kind = "http" =>
       /\ [seen EXCEPT !.auth = request.auth, !.body = request.body, !.base64 = request.base64]
          = request
       /\ seen.body = request.body <=> request.body # "raw" \/ request.base64
       /\ seen.base64 # request.base64 => request.body = "none" /\ ~seen.base64
  /\ seen.kind = "grpc" =>
       \A m \in request.metadata : m.name \notin ForbiddenNames /\ seen.metadata[m.name] = m

\* What a failing call is told is what happened: it timed out exactly when the handler
\* failed, with a deadline error or when its deadline had passed; a response that comes
\* late is a response, only a failure is called internal and only a response too large
\* (sdk/local_host.go:186-203, sdk/local_grpc.go:53-85).
FailuresAreTold ==
  /\ outcome = Error("timeout") <=> answer.kind = "failure" /\ (answer.deadline \/ answer.late)
  /\ outcome = Error("internal") => answer.kind = "failure"
  /\ outcome = Error("too large") => answer.kind = "response"

\* An exchange loses nothing in either direction, refuses nothing that fits, and tells a
\* failure from a timeout (sdk/http.go:122-188, sdk/grpc.go:169-210).
ExchangesArriveWhole ==
  RequestsArriveWhole /\ AnswersArriveWhole /\ MessagesWithinLimitsFit /\ FailuresAreTold
=============================================================================
