------------------------------ MODULE MCPluginRun ------------------------------
(***************************************************************************)
(* PluginRun for TLC: a few ways to give inputs, a few sets of grants, and *)
(* requests at the edges of what a grant covers.  A path is a sequence of  *)
(* its slashes and names.                                                  *)
(***************************************************************************)
EXTENDS PluginRun

MCObjects == {"{option}", "{file}", "{process}", "{env}", "{action}", "{targets}", "{builds}", "{metrics}"}

MCTaskOf ==
  [object \in MCObjects |->
     IF object = "{targets}" THEN "targets" ELSE IF object = "{builds}" THEN "builds"
     ELSE IF object = "{metrics}" THEN "metrics" ELSE "requests"]

\* Targets, values and metrics are tried without grants.
MCTried(inputsGiven, list) ==
  inputsGiven.options.configJSON \in {"{targets}", "{builds}", "{metrics}"} => list = << >>

MCFieldOf == ("ID" :> "client_id") @@ ("id" :> "client_id")
             @@ ("SECRET" :> "client_secret") @@ ("NAMELESS" :> "")

\* [] is JSON, and no object.
Files == ("" :> "") @@ ("file" :> "{file}") @@ ("empty" :> "") @@ ("list" :> "[]")
         @@ ("gone" :> Missing) @@ ("action" :> "{action}")

EnvFile3(kind, assigned) == [kind |-> kind, assigned |-> assigned]

EnvFiles(dotenv) ==
  (".env" :> dotenv) @@ ("my.env" :> EnvFile3("readable", "SECRET" :> "s"))
  @@ ("no.env" :> EnvFile3("missing", NoAssignments))

Scenario(length, configJSON, configFile, actionFile, envFile, process, dotenv) ==
  [options |-> [configJSON |-> configJSON, configFile |-> configFile, actionJSON |-> "",
                actionFile |-> actionFile, envFile |-> envFile],
   process |-> process, envFiles |-> EnvFiles(dotenv), files |-> Files,
   runtimeLength |-> length]

Secret == "SECRET" :> "s"
Pair == ("ID" :> "a") @@ Secret
Filled == Pair @@ (ConfigJSON :> "{env}") @@ ("NAMELESS" :> "x")
Readable(assigned) == EnvFile3("readable", assigned)
Absent == EnvFile3("missing", NoAssignments)

MCScenarios ==
  { Scenario(2, "{option}", "file", "", "", Pair @@ (ConfigJSON :> "{process}"), Absent),
    Scenario(8, "", "file", "action", "", ConfigJSON :> "{process}", Readable(Filled)),
    Scenario(5, "", "empty", "", "", ConfigJSON :> "{process}", Readable(Filled)),
    Scenario(5, "", "", "empty", "", (ConfigJSON :> "{process}") @@ ("ID" :> ""), Readable(Filled)),
    Scenario(8, "", "", "", "", ConfigFile :> "file", Readable(Pair @@ (ActionFile :> "action"))),
    Scenario(2, "", "gone", "", "", Secret, Readable(Filled)),
    Scenario(2, "", "", "list", "my.env", ConfigJSON :> "{process}", Readable(Filled)),
    Scenario(5, "", "", "", "", (ConfigJSON :> "{process}") @@ (EnvFileKey :> "my.env"), Readable(Filled)),
    Scenario(5, "", "", "", "", (ConfigJSON :> "{process}") @@ (EnvFileKey :> "no.env"), Readable(Filled)),
    Scenario(2, "{option}", "", "", "", NoAssignments, EnvFile3("malformed", NoAssignments)),
    Scenario(5, "{option}", "", "", "", Pair, Readable("id" :> "b")),
    Scenario(2, "{targets}", "", "", "", NoAssignments, Absent),
    Scenario(2, "{builds}", "", "", "", NoAssignments, Absent),
    Scenario(2, "{metrics}", "", "", "", NoAssignments, Absent),
    Scenario(9, "{option}", "", "action", "", NoAssignments, Absent) }

-----------------------------------------------------------------------------
Token(port) == [method |-> "POST", host |-> "bare", port |-> port, path |-> "absolute"]

OAuthSpec(methods, paths, insecure, port) ==
  [methods |-> methods, hosts |-> {}, paths |-> paths, allowInsecure |-> insecure,
   token |-> Token(port),
   fields |-> ("client_id" :> "client_id") @@ ("client_secret" :> "client_secret"),
   fixed |-> "grant_type" :> "client_credentials"]

Allow(schemes, methods, paths, hosts, ports) ==
  [schemes |-> schemes, methods |-> methods, paths |-> paths, hosts |-> hosts, ports |-> ports]

Grant(id, type, expires, allow, spec) ==
  [id |-> id, type |-> type, expires |-> expires, allow |-> allow, spec |-> spec]

OAuth == "oauth2_client_credentials"
API == <<"/", "api", "/">>
Under == <<"/", "api", "/", "v1">>
Cam == {<<"cam", 0>>}
APIOnly == Allow({"https"}, {}, {[kind |-> "plain", path |-> API]}, Cam, {443})
Anything == Allow({}, {}, {}, Cam \cup {<<"dev", 8443>>}, {})
Starred == Allow({}, {"GET"}, {[kind |-> "star", path |-> <<"/", "api">>], [kind |-> "blank", path |-> << >>]},
                 Cam, {})
Plain == OAuthSpec({}, {}, FALSE, 443)

MCGrantLists ==
  { << >>,
    << Grant("g1", OAuth, 2, APIOnly, OAuthSpec({"GET"}, {}, FALSE, 443)),
       Grant("g2", OAuth, 0, Anything, OAuthSpec({}, {}, TRUE, 443)) >>,
    << Grant("g3", "basic", 0, Anything, Plain),
       Grant("g4", OAuth, 0, Starred, OAuthSpec({}, {Under}, TRUE, 443)) >>,
    << Grant("g5", OAuth, 0, [Anything EXCEPT !.hosts = {}], Plain),
       Grant("g6", OAuth, 2, Anything, OAuthSpec({}, {}, FALSE, 0)) >> }

Host(list, which, http, grpc) ==
  [grants |-> list, handlers |-> which, httpLimit |-> http, grpcLimit |-> grpc]

MCHosts ==
  {Host(list, {"http"}, 0, 0) : list \in MCGrantLists}
  \cup {Host(<< >>, {"http", "grpc"}, 4, grpc) : grpc \in {0, 3, 9}}

HTTP(method, scheme, host, port, path, insecure, auth, body, base64, mode, timed) ==
  [kind |-> "http", method |-> method, scheme |-> scheme, host |-> host, port |-> port,
   path |-> path, insecure |-> insecure, auth |-> auth, body |-> body, base64 |-> base64,
   mode |-> mode, timed |-> timed]

MCHTTPRequests ==
  { HTTP("GET", "https", "cam", 0, Under, FALSE, << >>, "text", TRUE, "status_body", TRUE),
    HTTP("POST", "https", "cam", 443, API, FALSE, <<"Basic", "p">>, "text", FALSE, "envelope", FALSE),
    HTTP("GET", "https", "cam", 0, <<"/">>, TRUE, <<"Basic", "p">>, "none", TRUE, "envelope", TRUE),
    HTTP("GET", "http", "dev", 8443, Under, FALSE, << >>, "raw", TRUE, "status_body", FALSE),
    HTTP("POST", "https", "other", 0, API, TRUE, <<"Basic", "p">>, "raw", FALSE, "status_body", FALSE),
    HTTP("GET", "", "", 0, <<"/", "api">>, FALSE, << >>, "none", FALSE, "status_body", FALSE),
    HTTP("GET", "", "", 0, << >>, FALSE, << >>, "none", FALSE, "status_body", FALSE) }

Meta(name, spelling) == [name |-> name, spelling |-> spelling, encoded |-> spelling # "raw"]

GRPC(host, transport, metadata, timeout, limit) ==
  [kind |-> "grpc", host |-> host, port |-> 9200, method |-> "/service/method",
   transport |-> transport, metadata |-> metadata, timeout |-> timeout, limit |-> limit]

MCGRPCRequests ==
  { GRPC("dev", "", {Meta("x-id", "x-id"), Meta("x-bin", "X-Bin")}, 0, 0),
    GRPC("dev", "tls", {Meta("x-id", "x-id"), Meta("x-id", "X-ID")}, 5, 0),
    GRPC("dev", "h2c", {}, 5, 4),
    GRPC("dev", "h2c", {}, 5, -1),
    GRPC("dev", "tls", {Meta("x-bin", "raw")}, 0, 9),
    GRPC("dev", "tls", {Meta("grpc-timeout", "grpc-timeout")}, 0, 9),
    GRPC("dev", "tls", {}, 0, 9),
    GRPC("", "tls", {}, 0, 0) }

-----------------------------------------------------------------------------
Item(typed, instance, uid, service, device) ==
  [typed |-> typed, instance |-> instance, descriptor |-> "http-check", uid |-> uid,
   service |-> service, device |-> device]

Web == Item(TRUE, "web", "u:web", "svc", "d1")
Bare == Item(TRUE, "bare", "", "", "")
Torn == Item(FALSE, "torn", "u:torn", "svc", "d1")
Blank2 == Item(TRUE, " ", "u:blank", "", "")

Input(name, entity, items) ==
  [name |-> name, entity |-> entity, query |-> "q", hash |-> "h", chunk |-> 0, chunks |-> 1,
   items |-> items]

Payload(schema, list) ==
  [schema |-> schema, policy |-> "p", agent |-> "a", generated |-> "t", version |-> 1, inputs |-> list]

Good == Payload("inputs.v1 ", <<Input("host", "device", <<Web>>), Input("extra", "service ", <<Bare>>)>>)

MCPayloads ==
  { Good, Payload("inputs.v1", <<Input("host ", "service", <<Web, Torn>>), Input("n", "e", <<Blank2>>)>>),
    Payload("inputs.v2", <<Input("host", "device", <<Web>>)>>),
    Payload("inputs.v1", << >>), Payload("inputs.v1", <<Input("host", "device", << >>)>>),
    [Good EXCEPT !.policy = " "], [Good EXCEPT !.version = 0], [Good EXCEPT !.inputs[2].chunk = -1],
    [Good EXCEPT !.inputs[1].chunks = 0], [Good EXCEPT !.inputs[2].entity = " "] }

MCFolded(name) == IF name = " " THEN "" ELSE IF name \in {"Host", "host "} THEN "host"
                  ELSE IF name = "service " THEN "service" ELSE IF name = "inputs.v1 " THEN "inputs.v1"
                  ELSE name

MCValues == {[nan |-> FALSE, at |-> 1], [nan |-> FALSE, at |-> 3], [nan |-> TRUE, at |-> 9]}
MCLimits == {<<0, 0>>, <<1, 3>>, <<2, -1>>}

MCEntries == {"schema" :> "a", ("schema" :> "b") @@ ("display" :> "d")}

-----------------------------------------------------------------------------
\* Texts of one byte and of 127 and 128, numbers at the edges of a group and of a word,
\* and elements in which nothing is set.
LongText(length) == [i \in 1..length |-> 120]
Map(key, value) == [key |-> key, value |-> value]
Bits(low, high) == <<low, 0, 0, 0, 0, 0, 0, high>>

Reading ==
  [NoPoint EXCEPT !.value = Bits(9, 192), !.texts[2] = <<49>>, !.texts[9] = LongText(127),
                  !.observedAt = 2^28 - 1, !.startTime = 128, !.rawValueType = 1, !.ifIndex = 127,
                  !.attributes = <<Map(<<97>>, << >>), NoEntry, Map(<< >>, <<98>>)>>]

Signless == [NoPoint EXCEPT !.value = Bits(0, 128), !.ifIndex = -1, !.metadata = <<NoEntry>>]

Counter ==
  [NoMetric EXCEPT !.texts[1] = <<99>>, !.metricKind = 2, !.temporality = 2, !.isMonotonic = TRUE,
                   !.points = <<Reading, NoPoint, Signless>>]

Gauge ==
  [NoMetric EXCEPT !.metricKind = -8192, !.scale = Bits(1, 0), !.counterWidth = 64,
                   !.tags = <<Map(LongText(128), <<1>>)>>, !.thresholds = <<NoEntry, Map(<<1>>, <<2>>)>>]

EmptyBatch ==
  [texts |-> NoTexts({1, 4}), resource |-> [texts |-> NoTexts(1..10), attributes |-> << >>],
   identity |-> [texts |-> NoTexts(1..5), attributes |-> << >>],
   ingressAt |-> 0, emittedAt |-> 0, metrics |-> << >>]

MCBatches ==
  { EmptyBatch, [EmptyBatch EXCEPT !.metrics = <<NoMetric, Gauge>>, !.emittedAt = 300],
    [EmptyBatch EXCEPT !.texts[1] = <<118>>, !.texts[4] = <<1, 2>>, !.identity.texts[2] = <<8>>,
                       !.resource.texts[1] = <<1>>, !.resource.texts[10] = <<5>>,
                       !.resource.attributes = <<Map(<<1>>, <<2>>), NoEntry>>,
                       !.ingressAt = 1, !.metrics = <<Counter, Gauge, Counter>>] }

MCSchemaName == <<115, 114>>

MCConfigSizes == <<2, 4, 6, 8>>
=============================================================================
