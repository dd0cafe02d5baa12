------------------------------ MODULE ValueBuilders ------------------------------
(***************************************************************************)
(* The SDK's With... methods return a new value, and a Go value that holds *)
(* a map or a slice shares it with its copies.  A heap of cells, the       *)
(* values a plugin holds, and what each of them was given: telemetry       *)
(* records and events with a schema reference, advisories and feeds,       *)
(* OAuth2 specs, check descriptors, and a camera client's request headers. *)
(***************************************************************************)
EXTENDS Integers, Sequences, FiniteSets, SequencesExt, Maps

CONSTANTS
  Entries,      \* bound: what is added to a map, a function from keys to values
  MaxHeld,      \* bound: values held
  SpareCells,   \* bound: how far append may grow an array beyond what it needs
  AuthHeaders   \* bound: the AuthHeader of each camera client, "" for one without credentials

ASSUME BuildersAssumption ==
  /\ MaxHeld \in Nat /\ SpareCells \in Nat
  /\ \A entry \in Entries : DOMAIN entry # {}

Styles == {"merge", "replace", "append", "clone", "argument", "headers"}

VARIABLES
  style,   \* the kind of value the plugin builds
  cells,   \* maps, and arrays with the cells they have
  held     \* the values, each with its cell (0 for nil), its length if it is a slice, the
           \* value it was made from, and, as a ghost, what it was given

buildVars == <<style, cells, held>>

BuildInit == style = "" /\ cells = << >> /\ held = << >>

Held(cell, length, parent, meant) ==
  [cell |-> cell, length |-> length, parent |-> parent, meant |-> meant]

NoEntries == << >>

\* A value as its constructor returns it: nothing in it yet.  CheckDescriptor and camera
\* requests begin with a map of the caller's, cell 1.
New(kind) ==
  /\ style = ""
  /\ style' = kind
  /\ cells' = IF kind \in {"argument", "headers"} THEN <<NoEntries>> ELSE << >>
  /\ held' = IF kind = "headers" THEN << >> ELSE <<Held(0, 0, 0, NoEntries)>>

-----------------------------------------------------------------------------
\* What a value reads as.
Content(value) ==
  IF value.cell = 0 THEN NoEntries
  ELSE IF style = "append" THEN SubSeq(cells[value.cell], 1, value.length)
  ELSE cells[value.cell]

\* A value that shares the cell of the one it is made from, which is written in place; a
\* nil map is made first.
InPlace(from, content, meant) ==
  LET value == held[from]
      cell == IF value.cell = 0 THEN Len(cells) + 1 ELSE value.cell
  IN /\ cells' = IF value.cell = 0 THEN Append(cells, content) ELSE [cells EXCEPT ![cell] = content]
     /\ held' = Append(held, Held(cell, 0, from, meant))

\* A value with a cell of its own.
Apart(from, content, meant) ==
  /\ cells' = Append(cells, content)
  /\ held' = Append(held, Held(Len(cells) + 1, 0, from, meant))

\* TelemetryRecord.WithSignalSchemaRef and AttachSignalSchemaRef, and
\* AdvisoryFeedBatch.WithMetadata: a map that is there is written into, key by key.
Merge(from, entry) == 
  InPlace(from, Overlay(Content(held[from]), entry), Overlay(held[from].meant, entry))

\* AttachSignalSchemaRef of an event: the reference replaces the one before.
Replace(from, entry) == InPlace(from, entry, entry)

\* Mutant of Clone: the map is not cloned.
CloneNot(from, entry) == Merge(from, entry)

\* OAuth2ClientCredentialsInject.WithField and WithFixed: cloneStringMap, then the entry.
Clone(from, entry) == 
  Apart(from, Overlay(Content(held[from]), entry), Overlay(held[from].meant, entry))

\* CheckDescriptor.With... : a clone of the map the caller passes.
CloneArgument(from) == Apart(from, cells[1], cells[1])

\* The caller goes on writing its own map.
CallerWrites(entry) ==
  /\ cells' = [cells EXCEPT ![1] = Overlay(@, entry)] /\ UNCHANGED held

\* append finds a cell left over.
Spare(value) == value.cell # 0 /\ value.length < Len(cells[value.cell])

\* AdvisoryFeedBatch.WithAdvisory, AdvisoryRecord.WithCoordinate and WithReference: append
\* writes behind the slice if its array has cells left, and else copies it.
AppendTo(from, entry) ==
  LET value == held[from]
      meant == Append(value.meant, entry)
  IN \/ /\ Spare(value)
        /\ cells' = [cells EXCEPT ![value.cell][value.length + 1] = entry]
        /\ held' = Append(held, Held(value.cell, value.length + 1, from, meant))
     \/ /\ ~Spare(value)
        /\ \E spare \in 0..SpareCells :
             cells' = Append(cells, Append(Content(value), entry) \o [i \in 1..spare |-> NoEntries])
        /\ held' = Append(held, Held(Len(cells) + 1, value.length + 1, from, meant))

\* CameraHTTPClient.DoContext: the client's header goes into the request's map unless there
\* is one.  The map is one the caller uses for all its requests, or the request's own.
DoContext(auth, own) ==
  LET there == IF own THEN NoEntries ELSE cells[1]
      filled == IF auth # "" /\ "Authorization" \notin DOMAIN there
                THEN Overlay(there, Entry("Authorization", auth)) ELSE there
      meant == IF auth = "" THEN NoEntries ELSE Entry("Authorization", auth)
  IN /\ cells' = IF own THEN Append(cells, filled) ELSE [cells EXCEPT ![1] = filled]
     /\ held' = Append(held, Held(IF own THEN Len(cells) + 1 ELSE 1, 0, 0, meant))

Extend(from, entry) ==
  \/ style = "merge" /\ Merge(from, entry)
  \/ style = "replace" /\ Replace(from, entry)
  \/ style = "clone" /\ Clone(from, entry)
  \/ style = "append" /\ AppendTo(from, entry)
  \/ style = "argument" /\ CloneArgument(from)

BuildNext ==
  \/ \E kind \in Styles : New(kind)
  \/ /\ Len(held) < MaxHeld
     /\ \/ \E from \in DOMAIN held, entry \in Entries : Extend(from, entry)
        \/ \E auth \in AuthHeaders, own \in BOOLEAN : style = "headers" /\ DoContext(auth, own)
     /\ UNCHANGED style
  \/ /\ style = "argument" /\ \E entry \in Entries : CallerWrites(entry)
     /\ UNCHANGED style

-----------------------------------------------------------------------------
BuildTypeOK ==
  /\ style \in Styles \cup {""}
  /\ \A v \in DOMAIN held : /\ held[v].cell \in 0..Len(cells) /\ held[v].parent \in 0..(v - 1)
                          /\ held[v].length \in Nat

Children(v) == {w \in DOMAIN held : held[w].parent = v}

Ancestors ==
  LET above[v \in DOMAIN held] ==
        IF held[v].parent = 0 THEN {} ELSE {held[v].parent} \cup above[held[v].parent]
  IN above

\* No value that v comes from was used for anything else, unless it held nothing yet.
Linear(v) ==
  \A a \in Ancestors[v] : held[a].cell = 0 \/ Cardinality(Children(a)) = 1

Intact(v) == Content(held[v]) = held[v].meant

\* What has been given to a value stays in it, and nothing else gets in.  OAuth2 specs and
\* check descriptors promise that whatever else is made of them or of the caller's map.
\* Slices of advisories, coordinates and references do as long as no value on the way was
\* appended to twice; telemetry records, events and feed metadata only for the last value
\* of such a chain.  A camera request carries its own client's credentials as long as its
\* header map is not used with another client
\* (sdk/credential_grant.go:126-137, 289-295, sdk/check_descriptor.go:46-111,
\* sdk/advisory.go:106-124, 174-184, sdk/telemetry.go:81-106, sdk/signal_schema.go:38-66,
\* sdk/camera_http.go:64-71).
ValuesKeepWhatTheyWereGiven ==
  \A v \in DOMAIN held :
    /\ style \in {"clone", "argument"} => Intact(v)
    /\ style = "append" /\ Linear(v) => Intact(v)
    /\ style \in {"merge", "replace"} /\ Linear(v) /\ Children(v) = {} => Intact(v)
    /\ /\ style = "headers"
       /\ \A w \in DOMAIN held : held[w].cell = held[v].cell => held[w].meant = held[v].meant
       => Intact(v)

\* sdk/telemetry.go:102: WithSignalSchemaRef returns a copy of the record with signal schema
\* metadata attached.  The record it is called on does not change.
RecordsAreCopied == style = "merge" => \A v \in DOMAIN held : Intact(v)

BuildSpec == BuildInit /\ [][BuildNext]_buildVars
=============================================================================
