------------------------------ MODULE TargetChecks ------------------------------
(***************************************************************************)
(* What a plugin makes of its inputs: the payload the host resolved is     *)
(* validated and flattened, its items are decoded as targets               *)
(* (sdk/plugin_inputs.go), and a result is built for one target after      *)
(* another and judged by thresholds (sdk/result.go).  Names are compared   *)
(* folded and trimmed by the constant Folded; a threshold that may be nil  *)
(* is a set of at most one.                                                *)
(***************************************************************************)
EXTENDS Integers, Sequences, SequencesExt, Maps

CONSTANTS
  Payloads,        \* bound: the plugin inputs a host may deliver
  InputsSchemaV1,  \* PluginInputsSchemaV1
  Folded(_),       \* strings.ToLower and strings.TrimSpace
  Values,          \* bound: what is measured; a value that is not a number compares with none
  Limits,          \* bound: warning and critical limit, the arguments of Thresholds
  MaxReadings      \* bound: readings of a result

ASSUME ReadingsAssumption ==
  /\ MaxReadings \in Nat
  /\ \A value \in Values : value.nan \in BOOLEAN /\ value.at \in Int
  /\ Limits \subseteq Int \X Int

PayloadItem == [typed: BOOLEAN, instance: STRING, descriptor: STRING, uid: STRING, service: STRING,
                device: STRING]
PayloadInput == [name: STRING, entity: STRING, query: STRING, hash: STRING, chunk: Int, chunks: Int,
                 items: Seq(PayloadItem)]

\* PluginInputsPayload, of which a target keeps what it is about.
ASSUME PayloadsAssumption ==
  /\ Payloads \subseteq [schema: STRING, policy: STRING, agent: STRING, generated: STRING,
                         version: Int, inputs: Seq(PayloadInput)]
  /\ Folded("") = ""

Unbuilt == [kind |-> "unbuilt"]

VARIABLES
  inputs,      \* the payload the plugin parsed
  targets,     \* the target contexts it got out of it
  checking,    \* the target it has come to
  built,       \* the result it is building
  readings     \* ghost: the status the result was given, and the readings it was judged by since

checkVars == <<inputs, targets, checking, built, readings>>

ChecksInit ==
  /\ inputs = Unbuilt /\ targets = << >> /\ checking = 0
  /\ built = Unbuilt /\ readings = [given |-> "", taken |-> << >>]

-----------------------------------------------------------------------------
(* The inputs. *)

\* PluginInputsPayload.Validate.
Valid(payload) ==
  /\ Folded(payload.schema) = InputsSchemaV1
  /\ \A name \in {payload.policy, payload.agent, payload.generated} : Folded(name) # ""
  /\ payload.version >= 1
  /\ payload.inputs # << >>
  /\ \A input \in Range(payload.inputs) :
       /\ \A name \in {input.name, input.entity, input.query, input.hash} : Folded(name) # ""
       /\ input.chunk >= 0 /\ input.chunks >= 1
       /\ input.items # << >>

\* FlattenItems: payload order.
FlattenItems(payload) ==
  FlattenSeq([i \in DOMAIN payload.inputs |->
                [k \in DOMAIN payload.inputs[i].items |->
                   [name |-> payload.inputs[i].name, entity |-> payload.inputs[i].entity,
                    item |-> payload.inputs[i].items[k]]]])

\* An item decodes as a target unless a field has the wrong type or an id is blank.
Decodes(item) == item.typed /\ Folded(item.instance) # "" /\ Folded(item.descriptor) # ""

\* The target's map may be missing; what it does not say reads as the empty string.
Context(item) ==
  [instance |-> item.instance, descriptor |-> item.descriptor, uid |-> item.uid,
   service |-> item.service, device |-> item.device]

Contexts(items) == [i \in DOMAIN items |-> Context(items[i].item)]

\* TargetContexts: one item that does not decode, and there are none.
TargetContexts(payload) ==
  LET items == FlattenItems(payload) IN
  IF \A i \in DOMAIN items : Decodes(items[i].item) THEN Contexts(items) ELSE << >>

\* The elements at the chosen places, in their order.
Kept(items, chosen) ==
  LET kept[n \in 0..Len(items)] ==
        IF n = 0 THEN << >>
        ELSE IF n \in chosen THEN Append(kept[n - 1], items[n]) ELSE kept[n - 1]
  IN kept[Len(items)]

\* ItemsByEntity, ItemsByName: the items of one kind; a blank name has none.
ItemsBy(payload, kind, name) ==
  LET items == FlattenItems(payload)
      KindOf(item) == IF kind = "entity" THEN item.entity ELSE item.name
  IN Kept(items, {i \in DOMAIN items : Folded(name) # "" /\ Folded(KindOf(items[i])) = Folded(name)})

\* Those of them that decode.
Decoding(items) == Kept(items, {i \in DOMAIN items : Decodes(items[i].item)})

\* The plugin takes all the targets of its inputs, or the items of one kind that decode.
TakeInputs(payload) ==
  /\ inputs = Unbuilt
  /\ inputs' = payload
  /\ \/ ~Valid(payload) /\ targets' = << >>
     \/ Valid(payload) /\ targets' = TargetContexts(payload)
     \/ /\ Valid(payload)
        /\ \E kind \in {"entity", "name"}, name \in {"", "Host", "service"} :
             targets' = Contexts(Decoding(ItemsBy(payload, kind, name)))
  /\ UNCHANGED <<checking, built, readings>>

-----------------------------------------------------------------------------
(* The result. *)

Fresh == [kind |-> "result", status |-> "UNKNOWN", summary |-> "", instance |-> "",
          service |-> "", device |-> "", labels |-> << >>]

\* The labels with the target's ids written into them.
Labelled(labels, target) ==
  LET ids == Overlay(Overlay(labels, Entry("check_instance_id", target.instance)),
                     Entry("descriptor_id", target.descriptor))
  IN IF target.uid = "" THEN ids ELSE Overlay(ids, Entry("target_uid", target.uid))

\* Mutant of ForTarget: a device UID the target does not give is left as it was.
ForTargetKept(result, target) ==
  [result EXCEPT !.instance = target.instance, !.service = target.service,
                 !.device = IF target.device = "" THEN @ ELSE target.device,
                 !.labels = Labelled(@, target)]

ForTarget(result, target) ==
  [result EXCEPT !.instance = target.instance, !.service = target.service,
                 !.device = target.device,
                 !.labels = Labelled(@, target)]

\* The next target gets a result of its own (TargetResult), or the one there is, which the
\* plugin gives another status and summary or leaves as it was.
CheckTarget(status, summary) ==
  /\ checking < Len(targets) /\ checking' = checking + 1
  /\ \/ \E result \in {Fresh, built} \ {Unbuilt} :
          /\ built' = ForTarget([result EXCEPT !.status = status, !.summary = summary],
                               targets[checking'])
          /\ readings' = [given |-> status, taken |-> << >>]
     \/ /\ built # Unbuilt
        /\ built' = ForTarget(built, targets[checking']) /\ UNCHANGED readings
  /\ UNCHANGED <<inputs, targets>>

\* Thresholds: a limit of zero or less is none.
Threshold(limit) == IF limit > 0 THEN {limit} ELSE {}

Reaches(value, threshold) == ~value.nan /\ \E limit \in threshold : value.at >= limit

\* Mutant of Judged: the warning threshold decides first.
JudgedWarnFirst(status, value, warn, crit) ==
  IF Reaches(value, warn) THEN "WARNING"
  ELSE IF Reaches(value, crit) THEN "CRITICAL"
  ELSE IF status \in {"", "UNKNOWN"} THEN "OK" ELSE status

\* ApplyThresholds.
Judged(status, value, warn, crit) ==
  IF Reaches(value, crit) THEN "CRITICAL"
  ELSE IF Reaches(value, warn) THEN "WARNING"
  ELSE IF status \in {"", "UNKNOWN"} THEN "OK" ELSE status

ApplyThresholds(value, limits) ==
  /\ built # Unbuilt /\ Len(readings.taken) < MaxReadings
  /\ built' = [built EXCEPT !.status = Judged(@, value, Threshold(limits[1]), Threshold(limits[2]))]
  /\ readings' = [readings EXCEPT !.taken = Append(@, [value |-> value, warn |-> limits[1], crit |-> limits[2]])]
  /\ UNCHANGED <<inputs, targets, checking>>

ChecksNext ==
  \/ \E payload \in Payloads : TakeInputs(payload)
  \/ \E status \in {"", "CRITICAL"} : CheckTarget(status, "given")
  \/ \E value \in Values, limits \in Limits : ApplyThresholds(value, limits)

-----------------------------------------------------------------------------
ChecksTypeOK ==
  /\ targets \in Seq([instance: STRING, descriptor: STRING, uid: STRING, service: STRING,
                      device: STRING])
  /\ checking \in 0..Len(targets)
  /\ built # Unbuilt => built.status \in {"", "UNKNOWN", "OK", "WARNING", "CRITICAL"}

\* The target_uid label of a result, if it has one, is the UID of the last target that the
\* plugin came to and that gave one: not of the target itself when that gives none.
LabelIsLastUID ==
  "target_uid" \in DOMAIN built.labels =>
    \E k \in 1..checking :
      /\ targets[k].uid = built.labels["target_uid"]
      /\ \A j \in (k + 1)..checking : targets[j].uid = ""

\* A result speaks of one target: its ids and its labels all come from the same item of a
\* valid payload, also when the plugin uses one result for several targets.  The exception
\* is the code's own and goes no further: a target without a UID leaves the target_uid
\* label that the last target with one put there (sdk/plugin_inputs.go:114-152,
\* sdk/result.go:164-166, 199-217).
ResultSpeaksOfOneTarget ==
  built # Unbuilt =>
    /\ Valid(inputs)
    /\ \E item \in Range(FlattenItems(inputs)) :
         LET target == item.item IN
         /\ built.instance = target.instance /\ target.instance # ""
         /\ built.service = target.service /\ built.device = target.device
         /\ built.labels["check_instance_id"] = target.instance
         /\ built.labels["descriptor_id"] = target.descriptor
         /\ target.uid # "" => built.labels["target_uid"] = target.uid
    /\ LabelIsLastUID

\* What the readings of a result come to: the last one at or above a limit decides, and
\* its critical limit before its warning limit; with none of them the status is what it
\* was given, and OK if that said nothing and there was a reading.
StatusOf(history) ==
  LET Over(k, limit) == ~history.taken[k].value.nan /\ limit > 0 /\ history.taken[k].value.at >= limit
      critical == {k \in DOMAIN history.taken : Over(k, history.taken[k].crit)}
      breaches == critical \cup {k \in DOMAIN history.taken : Over(k, history.taken[k].warn)}
  IN IF breaches # {} THEN IF Max(breaches) \in critical THEN "CRITICAL" ELSE "WARNING"
     ELSE IF history.taken # << >> /\ history.given \in {"", "UNKNOWN"} THEN "OK"
     ELSE history.given
=============================================================================
