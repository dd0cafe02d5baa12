----------------------------- MODULE MetricEnvelope -----------------------------
(***************************************************************************)
(* The protobuf encoder of sdk/metric_envelope.go: a metric batch becomes  *)
(* bytes, field by field, and a reader of the protobuf wire format gets    *)
(* the batch back.  Tags, lengths and groups of seven bits are the code's; *)
(* there are WordSize uint64 and Int32Size int32, which may be 2^64 and     *)
(* 2^32, or fewer to fit the numbers TLC has.  A text is a sequence of     *)
(* bytes, a double the sequence of its eight.                              *)
(***************************************************************************)
EXTENDS Integers, Sequences, SequencesExt

CONSTANTS
  Batches,      \* bound: the batches the plugin emits
  WordSize,     \* how many numbers a uint64 can be
  Int32Size,    \* how many an int32 or a uint32 can be
  SchemaName    \* MetricEnvelopeSchemaVersion

-----------------------------------------------------------------------------
(* What a plugin fills in.  The texts of a struct go by their field numbers. *)

Byte == 0..255
Text == Seq(Byte)
Texts(numbers) == [numbers -> Text]
Double == [1..8 -> Byte]
Word == 0..(WordSize - 1)
Int32 == -(Int32Size \div 2)..(Int32Size \div 2 - 1)

MetricStringMapEntry == [key: Text, value: Text]
MetricResource == [texts: Texts(1..10), attributes: Seq(MetricStringMapEntry)]
MetricIngestIdentity == [texts: Texts(1..5), attributes: Seq(MetricStringMapEntry)]
MetricPoint ==
  [value: Double, texts: Texts({2, 6, 8, 9}), rawValueType: Int32, observedAt: Word, startTime: Word,
   ifIndex: Int32, attributes: Seq(MetricStringMapEntry), metadata: Seq(MetricStringMapEntry)]
Metric ==
  [texts: Texts({1, 2, 6}), metricKind: Int32, temporality: Int32, isMonotonic: BOOLEAN,
   scale: Double, counterWidth: 0..(Int32Size - 1), points: Seq(MetricPoint),
   tags: Seq(MetricStringMapEntry), metadata: Seq(MetricStringMapEntry),
   thresholds: Seq(MetricStringMapEntry)]
MetricBatch ==
  [texts: Texts({1, 4}), resource: MetricResource, identity: MetricIngestIdentity,
   ingressAt: Word, emittedAt: Word, metrics: Seq(Metric)]

ASSUME EnvelopeAssumption ==
  /\ Int32Size \in Nat \ {0} /\ Int32Size % 2 = 0
  /\ WordSize \in Nat \ {0} /\ WordSize % Int32Size = 0
  /\ SchemaName \in Text /\ SchemaName # << >>
  /\ Batches \subseteq MetricBatch

VARIABLE emitted   \* the batch the plugin handed over, and the bytes in the host's hands

Unsent == [kind |-> "unsent"]

-----------------------------------------------------------------------------
(* The encoder. *)

\* binary.AppendUvarint: groups of seven bits, the lowest first, all but the last marked.
Uvarint(n) ==
  LET bytes[k \in Nat] == IF k < 128 THEN <<k>> ELSE <<128 + (k % 128)>> \o bytes[k \div 128]
  IN bytes[n]

Tag(number, wire) == Uvarint(number * 8 + wire)

\* A string, a map entry or a message of no length is left out.
appendBytes(number, bytes) ==
  IF bytes = << >> THEN << >> ELSE Tag(number, 2) \o Uvarint(Len(bytes)) \o bytes

appendUint(number, n) == IF n = 0 THEN << >> ELSE Tag(number, 0) \o Uvarint(n)

\* Mutant of appendInt32: the encoding of an sint32.
appendInt32Zigzag(number, n) == appendUint(number, IF n >= 0 THEN 2 * n ELSE -2 * n - 1)

\* uint64(value) extends the sign.
appendInt32(number, n) == appendUint(number, n % WordSize)

appendBool(number, b) == appendUint(number, IF b THEN 1 ELSE 0)

Zeros == [i \in 1..8 |-> 0]
NegativeZero == [Zeros EXCEPT ![8] = 128]

\* A zero is left out; the sign of a negative zero goes with it.
appendDouble(number, double) ==
  IF double \in {Zeros, NegativeZero} THEN << >> ELSE Tag(number, 1) \o double

appendText(number, texts) == appendBytes(number, texts[number])

\* What comes of each element of a list, one after the other.
Joined(each(_), list) == FlattenSeq([i \in 1..Len(list) |-> each(list[i])])

stringMapEntryProto(entry) == appendBytes(1, entry.key) \o appendBytes(2, entry.value)

appendEntries(number, entries) ==
  Joined(LAMBDA entry : appendBytes(number, stringMapEntryProto(entry)), entries)

metricResourceProto(resource) ==
  FlattenSeq([number \in 1..10 |-> appendText(number, resource.texts)])
  \o appendEntries(20, resource.attributes)

metricIngestIdentityProto(identity) ==
  FlattenSeq([number \in 1..5 |-> appendText(number, identity.texts)])
  \o appendEntries(20, identity.attributes)

metricPointProto(point) ==
  FlattenSeq(
    <<appendDouble(1, point.value),
      appendText(2, point.texts),
      appendInt32(3, point.rawValueType),
      appendUint(4, point.observedAt),
      appendUint(5, point.startTime),
      appendText(6, point.texts),
      appendInt32(7, point.ifIndex),
      appendText(8, point.texts),
      appendText(9, point.texts),
      appendEntries(20, point.attributes),
      appendEntries(21, point.metadata)>>)

metricProto(metric) ==
  FlattenSeq(
    <<appendText(1, metric.texts),
      appendText(2, metric.texts),
      appendInt32(3, metric.metricKind),
      appendInt32(4, metric.temporality),
      appendBool(5, metric.isMonotonic),
      appendText(6, metric.texts),
      appendDouble(7, metric.scale),
      appendUint(8, metric.counterWidth),
      Joined(LAMBDA point : appendBytes(20, metricPointProto(point)), metric.points),
      appendEntries(30, metric.tags),
      appendEntries(31, metric.metadata),
      appendEntries(32, metric.thresholds)>>)

\* A schema version and a payload kind that are not given.
Named(batch) ==
  LET Given(text) == IF text = << >> THEN SchemaName ELSE text
  IN [batch EXCEPT !.texts[1] = Given(@), !.identity.texts[2] = Given(@)]

metricBatchProto(from) ==
  LET batch == Named(from) IN
  FlattenSeq(
    <<appendText(1, batch.texts),
      appendBytes(2, metricResourceProto(batch.resource)),
      appendBytes(3, metricIngestIdentityProto(batch.identity)),
      appendText(4, batch.texts),
      appendUint(5, batch.ingressAt),
      appendUint(6, batch.emittedAt),
      Joined(LAMBDA metric : appendBytes(20, metricProto(metric)), batch.metrics)>>)

\* NewServiceRadarMetricTelemetryRecordFromBatch and EmitTelemetry: a batch without a time
\* gets one.
EmitMetrics(batch, time) ==
  /\ emitted = Unsent
  /\ LET timed == [batch EXCEPT !.emittedAt = IF @ = 0 THEN time % WordSize ELSE @] IN
     emitted' = [kind |-> "sent", batch |-> Named(timed), bytes |-> metricBatchProto(timed)]

-----------------------------------------------------------------------------
(* A reader of the wire format. *)

\* The number that begins at a position, and the position after it.
Number(bytes, at) ==
  LET number[i \in 1..(Len(bytes) + 1)] ==
        IF i > Len(bytes) THEN [value |-> 0, next |-> i]
        ELSE IF bytes[i] < 128 THEN [value |-> bytes[i], next |-> i + 1]
        ELSE LET higher == number[i + 1]
             IN [value |-> bytes[i] - 128 + 128 * higher.value, next |-> higher.next]
  IN number[at]

\* A field's number and wire type, and where its value begins and ends.
Header(bytes, at) ==
  LET tag == Number(bytes, at)
      after == Number(bytes, tag.next)
      wire == tag.value % 8
  IN [number |-> tag.value \div 8, wire |-> wire,
      start |-> IF wire = 2 THEN after.next ELSE tag.next,
      end |-> IF wire = 0 THEN after.next
              ELSE IF wire = 2 THEN after.next + after.value ELSE tag.next + 8]

FieldAt(bytes, header) ==
  [number |-> header.number, wire |-> header.wire,
   value |-> IF header.wire = 0 THEN Number(bytes, header.start).value
             ELSE SubSeq(bytes, header.start, header.end - 1)]

\* The fields of a message in their order, up to one that is cut off.
Fields(bytes) ==
  LET fields[at \in 1..(Len(bytes) + 1)] ==
        LET header == Header(bytes, at) IN
        IF at > Len(bytes) \/ header.end > Len(bytes) + 1 THEN << >>
        ELSE <<FieldAt(bytes, header)>> \o fields[header.end]
  IN fields[1]

Those(bytes, number, wire) ==
  Joined(LAMBDA f : IF f.number = number /\ f.wire = wire THEN <<f.value>> ELSE << >>, Fields(bytes))

\* A field that may be missing.
Single(bytes, number, wire, default) ==
  LET mine == Those(bytes, number, wire) IN IF mine = << >> THEN default ELSE Last(mine)

\* A protobuf reader takes an int32 from the low bits of a number.
Int32Of(bytes, number) ==
  LET low == Single(bytes, number, 0, 0) % Int32Size IN
  IF low >= Int32Size \div 2 THEN low - Int32Size ELSE low

TextsOf(bytes, numbers) == [n \in numbers |-> Single(bytes, n, 2, << >>)]

\* The messages in a repeated field, read one by one.
EachOf(read(_), bytes, number) ==
  LET messages == Those(bytes, number, 2) IN [i \in 1..Len(messages) |-> read(messages[i])]

ReadEntry(bytes) == [key |-> Single(bytes, 1, 2, << >>), value |-> Single(bytes, 2, 2, << >>)]

EntriesOf(bytes, number) == EachOf(ReadEntry, bytes, number)

ReadResource(bytes) == [texts |-> TextsOf(bytes, 1..10), attributes |-> EntriesOf(bytes, 20)]
ReadIdentity(bytes) == [texts |-> TextsOf(bytes, 1..5), attributes |-> EntriesOf(bytes, 20)]

ReadPoint(bytes) ==
  [value |-> Single(bytes, 1, 1, Zeros), texts |-> TextsOf(bytes, {2, 6, 8, 9}),
   rawValueType |-> Int32Of(bytes, 3), observedAt |-> Single(bytes, 4, 0, 0),
   startTime |-> Single(bytes, 5, 0, 0), ifIndex |-> Int32Of(bytes, 7),
   attributes |-> EntriesOf(bytes, 20), metadata |-> EntriesOf(bytes, 21)]

ReadMetric(bytes) ==
  [texts |-> TextsOf(bytes, {1, 2, 6}), metricKind |-> Int32Of(bytes, 3),
   temporality |-> Int32Of(bytes, 4), isMonotonic |-> Single(bytes, 5, 0, 0) # 0,
   scale |-> Single(bytes, 7, 1, Zeros), counterWidth |-> Single(bytes, 8, 0, 0),
   points |-> EachOf(ReadPoint, bytes, 20), tags |-> EntriesOf(bytes, 30),
   metadata |-> EntriesOf(bytes, 31), thresholds |-> EntriesOf(bytes, 32)]

ReadBatch(bytes) ==
  [texts |-> TextsOf(bytes, {1, 4}),
   resource |-> ReadResource(Single(bytes, 2, 2, << >>)),
   identity |-> ReadIdentity(Single(bytes, 3, 2, << >>)),
   ingressAt |-> Single(bytes, 5, 0, 0), emittedAt |-> Single(bytes, 6, 0, 0),
   metrics |-> EachOf(ReadMetric, bytes, 20)]

-----------------------------------------------------------------------------
(* What a batch means: an element in which nothing is set does not exist. *)

Unless(nothing, element) == IF element = nothing THEN << >> ELSE <<element>>

NoEntry == [key |-> << >>, value |-> << >>]
Set(entries) == Joined(LAMBDA entry : Unless(NoEntry, entry), entries)
Positive(double) == IF double = NegativeZero THEN Zeros ELSE double

NoTexts(numbers) == [n \in numbers |-> << >>]

NoPoint == [value |-> Zeros, texts |-> NoTexts({2, 6, 8, 9}), rawValueType |-> 0,
            observedAt |-> 0, startTime |-> 0, ifIndex |-> 0, attributes |-> << >>,
            metadata |-> << >>]

PointMeaning(point) ==
  [point EXCEPT !.value = Positive(@), !.attributes = Set(@), !.metadata = Set(@)]

NoMetric == [texts |-> NoTexts({1, 2, 6}), metricKind |-> 0, temporality |-> 0, isMonotonic |-> FALSE,
             scale |-> Zeros, counterWidth |-> 0, points |-> << >>, tags |-> << >>,
             metadata |-> << >>, thresholds |-> << >>]

MetricMeaning(metric) ==
  [metric EXCEPT !.scale = Positive(@), !.tags = Set(@), !.metadata = Set(@), !.thresholds = Set(@),
                 !.points = Joined(LAMBDA point : Unless(NoPoint, PointMeaning(point)), @)]

BatchMeaning(batch) ==
  [batch EXCEPT !.resource.attributes = Set(@), !.identity.attributes = Set(@),
                !.metrics = Joined(LAMBDA metric : Unless(NoMetric, MetricMeaning(metric)), @)]

\* The bytes the host gets are the batch the plugin handed over: every number with its sign
\* and its width, every text and entry, every metric and point in its place, at lengths and
\* field numbers that take one byte or two.  What has only zero values is not there, and a
\* negative zero is a zero (sdk/metric_envelope.go:132-291).
MetricsDecode ==
  emitted # Unsent => ReadBatch(emitted.bytes) = BatchMeaning(emitted.batch)
=============================================================================
