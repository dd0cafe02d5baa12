------------------------ MODULE H264DepacketizerProofs ------------------------
(***************************************************************************)
(* What comes out of the depacketizer, for every way to encode frames and  *)
(* every loss: its type, that frames come out in order and unmixed, that   *)
(* the keyframe flag tells what came out, and that a frame of which        *)
(* nothing was lost comes out whole.                                       *)
(***************************************************************************)
EXTENDS H264Depacketizer, TLAPS

\* What is still to come belongs to the current frame, and only its last payload
\* has the marker.
PayloadsOfFrame ==
  \A i \in DOMAIN toSend :
    /\ toSend[i].kind \in {"single", "stap", "fu"}
    /\ toSend[i].kind = "fu" => Len(toSend[i].units) = 1
    /\ OfFrame(toSend[i].units, frame)
    /\ toSend[i].marker => i = Len(toSend)

\* What is being assembled belongs to the frame of the recorded timestamp, and the
\* flag is about it.
FragmentsOfTimestamp ==
  assembling => /\ OfFrame(fragments, timestamp)
                /\ keyframe = IsIDR(fragments)

\* Nothing was emitted yet for a frame of which payloads are still to come.
EmittedBefore ==
  \A i \in DOMAIN emitted :
    emitted[i].ts <= frame /\ (toSend # << >> => emitted[i].ts < frame)

EmittedIsOrdered == \A i, j \in DOMAIN emitted : i < j => emitted[i].ts < emitted[j].ts
EmittedIsUnmixed == \A i \in DOMAIN emitted : OfFrame(emitted[i].units, emitted[i].ts)

IInv ==
  /\ TypeOK
  /\ toSend # << >> => frame > 0
  /\ PayloadsOfFrame
  /\ FragmentsOfTimestamp
  /\ EmittedBefore
  /\ EmittedIsOrdered
  /\ EmittedIsUnmixed
  /\ KeyframeFlagExact

-----------------------------------------------------------------------------
\* Appending NAL units, or a piece to the last one, keeps the type.
LEMMA AddedType ==
  ASSUME TypeOK, NEW p \in Payload, NEW ts \in Frames,
         p.kind = "fu" => Len(p.units) = 1, Acceptable(p, ts)
  PROVE  Added(p, ts) \in Seq(Unit)
<1>1. Kept(ts) \in Seq(Unit)
  BY DEF TypeOK, Kept
<1>2. p.units \in Seq(Unit)
  BY DEF Payload
<1>3. CASE Continues(p)
  <2>1. Kept(ts) # << >> /\ Len(Kept(ts)) \in DOMAIN Kept(ts)
    BY <1>1, <1>3 DEF Acceptable, Continues
  <2>2. p.units[1] \in Unit /\ Kept(ts)[Len(Kept(ts))] \in Unit
    BY <1>1, <1>2, <1>3, <2>1 DEF Continues
  <2>3. Kept(ts)[Len(Kept(ts))] \o p.units[1] \in Unit
    BY <2>2 DEF Unit
  <2> QED BY <1>1, <1>3, <2>1, <2>3 DEF Added, Glued, Continues
<1>4. CASE ~Continues(p)
  BY <1>1, <1>2, <1>4 DEF Added
<1> QED BY <1>3, <1>4

\* Concatenating sequences of NAL units keeps them of one frame, and holds an IDR
\* slice if either does.
LEMMA Concatenated ==
  ASSUME NEW s \in Seq(Unit), NEW t \in Seq(Unit)
  PROVE  /\ \A f : OfFrame(s, f) /\ OfFrame(t, f) => OfFrame(s \o t, f)
         /\ IsIDR(s \o t) <=> IsIDR(s) \/ IsIDR(t)
<1> DEFINE st == s \o t
<1>1. /\ st \in Seq(Unit) /\ Len(st) = Len(s) + Len(t)
      /\ \A i \in 1..Len(s) : st[i] = s[i]
      /\ \A i \in 1..Len(t) : st[Len(s) + i] = t[i]
  OBVIOUS
<1>2. DOMAIN st = 1..Len(st) /\ DOMAIN s = 1..Len(s) /\ DOMAIN t = 1..Len(t)
  BY <1>1
<1>3. \A i \in DOMAIN st : \/ i \in DOMAIN s /\ st[i] = s[i]
                           \/ i - Len(s) \in DOMAIN t /\ st[i] = t[i - Len(s)]
  BY <1>1, <1>2
<1>4. \A i \in DOMAIN s : i \in DOMAIN st /\ st[i] = s[i]
  BY <1>1, <1>2
<1>5. \A i \in DOMAIN t : Len(s) + i \in DOMAIN st /\ st[Len(s) + i] = t[i]
  BY <1>1, <1>2
<1> HIDE DEF st
<1>6. \A f : OfFrame(s, f) /\ OfFrame(t, f) => OfFrame(st, f)
  BY <1>3 DEF OfFrame
<1>7. IsIDR(st) => IsIDR(s) \/ IsIDR(t)
  BY <1>3 DEF IsIDR
<1>8. IsIDR(s) \/ IsIDR(t) => IsIDR(st)
  BY <1>4, <1>5 DEF IsIDR
<1> QED BY <1>6, <1>7, <1>8 DEF st

\* The same for a piece appended to the last NAL unit.
LEMMA GluedIsOfFrame ==
  ASSUME NEW s \in Seq(Unit), s # << >>, NEW u \in Unit
  PROVE  /\ \A f : OfFrame(s, f) /\ OfFrame(<<u>>, f) => OfFrame(Glued(s, u), f)
         /\ IsIDR(Glued(s, u)) <=> IsIDR(s) \/ IsIDR(<<u>>)
<1> DEFINE n == Len(s)
           l == s[n] \o u
           g == [s EXCEPT ![n] = l]
<1>1. n \in DOMAIN s /\ DOMAIN g = DOMAIN s /\ g[n] = l
      /\ \A i \in DOMAIN s : i # n => g[i] = s[i]
  OBVIOUS
<1>2. s[n] \in Seq(Piece) /\ u \in Seq(Piece)
  BY DEF Unit
<1>3. /\ l \in Seq(Piece) /\ Len(l) = Len(s[n]) + Len(u)
      /\ \A i \in 1..Len(s[n]) : l[i] = s[n][i]
      /\ \A i \in 1..Len(u) : l[Len(s[n]) + i] = u[i]
  BY <1>2
<1>4. \A i \in DOMAIN l : \/ i \in DOMAIN s[n] /\ l[i] = s[n][i]
                          \/ i - Len(s[n]) \in DOMAIN u /\ l[i] = u[i - Len(s[n])]
  BY <1>2, <1>3
<1>5. /\ \A i \in DOMAIN s[n] : i \in DOMAIN l /\ l[i] = s[n][i]
      /\ \A i \in DOMAIN u : Len(s[n]) + i \in DOMAIN l /\ l[Len(s[n]) + i] = u[i]
  BY <1>2, <1>3
<1>6. DOMAIN <<u>> = {1} /\ <<u>>[1] = u
  OBVIOUS
<1>7. g = Glued(s, u)
  BY DEF Glued
<1> HIDE DEF n, l, g
<1>8. \A f : OfFrame(s, f) /\ OfFrame(<<u>>, f) => OfFrame(g, f)
  BY <1>1, <1>4, <1>6 DEF OfFrame
<1>9. ASSUME IsIDR(g) PROVE IsIDR(s) \/ IsIDR(<<u>>)
  <2>1. PICK i \in DOMAIN s : \E j \in DOMAIN g[i] : g[i][j].type = 5
    BY <1>1, <1>9 DEF IsIDR
  <2>2. CASE i = n
    BY <1>1, <1>4, <1>6, <2>1, <2>2 DEF IsIDR
  <2>3. CASE i # n
    BY <1>1, <2>1, <2>3 DEF IsIDR
  <2> QED BY <2>2, <2>3
<1>10. ASSUME IsIDR(s) PROVE IsIDR(g)
  <2>1. PICK i \in DOMAIN s : \E j \in DOMAIN s[i] : s[i][j].type = 5
    BY <1>10 DEF IsIDR
  <2>2. CASE i = n
    BY <1>1, <1>5, <2>1, <2>2 DEF IsIDR
  <2>3. CASE i # n
    BY <1>1, <2>1, <2>3 DEF IsIDR
  <2> QED BY <2>2, <2>3
<1>11. ASSUME IsIDR(<<u>>) PROVE IsIDR(g)
  BY <1>1, <1>5, <1>6, <1>11 DEF IsIDR
<1> QED BY <1>7, <1>8, <1>9, <1>10, <1>11
-----------------------------------------------------------------------------
\* A payload as it is pushed: whole, or damaged.
Arriving(p, f) ==
  /\ p \in Payload
  /\ p.kind = "fu" => Len(p.units) = 1
  /\ OfFrame(p.units, f)

\* What Kept and KeptFlag select is of the payload's frame, and the flag is about it.
LEMMA KeptIsOfFrame ==
  ASSUME TypeOK, FragmentsOfTimestamp, NEW ts \in Frames
  PROVE  /\ Kept(ts) \in Seq(Unit) /\ OfFrame(Kept(ts), ts)
         /\ KeptFlag(ts) \in BOOLEAN /\ KeptFlag(ts) = IsIDR(Kept(ts))
<1>1. CASE SameUnit(ts)
  BY <1>1 DEF TypeOK, FragmentsOfTimestamp, SameUnit, Kept, KeptFlag
<1>2. CASE ~SameUnit(ts)
  <2>1. Kept(ts) = << >> /\ KeptFlag(ts) = FALSE
    BY <1>2 DEF Kept, KeptFlag, SameUnit
  <2>2. DOMAIN << >> = {} /\ << >> \in Seq(Unit)
    OBVIOUS
  <2>3. OfFrame(<< >>, ts) /\ IsIDR(<< >>) = FALSE
    BY <2>2 DEF OfFrame, IsIDR
  <2> QED BY <2>1, <2>2, <2>3
<1> QED BY <1>1, <1>2

\* So is what an accepted payload adds.
LEMMA AddedIsOfFrame ==
  ASSUME TypeOK, FragmentsOfTimestamp, NEW ts \in Frames,
         NEW p, Arriving(p, ts), Acceptable(p, ts)
  PROVE  /\ Added(p, ts) \in Seq(Unit) /\ OfFrame(Added(p, ts), ts)
         /\ (KeptFlag(ts) \/ IsIDR(p.units)) = IsIDR(Added(p, ts))
<1>1. /\ Kept(ts) \in Seq(Unit) /\ OfFrame(Kept(ts), ts)
      /\ KeptFlag(ts) \in BOOLEAN /\ KeptFlag(ts) = IsIDR(Kept(ts))
  BY KeptIsOfFrame
<1>2. /\ p \in Payload /\ p.units \in Seq(Unit) /\ OfFrame(p.units, ts)
      /\ p.kind = "fu" => Len(p.units) = 1
  BY DEF Arriving, Payload
<1>3. Added(p, ts) \in Seq(Unit)
  BY <1>2, AddedType
<1>4. CASE Continues(p)
  <2>1. Kept(ts) # << >>
    BY <1>4 DEF Acceptable, Continues
  <2>2. p.units[1] \in Unit /\ p.units = <<p.units[1]>>
    BY <1>2, <1>4 DEF Continues
  <2>3. Added(p, ts) = Glued(Kept(ts), p.units[1])
    BY <1>4 DEF Added
  <2>4. /\ \A f : OfFrame(Kept(ts), f) /\ OfFrame(<<p.units[1]>>, f) => OfFrame(Added(p, ts), f)
        /\ IsIDR(Added(p, ts)) <=> IsIDR(Kept(ts)) \/ IsIDR(<<p.units[1]>>)
    BY <1>1, <2>1, <2>2, <2>3, GluedIsOfFrame
  <2>5. /\ \A f : OfFrame(Kept(ts), f) /\ OfFrame(p.units, f) => OfFrame(Added(p, ts), f)
        /\ IsIDR(Added(p, ts)) <=> IsIDR(Kept(ts)) \/ IsIDR(p.units)
    BY <2>2, <2>4
  <2>6. IsIDR(Added(p, ts)) \in BOOLEAN /\ IsIDR(p.units) \in BOOLEAN
    BY DEF IsIDR
  <2> QED BY <1>1, <1>2, <1>3, <2>5, <2>6
<1>5. CASE ~Continues(p)
  <2>1. Added(p, ts) = Kept(ts) \o p.units
    BY <1>5 DEF Added
  <2>2. /\ \A f : OfFrame(Kept(ts), f) /\ OfFrame(p.units, f) => OfFrame(Added(p, ts), f)
        /\ IsIDR(Added(p, ts)) <=> IsIDR(Kept(ts)) \/ IsIDR(p.units)
    BY <1>1, <1>2, <2>1, Concatenated
  <2>3. IsIDR(Added(p, ts)) \in BOOLEAN /\ IsIDR(p.units) \in BOOLEAN
    BY DEF IsIDR
  <2> QED BY <1>1, <1>2, <1>3, <2>2, <2>3
<1> QED BY <1>4, <1>5

\* A push changes the fields in one of three ways: not at all, by holding NAL units
\* of the frame with the right flag, or by returning such NAL units.
LEMMA PushOutcome ==
  ASSUME TypeOK, FragmentsOfTimestamp, NEW ts \in Frames,
         NEW p, Arriving(p, ts), Push(p, ts)
  PROVE  \/ UNCHANGED pushVars
         \/ \E units \in Seq(Unit) :
              OfFrame(units, ts) /\ Hold(units, IsIDR(units), ts)
         \/ p.marker /\ \E units \in Seq(Unit) :
              OfFrame(units, ts) /\ Emit(units, IsIDR(units), ts)
<1> DEFINE key == KeptFlag(ts) \/ IsIDR(p.units)
<1>1. /\ Kept(ts) \in Seq(Unit) /\ OfFrame(Kept(ts), ts)
      /\ KeptFlag(ts) \in BOOLEAN /\ KeptFlag(ts) = IsIDR(Kept(ts))
  BY KeptIsOfFrame
<1>2. CASE p.kind = "empty" /\ UNCHANGED pushVars
  BY <1>2
<1>3. ASSUME Acceptable(p, ts)
      PROVE  /\ Added(p, ts) \in Seq(Unit) /\ OfFrame(Added(p, ts), ts)
             /\ key = IsIDR(Added(p, ts))
  BY <1>3, AddedIsOfFrame
<1>4. CASE Acceptable(p, ts) /\ ~p.marker /\ Hold(Added(p, ts), key, ts)
  BY <1>3, <1>4
<1>5. CASE Acceptable(p, ts) /\ p.marker /\ Emit(Added(p, ts), key, ts)
  BY <1>3, <1>5
<1>6. CASE p.kind = "stap_cut" /\ Hold(Kept(ts) \o p.units, key, ts)
  <2>1. p.units \in Seq(Unit) /\ OfFrame(p.units, ts)
    BY DEF Arriving, Payload
  <2>2. /\ OfFrame(Kept(ts) \o p.units, ts) /\ Kept(ts) \o p.units \in Seq(Unit)
        /\ IsIDR(Kept(ts) \o p.units) <=> IsIDR(Kept(ts)) \/ IsIDR(p.units)
    BY <1>1, <2>1, Concatenated
  <2>3. key = IsIDR(Kept(ts) \o p.units)
    BY <1>1, <2>2 DEF IsIDR
  <2> QED BY <1>6, <2>2, <2>3
<1>7. CASE /\ p.kind \notin {"empty", "stap_cut"} /\ ~Acceptable(p, ts)
           /\ Hold(Kept(ts), KeptFlag(ts), ts)
  BY <1>1, <1>7
<1> HIDE DEF key
<1> QED BY <1>2, <1>4, <1>5, <1>6, <1>7 DEF Push, key
-----------------------------------------------------------------------------
LEMMA InitInvariant == Init => IInv
<1> SUFFICES ASSUME Init PROVE IInv
  OBVIOUS
<1>1. DOMAIN << >> = {} /\ << >> \in Seq(Payload) /\ << >> \in Seq(Seq(Unit))
      /\ << >> \in Seq(Unit) /\ << >> \in Seq(Emitted) /\ Len(<< >>) = 0
  OBVIOUS
<1>2. 0 \in 0..MaxFrames
  BY BoundsAssumption
<1>3. TypeOK
  BY ONLY <1>1, <1>2, Init, Zenon DEF Init, TypeOK
<1> QED BY <1>1, <1>3 DEF Init, IInv, PayloadsOfFrame, FragmentsOfTimestamp, EmittedBefore,
                         EmittedIsOrdered, EmittedIsUnmixed, KeyframeFlagExact

\* Pushing a payload of the current frame, when it was the first to come and the rest
\* still is, keeps what the invariant says of the depacketizer.
LEMMA PushKeeps ==
  ASSUME IInv, NEW p, Arriving(p, frame), toSend # << >>,
         p.marker => Tail(toSend) = << >>, Push(p, frame),
         toSend' = Tail(toSend), UNCHANGED <<frame, encoded>>
  PROVE  /\ timestamp' \in 0..MaxFrames /\ assembling' \in BOOLEAN
         /\ fragments' \in Seq(Unit) /\ keyframe' \in BOOLEAN /\ emitted' \in Seq(Emitted)
         /\ FragmentsOfTimestamp' /\ EmittedBefore' /\ EmittedIsOrdered'
         /\ EmittedIsUnmixed' /\ KeyframeFlagExact'
<1>1. frame \in Frames /\ frame \in 0..MaxFrames /\ frame \in Nat
  BY BoundsAssumption DEF IInv, TypeOK, Frames
<1>2. \A i \in DOMAIN emitted : emitted[i].ts < frame
  BY DEF IInv, EmittedBefore
<1>3. TypeOK /\ FragmentsOfTimestamp
  BY DEF IInv
<1>4. PICK outcome \in {"none", "hold", "emit"} :
        \/ outcome = "none" /\ UNCHANGED pushVars
        \/ outcome = "hold" /\ \E units \in Seq(Unit) :
             OfFrame(units, frame) /\ Hold(units, IsIDR(units), frame)
        \/ outcome = "emit" /\ p.marker /\ \E units \in Seq(Unit) :
             OfFrame(units, frame) /\ Emit(units, IsIDR(units), frame)
  BY <1>1, <1>3, PushOutcome
<1>5. CASE outcome = "none"
  BY <1>1, <1>2, <1>4, <1>5
     DEF IInv, TypeOK, pushVars, FragmentsOfTimestamp, EmittedBefore, EmittedIsOrdered,
         EmittedIsUnmixed, KeyframeFlagExact
<1>6. CASE outcome = "hold"
  <2>1. PICK units \in Seq(Unit) : OfFrame(units, frame) /\ Hold(units, IsIDR(units), frame)
    BY <1>4, <1>6
  <2>2. IsIDR(units) \in BOOLEAN
    BY DEF IsIDR
  <2> QED BY <1>1, <1>2, <1>4, <2>1, <2>2
          DEF IInv, TypeOK, Hold, FragmentsOfTimestamp, EmittedBefore, EmittedIsOrdered,
              EmittedIsUnmixed, KeyframeFlagExact
<1>7. CASE outcome = "emit"
  <2>1. PICK units \in Seq(Unit) : OfFrame(units, frame) /\ Emit(units, IsIDR(units), frame)
    BY <1>4, <1>7
  <2>2. IsIDR(units) \in BOOLEAN
    BY DEF IsIDR
  <2>3. toSend' = << >>
    BY <1>4, <1>7
  <2> DEFINE last == [ts |-> frame, units |-> units, keyframe |-> IsIDR(units)]
  <2>4. last \in Emitted /\ emitted' = Append(emitted, last) /\ emitted \in Seq(Emitted)
    BY <1>1, <1>3, <2>1, <2>2 DEF Emit, Emitted, TypeOK
  <2>5. /\ last.ts = frame /\ OfFrame(last.units, last.ts)
        /\ last.keyframe = IsIDR(last.units)
    BY <2>1
  <2>6. \A e \in Emitted : e.ts \in Nat
    BY DEF Emitted, Frames
  <2> HIDE DEF last
  <2>7. /\ emitted' \in Seq(Emitted)
        /\ \A i \in DOMAIN emitted' :
             \/ i \in DOMAIN emitted /\ emitted'[i] = emitted[i]
             \/ i = Len(emitted) + 1 /\ emitted'[i] = last
    BY <2>4
  <2>8. DOMAIN emitted = 1..Len(emitted) /\ Len(emitted) \in Nat
    BY <2>4
  <2>9. EmittedBefore'
    BY <1>1, <1>2, <2>3, <2>4, <2>5, <2>6, <2>7 DEF EmittedBefore
  <2>10. EmittedIsOrdered'
    BY <1>2, <2>5, <2>7, <2>8 DEF IInv, EmittedIsOrdered
  <2>11. EmittedIsUnmixed'
    BY <2>5, <2>7 DEF IInv, EmittedIsUnmixed
  <2>12. KeyframeFlagExact'
    BY <2>5, <2>7 DEF IInv, KeyframeFlagExact
  <2>13. /\ timestamp' \in 0..MaxFrames /\ assembling' = FALSE
         /\ fragments' \in Seq(Unit) /\ keyframe' \in BOOLEAN
    <3>1. << >> \in Seq(Unit)
      OBVIOUS
    <3> QED BY <1>1, <2>1, <3>1 DEF Emit
  <2> QED BY <2>7, <2>9, <2>10, <2>11, <2>12, <2>13 DEF FragmentsOfTimestamp
<1> QED BY <1>4, <1>5, <1>6, <1>7

\* Every damaged payload is still of the frame, with the same marker.
LEMMA DamageKeepsFrame ==
  ASSUME NEW p, NEW f, Arriving(p, f), NEW d \in Damages(p)
  PROVE  Arriving(d, f) /\ d.marker = p.marker
<1>1. /\ p \in Payload /\ OfFrame(p.units, f) /\ p.units \in Seq(Unit)
  BY DEF Arriving, Payload
<1>2. DOMAIN << >> = {} /\ << >> \in Seq(Unit)
  OBVIOUS
<1>3. CASE \E k \in {"empty", "unsupported", "fu_short"} :
             d = [p EXCEPT !.kind = k, !.units = << >>]
  BY <1>1, <1>2, <1>3 DEF Arriving, Payload, Kinds, OfFrame
<1>4. CASE \E n \in 0..(Len(p.units) - 1) :
             d = [p EXCEPT !.kind = "stap_cut", !.units = SubSeq(@, 1, n)]
  <2>1. PICK n \in 0..(Len(p.units) - 1) :
          d = [p EXCEPT !.kind = "stap_cut", !.units = SubSeq(@, 1, n)]
    BY <1>4
  <2>2. /\ SubSeq(p.units, 1, n) \in Seq(Unit)
        /\ \A i \in DOMAIN SubSeq(p.units, 1, n) :
             i \in DOMAIN p.units /\ SubSeq(p.units, 1, n)[i] = p.units[i]
    BY <1>1
  <2>3. /\ d.units = SubSeq(p.units, 1, n) /\ d.kind = "stap_cut" /\ d.marker = p.marker
        /\ d \in Payload
    BY <1>1, <2>1, <2>2 DEF Payload, Kinds
  <2> QED BY <1>1, <2>2, <2>3 DEF Arriving, OfFrame
<1> QED BY <1>3, <1>4 DEF Damages

LEMMA NextInvariant == IInv /\ [Next]_vars => IInv'
<1> SUFFICES ASSUME IInv, [Next]_vars PROVE IInv'
  OBVIOUS
<1>1. TypeOK
  BY DEF IInv
\* The payload that is next, and what is left after it.
<1>2. ASSUME toSend # << >>
      PROVE  /\ Arriving(Head(toSend), frame) /\ Tail(toSend) \in Seq(Payload)
             /\ Head(toSend).marker => Tail(toSend) = << >>
             /\ toSend' = Tail(toSend) /\ frame' = frame => PayloadsOfFrame'
  <2>1. toSend \in Seq(Payload) /\ 1 \in DOMAIN toSend /\ Head(toSend) = toSend[1]
    BY <1>1, <1>2 DEF TypeOK
  <2>2. /\ Tail(toSend) \in Seq(Payload) /\ Len(Tail(toSend)) = Len(toSend) - 1
        /\ \A i \in DOMAIN Tail(toSend) :
             i + 1 \in DOMAIN toSend /\ Tail(toSend)[i] = toSend[i + 1]
        /\ Len(toSend) = 1 => Tail(toSend) = << >>
    BY <2>1, <1>2
  <2>3. Arriving(Head(toSend), frame)
    BY <2>1 DEF IInv, PayloadsOfFrame, Arriving
  <2>4. Head(toSend).marker => Tail(toSend) = << >>
    BY <2>1, <2>2 DEF IInv, PayloadsOfFrame
  <2>5. ASSUME toSend' = Tail(toSend), frame' = frame PROVE PayloadsOfFrame'
    <3>1. Len(toSend) \in Nat /\ Len(toSend') = Len(toSend) - 1
          /\ \A i \in DOMAIN toSend' :
               i \in Nat /\ i + 1 \in DOMAIN toSend /\ toSend'[i] = toSend[i + 1]
      BY <2>1, <2>2, <2>5
    <3>2. \A i \in DOMAIN toSend' : i + 1 = Len(toSend) => i = Len(toSend')
      BY <3>1
    <3> QED BY <2>5, <3>1, <3>2 DEF IInv, PayloadsOfFrame
  <2> QED BY <2>2, <2>3, <2>4, <2>5
<1>3. CASE Encode
  <2>1. PICK e \in Encodings(frame + 1) :
          toSend' = e.payloads /\ encoded' = Append(encoded, e.access)
    BY <1>3 DEF Encode
  <2>2. frame + 1 \in Frames /\ frame' = frame + 1 /\ frame \in Nat /\ frame' \in 0..MaxFrames
        /\ toSend = << >> /\ UNCHANGED <<damaged, pushVars>>
    BY <1>1, <1>3, BoundsAssumption DEF Encode, TypeOK, Frames
  <2>3. PayloadsOfFrame' /\ toSend' \in Seq(Payload) /\ e.access \in Seq(Unit)
    BY <2>1, <2>2, EncodingsAssumption DEF PayloadsOfFrame
  <2>4. encoded' \in Seq(Seq(Unit)) /\ Len(encoded') = frame'
    BY <1>1, <2>1, <2>2, <2>3 DEF TypeOK
  <2>5. EmittedBefore'
    <3>1. \A i \in DOMAIN emitted : emitted[i].ts <= frame /\ emitted[i].ts \in Nat
      <4>1. emitted \in Seq(Emitted) /\ \A out \in Emitted : out.ts \in Nat
        BY <1>1 DEF TypeOK, Emitted, Frames
      <4>2. \A i \in DOMAIN emitted : emitted[i] \in Emitted
        BY <4>1
      <4> QED BY <4>1, <4>2 DEF IInv, EmittedBefore
    <3> QED BY <2>2, <3>1 DEF EmittedBefore, pushVars
  <2>6. TypeOK'
    BY <1>1, <2>2, <2>3, <2>4 DEF TypeOK, pushVars
  <2> QED BY <2>2, <2>3, <2>5, <2>6
          DEF IInv, pushVars, FragmentsOfTimestamp, EmittedIsOrdered, EmittedIsUnmixed,
              KeyframeFlagExact
<1>4. CASE Deliver
  <2>1. /\ toSend # << >> /\ Push(Head(toSend), frame) /\ toSend' = Tail(toSend)
        /\ UNCHANGED <<frame, encoded, damaged>>
    BY <1>4 DEF Deliver
  <2> QED BY <1>1, <1>2, <2>1, PushKeeps DEF IInv, TypeOK
<1>5. CASE DeliverDamaged
  <2>1. PICK p \in Damages(Head(toSend)) : Push(p, frame)
    BY <1>5 DEF DeliverDamaged
  <2>2. /\ toSend # << >> /\ toSend' = Tail(toSend) /\ UNCHANGED <<frame, encoded>>
        /\ damaged' = damaged \cup {frame}
    BY <1>5 DEF DeliverDamaged
  <2>3. Arriving(p, frame) /\ (p.marker => Tail(toSend) = << >>)
    BY <1>2, <2>1, <2>2, DamageKeepsFrame
  <2>4. frame \in Frames
    BY <1>1, <2>2, BoundsAssumption DEF IInv, TypeOK, Frames
  <2> QED BY <1>1, <1>2, <2>1, <2>2, <2>3, <2>4, PushKeeps DEF IInv, TypeOK
<1>6. CASE Skip
  <2>1. /\ toSend # << >> /\ toSend' = Tail(toSend) /\ UNCHANGED <<frame, encoded, pushVars>>
        /\ damaged' = damaged \cup {frame}
    BY <1>6 DEF Skip
  <2>2. frame \in Frames
    BY <1>1, <2>1, BoundsAssumption DEF IInv, TypeOK, Frames
  <2>3. TypeOK'
    BY <1>1, <1>2, <2>1, <2>2 DEF TypeOK, pushVars
  <2> QED BY <1>2, <2>1, <2>3
          DEF IInv, pushVars, FragmentsOfTimestamp, EmittedBefore, EmittedIsOrdered,
              EmittedIsUnmixed, KeyframeFlagExact
<1>7. CASE UNCHANGED vars
  BY <1>1, <1>7
     DEF IInv, TypeOK, vars, cameraVars, pushVars, PayloadsOfFrame, FragmentsOfTimestamp,
         EmittedBefore, EmittedIsOrdered, EmittedIsUnmixed, KeyframeFlagExact
<1> QED BY <1>3, <1>4, <1>5, <1>6, <1>7 DEF Next

LEMMA Invariance == Spec => []IInv
  BY InitInvariant, NextInvariant, PTL DEF Spec

\* The state of the depacketizer keeps its type for any encodings and any loss.
THEOREM TypeCorrect == Spec => []TypeOK
<1>1. IInv => TypeOK
  BY DEF IInv
<1> QED BY <1>1, Invariance, PTL

\* Push returns access units in the order of their timestamps, at most one for each,
\* and none holds a byte of another frame.
THEOREM FramesInOrderAndUnmixed == Spec => []InOrderAndUnmixed
<1>1. IInv => InOrderAndUnmixed
  BY DEF IInv, EmittedIsOrdered, EmittedIsUnmixed, InOrderAndUnmixed
<1> QED BY <1>1, Invariance, PTL

\* The keyframe flag Push returns is that of the bytes it returns with it.
THEOREM KeyframeFlagOfOutput == Spec => []KeyframeFlagExact
<1>1. IInv => KeyframeFlagExact
  BY DEF IInv
<1> QED BY <1>1, Invariance, PTL
-----------------------------------------------------------------------------
(* Frames of which nothing was lost. *)

\* Of a frame that is undamaged so far, what has been pushed is what its encoding has
\* carried so far, and the rest of the encoding is still to come.
SentSoFar(e, n) ==
  /\ encoded[frame] = e.access
  /\ n + Len(toSend) = Len(e.payloads)
  /\ \A i \in DOMAIN toSend : toSend[i] = e.payloads[n + i]
  /\ Kept(frame) = e.sofar[n]

WholeSoFar ==
  toSend # << >> /\ frame \notin damaged =>
    \E e \in Encodings(frame), n \in Nat : SentSoFar(e, n)

\* A frame comes out as it was encoded.
ComesOut(f) ==
  \E i \in DOMAIN emitted :
    emitted[i] = [ts |-> f, units |-> encoded[f], keyframe |-> IsIDR(encoded[f])]

WholeInv ==
  /\ timestamp <= frame
  /\ WholeSoFar
  /\ UndamagedFramesComeOutWhole

LEMMA WholeStart == Init => WholeInv
  BY DEF Init, WholeInv, WholeSoFar, UndamagedFramesComeOutWhole

\* What came out stays, and so does what was encoded.
LEMMA StaysOut ==
  ASSUME TypeOK, NEW f \in 1..frame, ComesOut(f),
         \/ UNCHANGED emitted
         \/ \E out \in Emitted : emitted' = Append(emitted, out),
         \/ UNCHANGED encoded
         \/ \E access \in Seq(Unit) : encoded' = Append(encoded, access)
  PROVE  ComesOut(f)'
<1>1. emitted \in Seq(Emitted) /\ encoded \in Seq(Seq(Unit)) /\ Len(encoded) = frame
  BY DEF TypeOK
<1>2. \A i \in DOMAIN emitted : i \in DOMAIN emitted' /\ emitted'[i] = emitted[i]
  <2>1. ASSUME NEW out \in Emitted, emitted' = Append(emitted, out)
        PROVE  \A i \in DOMAIN emitted : i \in DOMAIN emitted' /\ emitted'[i] = emitted[i]
    BY <1>1, <2>1
  <2> QED
    BY <2>1
<1>3. encoded'[f] = encoded[f]
  <2>1. ASSUME NEW access \in Seq(Unit), encoded' = Append(encoded, access)
        PROVE  encoded'[f] = encoded[f]
    BY <1>1, <2>1
  <2> QED
    BY <2>1
<1> QED
  BY <1>2, <1>3 DEF ComesOut

LEMMA EncodeKeepsWhole ==
  ASSUME IInv, WholeInv, Encode
  PROVE  WholeInv'
<1>1. TypeOK
  BY DEF IInv
<1>2. PICK e \in Encodings(frame + 1) :
        toSend' = e.payloads /\ encoded' = Append(encoded, e.access)
  BY DEF Encode
<1>3. /\ frame + 1 \in Frames /\ frame' = frame + 1 /\ frame \in Nat
      /\ toSend = << >> /\ UNCHANGED <<damaged, pushVars>>
  BY <1>1, BoundsAssumption DEF Encode, TypeOK, Frames
<1>4. /\ e.access \in Seq(Unit) /\ e.payloads \in Seq(Payload) /\ e.payloads # << >>
      /\ e.sofar[0] = << >>
  BY <1>3, EncodingsAssumption
<1>5. timestamp \in Nat /\ timestamp < frame'
  BY <1>1, <1>3 DEF WholeInv, TypeOK
<1>6. WholeSoFar'
  <2>1. encoded'[frame'] = e.access
    BY <1>1, <1>2, <1>3, <1>4 DEF TypeOK
  <2>2. Kept(frame)' = << >>
    BY <1>3, <1>5 DEF Kept, SameUnit, pushVars
  <2>3. 0 + Len(toSend') = Len(e.payloads) /\ \A i \in DOMAIN toSend' : toSend'[i] = e.payloads[0 + i]
    BY <1>2, <1>4
  <2>4. SentSoFar(e, 0)'
    BY <1>4, <2>1, <2>2, <2>3 DEF SentSoFar
  <2> QED
    BY <1>2, <1>3, <2>4 DEF WholeSoFar
<1>7. UndamagedFramesComeOutWhole'
  <2> SUFFICES ASSUME NEW f \in 1..frame', f \notin damaged', f < frame' \/ toSend' = << >>
               PROVE  ComesOut(f)'
    BY DEF UndamagedFramesComeOutWhole, ComesOut
  <2>1. f \in 1..frame /\ f \notin damaged
    BY <1>2, <1>3, <1>4
  <2>2. ComesOut(f)
    BY <1>3, <2>1 DEF WholeInv, UndamagedFramesComeOutWhole, ComesOut
  <2> QED
    BY <1>1, <1>2, <1>3, <1>4, <2>1, <2>2, StaysOut DEF pushVars
<1> QED
  BY <1>3, <1>5, <1>6, <1>7 DEF WholeInv, pushVars

LEMMA DeliverKeepsWhole ==
  ASSUME IInv, WholeInv, Deliver
  PROVE  WholeInv'
<1>1. TypeOK /\ FragmentsOfTimestamp
  BY DEF IInv
<1>2. /\ toSend # << >> /\ Push(Head(toSend), frame) /\ toSend' = Tail(toSend)
      /\ UNCHANGED <<frame, encoded, damaged>>
  BY DEF Deliver
<1>3. frame \in Frames /\ frame \in Nat
  BY <1>1, <1>2, BoundsAssumption DEF IInv, TypeOK, Frames
<1>4. PICK p : p = Head(toSend)
  OBVIOUS
<1>5. /\ toSend \in Seq(Payload) /\ p = toSend[1] /\ p \in Payload /\ 1 \in DOMAIN toSend
      /\ Len(toSend) \in Nat
      /\ toSend' \in Seq(Payload) /\ Len(toSend') = Len(toSend) - 1
      /\ \A i \in DOMAIN toSend' : i \in Nat /\ i + 1 \in DOMAIN toSend /\ toSend'[i] = toSend[i + 1]
  BY <1>1, <1>2, <1>4 DEF TypeOK
<1>6. Arriving(p, frame)
  BY <1>5 DEF IInv, PayloadsOfFrame, Arriving
<1>7. \/ UNCHANGED pushVars
      \/ \E units, key : Hold(units, key, frame)
      \/ \E units \in Seq(Unit) : OfFrame(units, frame) /\ Emit(units, IsIDR(units), frame)
  BY <1>1, <1>2, <1>3, <1>4, <1>6, PushOutcome
<1>8. timestamp' <= frame'
  <2>1. timestamp' = frame \/ timestamp' = timestamp
    BY <1>7, Zenon DEF Hold, Emit, pushVars
  <2> QED
    BY <1>2, <1>3, <2>1 DEF WholeInv
<1>9. UNCHANGED emitted \/ \E out \in Emitted : emitted' = Append(emitted, out)
  <2>1. ASSUME NEW units \in Seq(Unit), Emit(units, IsIDR(units), frame)
        PROVE  \E out \in Emitted : emitted' = Append(emitted, out)
    <3>1. IsIDR(units) \in BOOLEAN
      BY DEF IsIDR
    <3>2. PICK out : out = [ts |-> frame, units |-> units, keyframe |-> IsIDR(units)]
      OBVIOUS
    <3>3. out \in Emitted /\ emitted' = Append(emitted, out)
      BY <1>3, <2>1, <3>1, <3>2 DEF Emit, Emitted
    <3> QED
      BY <3>3
  <2>2. ASSUME NEW units, NEW key, Hold(units, key, frame) PROVE UNCHANGED emitted
    BY <2>2 DEF Hold
  <2> QED
    BY <1>7, <2>1, <2>2 DEF pushVars
\* Nothing was lost of the frame so far.
<1>10. ASSUME frame \notin damaged
       PROVE  /\ WholeSoFar'
              /\ toSend' = << >> => ComesOut(frame)'
  <2>1. PICK e \in Encodings(frame), n \in Nat : SentSoFar(e, n)
    BY <1>2, <1>10 DEF WholeInv, WholeSoFar
  <2>2. p = e.payloads[n + 1] /\ n + 1 \in DOMAIN e.payloads /\ Len(e.payloads) \in Nat
    <3>1. e.payloads \in Seq(Payload)
      BY <1>3, EncodingsAssumption
    <3> QED
      BY <1>5, <2>1, <3>1 DEF SentSoFar
  <2>3. PICK part : part = e.sofar[n] /\ part = Kept(frame)
    BY <2>1 DEF SentSoFar
  <2>4. /\ p.kind \in {"single", "stap", "fu"}
        /\ p.marker <=> n + 1 = Len(e.payloads)
        /\ IF Continues(p) THEN part # << >> /\ e.sofar[n + 1] = Glued(part, p.units[1])
           ELSE e.sofar[n + 1] = part \o p.units
        /\ e.sofar[Len(e.payloads)] = e.access
    <3>1. (n + 1) - 1 = n
      OBVIOUS
    <3>2. PICK i \in DOMAIN e.payloads : i = n + 1
      BY <2>2
    <3>3. e.sofar[i - 1] = part
      BY <2>3, <3>1, <3>2
    <3> QED
      BY <1>3, <2>2, <3>2, <3>3, EncodingsAssumption
  <2>5. Acceptable(p, frame) /\ Added(p, frame) = e.sofar[n + 1]
    BY <2>3, <2>4 DEF Acceptable, Added, Continues
  <2>6. PICK units : units = Added(p, frame)
    OBVIOUS
  <2>7. PICK key : key = (KeptFlag(frame) \/ IsIDR(p.units)) /\ key = IsIDR(units)
    BY <1>1, <1>3, <1>6, <2>5, <2>6, AddedIsOfFrame
  <2>8. IF p.marker THEN Emit(units, key, frame) ELSE Hold(units, key, frame)
    BY <1>2, <1>4, <2>4, <2>5, <2>6, <2>7 DEF Push
  <2>9. p.marker <=> toSend' = << >>
    BY <1>5, <2>1, <2>4 DEF SentSoFar
  <2>10. ASSUME toSend' # << >> PROVE SentSoFar(e, n + 1)'
    <3>1. Hold(units, key, frame)
      BY <2>8, <2>9, <2>10
    <3>2. Kept(frame)' = units
      BY <1>2, <3>1 DEF Hold, Kept, SameUnit
    <3>3. encoded'[frame'] = e.access
      BY <1>2, <2>1 DEF SentSoFar
    <3>4. (n + 1) + Len(toSend') = Len(e.payloads)
      <4>1. n + Len(toSend) = Len(e.payloads)
        BY <2>1 DEF SentSoFar
      <4> QED
        BY <1>5, <2>2, <4>1
    <3>5. \A i \in DOMAIN toSend' : toSend'[i] = e.payloads[(n + 1) + i]
      <4> SUFFICES ASSUME NEW i \in DOMAIN toSend' PROVE toSend'[i] = e.payloads[(n + 1) + i]
        OBVIOUS
      <4>1. i \in Nat /\ toSend'[i] = e.payloads[n + (i + 1)] /\ n + (i + 1) = (n + 1) + i
        BY <1>5, <2>1 DEF SentSoFar
      <4> QED
        BY <4>1
    <3> QED
      BY <2>5, <2>6, <3>2, <3>3, <3>4, <3>5 DEF SentSoFar
  <2>11. WholeSoFar'
    BY <1>2, <2>10 DEF WholeSoFar
  <2>12. ASSUME toSend' = << >> PROVE ComesOut(frame)'
    <3>1. Emit(units, key, frame) /\ units = encoded[frame]
      BY <2>1, <2>4, <2>5, <2>6, <2>8, <2>9, <2>12 DEF SentSoFar
    <3>2. PICK out : out = [ts |-> frame, units |-> units, keyframe |-> IsIDR(units)]
      OBVIOUS
    <3>3. emitted' = Append(emitted, out) /\ emitted \in Seq(Emitted)
      BY <1>1, <2>7, <3>1, <3>2 DEF Emit, TypeOK
    <3>4. Len(emitted) + 1 \in DOMAIN emitted' /\ emitted'[Len(emitted) + 1] = out
      BY <3>3
    <3> QED
      BY <1>2, <3>1, <3>2, <3>4 DEF ComesOut
  <2> QED
    BY <2>11, <2>12
<1>11. WholeSoFar'
  BY <1>2, <1>10 DEF WholeSoFar
<1>12. UndamagedFramesComeOutWhole'
  <2> SUFFICES ASSUME NEW f \in 1..frame', f \notin damaged', f < frame' \/ toSend' = << >>
               PROVE  ComesOut(f)'
    BY DEF UndamagedFramesComeOutWhole, ComesOut
  <2>1. f \in 1..frame /\ f \notin damaged
    BY <1>2
  <2>2. CASE f = frame
    BY <1>2, <1>3, <1>10, <2>1, <2>2
  <2>3. CASE f < frame
    <3>1. ComesOut(f)
      BY <2>1, <2>3 DEF WholeInv, UndamagedFramesComeOutWhole, ComesOut
    <3> QED
      BY <1>1, <1>2, <1>9, <2>1, <3>1, StaysOut
  <2> QED
    BY <1>3, <2>1, <2>2, <2>3
<1> QED
  BY <1>8, <1>11, <1>12 DEF WholeInv

\* A payload that is skipped or damaged: the frames before are not touched.
LEMMA LossKeepsWhole ==
  ASSUME IInv, WholeInv, toSend # << >>, DeliverDamaged \/ Skip
  PROVE  WholeInv'
<1>1. TypeOK /\ FragmentsOfTimestamp
  BY DEF IInv
<1>2. /\ toSend' = Tail(toSend) /\ damaged' = damaged \cup {frame}
      /\ UNCHANGED <<frame, encoded>>
  BY DEF DeliverDamaged, Skip
<1>3. frame \in Frames /\ frame \in Nat
  BY <1>1, BoundsAssumption DEF IInv, TypeOK, Frames
<1>4. \/ UNCHANGED pushVars
      \/ \E units, key : Hold(units, key, frame)
      \/ \E units \in Seq(Unit) : OfFrame(units, frame) /\ Emit(units, IsIDR(units), frame)
  <2>1. CASE Skip
    BY <2>1 DEF Skip
  <2>2. CASE DeliverDamaged
    <3>1. PICK p \in Damages(Head(toSend)) : Push(p, frame)
      BY <2>2 DEF DeliverDamaged
    <3>2. Arriving(Head(toSend), frame)
      BY <1>1 DEF IInv, TypeOK, PayloadsOfFrame, Arriving
    <3>3. Arriving(p, frame)
      BY <3>1, <3>2, DamageKeepsFrame
    <3> QED
      BY <1>1, <1>3, <3>1, <3>3, PushOutcome
  <2> QED
    BY <2>1, <2>2
<1>5. timestamp' <= frame'
  <2>1. timestamp' = frame \/ timestamp' = timestamp
    BY <1>4, Zenon DEF Hold, Emit, pushVars
  <2> QED
    BY <1>2, <1>3, <2>1 DEF WholeInv
<1>6. UNCHANGED emitted \/ \E out \in Emitted : emitted' = Append(emitted, out)
  <2>1. ASSUME NEW units \in Seq(Unit), Emit(units, IsIDR(units), frame)
        PROVE  \E out \in Emitted : emitted' = Append(emitted, out)
    <3>1. IsIDR(units) \in BOOLEAN
      BY DEF IsIDR
    <3>2. PICK out : out = [ts |-> frame, units |-> units, keyframe |-> IsIDR(units)]
      OBVIOUS
    <3>3. out \in Emitted /\ emitted' = Append(emitted, out)
      BY <1>3, <2>1, <3>1, <3>2 DEF Emit, Emitted
    <3> QED
      BY <3>3
  <2>2. ASSUME NEW units, NEW key, Hold(units, key, frame) PROVE UNCHANGED emitted
    BY <2>2 DEF Hold
  <2> QED
    BY <1>4, <2>1, <2>2 DEF pushVars
<1>7. WholeSoFar'
  BY <1>2 DEF WholeSoFar
<1>8. UndamagedFramesComeOutWhole'
  <2> SUFFICES ASSUME NEW f \in 1..frame', f \notin damaged', f < frame' \/ toSend' = << >>
               PROVE  ComesOut(f)'
    BY DEF UndamagedFramesComeOutWhole, ComesOut
  <2>1. f \in 1..frame /\ f \notin damaged /\ f < frame
    BY <1>2, <1>3
  <2>2. ComesOut(f)
    BY <2>1 DEF WholeInv, UndamagedFramesComeOutWhole, ComesOut
  <2> QED
    BY <1>1, <1>2, <1>6, <2>1, <2>2, StaysOut
<1> QED
  BY <1>5, <1>7, <1>8 DEF WholeInv

LEMMA WholeKeeps == IInv /\ WholeInv /\ [Next]_vars => WholeInv'
<1> SUFFICES ASSUME IInv, WholeInv, [Next]_vars PROVE WholeInv'
  OBVIOUS
<1>1. ASSUME UNCHANGED vars PROVE WholeInv'
  BY <1>1 DEF WholeInv, vars, cameraVars, pushVars, WholeSoFar, SentSoFar, Kept, SameUnit,
              UndamagedFramesComeOutWhole
<1>2. ASSUME DeliverDamaged \/ Skip PROVE toSend # << >>
  BY <1>2 DEF DeliverDamaged, Skip
<1> QED
  BY <1>1, <1>2, EncodeKeepsWhole, DeliverKeepsWhole, LossKeepsWhole DEF Next

\* A frame of which nothing was lost comes out whole, with its keyframe flag, for any way
\* to encode it and whatever happens to the frames around it (sdk/rtsp.go:600-712).
THEOREM UndamagedFramesComeOut == Spec => []UndamagedFramesComeOutWhole
<1>1. WholeInv => UndamagedFramesComeOutWhole
  BY DEF WholeInv
<1> QED
  BY <1>1, WholeStart, WholeKeeps, Invariance, PTL DEF Spec
=============================================================================
