--------------------------- MODULE H264Depacketizer ---------------------------
(***************************************************************************)
(* RTSPH264Depacketizer.Push of sdk/rtsp.go, fed by a camera.  The camera  *)
(* encodes access units and sends each as a sequence of RTP payloads: a    *)
(* NAL unit by itself, several in a STAP-A, or one cut into FU-A pieces.   *)
(* The payloads arrive in order, but the sender may skip some and some may *)
(* arrive damaged.                                                         *)
(*                                                                         *)
(* A NAL unit is a sequence of pieces, and a piece knows where it comes    *)
(* from, so a unit glued together from pieces of two others can be told.   *)
(***************************************************************************)
EXTENDS Integers, Sequences

CONSTANTS
  Encodings(_),  \* what the camera may make of the given frame
  Lossy,         \* may payloads be skipped or damaged on the way?
  MaxFrames      \* bound: frames encoded

Frames == 1..MaxFrames
NALTypes == 1..23

\* A piece of the nal-th NAL unit of a frame's access unit.
Piece == [frame: Frames, nal: Nat, part: Nat, type: NALTypes]
Unit == Seq(Piece)

\* What Push reads from an RTP payload: the NAL units in it (of a STAP-A cut
\* short, those before the cut; of a FU-A, its one piece), the start bit of a
\* FU-A, and the marker of the RTP header.
Kinds == {"single", "stap", "stap_cut", "fu", "fu_short", "empty", "unsupported"}
Payload == [kind: Kinds, units: Seq(Unit), start: BOOLEAN, marker: BOOLEAN]

\* Are these NAL units, or FU-A pieces, of the given frame and no other?
OfFrame(units, f) ==
  \A u \in DOMAIN units : \A k \in DOMAIN units[u] : units[u][k].frame = f

\* NAL units, the last one continued by a piece.
Glued(units, piece) == [units EXCEPT ![Len(units)] = @ \o piece]

Continues(p) == p.kind = "fu" /\ ~p.start

\* An encoding: the access unit and the payloads that carry it, the last one and no other
\* with the marker bit, and for each of them what has been carried so far, whole NAL
\* units and pieces of the last.
ASSUME EncodingsAssumption ==
  \A f \in Frames : \A e \in Encodings(f) :
    /\ e.access \in Seq(Unit)
    /\ e.payloads \in Seq(Payload) /\ e.payloads # << >>
    /\ e.sofar \in [0..Len(e.payloads) -> Seq(Unit)]
    /\ e.sofar[0] = << >> /\ e.sofar[Len(e.payloads)] = e.access
    /\ \A i \in DOMAIN e.payloads :
         /\ e.payloads[i].kind \in {"single", "stap", "fu"}
         /\ e.payloads[i].kind = "fu" => Len(e.payloads[i].units) = 1
         /\ OfFrame(e.payloads[i].units, f)
         /\ e.payloads[i].marker <=> i = Len(e.payloads)
         /\ IF Continues(e.payloads[i])
            THEN /\ e.sofar[i - 1] # << >>
                 /\ e.sofar[i] = Glued(e.sofar[i - 1], e.payloads[i].units[1])
            ELSE e.sofar[i] = e.sofar[i - 1] \o e.payloads[i].units
ASSUME BoundsAssumption == MaxFrames \in Nat /\ Lossy \in BOOLEAN

VARIABLES
  frame,       \* frames encoded so far; a frame's number is its RTP timestamp
  toSend,      \* payloads of the last frame still to come
  encoded,     \* history: the access unit of each frame
  damaged,     \* history: frames of which a payload was skipped or damaged
  timestamp,   \* the depacketizer's fields
  assembling,
  fragments,
  keyframe,
  emitted      \* history: the access units Push returned

cameraVars == <<frame, toSend, encoded, damaged>>
pushVars == <<timestamp, assembling, fragments, keyframe, emitted>>
vars == <<cameraVars, pushVars>>

Init ==
  /\ frame = 0 /\ toSend = << >> /\ encoded = << >> /\ damaged = {}
  /\ timestamp = 0 /\ assembling = FALSE /\ fragments = << >> /\ keyframe = FALSE
  /\ emitted = << >>

-----------------------------------------------------------------------------
\* Is one of these NAL units, or this FU-A piece, of an IDR slice?
IsIDR(units) == \E i \in DOMAIN units : \E j \in DOMAIN units[i] : units[i][j].type = 5

\* Mutant of SameUnit: only the marker bit ends an access unit.
SameUntilMarker(ts) == assembling

\* Does a payload with this timestamp continue the unit being assembled?
SameUnit(ts) == assembling /\ timestamp = ts

Kept(ts) == IF SameUnit(ts) THEN fragments ELSE << >>

\* Mutant of KeptFlag: the flag is not reset with the fragments.
FlagAlways(ts) == keyframe

KeptFlag(ts) == SameUnit(ts) /\ keyframe

\* The fragments after a payload that is accepted: a FU-A that is not a start is
\* appended to the last fragment, whichever that is.
Added(p, ts) ==
  IF Continues(p) THEN Glued(Kept(ts), p.units[1]) ELSE Kept(ts) \o p.units

Acceptable(p, ts) ==
  \/ p.kind \in {"single", "stap"}
  \/ p.kind = "fu" /\ (p.start \/ Kept(ts) # << >>)

\* Mutant of Hold: the payload is taken without the state saying so.
HoldIdle(units, key, ts) ==
  /\ timestamp' = ts
  /\ fragments' = units
  /\ keyframe' = key
  /\ UNCHANGED <<assembling, emitted>>

Hold(units, key, ts) ==
  /\ timestamp' = ts
  /\ assembling' = TRUE
  /\ fragments' = units
  /\ keyframe' = key
  /\ UNCHANGED emitted

\* The marker bit ends the access unit: it is returned and the state is reset.
Emit(units, key, ts) ==
  /\ timestamp' = ts
  /\ assembling' = FALSE
  /\ fragments' = << >>
  /\ keyframe' = FALSE
  /\ emitted' = Append(emitted, [ts |-> ts, units |-> units, keyframe |-> key])

\* Push.  An empty payload is refused before anything changes; any other payload
\* first drops what belongs to another access unit, then may still be refused.
\* The end bit of a FU-A decides nothing: without the marker Push returns nothing
\* either way.
Push(p, ts) ==
  LET key == KeptFlag(ts) \/ IsIDR(p.units) IN
  \/ p.kind = "empty" /\ UNCHANGED pushVars
  \/ Acceptable(p, ts) /\ ~p.marker /\ Hold(Added(p, ts), key, ts)
  \/ Acceptable(p, ts) /\ p.marker /\ Emit(Added(p, ts), key, ts)
  \/ p.kind = "stap_cut" /\ Hold(Kept(ts) \o p.units, key, ts)
  \/ /\ p.kind \notin {"empty", "stap_cut"} /\ ~Acceptable(p, ts)
     /\ Hold(Kept(ts), KeptFlag(ts), ts)

-----------------------------------------------------------------------------
\* What a payload may be turned into; its RTP header stays.
Damages(p) ==
  {[p EXCEPT !.kind = k, !.units = << >>] : k \in {"empty", "unsupported"}}
  \cup (IF p.kind = "fu" THEN {[p EXCEPT !.kind = "fu_short", !.units = << >>]} ELSE {})
  \cup (IF p.kind = "stap"
        THEN {[p EXCEPT !.kind = "stap_cut", !.units = SubSeq(@, 1, n)] :
                n \in 0..(Len(p.units) - 1)}
        ELSE {})

Encode ==
  /\ toSend = << >>
  /\ frame < MaxFrames
  /\ frame' = frame + 1
  /\ \E e \in Encodings(frame + 1) :
       /\ toSend' = e.payloads
       /\ encoded' = Append(encoded, e.access)
  /\ UNCHANGED <<damaged, pushVars>>

Deliver ==
  /\ toSend # << >>
  /\ Push(Head(toSend), frame)
  /\ toSend' = Tail(toSend)
  /\ UNCHANGED <<frame, encoded, damaged>>

DeliverDamaged ==
  /\ Lossy
  /\ toSend # << >>
  /\ \E p \in Damages(Head(toSend)) : Push(p, frame)
  /\ toSend' = Tail(toSend)
  /\ damaged' = damaged \cup {frame}
  /\ UNCHANGED <<frame, encoded>>

Skip ==
  /\ Lossy
  /\ toSend # << >>
  /\ toSend' = Tail(toSend)
  /\ damaged' = damaged \cup {frame}
  /\ UNCHANGED <<frame, encoded, pushVars>>

Next == Encode \/ Deliver \/ DeliverDamaged \/ Skip
Spec == Init /\ [][Next]_vars

-----------------------------------------------------------------------------
Emitted == [ts: Frames, units: Seq(Unit), keyframe: BOOLEAN]

TypeOK ==
  /\ frame \in 0..MaxFrames
  /\ toSend \in Seq(Payload)
  /\ encoded \in Seq(Seq(Unit)) /\ Len(encoded) = frame
  /\ damaged \subseteq Frames
  /\ timestamp \in 0..MaxFrames
  /\ assembling \in BOOLEAN
  /\ fragments \in Seq(Unit)
  /\ keyframe \in BOOLEAN
  /\ emitted \in Seq(Emitted)

\* A frame of which nothing was lost comes out exactly as encoded, with the
\* keyframe flag it should have, whatever was lost or damaged around it; and it
\* does come out, once, when its last payload has been pushed.
UndamagedFramesComeOutWhole ==
  \A f \in 1..frame : f \notin damaged /\ (f < frame \/ toSend = << >>) =>
    \E i \in DOMAIN emitted :
      emitted[i] = [ts |-> f, units |-> encoded[f], keyframe |-> IsIDR(encoded[f])]

\* Access units come out in the order of their frames, at most one for each, and
\* never hold a byte of another frame.
InOrderAndUnmixed ==
  /\ \A i, j \in DOMAIN emitted : i < j => emitted[i].ts < emitted[j].ts
  /\ \A i \in DOMAIN emitted : OfFrame(emitted[i].units, emitted[i].ts)

\* The flag says whether what came out holds any byte of an IDR slice, also when
\* part of the frame was lost or refused.
KeyframeFlagExact == \A i \in DOMAIN emitted : emitted[i].keyframe = IsIDR(emitted[i].units)
=============================================================================
