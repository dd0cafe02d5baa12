-------------------------- MODULE MCH264Depacketizer --------------------------
(***************************************************************************)
(* H264Depacketizer for TLC: each frame is a slice alone, two slices, one  *)
(* of them in FU-A pieces, or parameter sets in a STAP-A or by themselves  *)
(* before an IDR slice in three FU-A pieces.                               *)
(***************************************************************************)
EXTENDS H264Depacketizer

\* The pieces first..last of a NAL unit.
Pieces(f, nal, type, first, last) ==
  [i \in 1..(last - first + 1) |->
     [frame |-> f, nal |-> nal, part |-> first + i - 1, type |-> type]]

Carry(kind, units, marker) ==
  [kind |-> kind, units |-> units, start |-> FALSE, marker |-> marker]

\* The k-th of n FU-A payloads of a NAL unit.
FU(f, nal, type, k, n, marker) ==
  [kind |-> "fu", units |-> <<Pieces(f, nal, type, k, k)>>, start |-> k = 1,
   marker |-> marker /\ k = n]

FUs(f, nal, type, n, marker) == [k \in 1..n |-> FU(f, nal, type, k, n, marker)]

Encoding(access, payloads) ==
  LET sofar[n \in 0..Len(payloads)] ==
        IF n = 0 THEN << >>
        ELSE IF Continues(payloads[n]) THEN Glued(sofar[n - 1], payloads[n].units[1])
        ELSE sofar[n - 1] \o payloads[n].units
  IN [access |-> access, payloads |-> payloads, sofar |-> sofar]

MCEncodings(f) ==
  LET sps == Pieces(f, 1, 7, 1, 1)
      pps == Pieces(f, 2, 8, 1, 1)
      idr == Pieces(f, 3, 5, 1, 3)
      slice == Pieces(f, 1, 1, 1, 1)
      slice2 == Pieces(f, 2, 1, 1, 2)
  IN
  { Encoding(<<slice>>, <<Carry("single", <<slice>>, TRUE)>>),
    Encoding(<<slice, slice2>>, <<Carry("single", <<slice>>, FALSE)>> \o FUs(f, 2, 1, 2, TRUE)),
    Encoding(<<sps, pps, idr>>, <<Carry("stap", <<sps, pps>>, FALSE)>> \o FUs(f, 3, 5, 3, TRUE)),
    Encoding(<<slice2, idr>>, FUs(f, 2, 1, 2, FALSE) \o FUs(f, 3, 5, 3, TRUE)) }
=============================================================================
