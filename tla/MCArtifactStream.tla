-------------------------- MODULE MCArtifactStream --------------------------
(***************************************************************************)
(* ArtifactStream for TLC: two stream variables, three opens of which two  *)
(* may be open at once, bodies of up to two chunks, and requests with and  *)
(* without a digest and a size, right and wrong.                           *)
(***************************************************************************)
EXTENDS ArtifactStream

CONSTANTS k1, k2, a, b

MCOpenRequests ==
  { [key |-> k1, sha |-> NoSHA, size |-> 0],
    [key |-> k1, sha |-> <<a>>, size |-> 0],
    [key |-> k2, sha |-> NoSHA, size |-> 1] }

MCCommitRequests ==
  { [sha |-> NoSHA, size |-> 0],
    [sha |-> <<a, b>>, size |-> 0],
    [sha |-> NoSHA, size |-> 2] }
=============================================================================
