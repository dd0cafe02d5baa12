---------------------------------- MODULE Maps ----------------------------------
(***************************************************************************)
(* Go maps as functions from keys to values: :> and @@ of TLC, with        *)
(* definitions that a proof can expand.                                    *)
(***************************************************************************)

\* The map of one entry.
Entry(key, value) == [k \in {key} |-> value]

\* What base becomes when override is written into it.
Overlay(base, override) ==
  [key \in DOMAIN base \cup DOMAIN override |->
     IF key \in DOMAIN override THEN override[key] ELSE base[key]]
=============================================================================
