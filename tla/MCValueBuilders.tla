---------------------------- MODULE MCValueBuilders ----------------------------
(***************************************************************************)
(* ValueBuilders by itself: two schema references, one of which names a    *)
(* display contract too.                                                   *)
(***************************************************************************)
EXTENDS ValueBuilders

MCEntries == {"schema" :> "a", ("schema" :> "b") @@ ("display" :> "d")}
=============================================================================
