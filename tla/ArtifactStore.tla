---------------------------- MODULE ArtifactStore ----------------------------
(***************************************************************************)
(* What artifact staging promises a plugin, without its mechanism: an      *)
(* upload grows chunk by chunk and then either disappears or is published  *)
(* whole, in one step, under its object key, with a receipt that describes *)
(* exactly the bytes published.                                            *)
(***************************************************************************)
EXTENDS Integers, Sequences

CONSTANTS
  Uploads,   \* names of uploads
  Keys,      \* object keys
  Chunks,    \* chunks an upload may be made of
  NoUpload,  \* an upload that is not in progress
  NoObject   \* a key with nothing published

VARIABLES
  uploads,   \* the uploads in progress: key and bytes so far
  objects,   \* the bytes published under each key
  receipts   \* the receipts issued, oldest first

storeVars == <<uploads, objects, receipts>>

StoreInit ==
  /\ uploads = [u \in Uploads |-> NoUpload]
  /\ objects = [k \in Keys |-> NoObject]
  /\ receipts = << >>

Begin(u) ==
  /\ uploads[u] = NoUpload
  /\ \E k \in Keys : uploads' = [uploads EXCEPT ![u] = [key |-> k, body |-> << >>]]
  /\ UNCHANGED <<objects, receipts>>

Extend(u) ==
  /\ uploads[u] # NoUpload
  /\ \E c \in Chunks : uploads' = [uploads EXCEPT ![u].body = Append(@, c)]
  /\ UNCHANGED <<objects, receipts>>

Publish(u) ==
  /\ uploads[u] # NoUpload
  /\ uploads' = [uploads EXCEPT ![u] = NoUpload]
  /\ objects' = [objects EXCEPT ![uploads[u].key] = uploads[u].body]
  /\ receipts' = Append(receipts, uploads[u])

Drop(lost) ==
  /\ uploads' = [u \in Uploads |-> IF u \in lost THEN NoUpload ELSE uploads[u]]
  /\ UNCHANGED <<objects, receipts>>

StoreNext ==
  \/ \E u \in Uploads : Begin(u) \/ Extend(u) \/ Publish(u)
  \/ \E lost \in SUBSET Uploads : Drop(lost)

StoreSpec == StoreInit /\ [][StoreNext]_storeVars
=============================================================================
