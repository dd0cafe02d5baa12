------------------------- MODULE ArtifactStreamProofs -------------------------
(***************************************************************************)
(* Proofs about artifact staging, for any numbers of stream variables,     *)
(* keys, chunks and open streams.                                          *)
(*                                                                         *)
(* Two parts make the properties inductive: handles are handed out in      *)
(* order, so a new one is nobody's yet, and the bytes in a staging file    *)
(* are the bytes in its digest, which needs that a failing write leaves    *)
(* nothing in the file (ShortWrites = FALSE).                              *)
(***************************************************************************)
EXTENDS ArtifactStream, FiniteSetTheorems, TLAPS

\* Handles not given out yet are not open, and nobody holds one.
HandlesInOrder ==
  /\ \A h \in Handles : h > next[Exec] => open[Exec][h] = NoStream
  /\ \A s \in Streams : handle[s] <= next[Exec]

NothingOpenAfterRun == ~running => \A h \in Handles : open[Exec][h] = NoStream

\* What will be published is what was hashed.
FilesAreHashed ==
  \A h \in Handles : open[Exec][h] # NoStream => staging[Exec][h] = open[Exec][h].hashed

LEMMA ExecIsExecution == Exec \in Executions
  BY StreamAssumption

LEMMA HandlesAreNatural == Handles \subseteq Nat \ {0} /\ IsFiniteSet(Handles)
  BY StagingAssumption, FS_Interval DEF Handles

-----------------------------------------------------------------------------
\* Everything a call can do to the host, as six effects.
Opened(request) ==
  LET h == next[Exec] + 1 IN
  /\ next[Exec] < MaxOpens
  /\ ~AtLimit(Exec)
  /\ next' = [next EXCEPT ![Exec] = h]
  /\ open' = [open EXCEPT ![Exec][h] =
                [request |-> request, hashed |-> << >>, nextIndex |-> 0]]
  /\ staging' = [staging EXCEPT ![Exec][h] = << >>]
  /\ UNCHANGED <<committed, published>>

TornWrite(h) ==
  /\ ShortWrites
  /\ IsOpen(Exec, h)
  /\ staging' = [staging EXCEPT ![Exec][h] = Append(@, Torn)]
  /\ UNCHANGED <<next, open, committed, published>>

Written(h, chunk) ==
  /\ IsOpen(Exec, h)
  /\ staging' = [staging EXCEPT ![Exec][h] = Append(@, chunk)]
  /\ open' = [open EXCEPT ![Exec][h] = Grown(@, chunk)]
  /\ UNCHANGED <<next, committed, published>>

Dropped(h) ==
  /\ IsOpen(Exec, h)
  /\ Forget(Exec, h)
  /\ UNCHANGED <<next, committed, published>>

Published(h) ==
  LET stream == open[Exec][h] IN
  /\ IsOpen(Exec, h)
  /\ Forget(Exec, h)
  /\ published' = [published EXCEPT ![stream.request.key] = staging[Exec][h]]
  /\ committed' = [committed EXCEPT ![Exec] =
       Append(@, [key |-> stream.request.key, sha |-> stream.hashed,
                  size |-> Len(stream.hashed)])]
  /\ UNCHANGED next

HostEffect ==
  \/ UNCHANGED artifactVars
  \/ \E request \in OpenRequests : Opened(request)
  \/ \E h \in Handles : TornWrite(h) \/ Dropped(h) \/ Published(h)
  \/ \E h \in Handles, chunk \in Chunks : Written(h, chunk)
  \/ AbortOpenArtifacts(Exec)

\* What a call does to its own object: it may clear the handle, and only an
\* open that succeeded fills it, with the newest handle.
ObjectEffect ==
  /\ running
  /\ \/ handle' = handle /\ running' = running
     \/ \E s \in Streams : handle' = [handle EXCEPT ![s] = 0] /\ running' = running
     \/ /\ \E s \in Streams : handle' = [handle EXCEPT ![s] = next[Exec] + 1]
        /\ running' = running
        /\ \E request \in OpenRequests : Opened(request)
     \/ handle' = handle /\ AbortOpenArtifacts(Exec) /\ running' = FALSE

LEMMA NextIsHostEffect == TypeOK /\ Next => HostEffect /\ ObjectEffect
<1> SUFFICES ASSUME TypeOK, Next PROVE HostEffect /\ ObjectEffect
  OBVIOUS
<1> USE DEF hostErrOK, hostErrInvalid, hostErrTooLarge, hostErrInternal, hostErrBadHandle
<1>1. ASSUME NEW s \in Streams, handle[s] # 0 PROVE handle[s] \in Handles
  BY <1>1 DEF TypeOK
<1>2. ASSUME NEW s \in Streams, OpenArtifactStream(s) PROVE HostEffect /\ ObjectEffect
  <2>1. PICK request \in OpenRequests, res \in Handles \cup {hostErrTooLarge, hostErrInternal} :
          /\ running
          /\ ArtifactOpen(Exec, request, res)
          /\ handle' = [handle EXCEPT ![s] = IF res < 0 THEN 0 ELSE res]
          /\ UNCHANGED running
    BY <1>2 DEF OpenArtifactStream, HandleOf
  <2>2. CASE res < 0
    <3>1. UNCHANGED artifactVars
      BY <2>1, <2>2, ExecIsExecution, StagingAssumption
         DEF ArtifactOpen, NewHandle, TypeOK, ArtifactTypeOK
    <3> QED
      BY <2>1, <2>2, <3>1 DEF HostEffect, ObjectEffect
  <2>3. CASE ~(res < 0)
    <3>1. Opened(request) /\ res = next[Exec] + 1
      BY <2>1, <2>3, ExecIsExecution DEF ArtifactOpen, NewHandle, Opened, TypeOK, ArtifactTypeOK
    <3> QED
      BY <2>1, <2>3, <3>1 DEF HostEffect, ObjectEffect
  <2> QED
    BY <2>2, <2>3
<1>3. ASSUME NEW s \in Streams, WriteChunk(s) PROVE HostEffect /\ ObjectEffect
  <2>1. PICK index \in Indexes, chunk \in Chunks,
             res \in {1, hostErrInvalid, hostErrInternal, hostErrBadHandle} :
          ArtifactWrite(Exec, handle[s], index, chunk, res)
    BY <1>3 DEF WriteChunk
  <2>2. handle[s] \in Handles /\ running /\ UNCHANGED <<handle, running>>
    BY <1>1, <1>3 DEF WriteChunk
  <2>3. UNCHANGED artifactVars \/ TornWrite(handle[s]) \/ Written(handle[s], chunk)
    BY ONLY <2>1 DEF ArtifactWrite, TornWrite, Written, artifactVars
  <2> QED
    BY ONLY <2>2, <2>3 DEF HostEffect, ObjectEffect
<1>4. ASSUME NEW s \in Streams, CommitContext(s) PROVE HostEffect /\ ObjectEffect
  <2>1. PICK request \in CommitRequests,
             res \in {hostErrOK, hostErrInvalid, hostErrInternal, hostErrBadHandle} :
          /\ ArtifactCommit(Exec, handle[s], request, res)
          /\ handle' = IF res < 0 THEN handle ELSE [handle EXCEPT ![s] = 0]
    BY <1>4 DEF CommitContext
  <2>2. handle[s] \in Handles /\ running /\ UNCHANGED running
    BY <1>1, <1>4 DEF CommitContext
  <2>3. UNCHANGED artifactVars \/ Dropped(handle[s]) \/ Published(handle[s])
    BY ONLY <2>1 DEF ArtifactCommit, Dropped, Published, artifactVars
  <2> QED
    BY ONLY <2>1, <2>2, <2>3 DEF HostEffect, ObjectEffect
<1>5. ASSUME NEW s \in Streams, Abort(s) PROVE HostEffect /\ ObjectEffect
  <2>1. PICK res \in {hostErrOK, hostErrBadHandle} :
          /\ ArtifactAbort(Exec, handle[s], res)
          /\ handle' = IF res < 0 THEN handle ELSE [handle EXCEPT ![s] = 0]
    BY <1>5 DEF Abort
  <2>2. handle[s] \in Handles /\ running /\ UNCHANGED running
    BY <1>1, <1>5 DEF Abort
  <2>3. UNCHANGED artifactVars \/ Dropped(handle[s])
    BY ONLY <2>1 DEF ArtifactAbort, Dropped, artifactVars
  <2> QED
    BY ONLY <2>1, <2>2, <2>3 DEF HostEffect, ObjectEffect
<1>6. CASE EndRun
  BY <1>6 DEF EndRun, HostEffect, ObjectEffect
<1> QED
  BY <1>2, <1>3, <1>4, <1>5, <1>6 DEF Next
-----------------------------------------------------------------------------
LEMMA TypeInit == Init => TypeOK /\ StagingFilesAreOpenStreams
  BY StagingAssumption
     DEF Init, ArtifactInit, TypeOK, ArtifactTypeOK, StagingFilesAreOpenStreams

\* The host's types, and its staging files, for one effect at a time: an effect
\* on an open stream needs that the stream's staging file is there.
HostTypes == ArtifactTypeOK /\ StagingFilesAreOpenStreams

LEMMA OpenStreamHasFile ==
  ASSUME HostTypes, NEW h \in Handles, IsOpen(Exec, h)
  PROVE  open[Exec][h] \in Stream /\ staging[Exec][h] \in Bodies
  BY ExecIsExecution DEF HostTypes, ArtifactTypeOK, StagingFilesAreOpenStreams, IsOpen

LEMMA OpenedTypes ==
  ASSUME HostTypes, NEW request \in OpenRequests, Opened(request)
  PROVE  HostTypes'
<1> DEFINE n == next[Exec] + 1
           stream == [request |-> request, hashed |-> << >>, nextIndex |-> 0]
<1>1. n \in Handles /\ n \in 0..MaxOpens
  BY StagingAssumption, ExecIsExecution DEF Opened, Handles, HostTypes, ArtifactTypeOK
<1>2. stream \in Stream /\ << >> \in Bodies
  BY StreamAssumption DEF Stream, Digests, Bodies
<1>3. stream # NoStream /\ << >> # NoFile
  BY <1>2, SentinelAssumption
<1> HIDE DEF stream
<1>4. ArtifactTypeOK'
  BY <1>1, <1>2, ExecIsExecution DEF Opened, HostTypes, ArtifactTypeOK, stream
<1>5. StagingFilesAreOpenStreams'
  BY <1>1, <1>3, ExecIsExecution
     DEF Opened, HostTypes, ArtifactTypeOK, StagingFilesAreOpenStreams, stream
<1> QED
  BY <1>4, <1>5 DEF HostTypes

LEMMA TornWriteTypes ==
  ASSUME HostTypes, NEW h \in Handles, TornWrite(h)
  PROVE  HostTypes'
<1>1. staging[Exec][h] \in Bodies
  BY OpenStreamHasFile DEF TornWrite
<1>2. Append(staging[Exec][h], Torn) \in Bodies
  BY <1>1 DEF Bodies
<1> QED
  BY <1>2, ExecIsExecution, SentinelAssumption
     DEF TornWrite, IsOpen, HostTypes, ArtifactTypeOK, StagingFilesAreOpenStreams

LEMMA WrittenStream ==
  ASSUME NEW stream \in Stream, NEW chunk \in Chunks
  PROVE  Grown(stream, chunk) \in Stream
<1>1. stream \in [request: OpenRequest, hashed: Seq(Chunks), nextIndex: Nat]
  BY DEF Stream, Digests
<1>2. Append(stream.hashed, chunk) \in Seq(Chunks) /\ stream.nextIndex + 1 \in Nat
  BY <1>1
<1> QED
  BY <1>1, <1>2 DEF Grown, Stream, Digests

LEMMA WrittenTypes ==
  ASSUME HostTypes, NEW h \in Handles, NEW chunk \in Chunks, Written(h, chunk)
  PROVE  HostTypes'
<1> DEFINE stream == Grown(open[Exec][h], chunk)
           body == Append(staging[Exec][h], chunk)
<1>1. open[Exec][h] \in Stream /\ staging[Exec][h] \in Bodies
  BY OpenStreamHasFile DEF Written
<1>2. stream \in Stream
  BY <1>1, WrittenStream
<1>3. body \in Bodies
  BY <1>1 DEF Bodies
<1>4. stream # NoStream /\ body # NoFile
  BY <1>2, <1>3, SentinelAssumption
<1>5. open' = [open EXCEPT ![Exec][h] = stream] /\ staging' = [staging EXCEPT ![Exec][h] = body]
  BY <1>1, ExecIsExecution DEF Written, HostTypes, ArtifactTypeOK
<1> HIDE DEF stream, body
<1>6. UNCHANGED <<next, committed, published>>
  BY DEF Written
<1> QED
  BY <1>2, <1>3, <1>4, <1>5, <1>6, ExecIsExecution
     DEF HostTypes, ArtifactTypeOK, StagingFilesAreOpenStreams

LEMMA DroppedTypes ==
  ASSUME HostTypes, NEW h \in Handles, Forget(Exec, h)
  PROVE  /\ open' \in [Executions -> [Handles -> Stream \cup {NoStream}]]
         /\ staging' \in [Executions -> [Handles -> Bodies \cup {NoFile}]]
         /\ StagingFilesAreOpenStreams'
  BY ExecIsExecution
     DEF Forget, HostTypes, ArtifactTypeOK, StagingFilesAreOpenStreams

LEMMA PublishedTypes ==
  ASSUME HostTypes, NEW h \in Handles, Published(h)
  PROVE  HostTypes'
<1> DEFINE stream == open[Exec][h]
           receipt == [key |-> stream.request.key, sha |-> stream.hashed,
                       size |-> Len(stream.hashed)]
<1>1. stream \in Stream /\ staging[Exec][h] \in Bodies
  BY OpenStreamHasFile DEF Published
<1>2. receipt \in Receipt /\ stream.request.key \in Keys
  BY <1>1 DEF Stream, Receipt, OpenRequest, Digests
<1>3. /\ published' = [published EXCEPT ![stream.request.key] = staging[Exec][h]]
      /\ committed' = [committed EXCEPT ![Exec] = Append(@, receipt)]
      /\ next' = next
  BY DEF Published
<1> HIDE DEF stream, receipt
<1>4. /\ published' \in [Keys -> Bodies \cup {NoFile}]
      /\ committed' \in [Executions -> Seq(Receipt)]
      /\ next' \in [Executions -> 0..MaxOpens]
  BY <1>1, <1>2, <1>3, ExecIsExecution DEF HostTypes, ArtifactTypeOK
<1> QED
  BY <1>4, DroppedTypes DEF Published, HostTypes, ArtifactTypeOK

LEMMA AbortedTypes ==
  ASSUME HostTypes, AbortOpenArtifacts(Exec)
  PROVE  HostTypes'
  BY ExecIsExecution
     DEF AbortOpenArtifacts, HostTypes, ArtifactTypeOK, StagingFilesAreOpenStreams

LEMMA HostTypesStep ==
  ASSUME HostTypes, HostEffect
  PROVE  HostTypes'
<1>1. CASE UNCHANGED artifactVars
  BY <1>1 DEF artifactVars, HostTypes, ArtifactTypeOK, StagingFilesAreOpenStreams
<1>2. ASSUME NEW h \in Handles, Dropped(h) PROVE HostTypes'
  BY <1>2, DroppedTypes DEF Dropped, HostTypes, ArtifactTypeOK
<1> QED
  BY <1>1, <1>2, OpenedTypes, TornWriteTypes, WrittenTypes, PublishedTypes, AbortedTypes
     DEF HostEffect

LEMMA TypeStep ==
  TypeOK /\ StagingFilesAreOpenStreams /\ [Next]_vars => TypeOK' /\ StagingFilesAreOpenStreams'
<1> SUFFICES ASSUME TypeOK, StagingFilesAreOpenStreams, [Next]_vars
             PROVE  TypeOK' /\ StagingFilesAreOpenStreams'
  OBVIOUS
<1>1. CASE UNCHANGED vars
  BY <1>1 DEF vars, TypeOK, ArtifactTypeOK, StagingFilesAreOpenStreams
<1>2. CASE Next
  <2>1. HostEffect /\ ObjectEffect
    BY <1>2, NextIsHostEffect
  <2>2. HostTypes'
    BY <2>1, HostTypesStep DEF HostTypes, TypeOK
  <2>3. next[Exec] < MaxOpens => next[Exec] + 1 \in Handles
    BY ExecIsExecution, StagingAssumption DEF TypeOK, ArtifactTypeOK, Handles
  <2>4. handle' \in [Streams -> Handles \cup {0}] /\ running' \in BOOLEAN
    BY <2>1, <2>3 DEF ObjectEffect, Opened, TypeOK
  <2> QED
    BY <2>2, <2>4 DEF HostTypes, TypeOK
<1> QED
  BY <1>1, <1>2
-----------------------------------------------------------------------------
\* How an effect changes which streams are open: only Opened adds one.
LEMMA OpenHandlesShrink ==
  ASSUME HostTypes, HostEffect, ~ \E request \in OpenRequests : Opened(request)
  PROVE  /\ next' = next
         /\ \A h \in Handles : open'[Exec][h] # NoStream => open[Exec][h] # NoStream
<1>1. CASE UNCHANGED artifactVars
  BY <1>1 DEF artifactVars
<1>2. ASSUME NEW h \in Handles, TornWrite(h) \/ Dropped(h) \/ Published(h)
      PROVE  /\ next' = next
             /\ \A k \in Handles : open'[Exec][k] # NoStream => open[Exec][k] # NoStream
  BY <1>2, ExecIsExecution DEF TornWrite, Dropped, Published, Forget, HostTypes, ArtifactTypeOK
<1>3. ASSUME NEW h \in Handles, NEW chunk \in Chunks, Written(h, chunk)
      PROVE  /\ next' = next
             /\ \A k \in Handles : open'[Exec][k] # NoStream => open[Exec][k] # NoStream
  BY <1>3, ExecIsExecution DEF Written, IsOpen, HostTypes, ArtifactTypeOK
<1>4. CASE AbortOpenArtifacts(Exec)
  BY <1>4, ExecIsExecution DEF AbortOpenArtifacts, HostTypes, ArtifactTypeOK
<1> QED
  BY <1>1, <1>2, <1>3, <1>4 DEF HostEffect

LEMMA OpenedHandle ==
  ASSUME HostTypes, NEW request \in OpenRequests, Opened(request)
  PROVE  /\ next[Exec] \in Nat /\ next[Exec] + 1 \in Handles
         /\ next'[Exec] = next[Exec] + 1
         /\ \A h \in Handles : h # next[Exec] + 1 => open'[Exec][h] = open[Exec][h]
  BY ExecIsExecution, StagingAssumption DEF Opened, Handles, HostTypes, ArtifactTypeOK

\* A handle is handed out once, so two objects share one only when it is closed.
OwnerInv == HandlesInOrder /\ OpenStreamsHaveOneOwner /\ NothingOpenAfterRun

LEMMA OwnerStep ==
  TypeOK /\ StagingFilesAreOpenStreams /\ OwnerInv /\ [Next]_vars => OwnerInv'
<1> SUFFICES ASSUME TypeOK, StagingFilesAreOpenStreams, OwnerInv, [Next]_vars PROVE OwnerInv'
  OBVIOUS
<1> USE DEF OwnerInv, HandlesInOrder, OpenStreamsHaveOneOwner, NothingOpenAfterRun, IsOpen
<1>1. HostTypes /\ handle \in [Streams -> Handles \cup {0}] /\ next[Exec] \in Nat
  BY ExecIsExecution, StagingAssumption DEF HostTypes, TypeOK, ArtifactTypeOK
<1>2. CASE UNCHANGED vars
  BY <1>2 DEF vars
<1>3. CASE Next
  <2>1. HostEffect /\ ObjectEffect
    BY <1>3, NextIsHostEffect
  <2>2. CASE \E request \in OpenRequests : Opened(request)
    <3>1. PICK request \in OpenRequests : Opened(request)
      BY <2>2
    <3>2. /\ next[Exec] + 1 \in Handles
          /\ next'[Exec] = next[Exec] + 1
          /\ \A h \in Handles : h # next[Exec] + 1 => open'[Exec][h] = open[Exec][h]
      BY <1>1, <3>1, OpenedHandle
    <3>3. running' = running /\ running
      <4>1. ~ AbortOpenArtifacts(Exec)
        BY <1>1, <3>1, ExecIsExecution
           DEF Opened, AbortOpenArtifacts, HostTypes, ArtifactTypeOK
      <4> QED
        BY <2>1, <4>1 DEF ObjectEffect
    <3>4. \/ handle' = handle
          \/ \E s \in Streams : handle' = [handle EXCEPT ![s] = 0]
          \/ \E s \in Streams : handle' = [handle EXCEPT ![s] = next[Exec] + 1]
      BY <2>1 DEF ObjectEffect
    <3>5. \A h \in Handles : h > next'[Exec] => open'[Exec][h] = NoStream
      BY <1>1, <3>2, HandlesAreNatural
    <3>6. \A s \in Streams : handle[s] \in Nat /\ handle[s] <= next[Exec]
      BY <1>1, HandlesAreNatural
    <3>7. \A s \in Streams : handle'[s] <= next'[Exec]
      BY <1>1, <3>2, <3>4, <3>6
    <3>8. \A s, t \in Streams : s # t /\ handle'[s] = handle'[t] =>
             handle'[s] = 0 \/ (handle'[s] = handle[s] /\ handle'[t] = handle[t])
      BY <1>1, <3>2, <3>4, HandlesAreNatural
    <3>9. 0 \notin Handles
      BY HandlesAreNatural
    <3>10. ASSUME NEW s \in Streams, NEW t \in Streams, s # t, handle'[s] = handle'[t]
          PROVE  ~(handle'[s] \in Handles /\ open'[Exec][handle'[s]] # NoStream)
      <4>1. CASE handle'[s] = 0
        BY <3>9, <4>1
      <4>2. CASE handle'[s] = handle[s] /\ handle'[t] = handle[t]
        <5>1. ~(handle[s] \in Handles /\ open[Exec][handle[s]] # NoStream)
          BY <3>10, <4>2
        <5>2. handle[s] # next[Exec] + 1
          BY <1>1, <3>6
        <5> QED
          BY <3>2, <4>2, <5>1, <5>2
      <4> QED
        BY <3>8, <3>10, <4>1, <4>2
    <3> QED
      BY <3>3, <3>5, <3>7, <3>10
  <2>3. CASE ~ \E request \in OpenRequests : Opened(request)
    <3>1. /\ next' = next
          /\ \A h \in Handles : open'[Exec][h] # NoStream => open[Exec][h] # NoStream
      BY <1>1, <2>1, <2>3, OpenHandlesShrink
    <3>2. handle' = handle \/ \E s \in Streams : handle' = [handle EXCEPT ![s] = 0]
      BY <2>1, <2>3 DEF ObjectEffect
    <3>3. AbortOpenArtifacts(Exec) => \A h \in Handles : open'[Exec][h] = NoStream
      BY <1>1, ExecIsExecution DEF AbortOpenArtifacts, HostTypes, ArtifactTypeOK
    <3>4. ~running' => AbortOpenArtifacts(Exec)
      BY <2>1, <2>3 DEF ObjectEffect
    <3>5. 0 \notin Handles
      BY HandlesAreNatural
    <3>6. HandlesInOrder'
      BY <1>1, <3>1, <3>2
    <3>7. OpenStreamsHaveOneOwner'
      BY <1>1, <3>1, <3>2, <3>5
    <3> QED
      BY <3>3, <3>4, <3>6, <3>7
  <2> QED
    BY <2>2, <2>3
<1> QED
  BY <1>2, <1>3
-----------------------------------------------------------------------------
\* Opening adds one handle to those below the limit; nothing else adds any.
LEMMA BoundStep ==
  TypeOK /\ StagingFilesAreOpenStreams /\ HandlesInOrder /\ OpenStreamsBounded /\ [Next]_vars
    => OpenStreamsBounded'
<1> SUFFICES ASSUME TypeOK, StagingFilesAreOpenStreams, HandlesInOrder, OpenStreamsBounded,
                    [Next]_vars
             PROVE  OpenStreamsBounded'
  OBVIOUS
<1>1. HostTypes /\ OpenHandles(Exec) \subseteq Handles /\ IsFiniteSet(OpenHandles(Exec))
  BY HandlesAreNatural, FS_Subset DEF HostTypes, TypeOK, OpenHandles
<1>2. OpenStreamsBounded <=> Cardinality(OpenHandles(Exec)) <= MaxOpenStreams
  BY StreamAssumption DEF OpenStreamsBounded
<1>3. OpenStreamsBounded' <=> Cardinality(OpenHandles(Exec)') <= MaxOpenStreams
  BY StreamAssumption DEF OpenStreamsBounded
<1>4. Cardinality(OpenHandles(Exec)) \in Nat
  BY <1>1, FS_CardinalityType
<1>5. CASE OpenHandles(Exec)' \subseteq OpenHandles(Exec)
  <2>1. /\ Cardinality(OpenHandles(Exec)') <= Cardinality(OpenHandles(Exec))
        /\ IsFiniteSet(OpenHandles(Exec)')
    BY <1>1, <1>5, FS_Subset
  <2>2. Cardinality(OpenHandles(Exec)') \in Nat
    BY <2>1, FS_CardinalityType
  <2> QED
    BY <1>2, <1>3, <1>4, <2>1, <2>2, StagingAssumption
<1>6. ASSUME NEW request \in OpenRequests, Opened(request) PROVE OpenStreamsBounded'
  <2> DEFINE n == next[Exec] + 1
  <2>1. /\ n \in Handles /\ next[Exec] \in Nat
        /\ \A h \in Handles : h # n => open'[Exec][h] = open[Exec][h]
    BY <1>1, <1>6, OpenedHandle
  <2>2. n \notin OpenHandles(Exec)
    BY <2>1 DEF HandlesInOrder, OpenHandles
  <2>3. OpenHandles(Exec)' \subseteq OpenHandles(Exec) \cup {n}
    BY <2>1 DEF OpenHandles
  <2>4. /\ Cardinality(OpenHandles(Exec) \cup {n}) = Cardinality(OpenHandles(Exec)) + 1
        /\ IsFiniteSet(OpenHandles(Exec) \cup {n})
    BY <1>1, <2>2, FS_AddElement
  <2>5. /\ Cardinality(OpenHandles(Exec)') <= Cardinality(OpenHandles(Exec)) + 1
        /\ IsFiniteSet(OpenHandles(Exec)')
    BY <2>3, <2>4, FS_Subset
  <2>6. Cardinality(OpenHandles(Exec)') \in Nat
    BY <2>5, FS_CardinalityType
  <2>7. Cardinality(OpenHandles(Exec)) < MaxOpenStreams
    BY <1>4, <1>6, StagingAssumption DEF Opened, AtLimit
  <2> QED
    BY <1>3, <1>4, <2>5, <2>6, <2>7, StagingAssumption
<1>7. CASE UNCHANGED vars
  BY <1>5, <1>7 DEF vars, OpenHandles
<1>8. CASE Next
  <2>1. HostEffect
    BY <1>8, NextIsHostEffect
  <2>2. CASE ~ \E request \in OpenRequests : Opened(request)
    BY <1>1, <1>5, <2>1, <2>2, OpenHandlesShrink DEF OpenHandles
  <2> QED
    BY <1>6, <2>2
<1> QED
  BY <1>7, <1>8
-----------------------------------------------------------------------------
\* Without short writes a staging file holds exactly the hashed bytes.
LEMMA HashedStep ==
  ASSUME ShortWrites = FALSE, HostTypes, FilesAreHashed, HostEffect
  PROVE  FilesAreHashed'
<1> USE ExecIsExecution DEF FilesAreHashed
<1>1. CASE UNCHANGED artifactVars
  BY <1>1 DEF artifactVars
<1>2. ASSUME NEW request \in OpenRequests, Opened(request) PROVE FilesAreHashed'
  <2>1. next[Exec] + 1 \in Handles
    BY <1>2, OpenedHandle
  <2> QED
    BY <1>2, <2>1 DEF Opened, HostTypes, ArtifactTypeOK
<1>3. ASSUME NEW h \in Handles, TornWrite(h) \/ Dropped(h) \/ Published(h) PROVE FilesAreHashed'
  <2>1. Forget(Exec, h)
    BY <1>3 DEF TornWrite, Dropped, Published
  <2>2. \A k \in Handles : \/ open'[Exec][k] = NoStream
                           \/ /\ open'[Exec][k] = open[Exec][k]
                              /\ staging'[Exec][k] = staging[Exec][k]
    BY <2>1 DEF Forget, HostTypes, ArtifactTypeOK
  <2> QED
    BY <2>2
<1>4. ASSUME NEW h \in Handles, NEW chunk \in Chunks, Written(h, chunk) PROVE FilesAreHashed'
  <2>1. open[Exec][h] \in Stream /\ staging[Exec][h] = open[Exec][h].hashed
    BY <1>4, OpenStreamHasFile DEF Written, IsOpen
  <2>2. /\ open'[Exec][h].hashed = Append(open[Exec][h].hashed, chunk)
        /\ staging'[Exec][h] = Append(staging[Exec][h], chunk)
        /\ \A k \in Handles : k # h => /\ open'[Exec][k] = open[Exec][k]
                                       /\ staging'[Exec][k] = staging[Exec][k]
    BY <1>4, <2>1 DEF Written, Grown, HostTypes, ArtifactTypeOK, Stream
  <2> QED
    BY <2>1, <2>2
<1>5. CASE AbortOpenArtifacts(Exec)
  BY <1>5 DEF AbortOpenArtifacts, HostTypes, ArtifactTypeOK
<1> QED
  BY <1>1, <1>2, <1>3, <1>4, <1>5 DEF HostEffect

\* Only a commit publishes, and only effects of a commit change a file there.
LEMMA OnlyCommitPublishes ==
  ASSUME HostEffect, ~ \E h \in Handles : Published(h)
  PROVE  UNCHANGED <<published, committed>>
  BY DEF HostEffect, Opened, TornWrite, Dropped, Written, AbortOpenArtifacts, artifactVars

LEMMA ReceiptStep ==
  ASSUME HostTypes, FilesAreHashed, PublishedMatchesReceipt, HostEffect
  PROVE  PublishedMatchesReceipt'
<1>1. CASE ~ \E h \in Handles : Published(h)
  BY <1>1, OnlyCommitPublishes DEF PublishedMatchesReceipt
<1>2. ASSUME NEW h \in Handles, Published(h) PROVE PublishedMatchesReceipt'
  <2> DEFINE stream == open[Exec][h]
             receipt == [key |-> stream.request.key, sha |-> stream.hashed,
                         size |-> Len(stream.hashed)]
             n == Len(committed[Exec]) + 1
  <2>1. stream \in Stream /\ staging[Exec][h] = stream.hashed
    BY <1>2, OpenStreamHasFile DEF Published, IsOpen, FilesAreHashed
  <2>2. receipt \in Receipt
    BY <2>1 DEF Stream, Receipt, OpenRequest, Digests
  <2>3. /\ published' = [published EXCEPT ![stream.request.key] = stream.hashed]
        /\ committed' = [committed EXCEPT ![Exec] = Append(@, receipt)]
    BY <1>2, <2>1 DEF Published
  <2> HIDE DEF receipt
  <2>4. /\ n \in DOMAIN committed'[Exec] /\ committed'[Exec][n] = receipt
        /\ \A e \in Executions : \A i \in DOMAIN committed[e] :
             i \in DOMAIN committed'[e] /\ committed'[e][i] = committed[e][i]
    BY <2>2, <2>3, ExecIsExecution DEF HostTypes, ArtifactTypeOK
  <2> SUFFICES ASSUME NEW k \in Keys, published'[k] # NoFile
               PROVE  \E e \in Executions : \E i \in DOMAIN committed'[e] :
                        committed'[e][i] =
                          [key |-> k, sha |-> published'[k], size |-> Len(published'[k])]
    BY DEF PublishedMatchesReceipt
  <2>5. CASE k = stream.request.key
    <3>1. receipt = [key |-> k, sha |-> published'[k], size |-> Len(published'[k])]
      BY <2>3, <2>5 DEF receipt, HostTypes, ArtifactTypeOK
    <3> QED
      BY <2>4, <3>1, ExecIsExecution
  <2>6. CASE k # stream.request.key
    <3>1. published'[k] = published[k]
      BY <2>3, <2>6
    <3> QED
      BY <2>4, <3>1 DEF PublishedMatchesReceipt
  <2> QED
    BY <2>5, <2>6
<1> QED
  BY <1>1, <1>2
-----------------------------------------------------------------------------
IInv ==
  /\ TypeOK
  /\ StagingFilesAreOpenStreams
  /\ OwnerInv
  /\ OpenStreamsBounded

LEMMA IInvHolds == Spec => []IInv
<1>1. Init => IInv
  <2> SUFFICES ASSUME Init PROVE IInv
    OBVIOUS
  <2>1. TypeOK /\ StagingFilesAreOpenStreams
    BY TypeInit
  <2>2. OwnerInv
    BY ExecIsExecution
       DEF Init, ArtifactInit, OwnerInv, HandlesInOrder, OpenStreamsHaveOneOwner,
           NothingOpenAfterRun, IsOpen
  <2>3. \A e \in Executions : OpenHandles(e) = {}
    BY DEF Init, ArtifactInit, OpenHandles
  <2>4. OpenStreamsBounded
    BY <2>3, FS_EmptySet, StagingAssumption DEF OpenStreamsBounded
  <2> QED
    BY <2>1, <2>2, <2>4 DEF IInv
<1>2. IInv /\ [Next]_vars => IInv'
  BY TypeStep, OwnerStep, BoundStep DEF IInv, OwnerInv
<1> QED
  BY <1>1, <1>2, PTL DEF Spec

\* What holds besides when a failing write leaves no bytes behind.
WholeInv == FilesAreHashed /\ PublishedMatchesReceipt

LEMMA WholeInvHolds ==
  ASSUME ShortWrites = FALSE
  PROVE  Spec => []WholeInv
<1>1. Init => WholeInv
  BY ExecIsExecution DEF Init, ArtifactInit, WholeInv, FilesAreHashed, PublishedMatchesReceipt
<1>2. IInv /\ WholeInv /\ [Next]_vars => WholeInv'
  <2> SUFFICES ASSUME IInv, WholeInv, [Next]_vars PROVE WholeInv'
    OBVIOUS
  <2>1. CASE UNCHANGED vars
    BY <2>1 DEF vars, WholeInv, FilesAreHashed, PublishedMatchesReceipt
  <2>2. CASE Next
    BY <2>2, NextIsHostEffect, HashedStep, ReceiptStep DEF IInv, WholeInv, HostTypes, TypeOK
  <2> QED
    BY <2>1, <2>2
<1> QED
  BY <1>1, <1>2, IInvHolds, PTL DEF Spec

\* Every variable of the host and of the plugin's objects keeps its type.
THEOREM TypeCorrect == Spec => []TypeOK
<1>1. IInv => TypeOK
  BY DEF IInv
<1> QED
  BY <1>1, IInvHolds, PTL

\* localArtifactMaxOpenStreams is never exceeded.
THEOREM StreamLimit == Spec => []OpenStreamsBounded
<1>1. IInv => OpenStreamsBounded
  BY DEF IInv
<1> QED
  BY <1>1, IInvHolds, PTL

\* A staging file is there exactly as long as its stream is open, also when
\* writes, commits and renames fail.
THEOREM StagingExact == Spec => []StagingFilesAreOpenStreams
<1>1. IInv => StagingFilesAreOpenStreams
  BY DEF IInv
<1> QED
  BY <1>1, IInvHolds, PTL

\* Two ArtifactStream objects never share an open stream.
THEOREM OneOwner == Spec => []OpenStreamsHaveOneOwner
<1>1. IInv => OpenStreamsHaveOneOwner
  BY DEF IInv, OwnerInv
<1> QED
  BY <1>1, IInvHolds, PTL

\* abortOpenArtifacts leaves nothing partial behind.
THEOREM CleanAfterRun == Spec => []NothingStagedAfterRun
<1>1. IInv => NothingStagedAfterRun
  BY ExecIsExecution
     DEF IInv, OwnerInv, NothingOpenAfterRun, StagingFilesAreOpenStreams, NothingStagedAfterRun
<1> QED
  BY <1>1, IInvHolds, PTL

\* Without short writes every published file is the one its receipt describes.
THEOREM ReceiptsDescribeFiles ==
  ASSUME ShortWrites = FALSE
  PROVE  Spec => []PublishedMatchesReceipt
<1>1. WholeInv => PublishedMatchesReceipt
  BY DEF WholeInv
<1> QED
  BY <1>1, WholeInvHolds, PTL
-----------------------------------------------------------------------------
\* The refinement mapping of ArtifactStream, by name.
UploadOf(stream) == [key |-> stream.request.key, body |-> stream.hashed]
uploads == [h \in Handles |->
  IF open[Exec][h] = NoStream THEN NoStream ELSE UploadOf(open[Exec][h])]
receipts == [i \in DOMAIN committed[Exec] |->
  [key |-> committed[Exec][i].key, body |-> committed[Exec][i].sha]]

LEMMA UploadIsNotNothing ==
  ASSUME NEW stream \in Stream
  PROVE  /\ UploadOf(stream) \in [key: Keys, body: Digests]
         /\ UploadOf(stream) # NoStream
  BY UploadAssumption DEF UploadOf, Stream, OpenRequest

LEMMA OpenedIsBegin ==
  ASSUME HostTypes, HandlesInOrder, NEW request \in OpenRequests, Opened(request)
  PROVE  Store!StoreNext
<1> DEFINE n == next[Exec] + 1
           stream == [request |-> request, hashed |-> << >>, nextIndex |-> 0]
<1>1. n \in Handles /\ next[Exec] \in Nat
  BY OpenedHandle
<1>2. stream \in Stream
  BY StreamAssumption DEF Stream, Digests
<1>3. request.key \in Keys /\ UploadOf(stream) = [key |-> request.key, body |-> << >>]
  BY StreamAssumption DEF OpenRequest, UploadOf
<1>4. open' = [open EXCEPT ![Exec][n] = stream] /\ open[Exec][n] = NoStream
  BY <1>1 DEF Opened, HandlesInOrder
<1> HIDE DEF stream
<1>5. stream # NoStream
  BY <1>2, SentinelAssumption
<1>6. uploads' = [uploads EXCEPT ![n] = UploadOf(stream)] /\ uploads[n] = NoStream
  BY <1>1, <1>4, <1>5, ExecIsExecution DEF uploads, HostTypes, ArtifactTypeOK
<1>7. UNCHANGED <<published, committed>>
  BY DEF Opened
<1>8. \E k \in Keys : uploads' = [uploads EXCEPT ![n] = [key |-> k, body |-> << >>]]
  BY <1>3, <1>6
<1> QED
  BY <1>1, <1>6, <1>7, <1>8 DEF Store!StoreNext, Store!Begin, uploads, UploadOf

LEMMA ExtendedUpload ==
  ASSUME NEW k, NEW b, NEW chunk
  PROVE  [[key |-> k, body |-> b] EXCEPT !.body = Append(@, chunk)]
           = [key |-> k, body |-> Append(b, chunk)]
  OBVIOUS

LEMMA WrittenIsExtend ==
  ASSUME HostTypes, NEW h \in Handles, NEW chunk \in Chunks, Written(h, chunk)
  PROVE  Store!StoreNext
<1> DEFINE longer == Grown(open[Exec][h], chunk)
<1>1. open[Exec][h] \in Stream /\ longer \in Stream
  BY OpenStreamHasFile, WrittenStream DEF Written
<1>2. open' = [open EXCEPT ![Exec][h] = longer]
  BY <1>1, ExecIsExecution DEF Written, HostTypes, ArtifactTypeOK
<1>3. UploadOf(longer) = [UploadOf(open[Exec][h]) EXCEPT !.body = Append(@, chunk)]
  <2>1. /\ longer.request = open[Exec][h].request
        /\ longer.hashed = Append(open[Exec][h].hashed, chunk)
    BY <1>1 DEF Grown, Stream
  <2> HIDE DEF longer
  <2>2. UploadOf(longer) = [key |-> longer.request.key, body |-> longer.hashed]
    BY DEF UploadOf
  <2>3. UploadOf(open[Exec][h]) =
          [key |-> open[Exec][h].request.key, body |-> open[Exec][h].hashed]
    BY DEF UploadOf
  <2>4. [[key |-> open[Exec][h].request.key, body |-> open[Exec][h].hashed]
           EXCEPT !.body = Append(@, chunk)]
        = [key |-> open[Exec][h].request.key, body |-> Append(open[Exec][h].hashed, chunk)]
    BY ONLY ExtendedUpload
  <2> QED
    BY ONLY <2>1, <2>2, <2>3, <2>4
<1> HIDE DEF longer
<1>4. longer # NoStream /\ open[Exec][h] # NoStream
  BY <1>1, SentinelAssumption
<1>5. uploads[h] = UploadOf(open[Exec][h]) /\ uploads[h] # NoStream
  BY <1>1, <1>4, UploadIsNotNothing DEF uploads
<1>6. uploads' = [uploads EXCEPT ![h] = UploadOf(longer)]
  BY <1>2, <1>4, ExecIsExecution DEF uploads, HostTypes, ArtifactTypeOK
<1>7. uploads' = [uploads EXCEPT ![h].body = Append(@, chunk)]
  BY <1>3, <1>5, <1>6
<1>8. UNCHANGED <<published, committed>>
  BY DEF Written
<1> QED
  BY <1>5, <1>7, <1>8 DEF Store!StoreNext, Store!Extend, uploads, UploadOf
LEMMA DroppedIsDrop ==
  ASSUME HostTypes, NEW h \in Handles, Dropped(h)
  PROVE  Store!StoreNext
<1>1. uploads' = [u \in Handles |-> IF u \in {h} THEN NoStream ELSE uploads[u]]
  BY ExecIsExecution DEF Dropped, Forget, uploads, HostTypes, ArtifactTypeOK
<1>2. UNCHANGED <<published, committed>> /\ {h} \in SUBSET Handles
  BY DEF Dropped
<1> QED
  BY <1>1, <1>2 DEF Store!StoreNext, Store!Drop, uploads, UploadOf

LEMMA AbortedIsDrop ==
  ASSUME HostTypes, AbortOpenArtifacts(Exec)
  PROVE  Store!StoreNext
<1>1. uploads' = [u \in Handles |-> IF u \in Handles THEN NoStream ELSE uploads[u]]
  BY ExecIsExecution DEF AbortOpenArtifacts, uploads, HostTypes, ArtifactTypeOK
<1>2. UNCHANGED <<published, committed>> /\ Handles \in SUBSET Handles
  BY DEF AbortOpenArtifacts
<1> QED
  BY <1>1, <1>2 DEF Store!StoreNext, Store!Drop, uploads, UploadOf

LEMMA PublishedIsPublish ==
  ASSUME HostTypes, FilesAreHashed, NEW h \in Handles, Published(h)
  PROVE  Store!StoreNext
<1> DEFINE stream == open[Exec][h]
           receipt == [key |-> stream.request.key, sha |-> stream.hashed,
                       size |-> Len(stream.hashed)]
<1>1. stream \in Stream /\ stream # NoStream /\ staging[Exec][h] = stream.hashed
  BY OpenStreamHasFile DEF Published, IsOpen, FilesAreHashed
<1>2. uploads[h] = UploadOf(stream) /\ uploads[h] # NoStream
  BY <1>1, UploadIsNotNothing DEF uploads
<1>3. uploads' = [uploads EXCEPT ![h] = NoStream]
  BY ExecIsExecution DEF Published, Forget, uploads, HostTypes, ArtifactTypeOK
<1>4. published' = [published EXCEPT ![uploads[h].key] = uploads[h].body]
  BY <1>1, <1>2 DEF Published, UploadOf
<1>5. receipts' = Append(receipts, uploads[h])
  <2>1. receipt \in Receipt
    BY <1>1 DEF Receipt, Stream, OpenRequest, Digests
  <2>2. committed'[Exec] = Append(committed[Exec], receipt)
    BY ExecIsExecution DEF Published, HostTypes, ArtifactTypeOK
  <2>3. receipt.key = uploads[h].key /\ receipt.sha = uploads[h].body
    BY <1>2 DEF UploadOf
  <2>4. uploads[h] = [key |-> uploads[h].key, body |-> uploads[h].body]
    BY <1>2 DEF UploadOf
  <2> HIDE DEF receipt
  <2> DEFINE old == committed[Exec]
             n == Len(old) + 1
  <2>0. old \in Seq(Receipt)
    BY ExecIsExecution DEF HostTypes, ArtifactTypeOK
  <2>5. receipts = [i \in 1..Len(old) |-> [key |-> old[i].key, body |-> old[i].sha]]
    BY <2>0, <2>1 DEF receipts
  <2>6. /\ DOMAIN committed'[Exec] = 1..n
        /\ \A i \in 1..Len(old) : committed'[Exec][i] = old[i]
        /\ committed'[Exec][n] = receipt
    BY <2>0, <2>1, <2>2
  <2>7. receipts' = [i \in 1..n |-> IF i = n THEN uploads[h] ELSE receipts[i]]
    BY <2>3, <2>4, <2>5, <2>6 DEF receipts
  <2>8. Append(receipts, uploads[h]) = [i \in 1..n |-> IF i = n THEN uploads[h] ELSE receipts[i]]
    BY <2>0, <2>1, <2>5
  <2> QED
    BY <2>7, <2>8
<1> QED
  BY <1>2, <1>3, <1>4, <1>5 DEF Store!StoreNext, Store!Publish, uploads, receipts, UploadOf

\* Without short writes, artifact staging implements the abstract store: each
\* call is one step of it or none.
THEOREM StagingImplementsStore ==
  ASSUME ShortWrites = FALSE
  PROVE  Spec => ImplementsArtifactStore
<1>1. Init => Store!StoreInit
  BY ExecIsExecution DEF Init, ArtifactInit, Store!StoreInit
<1>2. IInv /\ WholeInv /\ [Next]_vars => [Store!StoreNext]_(Store!storeVars)
  <2> SUFFICES ASSUME IInv, WholeInv, [Next]_vars
               PROVE  Store!StoreNext \/ UNCHANGED Store!storeVars
    OBVIOUS
  <2>1. HostTypes /\ FilesAreHashed /\ HandlesInOrder
    BY DEF IInv, TypeOK, HostTypes, OwnerInv, WholeInv
  <2>2. CASE UNCHANGED <<open, published, committed>>
    BY <2>2 DEF Store!storeVars
  <2>3. CASE UNCHANGED vars
    BY <2>2, <2>3 DEF vars
  <2>4. CASE Next
    <3>1. HostEffect
      BY <2>4, NextIsHostEffect DEF IInv
    <3>2. ASSUME NEW h \in Handles, TornWrite(h) PROVE FALSE
      BY <3>2 DEF TornWrite
    <3> QED
      BY <2>1, <2>2, <3>1, <3>2, OpenedIsBegin, WrittenIsExtend, DroppedIsDrop, AbortedIsDrop,
         PublishedIsPublish
         DEF HostEffect, artifactVars
  <2> QED
    BY <2>3, <2>4
<1> QED
  BY <1>1, <1>2, IInvHolds, WholeInvHolds, PTL DEF Spec, ImplementsArtifactStore, Store!StoreSpec
=============================================================================
