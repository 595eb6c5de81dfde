-------------------------- MODULE LuaPipelineProofs --------------------------
(***************************************************************************)
(* Proofs about LuaPipeline, for any pipelines, files, pieces and sizes.   *)
(***************************************************************************)
EXTENDS LuaPipeline, TLAPS

(* What the upload buffer has at any time.  NeighboursDiffer needs          *)
(* LastChunkIsLast: a new chunk is told from the last one by way of the     *)
(* offset.                                                                  *)
UploadInv ==
  /\ upload_chunks \in Seq(Chunks)
  /\ last_chunk \in Nat
  /\ LastChunkIsLast
  /\ NeighboursDiffer

(* A message leaves such an upload, with the last chunk where the offset    *)
(* says (the assertion in handle_lua_upload).                               *)
LEMMA CollectedKeeps ==
  ASSUME UploadInv, NEW f \in Files, NEW d \in Payloads
  PROVE  LET upload == Collected(f, d)
         IN  /\ upload.chunks \in Seq(Chunks)
             /\ upload.last \in Nat
             /\ upload.chunks # <<>> => upload.last = Len(upload.chunks)
             /\ \A i \in 1 .. Len(upload.chunks) - 1 :
                  upload.chunks[i].filename # upload.chunks[i + 1].filename
<1> DEFINE upload == Collected(f, d)
           new == [filename |-> f, data |-> d]
<1>1. d \in Seq(Pieces)
  <2>1. d = <<>> \/ \E x \in Pieces : d = <<x>>
    BY DEF Payloads
  <2>2. ASSUME NEW x \in Pieces PROVE <<x>> \in Seq(Pieces)
    BY <2>2
  <2>3. <<>> \in Seq(Pieces)
    OBVIOUS
  <2> QED
    BY <2>1, <2>2, <2>3
<1>2. new \in Chunks
  BY <1>1 DEF Chunks
<1>3. CASE Continues(f)
  <2> DEFINE longer == [upload_chunks EXCEPT ![last_chunk].data = @ \o d]
  <2>1. last_chunk = Len(upload_chunks) /\ last_chunk \in 1 .. Len(upload_chunks)
    BY <1>3 DEF Continues, UploadInv, LastChunkIsLast
  <2>2. upload_chunks[last_chunk] \in Chunks
    BY <2>1 DEF UploadInv
  <2>3. upload_chunks[last_chunk].data \o d \in Seq(Pieces)
    BY <2>2, <1>1 DEF Chunks
  <2>4. [upload_chunks[last_chunk] EXCEPT !.data = @ \o d] \in Chunks
    BY <2>2, <2>3 DEF Chunks
  <2>5. longer \in Seq(Chunks) /\ Len(longer) = Len(upload_chunks)
    BY <2>1, <2>4 DEF UploadInv
  <2>6. \A i \in 1 .. Len(upload_chunks) : longer[i].filename = upload_chunks[i].filename
    <3> TAKE i \in 1 .. Len(upload_chunks)
    <3>1. upload_chunks[i] \in Chunks
      BY DEF UploadInv
    <3> QED
      BY <3>1, <2>1 DEF UploadInv, Chunks
  <2>7. \A i \in 1 .. Len(longer) - 1 : longer[i].filename # longer[i + 1].filename
    <3> TAKE i \in 1 .. Len(longer) - 1
    <3>1. i \in 1 .. Len(upload_chunks) /\ i + 1 \in 1 .. Len(upload_chunks)
      BY <2>5 DEF UploadInv
    <3>2. upload_chunks[i].filename # upload_chunks[i + 1].filename
      BY <2>5 DEF UploadInv, NeighboursDiffer
    <3> QED
      BY <3>1, <3>2, <2>6
  <2>8. upload.chunks = longer /\ upload.last = last_chunk
    BY <1>3 DEF Collected
  <2> HIDE DEF longer
  <2> QED
    BY <2>1, <2>5, <2>7, <2>8 DEF UploadInv
<1>4. CASE ~Continues(f) /\ d # <<>>
  <2>1. upload.chunks = Append(upload_chunks, new) /\ upload.last = Len(upload_chunks) + 1
    BY <1>4 DEF Collected
  <2>2. Append(upload_chunks, new) \in Seq(Chunks)
        /\ Len(Append(upload_chunks, new)) = Len(upload_chunks) + 1
        /\ Len(upload_chunks) \in Nat
    BY <1>2 DEF UploadInv
  <2>3. \A i \in 1 .. Len(upload_chunks) :
          Append(upload_chunks, new)[i].filename # Append(upload_chunks, new)[i + 1].filename
    <3> TAKE i \in 1 .. Len(upload_chunks)
    <3>1. CASE i = Len(upload_chunks)
      <4>1. last_chunk = i
        BY <3>1 DEF UploadInv, LastChunkIsLast
      <4>2. upload_chunks[i].filename # f
        BY <4>1, <1>4 DEF Continues, UploadInv
      <4> QED
        BY <4>2, <3>1 DEF UploadInv
    <3>2. CASE i # Len(upload_chunks)
      <4>1. i \in 1 .. Len(upload_chunks) - 1
        BY <3>2 DEF UploadInv
      <4>2. upload_chunks[i].filename # upload_chunks[i + 1].filename
        BY <4>1 DEF UploadInv, NeighboursDiffer
      <4> QED
        BY <4>1, <4>2 DEF UploadInv
    <3> QED
      BY <3>1, <3>2
  <2> QED
    BY <2>1, <2>2, <2>3
<1>5. CASE ~Continues(f) /\ d = <<>>
  BY <1>5 DEF Collected, UploadInv, LastChunkIsLast, NeighboursDiffer
<1> QED
  BY <1>3, <1>4, <1>5

LEMMA UploadInit == Init => UploadInv
  BY DEF Init, UploadInv, LastChunkIsLast, NeighboursDiffer

LEMMA UploadNext == UploadInv /\ [Next]_vars => UploadInv'
<1> SUFFICES ASSUME UploadInv, [Next]_vars PROVE UploadInv'
  OBVIOUS
<1> USE DEF uploadVars
(* Most steps keep the buffer, or empty it and keep the offset. *)
<1>1. ASSUME UNCHANGED uploadVars PROVE UploadInv'
  BY <1>1 DEF UploadInv, LastChunkIsLast, NeighboursDiffer
<1>2. ASSUME upload_chunks' = <<>>, last_chunk' \in Nat PROVE UploadInv'
  BY <1>2 DEF UploadInv, LastChunkIsLast, NeighboursDiffer
<1>3. ASSUME NEW name \in Pipelines \cup {NULL}, PipelineSet(name) PROVE UploadInv'
  <2>1. last_chunk' = last_chunk /\ (upload_chunks' = <<>> \/ UNCHANGED uploadVars)
    BY <1>3 DEF PipelineSet, LuaFinish, LuaInit, CleanupLuaUpload
  <2> QED
    BY <2>1, <1>1, <1>2 DEF UploadInv
<1>4. ASSUME NEW f \in Files, NEW d \in Payloads, NEW more \in BOOLEAN, NEW force \in BOOLEAN,
             HandleLuaUpload(f, d, more, force)
      PROVE  UploadInv'
  <2>1. CASE UploadRejected(d)
    BY <2>1, <1>2 DEF UploadRejected, CleanupLuaUpload, UploadInv
  <2>2. CASE UploadAccepted(f, d, more, force)
    <3>1. last_chunk' = Collected(f, d).last
          /\ (upload_chunks' = Collected(f, d).chunks \/ upload_chunks' = <<>>)
      BY <2>2 DEF UploadAccepted, CommitLuaUpload, CleanupLuaUpload
    <3>2. last_chunk' \in Nat
      BY <3>1, CollectedKeeps
    <3>3. CASE upload_chunks' = Collected(f, d).chunks
      BY <3>1, <3>3, CollectedKeeps DEF UploadInv, LastChunkIsLast, NeighboursDiffer
    <3> QED
      BY <3>1, <3>2, <3>3, <1>2
  <2> QED
    BY <1>4, <2>1, <2>2 DEF HandleLuaUpload
<1>5. ASSUME NEW t \in DOMAIN tables, TableAdd(t) PROVE UploadInv'
  BY <1>5, <1>1 DEF TableAdd
<1>6. ASSUME NEW t \in DOMAIN tables, NEW cookie \in 1 .. MAX_COOKIE, TableDelete(t, cookie)
      PROVE  UploadInv'
  BY <1>6, <1>1 DEF TableDelete
<1>7. CASE UNCHANGED vars
  BY <1>7, <1>1 DEF vars
<1> QED
  BY <1>3, <1>4, <1>5, <1>6, <1>7 DEF Next

LEMMA UploadInvariant == Spec => []UploadInv
  BY UploadInit, UploadNext, PTL DEF Spec

(* The assertion of handle_lua_upload: the chunk that a message extends is  *)
(* the last one, although the offset outlives commits and switches.         *)
THEOREM LastChunkCorrect == Spec => []LastChunkIsLast
<1>1. UploadInv => LastChunkIsLast
  BY DEF UploadInv
<1> QED
  BY <1>1, UploadInvariant, PTL

(* Successive messages for one file make one chunk, in every upload         *)
(* (handle_lua_upload).                                                     *)
THEOREM NeighboursCorrect == Spec => []NeighboursDiffer
<1>1. UploadInv => NeighboursDiffer
  BY DEF UploadInv
<1> QED
  BY <1>1, UploadInvariant, PTL

(* A skipped commit never leaves other code running: the VM has run the     *)
(* code of the checksum or nothing (commit_lua_upload, pipeline_set).       *)
THEOREM ChecksumCorrect == Spec => []RunsChecksumOrNothing
<1>1. Init => RunsChecksumOrNothing
  BY DEF Init, RunsChecksumOrNothing
<1>2. RunsChecksumOrNothing /\ [Next]_vars => RunsChecksumOrNothing'
  <2> SUFFICES ASSUME RunsChecksumOrNothing, [Next]_vars PROVE RunsChecksumOrNothing'
    OBVIOUS
  <2>1. ASSUME UNCHANGED <<vm, checksum>> PROVE RunsChecksumOrNothing'
    BY <2>1 DEF RunsChecksumOrNothing
  <2>2. ASSUME NEW name \in Pipelines \cup {NULL}, PipelineSet(name) PROVE RunsChecksumOrNothing'
    <3>1. checksum' = checksum /\ (vm' = <<>> \/ vm' = vm)
      BY <2>2 DEF PipelineSet, LuaFinish, LuaInit
    <3> QED
      BY <3>1 DEF RunsChecksumOrNothing
  <2>3. ASSUME NEW f \in Files, NEW d \in Payloads, NEW more \in BOOLEAN, NEW force \in BOOLEAN,
               HandleLuaUpload(f, d, more, force)
        PROVE  RunsChecksumOrNothing'
    <3>1. ASSUME NEW code, RunChunks(code) PROVE checksum' \in {vm', <<>>}
      BY <3>1 DEF RunChunks
    <3>2. UNCHANGED <<vm, checksum>> \/ RunChunks(Collected(f, d).chunks)
      BY <2>3 DEF HandleLuaUpload, UploadRejected, UploadAccepted, CommitLuaUpload
    <3> QED
      BY <2>1, <3>1, <3>2 DEF RunsChecksumOrNothing
  <2>4. ASSUME NEW t \in DOMAIN tables, TableAdd(t) PROVE RunsChecksumOrNothing'
    BY <2>4, <2>1 DEF TableAdd
  <2>5. ASSUME NEW t \in DOMAIN tables, NEW cookie \in 1 .. MAX_COOKIE, TableDelete(t, cookie)
        PROVE  RunsChecksumOrNothing'
    BY <2>5, <2>1 DEF TableDelete
  <2>6. CASE UNCHANGED vars
    BY <2>6, <2>1 DEF vars
  <2> QED
    BY <2>2, <2>3, <2>4, <2>5, <2>6 DEF Next
<1> QED
  BY <1>1, <1>2, PTL DEF Spec
=============================================================================
