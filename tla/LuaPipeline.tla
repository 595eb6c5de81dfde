----------------------------- MODULE LuaPipeline -----------------------------
(***************************************************************************)
(* The life of the Lua pipeline: pipeline.c (choice of the pipeline),      *)
(* pipeline_lua.c (upload and commit of code, reset of the VM) and         *)
(* table.c (gentables that the code registers).                            *)
(*                                                                         *)
(* Code is uploaded in messages, each with a file name and a piece of data *)
(* (possibly none); a chunk collects the consecutive pieces of one file.   *)
(* What Lua code computes is left out, except that chunks may fail and     *)
(* that they register tables.  A checksum stands for the code it is the    *)
(* hash of: collisions of the hash are left out, and an empty upload has   *)
(* checksum 0.                                                             *)
(***************************************************************************)
EXTENDS Integers, Sequences, SequencesExt

CONSTANTS
  Pipelines,          \* registered pipelines
  LUA,                \* the name of the Lua pipeline
  NULL,               \* no pipeline
  Files,              \* file names
  Pieces,             \* pieces of code, of one byte each
  Broken,             \* pieces that do not parse or raise an error
  Registers,          \* how many gentables the code of a file registers
  CHUNK_HEADER,       \* sizeof(struct upload_chunk)
  MAX_UPLOAD_SIZE,
  MAX_COOKIE          \* bound on the number of entries added to a table

ASSUME LuaAssumption ==
  /\ LUA \in Pipelines
  /\ NULL \notin Pipelines
  /\ Broken \subseteq Pieces
  /\ Registers \in [Files -> Nat]
  /\ CHUNK_HEADER \in Nat
  /\ MAX_UPLOAD_SIZE \in Nat
  /\ MAX_COOKIE \in Nat

VARIABLES
  current_pipeline,
  vm,                 \* the chunks that the VM has executed
  checksum,           \* the code with this checksum (<<>> for 0)
  upload_chunks,      \* chunks uploaded and not yet committed
  upload_length,      \* their length in bytes
  last_chunk,         \* last_uploaded_chunk_offset, as an index
  tables,             \* list of registered gentables
  closed_call         \* history: a callback has run in a closed VM

uploadVars == <<upload_chunks, upload_length, last_chunk>>
vars == <<current_pipeline, vm, checksum, uploadVars, tables, closed_call>>

Chunks == [filename : Files, data : Seq(Pieces)]

(* Every variable has its type; a cookie in use was handed out before.     *)
TypeOK ==
  /\ current_pipeline \in Pipelines \cup {NULL}
  /\ vm \in Seq(Chunks)
  /\ checksum \in Seq(Chunks)
  /\ upload_chunks \in Seq(Chunks)
  /\ upload_length \in Nat
  /\ last_chunk \in Nat
  /\ \A t \in DOMAIN tables :
       /\ tables[t].next_cookie \in 1 .. MAX_COOKIE + 1
       /\ tables[t].entries \subseteq 1 .. tables[t].next_cookie - 1
  /\ closed_call \in BOOLEAN

-----------------------------------------------------------------------------
(* Gentables.                                                               *)

(* Mutant: no test of "resetting".                                          *)
AlwaysCallsLua(resetting) == TRUE

(* table_delete calls into the VM unless the tables are being reset.        *)
DeleteCallsLua(resetting) == ~resetting

(* The calls of table_delete when pipeline_lua_table_reset unregisters the  *)
(* tables with their entries; "closed" tells whether their VM is closed by  *)
(* then.                                                                    *)
TableReset(closed) ==
  closed_call' =
    \/ closed_call
    \/ closed /\ DeleteCallsLua(TRUE) /\ \E t \in DOMAIN tables : tables[t].entries # {}

(* pipeline_lua_table_register, n times in a new VM.                        *)
Registered(n) == [t \in 1 .. n |-> [next_cookie |-> 1, entries |-> {}]]

(* table_add of values that parse: the cookie is used up even if the Lua    *)
(* code fails, and then there is no entry.                                  *)
TableAdd(t) ==
  /\ t \in DOMAIN tables
  /\ tables[t].next_cookie <= MAX_COOKIE
  /\ \E added \in {{}, {tables[t].next_cookie}} :
       tables' = [tables EXCEPT ![t].next_cookie = @ + 1,
                                ![t].entries = @ \cup added]
  /\ UNCHANGED <<current_pipeline, vm, checksum, uploadVars, closed_call>>

(* table_delete outside a reset, when the Lua code succeeds (an entry whose *)
(* deletion fails stays).                                                   *)
TableDelete(t, cookie) ==
  /\ t \in DOMAIN tables
  /\ cookie \in tables[t].entries
  /\ tables' = [tables EXCEPT ![t].entries = @ \ {cookie}]
  /\ UNCHANGED <<current_pipeline, vm, checksum, uploadVars, closed_call>>

-----------------------------------------------------------------------------
(* Upload and commit.                                                       *)

(* The first chunk that fails is the i-th.                                  *)
FailsAt(code, i) ==
  /\ Range(code[i].data) \cap Broken # {}
  /\ \A j \in 1 .. i - 1 : Range(code[j].data) \cap Broken = {}

(* How many tables the first n chunks register.                             *)
TablesOf(code, n) ==
  FoldLeft(LAMBDA sum, chunk : sum + Registers[chunk.filename], 0, SubSeq(code, 1, n))

(* Mutant: checksum is not cleared before the code runs.                    *)
RunChunksKeepingChecksum(code) ==
  \/ /\ \A i \in DOMAIN code : ~FailsAt(code, i)
     /\ vm' = code
     /\ checksum' = code
     /\ tables' = Registered(TablesOf(code, Len(code)))
  \/ \E i \in DOMAIN code : \E n \in 0 .. Registers[code[i].filename] :
       /\ FailsAt(code, i)
       /\ vm' = SubSeq(code, 1, i)
       /\ checksum' = checksum
       /\ tables' = Registered(TablesOf(code, i - 1) + n)

(* The loop over the chunks in commit_lua_upload, in a new VM: it stops at  *)
(* a chunk that does not load or raises an error, which may have registered *)
(* some of its tables.                                                      *)
RunChunks(code) ==
  \/ /\ \A i \in DOMAIN code : ~FailsAt(code, i)
     /\ vm' = code
     /\ checksum' = code
     /\ tables' = Registered(TablesOf(code, Len(code)))
  \/ \E i \in DOMAIN code : \E n \in 0 .. Registers[code[i].filename] :
       /\ FailsAt(code, i)
       /\ vm' = SubSeq(code, 1, i)
       /\ checksum' = <<>>
       /\ tables' = Registered(TablesOf(code, i - 1) + n)

(* cleanup_lua_upload.  The offset of the last chunk is left alone.         *)
CleanupLuaUpload ==
  /\ upload_chunks' = <<>>
  /\ upload_length' = 0

(* reset_lua: the tables go before their VM is closed.  RunChunks says what *)
(* the new VM runs.                                                         *)
ResetLua == TableReset(FALSE)

(* commit_lua_upload of the chunks in code.                                 *)
CommitLuaUpload(code, force) ==
  /\ \/ /\ ~force /\ checksum = code
        /\ UNCHANGED <<vm, checksum, tables, closed_call>>
     \/ /\ force \/ checksum # code
        /\ ResetLua
        /\ RunChunks(code)
  /\ CleanupLuaUpload

(* Mutant: the header of a new chunk is not counted.                        *)
TooLongWithoutHeader(bytes) == upload_length + bytes > MAX_UPLOAD_SIZE

TooLong(bytes) == upload_length + CHUNK_HEADER + bytes > MAX_UPLOAD_SIZE

(* The message is for the file of the last uploaded chunk.                  *)
Continues(f) ==
  /\ last_chunk \in DOMAIN upload_chunks
  /\ upload_chunks[last_chunk].filename = f

(* Mutant: the offset of the last chunk is set only for the first one.      *)
CollectedAtFirst(f, d) ==
  IF Continues(f)
  THEN [chunks |-> [upload_chunks EXCEPT ![last_chunk].data = @ \o d],
        length |-> upload_length + Len(d),
        last |-> last_chunk]
  ELSE [chunks |-> Append(upload_chunks, [filename |-> f, data |-> d]),
        length |-> upload_length + CHUNK_HEADER + Len(d),
        last |-> 1]

(* The upload with the data d of a message for file f.                      *)
Collected(f, d) ==
  IF Continues(f)
  THEN [chunks |-> [upload_chunks EXCEPT ![last_chunk].data = @ \o d],
        length |-> upload_length + Len(d),
        last |-> last_chunk]
  ELSE IF d # <<>>
  THEN [chunks |-> Append(upload_chunks, [filename |-> f, data |-> d]),
        length |-> upload_length + CHUNK_HEADER + Len(d),
        last |-> Len(upload_chunks) + 1]
  ELSE [chunks |-> upload_chunks, length |-> upload_length, last |-> last_chunk]

(* handle_lua_upload.                                                       *)
UploadRejected(d) ==
  /\ TooLong(Len(d))
  /\ CleanupLuaUpload
  /\ UNCHANGED <<last_chunk, vm, checksum, tables, closed_call>>

UploadAccepted(f, d, more, force) ==
  LET upload == Collected(f, d) IN
  /\ ~TooLong(Len(d))
  /\ last_chunk' = upload.last
  /\ \/ /\ more
        /\ upload_chunks' = upload.chunks
        /\ upload_length' = upload.length
        /\ UNCHANGED <<vm, checksum, tables, closed_call>>
     \/ /\ ~more
        /\ CommitLuaUpload(upload.chunks, force)

HandleLuaUpload(f, d, more, force) ==
  /\ current_pipeline = LUA
  /\ UploadRejected(d) \/ UploadAccepted(f, d, more, force)
  /\ UNCHANGED current_pipeline

-----------------------------------------------------------------------------
(* Choice of the pipeline.                                                  *)

(* pipeline_lua_finish: the VM is closed before its tables are reset.       *)
LuaFinish ==
  /\ TableReset(TRUE)
  /\ tables' = <<>>
  /\ vm' = <<>>
  /\ CleanupLuaUpload

(* pipeline_lua_init: reset_lua finds no VM and starts one with only the    *)
(* built-in code.                                                           *)
LuaInit ==
  /\ vm' = <<>>
  /\ upload_chunks' = <<>>
  /\ upload_length' = 0
  /\ UNCHANGED <<tables, closed_call>>

(* pipeline_set of a registered name, or of NULL.                           *)
PipelineSet(name) ==
  /\ \/ /\ current_pipeline = LUA /\ name # LUA
        /\ LuaFinish
     \/ /\ current_pipeline # LUA /\ name = LUA
        /\ LuaInit
     \/ /\ current_pipeline = LUA <=> name = LUA
        /\ UNCHANGED <<tables, vm, upload_chunks, upload_length, closed_call>>
  /\ current_pipeline' = name
  /\ UNCHANGED <<checksum, last_chunk>>

-----------------------------------------------------------------------------
Init ==
  /\ current_pipeline = NULL
  /\ vm = <<>>
  /\ checksum = <<>>
  /\ upload_chunks = <<>>
  /\ upload_length = 0
  /\ last_chunk = 0
  /\ tables = <<>>
  /\ closed_call = FALSE

Payloads == {<<>>} \cup {<<x>> : x \in Pieces}

Next ==
  \/ \E name \in Pipelines \cup {NULL} : PipelineSet(name)
  \/ \E f \in Files, d \in Payloads, more, force \in BOOLEAN :
       HandleLuaUpload(f, d, more, force)
  \/ \E t \in DOMAIN tables : TableAdd(t)
  \/ \E t \in DOMAIN tables, cookie \in 1 .. MAX_COOKIE : TableDelete(t, cookie)

Spec == Init /\ [][Next]_vars

-----------------------------------------------------------------------------
(* Properties.                                                              *)

(* The bytes that a sequence of chunks takes.                               *)
Bytes(code) ==
  FoldLeft(LAMBDA n, chunk : n + CHUNK_HEADER + Len(chunk.data), 0, code)

(* The uploaded code stays within MAX_UPLOAD_SIZE, headers included: the    *)
(* test at the head of handle_lua_upload bounds every way through it.       *)
UploadBounded ==
  /\ TypeOK
  /\ upload_length = Bytes(upload_chunks)
  /\ upload_length <= MAX_UPLOAD_SIZE

(* The assertion in handle_lua_upload, and more: the chunk that a message   *)
(* of the same file extends is the last one, although a stale offset        *)
(* survives every commit and every change of the pipeline.                  *)
LastChunkIsLast == upload_chunks # <<>> => last_chunk = Len(upload_chunks)

(* The Concatenate test: successive messages for one file make one chunk.   *)
NeighboursDiffer ==
  \A i \in 1 .. Len(upload_chunks) - 1 :
    upload_chunks[i].filename # upload_chunks[i + 1].filename

(* A commit of some code that is skipped because its checksum matches never *)
(* leaves other code running: whatever failed, was forced or was switched   *)
(* before, the VM has run the code of the checksum or none at all.          *)
RunsChecksumOrNothing == checksum # <<>> => vm \in {checksum, <<>>}

(* No callback of a gentable runs in a closed VM, although                  *)
(* pipeline_lua_finish closes the VM before the tables and their entries    *)
(* are removed.                                                             *)
NoCallIntoClosedVM == ~closed_call

(* "Hash of the currently running code" (the comment on checksum), while    *)
(* the Lua pipeline is the current one.                                     *)
ChecksumOfRunningCode ==
  current_pipeline = LUA /\ checksum # <<>> => vm = checksum
=============================================================================
