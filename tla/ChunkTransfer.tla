---------------------------- MODULE ChunkTransfer ----------------------------
(***************************************************************************)
(* Uploads and downloads in chunks (src/sync/chunk-transfers.ts).  A fixed *)
(* pool of workers takes the chunks in order; after a failure no further   *)
(* chunk is begun and the transfer is rejected when the others have ended. *)
(* An upload becomes a file by one final request, sent under the SDK's     *)
(* lock for writes to the drive; that of an empty file takes no lock.      *)
(***************************************************************************)
EXTENDS Integers, FiniteSets

CONSTANTS Transfers,
          Nobody,
          MaxChunks,    \* bound on the chunks of a file
          Concurrency   \* CHUNK_CONCURRENCY

ASSUME ChunkAssumption ==
  Nobody \notin Transfers /\ MaxChunks \in Nat /\ Concurrency \in Nat \ {0}

VARIABLES
  transfer,  \* [Transfers -> how it stands]
  holder     \* who holds the lock for writes to the drive

chunkVars == <<transfer, holder>>

(* The program knows made only by the answer to the final request.          *)
NewTransfer(upload, chunks) ==
  [upload |-> upload, chunks |-> chunks, next |-> 0, busy |-> {}, landed |-> {},
   failed |-> FALSE, made |-> FALSE, phase |-> "chunks"]

ChunkInit ==
  /\ \E upload \in [Transfers -> BOOLEAN], chunks \in [Transfers -> 0 .. MaxChunks] :
       transfer = [t \in Transfers |-> NewTransfer(upload[t], chunks[t])]
  /\ holder = Nobody

In(t, phase) == transfer[t].phase = phase
Move(t, phase) == transfer' = [transfer EXCEPT ![t].phase = phase]

BeginChunk(t) ==
  /\ In(t, "chunks") /\ ~transfer[t].failed
  /\ transfer[t].next < transfer[t].chunks /\ Cardinality(transfer[t].busy) < Concurrency
  /\ transfer' = [transfer EXCEPT ![t].next = @ + 1, ![t].busy = @ \cup {transfer[t].next}]
  /\ UNCHANGED holder

Returned(t, i, fails) ==
  /\ In(t, "chunks") /\ i \in transfer[t].busy
  /\ transfer' = [transfer EXCEPT ![t].busy = @ \ {i},
                                  ![t].landed = IF fails THEN @ ELSE @ \cup {i},
                                  ![t].failed = @ \/ fails]
  /\ UNCHANGED holder

(* One attempt: a request that fails is not repeated. *)
UploadChunk(t, i, fails) == transfer[t].upload /\ Returned(t, i, fails)

(* The request fails, or the chunk is not as long as it should be. *)
DownloadChunk(t, i, fails) == ~transfer[t].upload /\ Returned(t, i, fails)

(* A mutation: what the other workers have under way is not waited for. *)
MutChunksEnd(t) ==
  /\ In(t, "chunks")
  /\ transfer[t].failed \/ (transfer[t].next = transfer[t].chunks /\ transfer[t].busy = {})

(* The pool is done when all its workers have returned. *)
ChunksEnd(t) ==
  /\ In(t, "chunks") /\ transfer[t].busy = {}
  /\ transfer[t].failed \/ transfer[t].next = transfer[t].chunks

EndDownload(t) ==
  /\ ~transfer[t].upload /\ ChunksEnd(t)
  /\ Move(t, IF transfer[t].failed THEN "rejected" ELSE "resolved")
  /\ UNCHANGED holder

SealUpload(t) ==
  /\ transfer[t].upload /\ transfer[t].chunks > 0 /\ ChunksEnd(t)
  /\ Move(t, IF transfer[t].failed THEN "rejected" ELSE "lock")
  /\ UNCHANGED holder

SealEmpty(t) ==
  /\ transfer[t].upload /\ transfer[t].chunks = 0 /\ In(t, "chunks")
  /\ Move(t, "check")
  /\ UNCHANGED holder

AcquireLock(t) ==
  /\ In(t, "lock") /\ holder = Nobody
  /\ holder' = t /\ Move(t, "check")

(* A lock whose release fails is left to expire on the drive. *)
Released(t) == holder' = IF holder = t THEN Nobody ELSE holder

(* beforeCommit, and the final request: its answer may be lost. *)
CheckCommit(t, passes) ==
  /\ In(t, "check")
  /\ Move(t, IF passes THEN "commit" ELSE "rejected")
  /\ IF passes THEN UNCHANGED holder ELSE Released(t)

CommitUpload(t, made, answered) ==
  /\ In(t, "commit") /\ (answered => made)
  /\ transfer' = [transfer EXCEPT ![t].made = made,
                                  ![t].phase = IF answered THEN "resolved" ELSE "rejected"]
  /\ Released(t)

ChunkNext ==
  \E t \in Transfers :
    \/ BeginChunk(t) \/ EndDownload(t) \/ SealUpload(t) \/ SealEmpty(t) \/ AcquireLock(t)
    \/ \E i \in transfer[t].busy, fails \in BOOLEAN :
         UploadChunk(t, i, fails) \/ DownloadChunk(t, i, fails)
    \/ \E passes \in BOOLEAN : CheckCommit(t, passes)
    \/ \E made, answered \in BOOLEAN : CommitUpload(t, made, answered)

-----------------------------------------------------------------------------
(* A file is made of all its chunks, whatever its transfer reports; one     *)
(* that reports success has them all; a transfer is over only when none of  *)
(* its requests is under way, and then holds no lock; and two files of at   *)
(* least a chunk are never made at once (chunk-transfers.ts:180-258).       *)
Whole(t) == transfer[t].landed = 0 .. transfer[t].chunks - 1
Over(t)  == transfer[t].phase \in {"resolved", "rejected"}

TransfersAreWhole ==
  \A t \in Transfers :
    /\ transfer[t].made => Whole(t)
    /\ In(t, "resolved") => Whole(t) /\ (transfer[t].upload => transfer[t].made)
    /\ Over(t) => transfer[t].busy = {} /\ holder # t
    /\ In(t, "commit") /\ transfer[t].chunks > 0 => holder = t
=============================================================================
