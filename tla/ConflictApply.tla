--------------------------- MODULE ConflictApply ----------------------------
(***************************************************************************)
(* The application of an approved result (src/sync/conflict-apply.ts):     *)
(* the approval is stored, then the drive is written, then the vault, then *)
(* the history, then the reviewed copies are removed, and only then is the *)
(* record deleted.  Every write follows a check that what it replaces is   *)
(* what was reviewed or is already the result, and a restart anywhere in   *)
(* between leaves a record that a later pass resumes or reviews anew.      *)
(***************************************************************************)
EXTENDS ConflictStore

Working(p, step) == op.path = p /\ At({"apply", "resume"}, step)

Result(p) == review[p].result

Acceptable(p, l) ==
  \/ l = review[p].at.local
  \/ review[p].approved /\ l = Result(p)
AcceptableRemote(p, u) ==
  \/ u = review[p].at.remote
  \/ review[p].approved /\ Hash(u) = Result(p)

-----------------------------------------------------------------------------
(* Who asks for it *)

(* The user approves any bytes, or the deletion, for the revision on screen. *)
StartApply(p, bytes) ==
  /\ op = NoOp /\ Known(review[p]) /\ shown /\ Act
  /\ op' = [NoOp EXCEPT !.kind = "apply", !.path = p, !.step = "begin", !.bytes = bytes]
  /\ UNCHANGED <<disks, stores, shown>>

(* A pass meets the record: SyncExecutor.execute. *)
StartResume(p) ==
  /\ op = NoOp /\ Known(review[p])
  /\ op' = [NoOp EXCEPT !.kind = "resume", !.path = p,
                        !.step = IF review[p].approved THEN "resume" ELSE "capture"]
  /\ UNCHANGED <<disks, stores, shown, spent>>

(* A mutation: an application that no longer fits is left as it is. *)
MutResumeCheck(p) ==
  /\ Working(p, "resume")
  /\ IF Acceptable(p, local[p]) /\ AcceptableRemote(p, remote[p])
     THEN op' = [op EXCEPT !.step = "begin", !.bytes = Result(p)]
     ELSE Leave
  /\ UNCHANGED <<disks, stores, shown, spent>>

(* resumeConflict: sides that are neither reviewed nor done are captured. *)
ResumeCheck(p) ==
  /\ Working(p, "resume")
  /\ IF Acceptable(p, local[p]) /\ AcceptableRemote(p, remote[p])
     THEN op' = [op EXCEPT !.step = "begin", !.bytes = Result(p)]
     ELSE Goto("capture")
  /\ UNCHANGED <<disks, stores, shown, spent>>

(* ConflictReviewRequiredError: a pass captures the path, the user is told. *)
ReviewRequired == IF op.kind = "resume" THEN Goto("capture") ELSE Leave

-----------------------------------------------------------------------------
(* applyConflict: the approval *)

(* The verification of the sides that the record is about; the capture that *)
(* follows a mismatch publishes a new revision, and the application fails.  *)
ApplyRead(p) ==
  /\ Working(p, "begin")
  /\ \E u \in Lookup(p, op.remote) :
       IF review[p].approved
       THEN \/ op.bytes # Result(p) /\ Leave
            \/ /\ op.bytes = Result(p)
               /\ IF Acceptable(p, local[p]) /\ AcceptableRemote(p, u)
                  THEN Saw("remote", local[p], u) ELSE Goto("capture")
       ELSE IF Matches(local[p], u, review[p].at)
            THEN Saw(IF Known(review[p].copies) THEN "copies" ELSE "approve", local[p], u)
            ELSE Goto("capture")
  /\ UNCHANGED <<disks, stores, shown, spent>>

CopiesMatch(p, missing) ==
  /\ CopyPaths(p) \subseteq DOMAIN review[p].copies
  /\ \A q \in DOMAIN review[p].copies :
       LET copy == review[p].copies[q]
       IN  /\ \/ local[q] = copy.local
              \/ missing /\ ~Known(local[q])
           /\ \/ remote[q] = copy.remote
              \/ missing /\ ~Known(remote[q])

(* verifyConflictCopies *)
VerifyCopies(p) ==
  /\ Working(p, "copies")
  /\ IF CopiesMatch(p, FALSE) THEN Goto("approve") ELSE ReviewRequired
  /\ UNCHANGED <<disks, stores, shown, spent>>

(* The result is preserved and the approval persisted before any write. *)
Approve(p) ==
  /\ Working(p, "approve")
  /\ Preserve({op.bytes})
  /\ review' = [review EXCEPT ![p].approved = TRUE, ![p].result = op.bytes]
  /\ Goto("remote")
  /\ UNCHANGED <<disks, base, shown, spent>>

-----------------------------------------------------------------------------
(* applyConflict: the drive *)

RemoteGate(p) ==
  /\ Working(p, "remote")
  /\ IF Hash(op.remote) = Result(p) THEN Goto("read-back")
     ELSE IF ~Acceptable(p, local[p]) THEN Leave
     ELSE Goto(IF Known(Result(p)) THEN "precheck" ELSE "rm")
  /\ UNCHANGED <<disks, stores, shown, spent>>

(* FilenRemoteFs.rm: the object found must be the one that was read. *)
RemoveProbe(p) ==
  /\ Working(p, "rm")
  /\ \E u \in Lookup(p, op.remote) : IF u = op.remote THEN Goto("trash") ELSE Leave
  /\ UNCHANGED <<disks, stores, shown, spent>>

Trashed(q, u) == remote' = [remote EXCEPT ![q] = IF @ = u THEN None ELSE @]

RemoveTrash(p) ==
  /\ Working(p, "trash")
  /\ Trashed(p, op.remote)
  /\ Goto("read-back")
  /\ UNCHANGED <<local, object, stores, shown, spent>>

(* writeFile: fileExists asks Filen, before the chunks are uploaded; *)
ApplyPrecheck(p) ==
  /\ Working(p, "precheck")
  /\ IF remote[p] = op.remote THEN op' = [op EXCEPT !.step = "precommit", !.raced = {}] ELSE Leave
  /\ UNCHANGED <<disks, stores, shown, spent>>

(* identity and content are compared before the final request, *)
ApplyPrecommit(p) ==
  /\ Working(p, "precommit")
  /\ \E u \in Lookup(p, op.remote) : IF u = op.remote THEN Goto("approved-local") ELSE Leave
  /\ UNCHANGED <<disks, stores, shown, spent>>

(* and beforeCommit looks at the vault. *)
BeforeCommit(p) ==
  /\ Working(p, "approved-local")
  /\ IF Acceptable(p, local[p]) THEN Goto("commit") ELSE Leave
  /\ UNCHANGED <<disks, stores, shown, spent>>

ApplyCommit(p) ==
  /\ Working(p, "commit")
  /\ Upload(p, Result(p))
  /\ Goto("read-back")
  /\ UNCHANGED <<local, stores, shown, spent>>

ReadBack(p) ==
  /\ Working(p, "read-back")
  /\ \E u \in Lookup(p, op.remote) :
       IF Hash(u) = Result(p)
       THEN /\ review' = [review EXCEPT ![p].remoteApplied = TRUE]
            /\ Saw("local", op.local, u)
       ELSE Leave /\ UNCHANGED review
  /\ UNCHANGED <<disks, base, recovery, shown, spent>>

-----------------------------------------------------------------------------
(* applyConflict: the vault and the history *)

(* A mutation: any file that is there is replaced. *)
MutLocalGate(p) ==
  /\ Working(p, "local")
  /\ Saw(IF local[p] = Result(p) THEN "verify" ELSE "write", local[p], op.remote)
  /\ UNCHANGED <<disks, stores, shown, spent>>

LocalGate(p) ==
  /\ Working(p, "local")
  /\ IF ~Acceptable(p, local[p]) THEN Leave
     ELSE Saw(IF local[p] = Result(p) THEN "verify" ELSE "write", local[p], op.remote)
  /\ UNCHANGED <<disks, stores, shown, spent>>

LocalWrite(p) ==
  /\ Working(p, "write")
  /\ local' = [local EXCEPT ![p] = Result(p)]
  /\ Goto("verify")
  /\ UNCHANGED <<remote, object, stores, shown, spent>>

Verify(p) ==
  /\ Working(p, "verify")
  /\ \E u \in Lookup(p, op.remote) :
       IF local[p] = Result(p) /\ Hash(u) = Result(p)
       THEN /\ review' = [review EXCEPT ![p].localApplied = TRUE]
            /\ Saw("record", local[p], u)
       ELSE Leave /\ UNCHANGED review
  /\ UNCHANGED <<disks, base, recovery, shown, spent>>

(* A mutation: an approved deletion is recorded like a file. *)
MutRecordResult(p) ==
  /\ Working(p, "record")
  /\ base' = [base EXCEPT ![p] = [hash |-> op.local, uuid |-> op.remote]]
  /\ Goto(IF Known(review[p].copies) THEN "clean" ELSE "final")
  /\ UNCHANGED <<disks, review, recovery, shown, spent>>

RecordResult(p) ==
  /\ Working(p, "record")
  /\ base' = [base EXCEPT ![p] =
       IF Known(Result(p)) THEN [hash |-> op.local, uuid |-> op.remote] ELSE None]
  /\ Goto(IF Known(review[p].copies) THEN "clean" ELSE "final")
  /\ UNCHANGED <<disks, review, recovery, shown, spent>>

-----------------------------------------------------------------------------
(* cleanupConflictCopies, one copy after another; then the record goes *)

Copies(p) == DOMAIN review[p].copies

CleanVerify(p) ==
  /\ Working(p, "clean")
  /\ IF CopiesMatch(p, TRUE)
     THEN op' = [op EXCEPT !.step = "clean-remote", !.left = Copies(p)]
     ELSE ReviewRequired
  /\ UNCHANGED <<disks, stores, shown, spent>>

(* The drive's copy must be the reviewed one, or gone. *)
CleanRemote(p) ==
  /\ Working(p, "clean-remote")
  /\ \E q \in op.left : \E u \in Lookup(q, review[p].copies[q].remote) :
       IF Known(u) /\ u # review[p].copies[q].remote THEN ReviewRequired
       ELSE op' = [op EXCEPT !.target = q, !.remote = u,
                             !.step = IF Known(u) THEN "clean-rm" ELSE "clean-local"]
  /\ UNCHANGED <<disks, stores, shown, spent>>

CleanRemove(p) ==
  /\ Working(p, "clean-rm")
  /\ Trashed(op.target, op.remote)
  /\ Goto("clean-local")
  /\ UNCHANGED <<local, object, stores, shown, spent>>

(* So must the vault's. *)
CleanLocal(p) ==
  /\ Working(p, "clean-local")
  /\ IF ~Known(local[op.target]) THEN Goto("clean-forget")
     ELSE IF local[op.target] # review[p].copies[op.target].local THEN ReviewRequired
     ELSE op' = [op EXCEPT !.step = "clean-trash", !.raced = {}]
  /\ UNCHANGED <<disks, stores, shown, spent>>

CleanTrash(p) ==
  /\ Working(p, "clean-trash")
  /\ local' = [local EXCEPT ![op.target] = None]
  /\ Goto("clean-forget")
  /\ UNCHANGED <<remote, object, stores, shown, spent>>

CleanForget(p) ==
  /\ Working(p, "clean-forget")
  /\ base' = [base EXCEPT ![op.target] = None]
  /\ op' = [op EXCEPT !.step = "clean-remote", !.left = @ \ {op.target}, !.target = None]
  /\ UNCHANGED <<disks, review, recovery, shown, spent>>

(* A copy that is there again needs another review. *)
CleanEnd(p) ==
  /\ Working(p, "clean-remote") /\ op.left = {}
  /\ IF CopyPaths(p) = {} THEN Goto("final") ELSE ReviewRequired
  /\ UNCHANGED <<disks, stores, shown, spent>>

(* Both sides must still hold the result when the record is deleted. *)
Resolve(p) ==
  /\ Working(p, "final")
  /\ \E u \in Lookup(p, IF Known(base[p]) THEN base[p].uuid ELSE None) :
       review' = IF local[p] = Result(p) /\ Hash(u) = Result(p)
                 THEN [review EXCEPT ![p] = None] ELSE review
  /\ Leave
  /\ UNCHANGED <<disks, base, recovery, shown, spent>>

ApplyStep(p) ==
  \/ ResumeCheck(p) \/ ApplyRead(p) \/ VerifyCopies(p) \/ Approve(p)
  \/ RemoteGate(p) \/ RemoveProbe(p) \/ RemoveTrash(p)
  \/ ApplyPrecheck(p) \/ ApplyPrecommit(p) \/ BeforeCommit(p) \/ ApplyCommit(p)
  \/ ReadBack(p) \/ LocalGate(p) \/ LocalWrite(p) \/ Verify(p) \/ RecordResult(p)
  \/ CleanVerify(p) \/ CleanRemote(p) \/ CleanRemove(p) \/ CleanLocal(p)
  \/ CleanTrash(p) \/ CleanForget(p) \/ CleanEnd(p) \/ Resolve(p)
=============================================================================
