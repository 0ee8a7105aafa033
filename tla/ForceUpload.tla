---------------------------- MODULE ForceUpload -----------------------------
(***************************************************************************)
(* "Force sync to Filen" (src/sync/force-upload.ts and forceSyncFile in    *)
(* src/main.ts): one file is uploaded without a plan, with the user's      *)
(* consent when the drive's copy is not the one the history names.  The    *)
(* code holds the file as an object of Obsidian, whose path follows its    *)
(* renames, and there is no mutation session and no check at the commit.   *)
(***************************************************************************)
EXTENDS ConflictStore

Forcing(step) == At({"force"}, step)

(* A mutation: a path that waits for review is uploaded all the same. *)
MutStartForce(p) ==
  /\ op = NoOp /\ Known(local[p]) /\ Act
  /\ op' = [NoOp EXCEPT !.kind = "force", !.path = p, !.step = "look"]
  /\ UNCHANGED <<disks, stores, shown>>

(* A path that waits for review is refused. *)
StartForce(p) ==
  /\ op = NoOp /\ Known(local[p]) /\ ~Known(review[p]) /\ Act
  /\ op' = [NoOp EXCEPT !.kind = "force", !.path = p, !.step = "look"]
  /\ UNCHANGED <<disks, stores, shown>>

IsRemoteChangedSinceBaseline(p) ==
  Known(remote[p]) /\ (Known(base[p]) => base[p].uuid # remote[p])

(* Times and sizes may differ from the history's for the same object, so    *)
(* that the user may be asked about an unchanged one too.                   *)
ForceLook ==
  /\ Forcing("look")
  /\ \E asked, agreed \in BOOLEAN :
       /\ IsRemoteChangedSinceBaseline(op.path) => asked
       /\ asked => Known(remote[op.path])
       /\ IF asked /\ ~agreed THEN Leave
          ELSE op' = [op EXCEPT !.step = "read", !.remote = remote[op.path],
                                !.consent = asked, !.raced = {}]
  /\ UNCHANGED <<disks, stores, shown, spent>>

(* The bytes, and the path writeFile is called with, are those of now. *)
ForceRead ==
  /\ Forcing("read")
  /\ IF Known(local[op.path])
     THEN op' = [op EXCEPT !.step = "stat", !.bytes = local[op.path], !.target = op.path,
                           !.raced = @ \ {"local"}]
     ELSE Leave
  /\ UNCHANGED <<disks, stores, shown, spent>>

(* writeFile: an object seen before may be found in a newer one's stead,    *)
(* but a file that was not there is seen when it is.                        *)
ForceStat ==
  /\ Forcing("stat")
  /\ \E u \in Lookup(op.target, op.remote) :
       IF u = op.remote
       THEN op' = [op EXCEPT !.step = "upload",
                             !.raced = IF Known(u) THEN @ ELSE @ \ {"remote"}]
       ELSE Leave
  /\ UNCHANGED <<disks, stores, shown, spent>>

ForceCommit ==
  /\ Forcing("upload")
  /\ Upload(op.target, op.bytes)
  /\ op' = [op EXCEPT !.step = "history", !.remote = NewId]
  /\ UNCHANGED <<local, stores, shown, spent>>

(* A mutation: the history takes the file's digest after the upload. *)
MutForceRecord ==
  /\ Forcing("history")
  /\ IF ~Known(local[op.path]) THEN UNCHANGED base
     ELSE base' = [base EXCEPT ![op.path] = [hash |-> local[op.path], uuid |-> op.remote]]
  /\ Leave
  /\ UNCHANGED <<disks, review, recovery, shown, spent>>

(* An edit, but not a rename or a deletion, shows in the file's stat. *)
ForceRecord ==
  /\ Forcing("history")
  /\ IF "local" \in op.raced THEN UNCHANGED base
     ELSE base' = [base EXCEPT ![op.path] = [hash |-> op.bytes, uuid |-> op.remote]]
  /\ Leave
  /\ UNCHANGED <<disks, review, recovery, shown, spent>>

ForceStep == ForceLook \/ ForceRead \/ ForceStat \/ ForceCommit \/ ForceRecord
=============================================================================
