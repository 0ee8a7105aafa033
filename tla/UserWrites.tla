----------------------------- MODULE UserWrites -----------------------------
(***************************************************************************)
(* The ways in which the user has a file written one at a time, the        *)
(* application of a reviewed conflict, the forced upload and what is       *)
(* restored, together with the user's own edits and renames, other         *)
(* devices, failed requests and restarts.                                  *)
(***************************************************************************)
EXTENDS ConflictApply, ForceUpload, Restore

(* The paths whose change makes the last check of a side void.  The file of *)
(* a forced upload is watched under its present name, the drive under the   *)
(* one it was looked at, and then under the one it is uploaded to.          *)
Watched(side) ==
  IF op.kind # "force" THEN {op.path, op.target}
  ELSE IF side = "local" THEN {op.path}
  ELSE IF Known(op.target) THEN {op.target}
  ELSE {object[u].path : u \in {op.remote} \ {None}}

Race(p, side) ==
  op' = IF p \in Watched(side) THEN [op EXCEPT !.raced = @ \cup {side}] ELSE op

Edited == spent.edits < MaxEdits /\ spent' = [spent EXCEPT !.edits = @ + 1]

(* A deletion leaves nothing to lose; a file that takes the place of a      *)
(* deleted one is another file.                                             *)
UserEdits(p) ==
  /\ Edited
  /\ \E c \in Maybe(Content) \ {local[p]} :
       /\ local' = [local EXCEPT ![p] = c]
       /\ IF Known(c) /\ (op.kind = "force" => Known(local[p]))
          THEN Race(p, "local") ELSE UNCHANGED op
  /\ UNCHANGED <<remote, object, stores, shown>>

(* A forced upload holds the file itself, and goes on under its new name.   *)
(* To everything else a rename is a deletion and a creation.                *)
UserRenames(p, q) ==
  /\ spent.renames < MaxRenames /\ spent' = [spent EXCEPT !.renames = @ + 1]
  /\ op.kind = "force" /\ op.path = p
  /\ Known(local[p]) /\ ~Known(local[q])
  /\ local' = [local EXCEPT ![p] = None, ![q] = local[p]]
  /\ op' = [op EXCEPT !.path = q]
  /\ UNCHANGED <<remote, object, stores, shown>>

OtherDevice(p) ==
  /\ Edited
  /\ \/ \E c \in Content : Upload(p, c)
     \/ \E u \in Earlier(p) : remote' = [remote EXCEPT ![p] = u] /\ UNCHANGED object
     \/ Known(remote[p]) /\ remote' = [remote EXCEPT ![p] = None] /\ UNCHANGED object
  /\ Race(p, "remote")
  /\ UNCHANGED <<local, stores, shown>>

(* A request fails, or the application is restarted; the stores survive. *)
Interrupt ==
  /\ op # NoOp
  /\ spent.faults < MaxFaults /\ spent' = [spent EXCEPT !.faults = @ + 1]
  /\ Leave
  /\ shown' \in {shown, FALSE}
  /\ UNCHANGED <<disks, stores>>

ReviewStep(p) == CaptureRead(p) \/ Publish(p) \/ Collect(p) \/ ApplyStep(p)

(* The next step of whatever is under way. *)
Proceed == (\E p \in Originals : ReviewStep(p)) \/ ForceStep \/ RestoreStep

Next ==
  \/ Proceed
  \/ \E p \in Originals : StartConflict(p) \/ StartResume(p)
  \/ \E p \in Originals : OpenReview(p) \/ StartForce(p) \/ StartRestore(p) \/ StartUndelete(p)
  \/ \E p \in Originals, bytes \in Maybe(Content) : StartApply(p, bytes)
  \/ \E p \in Path : UserEdits(p) \/ OtherDevice(p)
  \/ \E p, q \in Path : UserRenames(p, q)
  \/ Interrupt

Spec == Init /\ [][Next]_vars

(* Passes go on at their interval, and what has begun is carried on. *)
Fairness == WF_vars(Proceed) /\ \A p \in Originals : WF_vars(StartResume(p))

-----------------------------------------------------------------------------
(* Properties *)

(* The code's own steps leave the bounds of the user's alone. *)
OwnStep == spent' = spent

(* No content of the vault is replaced or trashed unless the review showed  *)
(* it, or it is the approved one, and in either case a recovery copy of it  *)
(* exists; or else it was put there after the last look the code takes      *)
(* (src/sync/conflict-apply.ts:130-147, conflict-cleanup.ts:117-124).       *)
Shown(p) ==
  LET r == review[op.path]
  IN  IF p = op.path THEN {r.at.local, r.result} ELSE {r.copies[p].local}

OriginalsAreKept ==
  [][\A p \in Path :
       OwnStep /\ local'[p] # local[p] /\ Known(local[p]) =>
         \/ "local" \in op.raced
         \/ local[p] \in recovery /\ (op.kind # "restore" => local[p] \in Shown(p))]_vars

(* No object of the drive is replaced or trashed unless it is the one the   *)
(* review showed, or for a forced upload the synced one or one that the     *)
(* user agreed to replace, or it came after the last look the code can take *)
(* (conflict-apply.ts:93-123, force-upload.ts:50-72).                       *)
Reviewed(p) ==
  LET r == review[op.path]
  IN  IF p = op.path THEN r.at.remote ELSE r.copies[p].remote
Consented(p) ==
  op.remote = remote[p] /\ (op.consent \/ base[p].uuid = remote[p])

RemoteWritesAreAgreed ==
  [][\A p \in Path :
       OwnStep /\ remote'[p] # remote[p] /\ Known(remote[p]) =>
         \/ "remote" \in op.raced
         \/ op.kind = "restore"
         \/ op.kind = "force" /\ Consented(p)
         \/ op.kind \in {"apply", "resume"} /\ Reviewed(p) = remote[p]]_vars

(* The history names an uploaded object and the digest of its content,      *)
(* whichever way the file was written (conflict-apply.ts:154-177,           *)
(* force-upload.ts:77-90).                                                  *)
HistoryIsHonest ==
  \A p \in Path :
    Known(base[p]) => Known(object[base[p].uuid]) /\ base[p].hash = Hash(base[p].uuid)

(* The history of a path names an object that was uploaded to that path.    *)
HistoryIsOfItsPath ==
  \A p \in Path : Known(base[p]) => object[base[p].uuid].path = p

(* How the conflict of a path stands, as the module Resolution sees it. *)
StateOf(p) ==
  IF ~Known(review[p]) THEN "none" ELSE IF review[p].approved THEN "approved" ELSE "open"
ApprovedOf(p) == IF Known(review[p]) THEN review[p].result ELSE None
HistoryOf(p)  == IF Known(base[p]) THEN base[p].hash ELSE None

(* An approval does not stay half applied: once failures and edits cease it *)
(* is carried out, or the path is back in review (resumeConflict).          *)
ApprovalsSettle ==
  \A p \in Originals :
    (Known(review[p]) /\ review[p].approved) ~> (~Known(review[p]) \/ ~review[p].approved)
=============================================================================
