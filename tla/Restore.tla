------------------------------ MODULE Restore -------------------------------
(***************************************************************************)
(* What the user brings back: a revision of a file from its version        *)
(* history (restore in src/file-version-modal.ts), kept by Filen or as a   *)
(* recovery copy, and a deleted file from Filen's trash (restore in        *)
(* src/ui/deleted-files-modal.ts).                                         *)
(*                                                                         *)
(* Nothing but the first check of the target keeps the rest of the plugin  *)
(* from writing meanwhile.  What it may write then is among the edits of   *)
(* UserWrites, so that one operation at a time is enough here.             *)
(***************************************************************************)
EXTENDS ConflictStore

Restoring(step) == At({"restore", "undelete"}, step)

(* Filen keeps what an upload replaces, and what is trashed. *)
Earlier(p) == {u \in Id : Known(object[u]) /\ object[u].path = p /\ u # remote[p]}

(* What the two dialogs offer: versions of the file that the drive has, and *)
(* what was deleted, whether or not the drive has another file there by now.*)
Versions(p) == IF Known(remote[p]) THEN Earlier(p) ELSE {}
Deleted(p)  == Earlier(p)

(* The user chooses a recovery copy, or a version on the drive. *)
StartRestore(p) ==
  /\ op = NoOp /\ Known(local[p]) /\ Act
  /\ \/ \E c \in recovery :
          op' = [NoOp EXCEPT !.kind = "restore", !.path = p, !.step = "current", !.bytes = c]
     \/ \E u \in Versions(p) :
          op' = [NoOp EXCEPT !.kind = "restore", !.path = p, !.step = "current", !.remote = u]
  /\ UNCHANGED <<disks, stores, shown>>

(* A file that is not there any more has nothing to preserve. *)
RestoreRead ==
  /\ Restoring("current")
  /\ IF Known(local[op.path]) THEN Saw("preserve", local[op.path], op.remote)
     ELSE IF Known(op.bytes) THEN Leave ELSE Goto("version")
  /\ UNCHANGED <<disks, stores, shown, spent>>

RestorePreserve ==
  /\ Restoring("preserve")
  /\ Preserve({op.local})
  /\ Goto("preserved")
  /\ UNCHANGED <<disks, base, review, shown, spent>>

(* The file is compared with what was preserved, here and never again. *)
RestoreRecheck ==
  /\ Restoring("preserved")
  /\ IF local[op.path] # op.local THEN Leave
     ELSE op' = [op EXCEPT !.step = IF Known(op.bytes) THEN "before" ELSE "version", !.raced = {}]
  /\ UNCHANGED <<disks, stores, shown, spent>>

(* While the recovery copy is read and verified the file must not change: *)
RestoreBefore ==
  /\ Restoring("before")
  /\ IF Known(local[op.path])
     THEN op' = [op EXCEPT !.step = "after", !.local = local[op.path]] ELSE Leave
  /\ UNCHANGED <<disks, stores, shown, spent>>

RestoreAfter ==
  /\ Restoring("after")
  /\ IF local[op.path] = op.local THEN Goto("replace") ELSE Leave
  /\ UNCHANGED <<disks, stores, shown, spent>>

RestoreReplace ==
  /\ Restoring("replace")
  /\ local' = [local EXCEPT ![op.path] = IF Known(@) THEN op.bytes ELSE @]
  /\ Leave
  /\ UNCHANGED <<remote, object, stores, shown, spent>>

(* restoreFileVersion: the version takes the place of whatever the drive    *)
(* has by then, and a synchronization follows.                              *)
RestoreLookup ==
  /\ Restoring("version")
  /\ IF Known(remote[op.path]) THEN Goto("swap") ELSE Leave
  /\ UNCHANGED <<disks, stores, shown, spent>>

RestoreSwap ==
  /\ Restoring("swap")
  /\ remote' = [remote EXCEPT ![op.path] = IF Known(@) THEN op.remote ELSE @]
  /\ Leave
  /\ UNCHANGED <<local, object, stores, shown, spent>>

-----------------------------------------------------------------------------
(* A deleted file *)

StartUndelete(p) ==
  /\ op = NoOp /\ Act
  /\ \E u \in Deleted(p) :
       op' = [NoOp EXCEPT !.kind = "undelete", !.path = p, !.step = "vacant", !.remote = u]
  /\ UNCHANGED <<disks, stores, shown>>

UndeleteLook ==
  /\ Restoring("vacant")
  /\ IF Known(local[op.path]) THEN Leave ELSE Goto("unoccupied")
  /\ UNCHANGED <<disks, stores, shown, spent>>

(* A mutation: what stands at the path on the drive is not looked for. *)
MutUndeleteCheck ==
  /\ Restoring("unoccupied")
  /\ op' = [op EXCEPT !.step = "revive", !.raced = {}]
  /\ UNCHANGED <<disks, stores, shown, spent>>

(* restoreDeleted: fresh listings, and the path must be free. *)
UndeleteCheck ==
  /\ Restoring("unoccupied")
  /\ IF Known(remote[op.path]) THEN Leave
     ELSE op' = [op EXCEPT !.step = "revive", !.raced = {}]
  /\ UNCHANGED <<disks, stores, shown, spent>>

UndeleteRevive ==
  /\ Restoring("revive")
  /\ remote' = [remote EXCEPT ![op.path] = op.remote]
  /\ Leave
  /\ UNCHANGED <<local, object, stores, shown, spent>>

RestoreStep ==
  \/ RestoreRead \/ RestorePreserve \/ RestoreRecheck \/ RestoreBefore \/ RestoreAfter
  \/ RestoreReplace \/ RestoreLookup \/ RestoreSwap
  \/ UndeleteLook \/ UndeleteCheck \/ UndeleteRevive
=============================================================================
