---------------------------- MODULE SyncPlanner ----------------------------
(***************************************************************************)
(* The three-way planner (src/sync/planner.ts) and the equality evidence   *)
(* it is given (src/sync/equality-hashes.ts).                              *)
(*                                                                         *)
(* A path is described by three optional facts: the local entry            *)
(* [size, mtime, hash], the remote entry [uuid, size, mtime, remoteHash,   *)
(* hash] and the sync history record [size, hash, mtime, remoteUuid,       *)
(* remoteHash, remoteMtime].  An absent entry or field is None.  A digest  *)
(* is represented by the content it was computed from; hash is the SHA-256 *)
(* the plugin computes, remoteHash the SHA-512 that Filen stores, and the  *)
(* two are only ever compared with digests of their own kind.              *)
(***************************************************************************)
EXTENDS Naturals

CONSTANT None       \* "undefined": an absent file, record, or field

SyncDirections == {"both", "push", "pull"}
Operations == {"upload", "download", "delete-local", "delete-remote", "conflict", "noop"}

Known(x)       == x # None
Coalesce(x, y) == IF Known(x) THEN x ELSE y
Same(x, y)     == Known(x) /\ Known(y) /\ x = y
Differ(x, y)   == Known(x) /\ Known(y) /\ x # y

(* remoteMtime is missing from records written by a forced upload. *)
BaseRemoteMtime(prev) == Coalesce(prev.remoteMtime, prev.mtime)

-----------------------------------------------------------------------------
(* A mutation: a drifted mtime is taken as the only sign of an edit. *)
MutIsLocalChanged(local, prev) == local.size # prev.size \/ local.mtime # prev.mtime

IsLocalChanged(local, prev) ==
  \/ local.size # prev.size
  \/ Differ(local.hash, prev.hash)
  \/ /\ ~Same(local.hash, prev.hash)
     /\ local.mtime # prev.mtime

(* A mutation: the identity of the remote object is not compared. *)
MutIsRemoteChanged(remote, prev) ==
  remote.size # prev.size \/ remote.mtime # BaseRemoteMtime(prev)

IsRemoteChanged(remote, prev) ==
  IF Known(remote.hash) /\ Known(prev.hash)
  THEN remote.hash # prev.hash
  ELSE /\ ~(remote.size = prev.size /\ Same(remote.remoteHash, prev.remoteHash))
       /\ \/ Differ(remote.uuid, prev.remoteUuid)
          \/ Differ(remote.remoteHash, prev.remoteHash)
          \/ remote.size # prev.size
          \/ remote.mtime # BaseRemoteMtime(prev)

(* Which pairs the scan compares byte for byte before planning: equal       *)
(* sizes, and no history that already vouches for this remote object.       *)
NeedsEquality(local, remote, prev) ==
  /\ Known(local) /\ Known(remote)
  /\ local.size = remote.size
  /\ Known(prev) => \/ remote.uuid # prev.remoteUuid
                    \/ remote.remoteHash # prev.remoteHash
                    \/ remote.mtime # BaseRemoteMtime(prev)

(* The comparison's result, the remote entry's hash: with a SHA-512 from    *)
(* Filen the remote bytes are never read, and a mismatch leaves the hash    *)
(* unknown; without one they are downloaded and hashed.                     *)
EqualityHash(localBytes, remote, remoteBytes) ==
  IF Known(remote.remoteHash)
  THEN IF localBytes = remote.remoteHash THEN localBytes ELSE None
  ELSE remoteBytes

-----------------------------------------------------------------------------
(* A mutation: the direction of the run is forgotten. *)
MutLocalOnly(local, prev, direction) ==
  IF ~Known(prev) THEN "upload"
  ELSE IF IsLocalChanged(local, prev) THEN "conflict" ELSE "delete-local"

LocalOnly(local, prev, direction) ==
  IF ~Known(prev)
  THEN [both |-> "upload", push |-> "upload", pull |-> "noop"][direction]
  ELSE IF IsLocalChanged(local, prev)
  THEN "conflict"
  ELSE [both |-> "delete-local", push |-> "upload", pull |-> "delete-local"][direction]

RemoteOnly(remote, prev, direction) ==
  IF ~Known(prev)
  THEN [both |-> "download", push |-> "noop", pull |-> "download"][direction]
  ELSE IF IsRemoteChanged(remote, prev)
  THEN "conflict"
  ELSE [both |-> "delete-remote", push |-> "delete-remote", pull |-> "download"][direction]

VerifiedIdentical(local, remote) ==
  Known(local) /\ Known(remote) /\ Same(local.hash, remote.hash)

UnchangedByHash(local, remote, prev) ==
  /\ Known(prev)
  /\ ~Differ(prev.remoteUuid, remote.uuid)
  /\ ~Differ(prev.remoteHash, remote.remoteHash)
  /\ Same(local.hash, prev.hash)
  /\ remote.size = prev.size
  /\ remote.mtime = BaseRemoteMtime(prev)

(* Both sides differ and neither is known to be the older one. *)
Clash == [both |-> "conflict", push |-> "upload", pull |-> "download"]

(* A mutation: with both sides changed, the newer one wins. *)
MutBothSides(local, remote, prev, direction) ==
  IF VerifiedIdentical(local, remote) THEN "noop"
  ELSE IF local.mtime > remote.mtime THEN "upload" ELSE "download"

BothSides(local, remote, prev, direction) ==
  CASE \/ VerifiedIdentical(local, remote)
       \/ UnchangedByHash(local, remote, prev)             -> "noop"
    [] ~VerifiedIdentical(local, remote) /\ ~Known(prev)   -> Clash[direction]
    [] OTHER ->
       LET localChanged  == IsLocalChanged(local, prev)
           remoteChanged == IsRemoteChanged(remote, prev)
       IN  CASE ~localChanged /\ ~remoteChanged -> "noop"
             [] localChanged /\ ~remoteChanged  ->
                  [both |-> "upload", push |-> "upload", pull |-> "noop"][direction]
             [] ~localChanged /\ remoteChanged  ->
                  [both |-> "download", push |-> "noop", pull |-> "download"][direction]
             [] localChanged /\ remoteChanged   -> Clash[direction]

PlanPath(local, remote, prev, direction) ==
  CASE ~Known(local) /\ ~Known(remote) -> "noop"
    [] Known(local) /\ ~Known(remote)  -> LocalOnly(local, prev, direction)
    [] ~Known(local) /\ Known(remote)  -> RemoteOnly(remote, prev, direction)
    [] Known(local) /\ Known(remote)   -> BothSides(local, remote, prev, direction)

(* planSync for one path: a recorded conflict pauses it whatever was seen. *)
PlanSync(pending, local, remote, prev, direction) ==
  IF pending THEN "conflict" ELSE PlanPath(local, remote, prev, direction)
=============================================================================
