---------------------------- MODULE PlannerCases ----------------------------
(***************************************************************************)
(* The planner against a reference definition of three-way reconciliation. *)
(* A case holds what the two sides and the sync history really contain and *)
(* how much of it the scan could see; the planner is given only the latter *)
(* (SyncEngine's toLocalFileInfos and toRemoteFileInfos, after the         *)
(* equality comparison), the reference the former.                         *)
(***************************************************************************)
EXTENDS SyncPlanner, TLC

CONSTANTS Content, Time, SizeOf

(* "undefined" is no value of an entry's fields, and no operation.           *)
ASSUME ContentAssumption ==
  None \notin Content /\ None \notin Time /\ None \notin {"synced", "other"} /\ None \notin Operations

VARIABLES
  case,       \* the situation of one path
  decision    \* the planned operation, None before planning

vars == <<case, decision>>

LocalCase  == [content : Content, mtime : Time, hashed : BOOLEAN]
RemoteCase == [content : Content, mtime : Time, digest : BOOLEAN, same : BOOLEAN]
BaseCase   == [content : Content, mtime : Time, digest : BOOLEAN,
               remoteMtime : Time \cup {None}]

Held(side) == IF Known(side) THEN side.content ELSE None

(* A file with a history is either hashed or its edits change size or mtime. *)
LocalCredible(l, b) ==
  Known(l) /\ Known(b) /\ ~l.hashed /\ l.content # b.content =>
    l.mtime # b.mtime \/ SizeOf[l.content] # SizeOf[b.content]

(* The object the history names is the object that was synced. *)
RemoteCredible(r, b) ==
  Known(r) /\ r.same =>
    /\ Known(b)
    /\ r.content = b.content /\ r.digest = b.digest
    /\ r.mtime = BaseRemoteMtime(b)

Cases ==
  {k \in [local : LocalCase \cup {None}, remote : RemoteCase \cup {None},
          base : BaseCase \cup {None}, direction : SyncDirections] :
     LocalCredible(k.local, k.base) /\ RemoteCredible(k.remote, k.base)}

-----------------------------------------------------------------------------
(* What the planner is given. *)

Digest(side) == IF side.digest THEN side.content ELSE None

BaseRecord(b) ==
  IF ~Known(b) THEN None
  ELSE [size |-> SizeOf[b.content], hash |-> b.content, mtime |-> b.mtime,
        remoteUuid |-> "synced", remoteHash |-> Digest(b), remoteMtime |-> b.remoteMtime]

RemoteInfo(r, hash) ==
  [uuid |-> IF r.same THEN "synced" ELSE "other", size |-> SizeOf[r.content],
   mtime |-> r.mtime, remoteHash |-> Digest(r), hash |-> hash]

LocalInfo(l, hashed) ==
  [size |-> SizeOf[l.content], mtime |-> l.mtime, hash |-> IF hashed THEN l.content ELSE None]

(* "undefined" is no entry and no record. *)
ASSUME EntryAssumption ==
  /\ \A l \in LocalCase, hashed \in BOOLEAN : Known(LocalInfo(l, hashed))
  /\ \A r \in RemoteCase, hash \in Content \cup {None} : Known(RemoteInfo(r, hash))
  /\ \A b \in BaseCase : Known(BaseRecord(b))

Compares(k) ==
  /\ Known(k.local) /\ Known(k.remote)
  /\ NeedsEquality(LocalInfo(k.local, k.local.hashed), RemoteInfo(k.remote, None),
                   BaseRecord(k.base))

Planned(k) ==
  PlanSync(FALSE,
    IF ~Known(k.local) THEN None ELSE LocalInfo(k.local, k.local.hashed \/ Compares(k)),
    IF ~Known(k.remote) THEN None
    ELSE RemoteInfo(k.remote,
           IF Compares(k)
           THEN EqualityHash(k.local.content, RemoteInfo(k.remote, None), k.remote.content)
           ELSE None),
    BaseRecord(k.base), k.direction)

Init == case \in Cases /\ decision = None

Decide == decision = None /\ decision' = Planned(case) /\ UNCHANGED case

Spec == Init /\ [][Decide]_vars

-----------------------------------------------------------------------------
(* The reference: three contents, any of which may be "no file".            *)

TwoWay(l, r, b) ==
  CASE l = r           -> "noop"
    [] l # r /\ r = b  -> IF Known(l) THEN "upload" ELSE "delete-remote"
    [] l # r /\ l = b  -> IF Known(r) THEN "download" ELSE "delete-local"
    [] OTHER           -> "conflict"

(* A one-way run does the same towards its destination, overrides a clash   *)
(* of two present files, undoes a deletion made at the destination, and     *)
(* leaves the other side's news alone.                                      *)
Override(k, op, winner, undone, foreign) ==
  CASE op = undone                                                  -> winner
    [] op = foreign                                                 -> "noop"
    [] op = "conflict" /\ Known(k.local) /\ Known(k.remote)         -> winner
    [] OTHER                                                        -> op

Reference(k) ==
  LET op == TwoWay(Held(k.local), Held(k.remote), Held(k.base))
  IN  [both |-> op,
       push |-> Override(k, op, "upload", "delete-local", "download"),
       pull |-> Override(k, op, "download", "delete-remote", "upload")][k.direction]

(* The scan could tell both sides' contents from the last synced ones: by   *)
(* identity, by Filen's digest on both ends, or by having compared bytes.   *)
FullyEvident(k) ==
  /\ Known(k.local) => k.local.hashed \/ Compares(k)
  /\ Known(k.remote) /\ Known(k.base) =>
       \/ k.remote.same
       \/ k.remote.digest /\ k.base.digest
       \/ Compares(k) /\ (k.remote.digest => k.remote.content = k.local.content)

(* With both sides' contents known, the planner decides exactly as the      *)
(* reference in every direction, whatever mtimes, identities and digests    *)
(* say: drifted mtimes and replaced but identical objects cause no transfer *)
(* and no false conflict, delete-versus-modify is always a conflict.        *)
AgreesWithReference ==
  decision # None /\ FullyEvident(case) => decision = Reference(case)

(* Without hashes the planner may only err on the side of the data: what a  *)
(* two-way run overwrites or deletes always holds the last synced content.  *)
OverwritesOnlySynced ==
  decision # None /\ case.direction = "both" =>
    /\ decision \in {"upload", "delete-remote"} => Held(case.remote) = Held(case.base)
    /\ decision \in {"download", "delete-local"} => Held(case.local) = Held(case.base)

(* And it never rests while the sides differ: a two-way noop means equality. *)
RestsOnlyWhenEqual ==
  decision = "noop" /\ case.direction = "both" => Held(case.local) = Held(case.remote)
=============================================================================
