--------------------------- MODULE ConflictStore ----------------------------
(***************************************************************************)
(* Both sides of the paths that the user decides about one at a time, and  *)
(* the records of their conflicts (src/sync/conflict-store.ts): a record   *)
(* captures what both sides held, with recovery copies of their bytes, and *)
(* freezes the path until a result is approved and applied.                *)
(*                                                                         *)
(* The coordinator and the force-upload flag let one operation write at a  *)
(* time (Coordinator!OneOperation): it is the record op, one step of which *)
(* lies between two awaits.  A pair read of both sides is one action: what *)
(* the user does on one side between the two reads commutes with the read  *)
(* of the other side.                                                      *)
(***************************************************************************)
EXTENDS Naturals, FiniteSets

CONSTANTS
  Path,        \* the files in question and their legacy conflict copies
  CopiesOf,    \* [Path -> SUBSET Path]: the copies named after a file
  Content,     \* what a file may hold
  Id,          \* identities of uploaded objects
  None,
  MaxEdits,    \* bound on steps of the user and of other devices
  MaxRenames,  \* bound on renames of a file by the user
  MaxActs,     \* bound on what the user asks for
  MaxFaults    \* bound on failed requests and restarts

ASSUME CopiesAssumption == CopiesOf \in [Path -> SUBSET Path]
ASSUME BoundsAssumption == {MaxEdits, MaxRenames, MaxActs, MaxFaults} \subseteq Nat

VARIABLES
  local,     \* vault:  [Path -> content or None]
  remote,    \* drive:  [Path -> identity of the current object or None]
  object,    \* [Id -> the path and content it was uploaded with, or None]
  base,      \* sync history: [Path -> digest and identity, or None]
  review,    \* recorded conflicts: [Path -> record or None]
  recovery,  \* contents that have a recovery copy in the plugin's folder
  shown,     \* whether the review on the screen is of the recorded revision
  op,        \* the operation under way
  spent      \* the bounded counters

vars == <<local, remote, object, base, review, recovery, shown, op, spent>>

Known(v) == v # None
Maybe(S) == S \cup {None}

-----------------------------------------------------------------------------
Object   == [content : Content, path : Path]
Record   == [hash : Content, uuid : Id]
Snapshot == [local : Maybe(Content), remote : Maybe(Id)]

(* copies is None until a review has looked for them; result is None for an *)
(* approved deletion.                                                       *)
Review == [at : Snapshot, copies : Maybe(UNION {[S -> Snapshot] : S \in SUBSET Path}),
           approved : BOOLEAN, result : Maybe(Content),
           remoteApplied : BOOLEAN, localApplied : BOOLEAN]

ASSUME UnknownAssumption ==
  None \notin Path \cup Content \cup Id \cup Object \cup Record \cup Review

Kinds == {"none", "review", "apply", "resume", "conflict", "auto", "force", "restore", "undelete"}
Steps == {"idle", "capture", "publish", "collect",
          "resume", "begin", "copies", "approve", "remote", "rm", "trash",
          "precheck", "precommit", "approved-local", "commit", "read-back",
          "local", "write", "verify", "record",
          "clean", "clean-remote", "clean-rm", "clean-local", "clean-trash",
          "clean-forget", "final",
          "look", "read", "stat", "upload", "history",
          "current", "preserve", "preserved", "before", "after", "replace", "version", "swap",
          "vacant", "unoccupied", "revive"}

Op == [kind : Kinds, path : Maybe(Path), step : Steps,
       bytes : Maybe(Content),    \* the result to write
       local : Maybe(Content),    \* what was last read of the vault
       remote : Maybe(Id),        \* what was last read of the drive
       consent : BOOLEAN,         \* the user agreed to replace what was seen
       target : Maybe(Path),      \* the copy being cleaned up; where a forced upload goes
       left : SUBSET Path,        \* the copies still to clean up
       raced : SUBSET {"local", "remote"}]  \* sides that moved after a last check

NoOp == [kind |-> "none", path |-> None, step |-> "idle", bytes |-> None,
         local |-> None, remote |-> None, consent |-> FALSE, target |-> None,
         left |-> {}, raced |-> {}]

TypeOK ==
  /\ local    \in [Path -> Maybe(Content)]
  /\ remote   \in [Path -> Maybe(Id)]
  /\ object   \in [Id -> Maybe(Object)]
  /\ base     \in [Path -> Maybe(Record)]
  /\ review   \in [Path -> Maybe(Review)]
  /\ recovery \subseteq Content
  /\ shown    \in BOOLEAN
  /\ op       \in Op
  /\ spent    \in [edits : 0 .. MaxEdits, renames : 0 .. MaxRenames,
                   acts : 0 .. MaxActs, faults : 0 .. MaxFaults]

(* The bytes behind an identity; an absent file has none. *)
Hash(u) == IF Known(u) THEN object[u].content ELSE None

Originals == {p \in Path : \A q \in Path : p \notin CopiesOf[q]}

(* Filen gives every file an identity of its own. *)
ASSUME IdAssumption ==
  \E name \in [Originals -> Id] : \A p, q \in Originals : p # q => name[p] # name[q]

(* Any file may be in sync already, be new on one side, or be missing. *)
Init ==
  /\ local \in [Path -> Maybe(Content)]
  /\ \E synced \in SUBSET {p \in Originals : Known(local[p])} :
       LET name == CHOOSE f \in [Originals -> Id] : \A p, q \in Originals : p # q => f[p] # f[q]
       IN  /\ remote = [p \in Path |-> IF p \in synced THEN name[p] ELSE None]
           /\ base = [p \in Path |-> IF p \in synced
                                     THEN [hash |-> local[p], uuid |-> name[p]] ELSE None]
           /\ object = [u \in Id |-> IF \E p \in synced : name[p] = u
                                     THEN LET p == CHOOSE p \in synced : name[p] = u
                                          IN  [content |-> local[p], path |-> p]
                                     ELSE None]
  /\ review = [p \in Path |-> None]
  /\ recovery = {}
  /\ shown = FALSE
  /\ op = NoOp
  /\ spent = [edits |-> 0, renames |-> 0, acts |-> 0, faults |-> 0]

-----------------------------------------------------------------------------
(* Steps of the operation under way *)

At(kinds, step) == op.kind \in kinds /\ op.step = step

Goto(step)   == op' = [op EXCEPT !.step = step]
Saw(step, l, u) == op' = [op EXCEPT !.step = step, !.local = l, !.remote = u, !.raced = {}]
(* An error leaves everything as it is; so does the end of an operation. *)
Leave        == op' = NoOp

disks  == <<local, remote, object>>
stores == <<base, review, recovery>>

(* External: a path is looked up in the SDK's cache of listings, kept for a *)
(* whole session; an object replaced since may be found in its stead.       *)
Lookup(p, seen) ==
  {remote[p]} \cup {u \in {seen} : Known(u) /\ Known(remote[p]) /\ object[u].path = p}

(* External: Filen gives an upload an identity that nothing refers to. *)
Snapshots(r) == {r.at} \cup (IF Known(r.copies)
                             THEN {r.copies[q] : q \in DOMAIN r.copies} ELSE {})
Referenced ==
  {remote[p] : p \in Path} \cup {op.remote}
  \cup {base[p].uuid : p \in {q \in Path : Known(base[q])}}
  \cup UNION {{s.remote : s \in Snapshots(review[p])} : p \in {q \in Path : Known(review[q])}}
Unused   == Id \ Referenced
NewId    == CHOOSE u \in Unused : TRUE

Upload(p, c) ==
  /\ Unused # {}
  /\ object' = [u \in Id |-> IF u = NewId THEN [content |-> c, path |-> p]
                            ELSE IF u \in Referenced THEN object[u] ELSE None]
  /\ remote' = [remote EXCEPT ![p] = NewId]

-----------------------------------------------------------------------------
(* captureConflict *)

Matches(l, u, s) == l = s.local /\ u = s.remote

Preserve(contents) == recovery' = recovery \cup {c \in contents : Known(c)}

(* What follows a capture: a review goes on to the copies, an automatic     *)
(* merge that succeeds to its application; everything else ends.            *)
AfterCapture(l, u) ==
  \/ op.kind = "review" /\ Goto("collect")
  \/ /\ op.kind = "auto" /\ Known(l) /\ Known(u)
     /\ \E merged \in Content :
          op' = [op EXCEPT !.kind = "apply", !.step = "begin", !.bytes = merged,
                           !.local = None, !.remote = None]
  \/ op.kind # "review" /\ Leave

(* A path that is not in conflict yet is captured as it was planned only,   *)
(* and a record that still holds is kept.                                   *)
CaptureRead(p) ==
  /\ op.path = p /\ op.step = "capture"
  /\ \E u \in Lookup(p, op.remote) :
       LET moved == ~Known(review[p]) /\ ~Matches(local[p], u, op)
           holds == /\ Known(review[p]) /\ ~review[p].approved
                    /\ Matches(local[p], u, review[p].at)
       IN  \/ moved /\ Leave
           \/ holds /\ AfterCapture(local[p], u)
           \/ ~moved /\ ~holds /\ Saw("publish", local[p], u)
  /\ UNCHANGED <<disks, stores, shown, spent>>

(* Both sides are preserved, read once more and published as a revision of  *)
(* their own, without the approval of the last one.                         *)
Publish(p) ==
  /\ op.path = p /\ op.step = "publish"
  /\ Preserve({op.local, Hash(op.remote)})
  /\ \E u \in Lookup(p, op.remote) :
       IF Matches(local[p], u, op)
       THEN /\ review' = [review EXCEPT ![p] =
                 [at |-> [local |-> op.local, remote |-> op.remote],
                  copies |-> IF Known(@) THEN @.copies ELSE None,
                  approved |-> FALSE, result |-> None,
                  remoteApplied |-> FALSE, localApplied |-> FALSE]]
            /\ shown' = FALSE
            /\ AfterCapture(op.local, op.remote)
       ELSE Leave /\ UNCHANGED <<review, shown>>
  /\ UNCHANGED <<disks, base, spent>>

(* What the planner calls a conflict: both sides differ from the history    *)
(* and from each other.  The pass holds what its scan saw.                  *)
InConflict(p) ==
  /\ local[p] # (IF Known(base[p]) THEN base[p].hash ELSE None)
  /\ remote[p] # (IF Known(base[p]) THEN base[p].uuid ELSE None)
  /\ local[p] # Hash(remote[p])

StartConflict(p) ==
  /\ op = NoOp /\ ~Known(review[p]) /\ InConflict(p)
  /\ \E kind \in {"conflict", "auto"} :
       op' = [NoOp EXCEPT !.kind = kind, !.path = p, !.step = "capture",
                          !.local = local[p], !.remote = remote[p]]
  /\ UNCHANGED <<disks, stores, shown, spent>>

-----------------------------------------------------------------------------
(* The review that the user opens *)

Act == spent.acts < MaxActs /\ spent' = [spent EXCEPT !.acts = @ + 1]

(* loadConflictForReview: an interrupted application is shown as it stands. *)
OpenReview(p) ==
  /\ op = NoOp /\ Known(review[p]) /\ Act
  /\ IF review[p].approved /\ ~review[p].localApplied
     THEN shown' = TRUE /\ UNCHANGED op
     ELSE /\ op' = [NoOp EXCEPT !.kind = "review", !.path = p, !.step = "capture"]
          /\ UNCHANGED shown
  /\ UNCHANGED <<disks, stores>>

CopyPaths(p) == {q \in CopiesOf[p] : Known(local[q]) \/ Known(remote[q])}

(* collectConflictCopies *)
Collect(p) ==
  /\ op.path = p /\ At({"review"}, "collect")
  /\ LET found == [q \in CopyPaths(p) |-> [local |-> local[q], remote |-> remote[q]]]
     IN  /\ review' = [review EXCEPT ![p].copies = found]
         /\ Preserve(UNION {{local[q], Hash(remote[q])} : q \in CopyPaths(p)})
  /\ shown' = TRUE
  /\ Leave
  /\ UNCHANGED <<disks, base, spent>>
=============================================================================
