---------------------------- MODULE MirrorSync -----------------------------
(***************************************************************************)
(* The core of the plugin: one vault and one Filen folder kept equal by    *)
(* passes of the engine (src/sync-engine.ts, src/sync/apply-pass.ts) that  *)
(* scan both sides, plan every path against the sync history and execute   *)
(* the plan (src/sync/executor.ts), while the user keeps editing the vault *)
(* and other devices keep writing to the drive.  Automatic passes refuse   *)
(* what needs the user's consent; a conflict is settled by the user, in a  *)
(* session between passes, or by a pass that merges it or resumes what an  *)
(* earlier application left (src/sync/conflict-apply.ts).                  *)
(*                                                                         *)
(* An action is one stretch of the code's work: a check with the read it   *)
(* needs, or one write.  Between any two of them the code awaits, and the  *)
(* user, another device, the other transfer worker or a crash may step in. *)
(* Both reads of a comparison of two sides are one action; the code reads  *)
(* each side twice to get the same effect.                                 *)
(***************************************************************************)
EXTENDS SyncPlanner, Naturals, FiniteSets

CONSTANTS
  Path,         \* mirrored paths
  Content,      \* what a file may hold
  Time,         \* modification times
  Now,          \* the clock's, which an applied result is given
  Uuid,         \* identities Filen gives to uploaded objects
  SizeOf,       \* [Content -> Nat]: size in bytes
  Digests,      \* whether other clients store a SHA-512 with their uploads
  Directions,   \* the directions the user runs passes in
  Mergeable,    \* paths of Markdown notes and selected settings files
  Workers,      \* transfers in flight at once (transferConcurrency)
  MaxEdits,     \* bound on steps of the user and of other devices
  MaxSilent,    \* bound on edits that keep size and mtime and raise no event
  MaxFaults     \* bound on crashes, failed requests and plans the user declines

ASSUME SizeAssumption == SizeOf \in [Content -> Nat]
ASSUME DirectionAssumption == Directions \subseteq SyncDirections
ASSUME DigestAssumption == Digests \subseteq BOOLEAN
ASSUME NowAssumption == Now \in Time
ASSUME BoundAssumption == Workers \in Nat /\ MaxEdits \in Nat /\ MaxSilent \in Nat /\ MaxFaults \in Nat

VARIABLES
  local,        \* vault:  [Path -> file or None]
  remote,       \* drive:  [Path -> uuid of the current object or None]
  object,       \* the uploaded objects: [Uuid -> object or None]
  base,         \* sync history: [Path -> record or None]
  conflict,     \* recorded conflicts: [Path -> captured pair or None]
  hashes,       \* LocalHashCache: [Path -> fingerprint or None]
  phase,        \* "idle", "scan", "confirm", "apply", or "review": a user's session
  consent,      \* "attended": the user runs this pass; "held": passes await the user
  pass,         \* the running pass: direction, verify, what it has read
  localScan,    \* its local inventory:  [Path -> local entry or None]
  remoteScan,   \* its remote inventory: [Path -> uuid or None]
  job,          \* its planned actions:  [Path -> job or None]
  spent         \* the bounded counters

vault == <<local, remote, object>>
disk  == <<base, conflict>>
vars  == <<local, remote, object, base, conflict, hashes, phase, consent, pass,
           localScan, remoteScan, job, spent>>

-----------------------------------------------------------------------------
LocalFile  == [content : Content, mtime : Time]
Object     == [content : Content, mtime : Time, digest : BOOLEAN]
Fingerprint == [hash : Content, sha512 : BOOLEAN]  \* SHA-256, and perhaps SHA-512
LocalEntry == [size : Nat, mtime : Time, hash : Content \cup {None}]
Record     == [size : Nat, hash : Content, mtime : Time, remoteUuid : Uuid,
               remoteHash : Content \cup {None}, remoteMtime : Time]
ScannedObject == [uuid : Uuid, size : Nat, mtime : Time,
                  remoteHash : Content \cup {None}, hash : Content \cup {None}]
Captured   == [local : Content \cup {None}, remote : Uuid \cup {None},
               approved : BOOLEAN, result : Content \cup {None}]
Job        == [op    : {"upload", "download", "delete-local", "delete-remote",
                        "conflict", "accept", "forget"},
               step  : {"start", "read", "ready", "armed", "done", "recorded",
                        "recapture", "checked", "begin", "approve", "approved",
                        "sent", "applied", "local", "written"},
               bytes : Content \cup {None},
               uuid  : Uuid \cup {None},
               raced : BOOLEAN]
Pass       == [direction : SyncDirections, verify : BOOLEAN,
               read : SUBSET {"local", "remote"},
               dirty : BOOLEAN, failed : BOOLEAN, pending : BOOLEAN]

ASSUME NoneAssumption ==
  None \notin Content \cup Uuid \cup LocalFile \cup Object \cup LocalEntry
              \cup ScannedObject \cup Fingerprint \cup Record \cup Captured \cup Job

TypeOK ==
  /\ local      \in [Path -> LocalFile \cup {None}]
  /\ remote     \in [Path -> Uuid \cup {None}]
  /\ object     \in [Uuid -> Object \cup {None}]
  /\ base       \in [Path -> Record \cup {None}]
  /\ conflict   \in [Path -> Captured \cup {None}]
  /\ hashes     \in [Path -> Fingerprint \cup {None}]
  /\ phase      \in {"idle", "scan", "confirm", "apply", "review"}
  /\ consent    \in {"none", "attended", "held"}
  /\ pass       \in Pass
  /\ localScan  \in [Path -> LocalEntry \cup {None}]
  /\ remoteScan \in [Path -> Uuid \cup {None}]
  /\ job        \in [Path -> Job \cup {None}]
  /\ spent      \in [edits : 0 .. MaxEdits, silent : 0 .. MaxSilent, faults : 0 .. MaxFaults]

NoJobs   == [p \in Path |-> None]
NoHashes == [p \in Path |-> None]
IdlePass == [direction |-> "both", verify |-> FALSE, read |-> {},
             dirty |-> FALSE, failed |-> FALSE, pending |-> FALSE]

(* A fresh installation: the vault may hold files; other devices fill Filen. *)
Init ==
  /\ local \in [Path -> LocalFile \cup {None}]
  /\ remote = [p \in Path |-> None]
  /\ object = [u \in Uuid |-> None]
  /\ base = [p \in Path |-> None]
  /\ conflict = [p \in Path |-> None]
  /\ hashes = NoHashes
  /\ phase = "idle"
  /\ consent = "none"
  /\ pass = IdlePass
  /\ localScan = [p \in Path |-> None]
  /\ remoteScan = [p \in Path |-> None]
  /\ job = NoJobs
  /\ spent = [edits |-> 0, silent |-> 0, faults |-> 0]

-----------------------------------------------------------------------------
(* Scanning and planning: SyncEngine.executeSyncPass and scanFull.          *)

RemoteEntry(u, hash) ==
  [uuid |-> u, size |-> SizeOf[object[u].content], mtime |-> object[u].mtime,
   remoteHash |-> IF object[u].digest THEN object[u].content ELSE None,
   hash |-> hash]

(* The invalidation epoch is captured here; dirty is "it has moved since".  *)
BeginPass(d, verify) ==
  /\ phase = "idle"
  /\ phase' = "scan"
  /\ pass' = [IdlePass EXCEPT !.direction = d, !.verify = verify]
  /\ UNCHANGED <<vault, disk, hashes, localScan, remoteScan, job, spent>>

(* A manual run verifies contents instead of trusting hashes, and ends the  *)
(* wait for a confirmation.                                                 *)
StartPass(d) == BeginPass(d, TRUE) /\ consent' = "attended"

(* The timers run two-way passes, unless one waits to be confirmed; a pass  *)
(* that follows a replan verifies contents too.                             *)
AutomaticPass(verify) ==
  /\ consent # "held"
  /\ BeginPass("both", verify)
  /\ UNCHANGED consent

(* scanLocal: cached hashes are trusted; a file without history is left     *)
(* unhashed unless contents are verified; every other file is read.         *)
ScanLocal ==
  /\ phase = "scan" /\ "local" \notin pass.read
  /\ LET cached(p)  == ~pass.verify /\ Known(hashes[p])
         skipped(p) == ~pass.verify /\ ~Known(hashes[p]) /\ ~Known(base[p])
         found(p)   == IF cached(p) THEN hashes[p]
                       ELSE IF skipped(p) THEN None
                       ELSE [hash |-> local[p].content, sha512 |-> FALSE]
     IN  /\ localScan' = [p \in Path |->
              IF ~Known(local[p]) THEN None
              ELSE [size |-> SizeOf[local[p].content], mtime |-> local[p].mtime,
                    hash |-> IF Known(found(p)) THEN found(p).hash ELSE None]]
         /\ hashes' = [p \in Path |-> IF Known(local[p]) THEN found(p) ELSE None]
  /\ pass' = [pass EXCEPT !.read = @ \cup {"local"}]
  /\ UNCHANGED <<vault, disk, phase, consent, remoteScan, job, spent>>

ScanRemote ==
  /\ phase = "scan" /\ "remote" \notin pass.read
  /\ remoteScan' = remote
  /\ pass' = [pass EXCEPT !.read = @ \cup {"remote"}]
  /\ UNCHANGED <<vault, disk, hashes, phase, consent, localScan, job, spent>>

Scanned == phase = "scan" /\ pass.read = {"local", "remote"}

Compared(p) ==
  /\ Known(remoteScan[p])
  /\ NeedsEquality(localScan[p], RemoteEntry(remoteScan[p], None), base[p])

(* External: the SDK resolves a path from its cache of directory listings,  *)
(* which is reset only between sessions, so a replaced object may still be  *)
(* found under the identity that was scanned.  A trashed one is not.        *)
Lookup(p) ==
  {remote[p]} \cup
  {u \in {remoteScan[p], IF Known(job[p]) THEN job[p].uuid ELSE None} :
     Known(u) /\ Known(remote[p])}

(* Without a SHA-512 to compare with, the scanned object is downloaded. *)
FetchedToCompare(p) == Compared(p) /\ ~object[remoteScan[p]].digest

(* The local digest of the right kind comes from the cache, or from a read. *)
ComparedFingerprint(p) ==
  LET digest == object[remoteScan[p]].digest
  IN  IF Known(hashes[p]) /\ (digest => hashes[p].sha512) THEN hashes[p]
      ELSE [hash |-> local[p].content, sha512 |-> digest]

EntryHash(p) == IF Compared(p) THEN ComparedFingerprint(p).hash ELSE localScan[p].hash

PlannedLocal(p) ==
  IF Known(localScan[p]) THEN [localScan[p] EXCEPT !.hash = EntryHash(p)] ELSE None

PlannedRemote(p) ==
  IF ~Known(remoteScan[p]) THEN None
  ELSE LET u == remoteScan[p]
       IN  RemoteEntry(u, IF Compared(p)
                          THEN EqualityHash(EntryHash(p), RemoteEntry(u, None), object[u].content)
                          ELSE None)

(* A no-op still records verified equality, or forgets a path gone from     *)
(* both sides; otherwise there is nothing to execute.                       *)
NewJob(op) == [op |-> op, step |-> "start", bytes |-> None, uuid |-> None, raced |-> FALSE]

(* A mutation: a no-op is executed like any other action. *)
MutPlannedJob(p) ==
  NewJob(PlanSync(Known(conflict[p]), PlannedLocal(p), PlannedRemote(p), base[p], pass.direction))

PlannedJob(p) ==
  LET op == PlanSync(Known(conflict[p]), PlannedLocal(p), PlannedRemote(p),
                     base[p], pass.direction)
  IN  CASE op # "noop" -> NewJob(op)
        [] op = "noop" /\ VerifiedIdentical(PlannedLocal(p), PlannedRemote(p)) -> NewJob("accept")
        [] op = "noop" /\ ~Known(localScan[p]) /\ ~Known(remoteScan[p]) /\ Known(base[p]) ->
             NewJob("forget")
        [] OTHER -> None

(* confirmPlannedChanges asks before local deletions, and before deletions  *)
(* and overwrites beyond the bulk guard's thresholds, which are abstracted: *)
(* it may block any plan that is destructive.                               *)
Destructive(p, j) ==
  Known(j) /\ \/ j.op \in {"delete-local", "delete-remote"}
              \/ j.op = "upload" /\ Known(remoteScan[p])
              \/ j.op = "download" /\ Known(localScan[p])

Asks ==
  LET plan == {p \in Path : Known(PlannedJob(p))}
  IN  IF \E p \in plan : PlannedJob(p).op = "delete-local" THEN {TRUE}
      ELSE {FALSE} \cup {TRUE : p \in {q \in plan : Destructive(q, PlannedJob(q))}}

(* assertScanEpoch held, and every object fetched was the scanned one.  Who *)
(* started the pass, and how it scanned, matters no more once it applies.   *)
Plan ==
  /\ Scanned /\ ~pass.dirty
  /\ \A p \in Path : FetchedToCompare(p) => remoteScan[p] \in Lookup(p)
  /\ \E asks \in Asks :
       /\ phase' = IF asks THEN "confirm" ELSE "apply"
       /\ consent' = IF asks THEN consent ELSE "none"
  /\ pass' = [pass EXCEPT !.verify = FALSE]
  /\ localScan' = [p \in Path |-> PlannedLocal(p)]
  /\ hashes' = [p \in Path |-> IF Compared(p) THEN ComparedFingerprint(p) ELSE hashes[p]]
  /\ job' = [p \in Path |-> PlannedJob(p)]
  /\ UNCHANGED <<vault, disk, remoteScan, spent>>

(* What a pass knows dies with it. *)
LeavePass ==
  /\ phase' = "idle"
  /\ pass' = IdlePass
  /\ localScan' = [p \in Path |-> None]
  /\ remoteScan' = [p \in Path |-> None]
  /\ job' = NoJobs

(* Stale evidence is discarded, with the hash cache, and another pass plans *)
(* anew.                                                                    *)
DiscardScan ==
  /\ Scanned
  /\ \/ pass.dirty
     \/ \E p \in Path : FetchedToCompare(p) /\ remote[p] # remoteScan[p]
  /\ LeavePass /\ consent' = "none"
  /\ hashes' = NoHashes
  /\ UNCHANGED <<vault, disk, spent>>

(* Only a run the user started can be confirmed; *)
Confirm ==
  /\ phase = "confirm" /\ consent = "attended"
  /\ phase' = "apply" /\ consent' = "none"
  /\ UNCHANGED <<vault, disk, hashes, pass, localScan, remoteScan, job, spent>>

(* an automatic one refuses, and automatic runs are held until the user     *)
(* starts one.                                                              *)
Refuse ==
  /\ phase = "confirm" /\ consent = "none"
  /\ LeavePass /\ consent' = "held"
  /\ UNCHANGED <<vault, disk, hashes, spent>>

-----------------------------------------------------------------------------
(* The apply pass: transfers run in a pool, everything else alone; after a  *)
(* failure nothing new starts and what is in flight is drained.             *)

Transfer  == {"upload", "download"}
InFlight  == {p \in Path : Known(job[p]) /\ job[p].step # "start"}

CanStart(p) ==
  /\ job[p].step = "start"
  /\ ~pass.failed
  /\ IF job[p].op \in Transfer
     THEN /\ \A q \in InFlight : job[q].op \in Transfer
          /\ Cardinality(InFlight) < Workers
     ELSE InFlight = {}

At(p, op, step) ==
  /\ phase = "apply" /\ Known(job[p]) /\ job[p].op = op /\ job[p].step = step
  /\ step = "start" => CanStart(p)

Step(p, step)       == job' = [job EXCEPT ![p].step = step] /\ UNCHANGED pass
Hold(p, step, b, u) == job' = [job EXCEPT ![p].step = step, ![p].bytes = b, ![p].uuid = u]
                       /\ UNCHANGED pass
Finish(p)           == job' = [job EXCEPT ![p] = None] /\ UNCHANGED pass
(* "Replan the sync": the pass fails once what is in flight is drained. *)
Replan(p)           == job' = [job EXCEPT ![p] = None] /\ pass' = [pass EXCEPT !.failed = TRUE]
(* LocalEditPendingError: remembered, and the other transfers go on. *)
EditPending(p)      == job' = [job EXCEPT ![p] = None] /\ pass' = [pass EXCEPT !.pending = TRUE]

Live(p) == IF Known(local[p]) THEN local[p].content ELSE None

StatUnchanged(p) ==
  /\ Known(local[p]) /\ Known(localScan[p])
  /\ local[p].mtime = localScan[p].mtime
  /\ SizeOf[local[p].content] = localScan[p].size

LocalUnchanged(p) ==
  StatUnchanged(p) /\ (Known(localScan[p].hash) => local[p].content = localScan[p].hash)

(* Filen gives every uploaded object an identity it never used before.  An  *)
(* identity that nothing refers to any more stands for such a one.          *)
Referenced ==
  (UNION {{remote[p], remoteScan[p]} : p \in Path})
  \cup {base[p].remoteUuid : p \in {q \in Path : Known(base[q])}}
  \cup {conflict[p].remote : p \in {q \in Path : Known(conflict[q])}}
  \cup {job[p].uuid : p \in {q \in Path : Known(job[q])}}

Unused  == Uuid \ Referenced
NewUuid == CHOOSE u \in Unused : TRUE

Uploaded(p, o) ==
  /\ Unused # {}
  /\ object' = [u \in Uuid |-> IF u = NewUuid THEN o
                              ELSE IF u \in Referenced THEN object[u] ELSE None]
  /\ remote' = [remote EXCEPT ![p] = NewUuid]

frame  == <<phase, consent, localScan, remoteScan, spent>>

-----------------------------------------------------------------------------
(* SyncExecutor.pushLocal and FilenRemoteFs.writeFile *)

UploadRead(p) ==
  /\ At(p, "upload", "start")
  /\ IF StatUnchanged(p) THEN Hold(p, "read", local[p].content, None) ELSE EditPending(p)
  /\ UNCHANGED <<vault, disk, hashes, frame>>

UploadRecheck(p) ==
  /\ At(p, "upload", "read")
  /\ IF StatUnchanged(p) /\ Live(p) = job[p].bytes THEN Step(p, "ready") ELSE EditPending(p)
  /\ UNCHANGED <<vault, disk, hashes, frame>>

(* A mutation: whatever is at the path is replaced. *)
MutUploadPrecheck(p) ==
  /\ At(p, "upload", "ready")
  /\ Step(p, "armed")
  /\ UNCHANGED <<vault, disk, hashes, frame>>

(* fileExists asks Filen itself, not the SDK's cache. *)
UploadPrecheck(p) ==
  /\ At(p, "upload", "ready")
  /\ IF remote[p] = remoteScan[p] THEN Step(p, "armed") ELSE Replan(p)
  /\ UNCHANGED <<vault, disk, hashes, frame>>

(* The upload's final request; Filen keeps what it replaces as a version. *)
UploadCommit(p) ==
  /\ At(p, "upload", "armed")
  /\ Uploaded(p, [content |-> job[p].bytes, mtime |-> localScan[p].mtime, digest |-> TRUE])
  /\ Hold(p, "done", job[p].bytes, NewUuid)
  /\ UNCHANGED <<local, disk, hashes, frame>>

UploadedRecord(bytes, mtime, u) ==
  [size |-> SizeOf[bytes], hash |-> bytes, mtime |-> mtime, remoteUuid |-> u,
   remoteHash |-> bytes, remoteMtime |-> mtime]

(* A mutation: the history records what the vault holds now. *)
MutUploadRecord(p) ==
  /\ At(p, "upload", "done")
  /\ base' = [base EXCEPT ![p] = UploadedRecord(
       IF Known(local[p]) THEN local[p].content ELSE job[p].bytes,
       localScan[p].mtime, job[p].uuid)]
  /\ Step(p, "recorded")
  /\ UNCHANGED <<vault, conflict, hashes, frame>>

UploadRecord(p) ==
  /\ At(p, "upload", "done")
  /\ base' = [base EXCEPT ![p] =
       UploadedRecord(job[p].bytes, localScan[p].mtime, job[p].uuid)]
  /\ Step(p, "recorded")
  /\ UNCHANGED <<vault, conflict, hashes, frame>>

UploadFinish(p) ==
  /\ At(p, "upload", "recorded")
  /\ IF StatUnchanged(p) /\ Live(p) = job[p].bytes THEN Finish(p) ELSE EditPending(p)
  /\ UNCHANGED <<vault, disk, hashes, frame>>

-----------------------------------------------------------------------------
(* SyncExecutor.pullRemote *)

DownloadRead(p) ==
  /\ At(p, "download", "start")
  /\ \E found \in Lookup(p) :
       IF found = remoteScan[p]
       THEN Hold(p, "read", object[found].content, found) ELSE Replan(p)
  /\ UNCHANGED <<vault, disk, hashes, frame>>

DownloadVerify(p) ==
  /\ At(p, "download", "read")
  /\ \E found \in Lookup(p) :
       IF found = remoteScan[p] THEN Step(p, "ready") ELSE Replan(p)
  /\ UNCHANGED <<vault, disk, hashes, frame>>

(* A mutation: size and mtime are compared, the bytes are not. *)
MutBlindArm(p) ==
  /\ At(p, "download", "ready")
  /\ Step(p, "armed")
  /\ UNCHANGED <<vault, disk, hashes, frame>>

MutDownloadArm(p) ==
  /\ At(p, "download", "ready")
  /\ IF ~Known(local[p]) \/ StatUnchanged(p) THEN Step(p, "armed") ELSE EditPending(p)
  /\ UNCHANGED <<vault, disk, hashes, frame>>

(* A file the user removed meanwhile does not stop the download. *)
DownloadArm(p) ==
  /\ At(p, "download", "ready")
  /\ IF ~Known(local[p]) \/ LocalUnchanged(p) THEN Step(p, "armed") ELSE EditPending(p)
  /\ UNCHANGED <<vault, disk, hashes, frame>>

(* ensureLocalFolder and writeBinary: no condition is left. *)
DownloadWrite(p) ==
  /\ At(p, "download", "armed")
  /\ local' = [local EXCEPT ![p] =
       [content |-> job[p].bytes, mtime |-> object[remoteScan[p]].mtime]]
  /\ hashes' = [hashes EXCEPT ![p] = None]
  /\ Step(p, "done")
  /\ UNCHANGED <<remote, object, disk, frame>>

RecordOf(u, hash) ==
  [size |-> SizeOf[hash], hash |-> hash, mtime |-> object[u].mtime, remoteUuid |-> u,
   remoteHash |-> IF object[u].digest THEN object[u].content ELSE None,
   remoteMtime |-> object[u].mtime]

DownloadRecord(p) ==
  /\ At(p, "download", "done")
  /\ base' = [base EXCEPT ![p] = RecordOf(remoteScan[p], job[p].bytes)]
  /\ Finish(p)
  /\ UNCHANGED <<vault, conflict, hashes, frame>>

-----------------------------------------------------------------------------
(* Deletions *)

DeleteLocalProbe(p) ==
  /\ At(p, "delete-local", "start")
  /\ IF ~Known(remote[p]) THEN Step(p, "ready") ELSE Replan(p)
  /\ UNCHANGED <<vault, disk, hashes, frame>>

DeleteLocalCheck(p) ==
  /\ At(p, "delete-local", "ready")
  /\ \/ ~Known(local[p]) /\ Step(p, "done")
     \/ Known(local[p]) /\ ~StatUnchanged(p) /\ Replan(p)
     \/ StatUnchanged(p) /\ ~LocalUnchanged(p) /\ EditPending(p)
     \/ LocalUnchanged(p) /\ Step(p, "armed")
  /\ UNCHANGED <<vault, disk, hashes, frame>>

DeleteLocalTrash(p) ==
  /\ At(p, "delete-local", "armed")
  /\ local' = [local EXCEPT ![p] = None]
  /\ hashes' = [hashes EXCEPT ![p] = None]
  /\ Step(p, "done")
  /\ UNCHANGED <<remote, object, disk, frame>>

(* A mutation: the object found at the path is trashed, whichever it is. *)
MutDeleteRemoteProbe(p) ==
  /\ At(p, "delete-remote", "start")
  /\ IF ~Known(local[p]) /\ Known(remote[p])
     THEN Hold(p, "armed", None, remote[p]) ELSE Replan(p)
  /\ UNCHANGED <<vault, disk, hashes, frame>>

DeleteRemoteProbe(p) ==
  /\ At(p, "delete-remote", "start")
  /\ \E found \in Lookup(p) :
       IF ~Known(local[p]) /\ found = remoteScan[p]
       THEN Hold(p, "armed", None, found) ELSE Replan(p)
  /\ UNCHANGED <<vault, disk, hashes, frame>>

(* trashFile names the object: one uploaded over it since is not touched. *)
DeleteRemoteTrash(p) ==
  /\ At(p, "delete-remote", "armed")
  /\ remote' = [remote EXCEPT ![p] = IF @ = job[p].uuid THEN None ELSE @]
  /\ Step(p, "done")
  /\ UNCHANGED <<local, object, disk, hashes, frame>>

ForgetDeleted(p) ==
  /\ \/ At(p, "delete-local", "done")
     \/ At(p, "delete-remote", "done")
     \/ At(p, "forget", "start")
  /\ base' = [base EXCEPT ![p] = None]
  /\ Finish(p)
  /\ UNCHANGED <<vault, conflict, hashes, frame>>

-----------------------------------------------------------------------------
(* Equality evidence, and captureConflict *)

AcceptVerify(p) ==
  /\ At(p, "accept", "start")
  /\ \/ ~StatUnchanged(p) /\ EditPending(p)
     \/ /\ StatUnchanged(p)
        /\ \E found \in Lookup(p) :
             IF found = remoteScan[p] THEN Step(p, "ready") ELSE Replan(p)
  /\ UNCHANGED <<vault, disk, hashes, frame>>

(* Only notes and settings files are read again before equality is recorded. *)
AcceptRecord(p) ==
  /\ At(p, "accept", "ready")
  /\ IF p \in Mergeable /\ Live(p) # localScan[p].hash
     THEN Replan(p) /\ UNCHANGED base
     ELSE /\ base' = [base EXCEPT ![p] =
               [RecordOf(remoteScan[p], localScan[p].hash) EXCEPT !.mtime = localScan[p].mtime]]
          /\ Finish(p)
  /\ UNCHANGED <<vault, conflict, hashes, frame>>

AsPlanned(p, found) ==
  /\ IF Known(localScan[p]) THEN LocalUnchanged(p) ELSE ~Known(local[p])
  /\ found = remoteScan[p]

(* The steps of a conflict's job, in a pass or in a user's session. *)
Reviewing(p, step) ==
  /\ phase \in {"apply", "review"}
  /\ Known(job[p]) /\ job[p].op = "conflict" /\ job[p].step = step
  /\ step = "start" => CanStart(p)

Snapshot(here, there) == [local |-> here, remote |-> there, approved |-> FALSE, result |-> None]
Approved(p) == Known(conflict[p]) /\ conflict[p].approved

(* A conflict that is already recorded is captured anew if a side moved, or *)
(* if its approval fits neither side any more.                              *)
CaptureRead(p) ==
  /\ (Reviewing(p, "start") /\ ~Approved(p)) \/ Reviewing(p, "recapture")
  /\ \E found \in Lookup(p) :
       LET pair == Snapshot(Live(p), found)
       IN  \/ ~Known(conflict[p]) /\ ~AsPlanned(p, found) /\ Replan(p)
           \/ conflict[p] = pair /\ Finish(p)
           \/ /\ conflict[p] # pair
              /\ Known(conflict[p]) \/ AsPlanned(p, found)
              /\ Hold(p, "read", Live(p), found)
  /\ UNCHANGED <<vault, disk, hashes, frame>>

(* A check passed, and nothing has overtaken it yet. *)
Arm(p, step) == job' = [job EXCEPT ![p].step = step, ![p].raced = FALSE] /\ UNCHANGED pass

(* A mutation: both sides are trusted to be what was read. *)
MutCaptureCheck(p) ==
  /\ Reviewing(p, "read")
  /\ Arm(p, "checked")
  /\ UNCHANGED <<vault, disk, hashes, frame>>

(* Both sides are read again before the record is published. *)
CaptureCheck(p) ==
  /\ Reviewing(p, "read")
  /\ \E found \in Lookup(p) :
       IF Live(p) = job[p].bytes /\ found = job[p].uuid THEN Arm(p, "checked") ELSE Replan(p)
  /\ UNCHANGED <<vault, disk, hashes, frame>>

(* automaticallyResolve: sides that turn out equal keep what they hold; the *)
(* outcome of merging two texts is abstracted to any content.               *)
Merges(p) ==
  IF Known(conflict[p]) \/ ~Known(job[p].bytes) \/ ~Known(job[p].uuid) THEN {}
  ELSE IF job[p].bytes = object[job[p].uuid].content THEN {job[p].bytes}
  ELSE IF p \in Mergeable THEN Content ELSE {}

(* A new conflict is left for review, or merged at once (conflictResolution *)
(* "auto", where a merge exists).                                           *)
CaptureRecord(p) ==
  /\ Reviewing(p, "checked")
  /\ conflict' = [conflict EXCEPT ![p] = Snapshot(job[p].bytes, job[p].uuid)]
  /\ Finish(p) \/ \E r \in Merges(p) : Hold(p, "begin", r, None)
  /\ UNCHANGED <<vault, base, hashes, frame>>

-----------------------------------------------------------------------------
(* applyConflict: the drive, the vault, the history, then the record.       *)

There(u) == IF Known(u) THEN object[u].content ELSE None

LocalFits(p) ==
  Live(p) = conflict[p].local \/ (conflict[p].approved /\ Live(p) = conflict[p].result)
RemoteFits(p, u) ==
  u = conflict[p].remote \/ (conflict[p].approved /\ There(u) = conflict[p].result)

(* The user's session runs alone; an approval left by an earlier one can    *)
(* only be finished.                                                        *)
Session(p, step, result) ==
  /\ phase = "idle" /\ Known(conflict[p])
  /\ phase' = "review"
  /\ job' = [job EXCEPT ![p] = [NewJob("conflict") EXCEPT !.step = step, !.bytes = result]]
  /\ UNCHANGED <<vault, disk, hashes, consent, pass, localScan, remoteScan, spent>>

StartReview(p, result) ==
  /\ Approved(p) => result = conflict[p].result
  /\ Session(p, "begin", result)

RefreshReview(p) == ~Approved(p) /\ Session(p, "recapture", None)

(* A pass that meets an approval resumes it, whatever its own direction. *)
ResumeApproval(p) ==
  /\ Reviewing(p, "start") /\ Approved(p)
  /\ \E found \in Lookup(p) :
       IF LocalFits(p) /\ RemoteFits(p, found)
       THEN Hold(p, "begin", conflict[p].result, None) ELSE Step(p, "recapture")
  /\ UNCHANGED <<vault, disk, hashes, frame>>

(* Sides that do not fit are captured for another review, which fails the   *)
(* pass.                                                                    *)
ApplyRead(p) ==
  /\ Reviewing(p, "begin")
  /\ \E found \in Lookup(p) :
       IF LocalFits(p) /\ RemoteFits(p, found)
       THEN Hold(p, IF Approved(p) THEN "approved" ELSE "approve", job[p].bytes, found)
       ELSE /\ job' = [job EXCEPT ![p].step = "recapture"]
            /\ pass' = [pass EXCEPT !.failed = TRUE]
  /\ UNCHANGED <<vault, disk, hashes, frame>>

(* The approval is persisted before anything is written. *)
Approve(p) ==
  /\ Reviewing(p, "approve")
  /\ conflict' = [conflict EXCEPT ![p].approved = TRUE, ![p].result = job[p].bytes]
  /\ Step(p, "approved")
  /\ UNCHANGED <<vault, base, hashes, frame>>

(* The drive is written only if it does not hold the result yet, and only   *)
(* over what was read: fileExists asks Filen itself, rm looks the path up.  *)
RemoteGate(p) ==
  /\ Reviewing(p, "approved")
  /\ \E found \in Lookup(p) :
       IF There(job[p].uuid) = conflict[p].result THEN Step(p, "sent")
       ELSE IF ~LocalFits(p) THEN Replan(p)
       ELSE IF Known(conflict[p].result)
       THEN IF remote[p] = job[p].uuid THEN Arm(p, "ready") ELSE Replan(p)
       ELSE IF found = job[p].uuid THEN Arm(p, "armed") ELSE Replan(p)
  /\ UNCHANGED <<vault, disk, hashes, frame>>

(* beforeCommit looks at the vault, and the path is looked up once more. *)
BeforeCommit(p) ==
  /\ Reviewing(p, "ready")
  /\ \E found \in Lookup(p) :
       IF LocalFits(p) /\ found = job[p].uuid THEN Step(p, "armed") ELSE Replan(p)
  /\ UNCHANGED <<vault, disk, hashes, frame>>

(* No side is ahead of the clock, so the time written is the clock's. *)
SendResult(p) ==
  /\ Reviewing(p, "armed") /\ Known(conflict[p].result)
  /\ Uploaded(p, [content |-> conflict[p].result, mtime |-> Now, digest |-> TRUE])
  /\ Step(p, "sent")
  /\ UNCHANGED <<local, disk, hashes, frame>>

TrashRemote(p) ==
  /\ Reviewing(p, "armed") /\ ~Known(conflict[p].result)
  /\ remote' = [remote EXCEPT ![p] = IF @ = job[p].uuid THEN None ELSE @]
  /\ Step(p, "sent")
  /\ UNCHANGED <<local, object, disk, hashes, frame>>

ReadBack(p) ==
  /\ Reviewing(p, "sent")
  /\ \E found \in Lookup(p) :
       IF There(found) = conflict[p].result
       THEN Hold(p, "applied", job[p].bytes, found) ELSE Replan(p)
  /\ UNCHANGED <<vault, disk, hashes, frame>>

(* A mutation: whatever file is there is replaced. *)
MutResultGate(p) ==
  /\ Reviewing(p, "applied")
  /\ Arm(p, "local")
  /\ UNCHANGED <<vault, disk, hashes, frame>>

ResultGate(p) ==
  /\ Reviewing(p, "applied")
  /\ IF ~LocalFits(p) THEN Replan(p)
     ELSE Arm(p, IF Live(p) = conflict[p].result THEN "written" ELSE "local")
  /\ UNCHANGED <<vault, disk, hashes, frame>>

WriteResult(p) ==
  /\ Reviewing(p, "local")
  /\ local' = [local EXCEPT ![p] =
       IF Known(conflict[p].result) THEN [content |-> conflict[p].result, mtime |-> Now] ELSE None]
  /\ hashes' = [hashes EXCEPT ![p] = None]
  /\ Step(p, "written")
  /\ UNCHANGED <<remote, object, disk, frame>>

BothHold(p, found) == Live(p) = conflict[p].result /\ There(found) = conflict[p].result

RecordResult(p) ==
  /\ Reviewing(p, "written")
  /\ \E found \in Lookup(p) :
       IF ~BothHold(p, found) THEN Replan(p) /\ UNCHANGED base
       ELSE /\ base' = [base EXCEPT ![p] =
                 IF Known(conflict[p].result)
                 THEN [RecordOf(found, conflict[p].result) EXCEPT !.mtime = local[p].mtime]
                 ELSE None]
            /\ Step(p, "recorded")
  /\ UNCHANGED <<vault, conflict, hashes, frame>>

DropConflict(p) ==
  /\ Reviewing(p, "recorded")
  /\ \E found \in Lookup(p) :
       IF BothHold(p, found) THEN conflict' = [conflict EXCEPT ![p] = None] /\ Finish(p)
       ELSE Replan(p) /\ UNCHANGED conflict
  /\ UNCHANGED <<vault, base, hashes, frame>>

-----------------------------------------------------------------------------
(* The end of a pass, failures and restarts *)

(* A failed pass drops the hash cache and every plan it did not start; a    *)
(* session invalidates the engine.                                          *)
EndPass ==
  /\ phase \in {"apply", "review"} /\ InFlight = {}
  /\ pass.failed \/ job = NoJobs
  /\ LeavePass /\ UNCHANGED consent
  /\ hashes' = IF pass.failed \/ pass.pending \/ phase = "review" THEN NoHashes ELSE hashes
  /\ UNCHANGED <<vault, disk, spent>>

Fault == spent.faults < MaxFaults /\ spent' = [spent EXCEPT !.faults = @ + 1]

(* A request or a file operation fails between two steps. *)
RequestFails(p) ==
  /\ Fault
  /\ phase \in {"apply", "review"} /\ p \in InFlight
  /\ Replan(p)
  /\ UNCHANGED <<vault, disk, hashes, phase, consent, localScan, remoteScan>>

(* The user declines the plan of their own run. *)
Decline ==
  /\ Fault
  /\ phase = "confirm" /\ consent = "attended"
  /\ LeavePass /\ consent' = "held"
  /\ UNCHANGED <<vault, disk, hashes>>

(* The plugin is unloaded or the application dies; only the disk survives. *)
Crash ==
  /\ Fault
  /\ phase # "idle"
  /\ LeavePass /\ consent' = "none"
  /\ hashes' = NoHashes
  /\ UNCHANGED <<vault, disk>>

(* A mutation: the hash of a file that is still there never expires. *)
MutExpireHash(p) ==
  /\ phase = "idle"
  /\ Known(hashes[p]) /\ ~Known(local[p])
  /\ hashes' = [hashes EXCEPT ![p] = None]
  /\ UNCHANGED <<vault, disk, phase, consent, pass, localScan, remoteScan, job, spent>>

(* A cached hash reaches its verification deadline (read when a pass scans). *)
ExpireHash(p) ==
  /\ phase = "idle"
  /\ Known(hashes[p])
  /\ hashes' = [hashes EXCEPT ![p] = None]
  /\ UNCHANGED <<vault, disk, phase, consent, pass, localScan, remoteScan, job, spent>>

-----------------------------------------------------------------------------
(* The user and the other devices.  raced marks a job whose last check has  *)
(* been overtaken: the change falls between it and the write it guards.     *)

Edits == spent.edits < MaxEdits /\ spent' = [spent EXCEPT !.edits = @ + 1]

Race(p, guarded) ==
  job' = [job EXCEPT ![p] =
    IF Known(@) /\ <<@.op, @.step>> \in guarded THEN [@ EXCEPT !.raced = TRUE] ELSE @]

LocalWrite  == {"download", "delete-local"}
LocalGuard  == (LocalWrite \X {"armed"}) \cup ({"conflict"} \X {"checked", "local"})
RemoteGuard == ({"upload"} \X {"armed"}) \cup ({"conflict"} \X {"ready", "armed"})

(* A vault event drops the path's hash and moves the invalidation epoch,    *)
(* which is compared only while a pass scans.                               *)
UserSets(p, f) ==
  /\ Edits
  /\ local[p] # f
  /\ local' = [local EXCEPT ![p] = f]
  /\ hashes' = [hashes EXCEPT ![p] = None]
  /\ pass' = [pass EXCEPT !.dirty = (phase = "scan")]
  /\ Race(p, LocalGuard)
  /\ UNCHANGED <<remote, object, disk, phase, consent, localScan, remoteScan>>

(* Another program rewrites a file and restores its size and mtime; the     *)
(* vault raises no event.                                                   *)
SilentEdit(p, c) ==
  /\ spent.silent < MaxSilent /\ spent' = [spent EXCEPT !.silent = @ + 1]
  /\ Known(local[p]) /\ local[p].content # c
  /\ SizeOf[c] = SizeOf[local[p].content]
  /\ local' = [local EXCEPT ![p].content = c]
  /\ Race(p, LocalGuard)
  /\ UNCHANGED <<remote, object, disk, hashes, phase, consent, pass, localScan, remoteScan>>

OtherDeviceUploads(p, o) ==
  /\ Edits
  /\ o.digest \in Digests
  /\ Uploaded(p, o)
  /\ Race(p, RemoteGuard)
  /\ UNCHANGED <<local, disk, hashes, phase, consent, pass, localScan, remoteScan>>

OtherDeviceDeletes(p) ==
  /\ Edits
  /\ Known(remote[p])
  /\ remote' = [remote EXCEPT ![p] = None]
  /\ Race(p, RemoteGuard)
  /\ UNCHANGED <<local, object, disk, hashes, phase, consent, pass, localScan, remoteScan>>

-----------------------------------------------------------------------------
Upload(p) ==
  \/ UploadRead(p) \/ UploadRecheck(p) \/ UploadPrecheck(p)
  \/ UploadCommit(p) \/ UploadRecord(p) \/ UploadFinish(p)

Download(p) ==
  DownloadRead(p) \/ DownloadVerify(p) \/ DownloadArm(p) \/ DownloadWrite(p) \/ DownloadRecord(p)

Delete(p) ==
  \/ DeleteLocalProbe(p) \/ DeleteLocalCheck(p) \/ DeleteLocalTrash(p)
  \/ DeleteRemoteProbe(p) \/ DeleteRemoteTrash(p)
  \/ ForgetDeleted(p)

Review(p) ==
  AcceptVerify(p) \/ AcceptRecord(p) \/ CaptureRead(p) \/ CaptureCheck(p) \/ CaptureRecord(p)

Resolve(p) ==
  \/ ResumeApproval(p) \/ ApplyRead(p) \/ Approve(p)
  \/ RemoteGate(p) \/ BeforeCommit(p) \/ SendResult(p) \/ TrashRemote(p) \/ ReadBack(p)
  \/ ResultGate(p) \/ WriteResult(p) \/ RecordResult(p) \/ DropConflict(p)

Execute(p) == Upload(p) \/ Download(p) \/ Delete(p) \/ Review(p) \/ Resolve(p)

Engine ==
  \/ \E verify \in BOOLEAN : AutomaticPass(verify)
  \/ ScanLocal \/ ScanRemote \/ Plan \/ DiscardScan \/ Refuse
  \/ \E p \in Path : Execute(p)
  \/ EndPass

User ==
  \/ \E d \in Directions : StartPass(d)
  \/ Confirm
  \/ \E p \in Path : RefreshReview(p) \/ \E r \in Content \cup {None} : StartReview(p, r)

Faults == Crash \/ Decline \/ \E p \in Path : RequestFails(p)

World ==
  \E p \in Path :
    \/ \E f \in LocalFile \cup {None} : UserSets(p, f)
    \/ \E c \in Content : SilentEdit(p, c)
    \/ \E o \in Object : OtherDeviceUploads(p, o)
    \/ OtherDeviceDeletes(p)

Next == Engine \/ User \/ Faults \/ World \/ \E p \in Path : ExpireHash(p)

Spec == Init /\ [][Next]_vars

-----------------------------------------------------------------------------
(* Properties *)

RecordHonest(r) ==
  /\ Known(object[r.remoteUuid])
  /\ object[r.remoteUuid].content = r.hash
  /\ r.size = SizeOf[r.hash]
  /\ r.remoteHash \in {None, r.hash}

(* The sync history tells the truth: the object it names was uploaded, and  *)
(* the digests and size it holds are that object's.  Every later decision   *)
(* to overwrite or delete rests on this (planner.ts compares with it), and  *)
(* it must survive edits, failures and crashes at every await.              *)
BaselineHonest == \A p \in Path : Known(base[p]) => RecordHonest(base[p])

Own(p, ops, steps) == Known(job[p]) /\ job[p].op \in ops /\ job[p].step \in steps

(* When a two-way pass is about to write or trash a local file, that file   *)
(* is absent or still holds the last synced content, unless it was edited   *)
(* after the check that precedes the write (executor.ts, pullRemote and     *)
(* deleteLocal): no unsynced local edit is chosen for destruction, even     *)
(* when the scan trusted a stale hash.                                      *)
LocalWriteIsSafe ==
  \A p \in Path :
    pass.direction = "both" /\ Own(p, LocalWrite, {"armed"}) /\ ~job[p].raced =>
      ~Known(local[p]) \/ (Known(base[p]) /\ local[p].content = base[p].hash)

(* The same for the drive: the object a two-way upload is about to replace  *)
(* holds the last synced content, unless another device wrote after the     *)
(* last look (writeFile's fileExists): a lookup served from the SDK's cache *)
(* never lets an upload bury another device's new version.                  *)
RemoteWriteIsSafe ==
  \A p \in Path :
    pass.direction = "both" /\ Own(p, {"upload"}, {"armed"}) /\ ~job[p].raced =>
      ~Known(remote[p]) \/ (Known(base[p]) /\ object[remote[p]].content = base[p].hash)

BySync == spent'.edits = spent.edits /\ spent'.silent = spent.silent

(* In every direction, the plugin removes a remote file only when the sync  *)
(* history holds the very content it removes, or when it carries out an     *)
(* approved deletion, of the very object that was reviewed: absence alone   *)
(* never deletes, and a version uploaded since is never trashed.            *)
RemovalIsKnown(p) ==
  \/ Known(base[p]) /\ object[remote[p]].content = base[p].hash
  \/ Approved(p) /\ ~Known(conflict[p].result) /\ remote[p] = conflict[p].remote

RemoteDeletionIsKnown ==
  [][\A p \in Path :
       BySync /\ Known(remote[p]) /\ ~Known(remote'[p]) => RemovalIsKnown(p)]_vars

(* While a conflict is recorded, the plugin leaves both sides and the       *)
(* history alone until a result is approved ("both originals remain         *)
(* unchanged"), and then moves each of them once, from what was reviewed to *)
(* that result; what a side holds otherwise got there after the last check. *)
(* The record goes only when the vault and the history have the result, and *)
(* what is recorded anew is what the vault held at the last look.           *)
HistoryHolds(p) == IF Known(base[p]) THEN base[p].hash ELSE None
RemoteHolds(p)  == There(remote[p])

TowardsResult(p) ==
  /\ local'[p] # local[p] =>
       /\ Approved(p) /\ Live(p)' = conflict[p].result
       /\ job[p].raced \/ Live(p) = conflict[p].local
  /\ remote'[p] # remote[p] =>
       /\ Approved(p) /\ RemoteHolds(p)' = conflict[p].result
       /\ job[p].raced \/ remote[p] = conflict[p].remote
  /\ base'[p] # base[p] => Approved(p) /\ HistoryHolds(p)' = conflict[p].result
  /\ ~Known(conflict'[p]) =>
       /\ Approved(p) /\ Live(p) = conflict[p].result
       /\ HistoryHolds(p) = conflict[p].result

CapturedLive(p) ==
  conflict'[p] # conflict[p] /\ Known(conflict'[p]) /\ ~conflict'[p].approved =>
    job[p].raced \/ conflict'[p].local = Live(p)

ApprovedOnly ==
  [][\A p \in Path :
       BySync => /\ Known(conflict[p]) => TowardsResult(p)
                 /\ CapturedLive(p)]_vars

(* A push-only pass never writes the vault and a pull-only pass never       *)
(* writes the drive, but to carry out an approved result of that path's     *)
(* conflict, which a pass does in any direction.                            *)
DirectionRespected ==
  [][BySync => \A p \in Path :
       /\ pass.direction = "push" /\ local'[p] # local[p] => Approved(p)
       /\ pass.direction = "pull" /\ remote'[p] # remote[p] => Approved(p)]_vars

(* Once edits and failures cease, every path ends equal on both sides with  *)
(* its history saying so, or is waiting for conflict review; unless the     *)
(* plugin waits for the user to confirm what it would delete or replace: it *)
(* holds its automatic passes, or its question is on the screen.            *)
Settled(p) ==
  \/ Known(conflict[p])
  \/ ~Known(local[p]) /\ ~Known(remote[p]) /\ ~Known(base[p])
  \/ /\ Known(local[p]) /\ Known(remote[p]) /\ Known(base[p])
     /\ local[p].content = object[remote[p]].content
     /\ base[p].hash = local[p].content

AwaitsUser == consent = "held" \/ (phase = "confirm" /\ consent = "attended")

Converges == <>[](AwaitsUser \/ \A p \in Path : Settled(p))

(* The interval timer keeps starting automatic passes while nothing holds   *)
(* them, every request ends, and cached hashes reach their verification     *)
(* deadline, however often a pass runs.  Nothing is assumed of the user.    *)
Fairness == WF_vars(Engine) /\ \A p \in Path : SF_vars(ExpireHash(p))

FairSpec == Spec /\ Fairness
=============================================================================
