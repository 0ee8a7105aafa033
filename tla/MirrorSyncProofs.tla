-------------------------- MODULE MirrorSyncProofs --------------------------
(***************************************************************************)
(* TypeOK and BaselineHonest hold of every instance of MirrorSync: any     *)
(* paths, contents, times, number of transfer workers, and any number of   *)
(* edits, silent edits and faults.                                         *)
(***************************************************************************)
EXTENDS MirrorSync, TLAPS

(* What every decision of the planner entails, for any contents, times and  *)
(* identities.                                                              *)

(* The planner is total: it always answers with one of its operations. *)
LEMMA PlanSyncType ==
  ASSUME NEW pending, NEW here, NEW there, NEW prev,
         NEW direction \in SyncDirections
  PROVE  PlanSync(pending, here, there, prev, direction) \in Operations
<1>1. LocalOnly(here, prev, direction) \in Operations
  BY DEF LocalOnly, SyncDirections, Operations
<1>2. RemoteOnly(there, prev, direction) \in Operations
  BY DEF RemoteOnly, SyncDirections, Operations
<1>3. BothSides(here, there, prev, direction) \in Operations
  BY DEF BothSides, Clash, SyncDirections, Operations
<1> QED
  BY <1>1, <1>2, <1>3 DEF PlanSync, PlanPath, Operations, Known

(* A download is planned only for a file that is on Filen. *)
LEMMA DownloadNeedsRemote ==
  ASSUME NEW pending, NEW here, NEW there, NEW prev,
         NEW direction \in SyncDirections,
         PlanSync(pending, here, there, prev, direction) = "download"
  PROVE  Known(there)
<1>1. LocalOnly(here, prev, direction) # "download"
  BY DEF LocalOnly, SyncDirections
<1> QED
  BY <1>1 DEF PlanSync, PlanPath, Known

(* A two-way plan overwrites or deletes a local file only if the history    *)
(* knows it and it is unchanged.                                            *)
LEMMA LocalLossIsSynced ==
  ASSUME NEW pending, NEW here, NEW there, NEW prev, Known(here),
         PlanSync(pending, here, there, prev, "both") \in {"download", "delete-local"}
  PROVE  Known(prev) /\ ~IsLocalChanged(here, prev)
  BY DEF PlanSync, PlanPath, LocalOnly, BothSides, Clash

(* A two-way plan replaces a remote file only if the history knows it and   *)
(* it is unchanged.                                                         *)
LEMMA RemoteLossIsSynced ==
  ASSUME NEW pending, NEW here, NEW there, NEW prev, Known(there),
         PlanSync(pending, here, there, prev, "both") = "upload"
  PROVE  Known(prev) /\ ~IsRemoteChanged(there, prev)
  BY DEF PlanSync, PlanPath, RemoteOnly, BothSides, Clash

(* In every direction a remote file is deleted only if the history knows it *)
(* and it is unchanged.                                                     *)
LEMMA RemoteDeletionIsSynced ==
  ASSUME NEW pending, NEW here, NEW there, NEW prev, NEW direction \in SyncDirections,
         PlanSync(pending, here, there, prev, direction) = "delete-remote"
  PROVE  Known(there) /\ Known(prev) /\ ~IsRemoteChanged(there, prev)
<1>1. LocalOnly(here, prev, direction) # "delete-remote"
  BY DEF LocalOnly, SyncDirections
<1>2. BothSides(here, there, prev, direction) # "delete-remote"
  BY DEF BothSides, Clash, SyncDirections
<1>3. RemoteOnly(there, prev, direction) = "delete-remote" =>
        Known(prev) /\ ~IsRemoteChanged(there, prev)
  BY DEF RemoteOnly, SyncDirections
<1> QED
  BY <1>1, <1>2, <1>3 DEF PlanSync, PlanPath, Known

(* A push writes no local file, a pull no remote one, and a recorded        *)
(* conflict admits nothing but its review.                                  *)
LEMMA DirectionLimits ==
  ASSUME NEW pending \in BOOLEAN, NEW here, NEW there, NEW prev
  PROVE  /\ PlanSync(pending, here, there, prev, "push") \notin {"download", "delete-local"}
         /\ PlanSync(pending, here, there, prev, "pull") \notin {"upload", "delete-remote"}
         /\ \A direction : pending => PlanSync(pending, here, there, prev, direction) = "conflict"
<1>1. /\ LocalOnly(here, prev, "push") \notin {"download", "delete-local"}
      /\ LocalOnly(here, prev, "pull") \notin {"upload", "delete-remote"}
  BY DEF LocalOnly
<1>2. /\ RemoteOnly(there, prev, "push") \notin {"download", "delete-local"}
      /\ RemoteOnly(there, prev, "pull") \notin {"upload", "delete-remote"}
  BY DEF RemoteOnly
<1>3. /\ BothSides(here, there, prev, "push") \notin {"download", "delete-local"}
      /\ BothSides(here, there, prev, "pull") \notin {"upload", "delete-remote"}
  BY DEF BothSides, Clash
<1> QED
  BY <1>1, <1>2, <1>3 DEF PlanSync, PlanPath, Known

-----------------------------------------------------------------------------
(* The inductive invariant. *)

(* What is named somewhere was uploaded. *)
ReferencesExist ==
  \A p \in Path :
    /\ Known(remote[p]) => Known(object[remote[p]])
    /\ Known(remoteScan[p]) => Known(object[remoteScan[p]])

(* Jobs exist only once planned; an undisturbed scan found no file that is  *)
(* not there any more.                                                      *)
ScanSound ==
  /\ phase \in {"idle", "scan"} => job = NoJobs
  /\ phase = "scan" /\ "local" \in pass.read /\ ~pass.dirty =>
       \A p \in Path : Known(localScan[p]) => Known(local[p])

(* The steps of a conflict's job that carry out a result. *)
Resolving == {"begin", "approve", "approved", "ready", "armed", "sent", "applied", "local",
              "written", "recorded"}

(* What a job has read is still what it says it is. *)
JobSound(p, j) ==
  /\ j.op = "upload" /\ j.step # "start" => Known(localScan[p]) /\ j.bytes \in Content
  /\ j.op = "upload" /\ j.step \in {"done", "recorded"} =>
       Known(j.uuid) /\ Known(object[j.uuid]) /\ object[j.uuid].content = j.bytes
  /\ j.op = "download" => Known(remoteScan[p])
  /\ j.op = "download" /\ j.step # "start" => j.bytes = object[remoteScan[p]].content
  /\ j.op = "conflict" /\ Known(j.uuid) => Known(object[j.uuid])
  /\ j.op = "conflict" /\ j.step \in Resolving => Known(conflict[p])
  /\ j.op = "accept" =>
       /\ Known(localScan[p]) /\ Known(remoteScan[p])
       /\ localScan[p].hash = object[remoteScan[p]].content

JobsSound == \A p \in Path : Known(job[p]) => JobSound(p, job[p])

IInv == TypeOK /\ ReferencesExist /\ ScanSound /\ JobsSound /\ BaselineHonest

Bounds == [edits : 0 .. MaxEdits, silent : 0 .. MaxSilent, faults : 0 .. MaxFaults]

-----------------------------------------------------------------------------
LEMMA InitIInv == Init => IInv
  BY SizeAssumption, BoundAssumption, DirectionAssumption
  DEF Init, IInv, TypeOK, ReferencesExist, ScanSound, JobsSound, BaselineHonest,
      NoHashes, NoJobs, IdlePass, Pass, SyncDirections, Known

(* Every step of a pass or a session: one job moves on, and with it perhaps *)
(* what it has written; the uploaded objects and both scans stay.           *)
LEMMA WorkStep ==
  ASSUME IInv, phase \in {"apply", "review"},
         NEW p \in Path, NEW j \in Job \cup {None}, NEW r \in Record \cup {None},
         NEW c \in Captured \cup {None},
         local' \in [Path -> LocalFile \cup {None}],
         remote' \in [Path -> Uuid \cup {None}],
         \A q \in Path : Known(remote'[q]) => Known(object[remote'[q]]),
         hashes' \in [Path -> Fingerprint \cup {None}],
         pass' \in Pass, spent' \in Bounds,
         UNCHANGED <<object, phase, consent, localScan, remoteScan>>,
         conflict' = [conflict EXCEPT ![p] = c],
         base' = [base EXCEPT ![p] = r], Known(r) => RecordHonest(r),
         job' = [job EXCEPT ![p] = j], Known(j) => JobSound(p, j)'
  PROVE  IInv'
<1>1. TypeOK'
  BY DEF IInv, TypeOK, Bounds
<1>2. ReferencesExist'
  BY DEF IInv, ReferencesExist
<1>3. ScanSound'
  BY DEF ScanSound
<1>4. JobsSound'
  <2>1. ASSUME NEW q \in Path, Known(job'[q]) PROVE JobSound(q, job[q])'
    <3>1. CASE q = p
      <4>1. job'[q] = j
        BY <3>1 DEF IInv, TypeOK
      <4> QED
        BY <2>1, <3>1, <4>1 DEF JobSound
    <3>2. CASE q # p
      <4>1. job'[q] = job[q] /\ conflict'[q] = conflict[q]
        BY <3>2 DEF IInv, TypeOK
      <4> QED
        BY <2>1, <4>1 DEF IInv, JobsSound, JobSound
    <3> QED
      BY <3>1, <3>2
  <2> QED
    BY <2>1 DEF JobsSound
<1>5. BaselineHonest'
  BY DEF IInv, TypeOK, BaselineHonest, RecordHonest
<1> QED
  BY <1>1, <1>2, <1>3, <1>4, <1>5 DEF IInv

LEMMA ApplyStep ==
  ASSUME IInv, phase \in {"apply", "review"},
         NEW p \in Path, NEW j \in Job \cup {None}, NEW r \in Record \cup {None},
         local' \in [Path -> LocalFile \cup {None}],
         remote' \in [Path -> Uuid \cup {None}],
         \A q \in Path : Known(remote'[q]) => Known(object[remote'[q]]),
         hashes' \in [Path -> Fingerprint \cup {None}],
         pass' \in Pass, spent' \in Bounds,
         UNCHANGED <<object, conflict, phase, consent, localScan, remoteScan>>,
         base' = [base EXCEPT ![p] = r], Known(r) => RecordHonest(r),
         job' = [job EXCEPT ![p] = j], Known(j) => JobSound(p, j)
  PROVE  IInv'
<1>1. conflict[p] \in Captured \cup {None} /\ conflict' = [conflict EXCEPT ![p] = conflict[p]]
  BY DEF IInv, TypeOK
<1>2. Known(j) => JobSound(p, j)'
  BY DEF JobSound
<1> QED
  BY <1>1, <1>2, WorkStep

-----------------------------------------------------------------------------
(* The ways a job moves on without touching either side or the history.     *)

Quiet ==
  /\ UNCHANGED <<vault, disk, hashes, phase, consent, localScan, remoteScan>>
  /\ spent' \in Bounds

JobSteps == {"start", "read", "ready", "armed", "done", "recorded",
             "recapture", "checked", "begin", "approve", "approved",
             "sent", "applied", "local", "written"}

LEMMA DropJob ==
  ASSUME IInv, phase \in {"apply", "review"}, NEW p \in Path, Quiet,
         Finish(p) \/ Replan(p) \/ EditPending(p)
  PROVE  IInv'
<1>1. job' = [job EXCEPT ![p] = None]
  BY DEF Finish, Replan, EditPending
<1>2. pass' \in Pass
  <2>1. pass \in Pass
    BY DEF IInv, TypeOK
  <2>2. [pass EXCEPT !.failed = TRUE] \in Pass /\ [pass EXCEPT !.pending = TRUE] \in Pass
    BY <2>1, Zenon DEF Pass
  <2> QED
    BY <2>1, <2>2 DEF Finish, Replan, EditPending
<1>3. base[p] \in Record \cup {None} /\ base' = [base EXCEPT ![p] = base[p]]
  BY DEF IInv, TypeOK, Quiet, disk
<1>4. Known(base[p]) => RecordHonest(base[p])
  BY DEF IInv, BaselineHonest
<1> QED
  BY <1>1, <1>2, <1>3, <1>4, ApplyStep
  DEF IInv, TypeOK, ReferencesExist, Quiet, vault, disk, Known

LEMMA MoveJob ==
  ASSUME IInv, phase \in {"apply", "review"}, NEW p \in Path, NEW j \in Job, Quiet,
         pass' = pass, job' = [job EXCEPT ![p] = j], JobSound(p, j)
  PROVE  IInv'
<1>1. base[p] \in Record \cup {None} /\ base' = [base EXCEPT ![p] = base[p]]
  BY DEF IInv, TypeOK, Quiet, disk
<1>2. Known(base[p]) => RecordHonest(base[p])
  BY DEF IInv, BaselineHonest
<1> QED
  BY <1>1, <1>2, ApplyStep
  DEF IInv, TypeOK, ReferencesExist, Quiet, vault, disk

LEMMA HoldJob ==
  ASSUME IInv, phase \in {"apply", "review"}, NEW p \in Path, Known(job[p]), Quiet,
         NEW s \in JobSteps, NEW b \in Content \cup {None}, NEW u \in Uuid \cup {None},
         Hold(p, s, b, u),
         JobSound(p, [job[p] EXCEPT !.step = s, !.bytes = b, !.uuid = u])
  PROVE  IInv'
<1> DEFINE j == [job[p] EXCEPT !.step = s, !.bytes = b, !.uuid = u]
<1>1. j \in Job
  BY DEF IInv, TypeOK, Job, JobSteps, Known
<1>2. job' = [job EXCEPT ![p] = j] /\ pass' = pass
  BY DEF Hold, IInv, TypeOK
<1> QED
  BY <1>1, <1>2, MoveJob

LEMMA StepJob ==
  ASSUME IInv, phase \in {"apply", "review"}, NEW p \in Path, Known(job[p]), Quiet,
         NEW s \in JobSteps, Step(p, s), JobSound(p, [job[p] EXCEPT !.step = s])
  PROVE  IInv'
<1> DEFINE j == [job[p] EXCEPT !.step = s]
<1>1. j \in Job
  BY DEF IInv, TypeOK, Job, JobSteps, Known
<1>2. job' = [job EXCEPT ![p] = j] /\ pass' = pass
  BY DEF Step, IInv, TypeOK
<1> QED
  BY <1>1, <1>2, MoveJob

-----------------------------------------------------------------------------
(* Uploads *)

LEMMA QuietStep ==
  ASSUME IInv, UNCHANGED <<vault, disk, hashes, frame>>
  PROVE  Quiet
  BY DEF IInv, TypeOK, Quiet, frame, Bounds

LEMMA UploadReadIInv ==
  ASSUME IInv, NEW p \in Path, UploadRead(p)
  PROVE  IInv'
<1>1. phase = "apply" /\ Known(job[p]) /\ job[p].op = "upload" /\ job[p] \in Job /\ Quiet
  BY QuietStep DEF UploadRead, At, IInv, TypeOK, Known
<1>2. CASE StatUnchanged(p) /\ Hold(p, "read", local[p].content, None)
  <2>1. local[p].content \in Content /\ Known(localScan[p])
    BY <1>2 DEF StatUnchanged, IInv, TypeOK, LocalFile, Known
  <2>2. JobSound(p, [job[p] EXCEPT !.step = "read", !.bytes = local[p].content, !.uuid = None])
    BY <1>1, <2>1 DEF JobSound, Job
  <2> QED
    BY <1>1, <1>2, <2>1, <2>2, HoldJob DEF JobSteps
<1>3. CASE EditPending(p)
  BY <1>1, <1>3, DropJob
<1> QED
  BY <1>2, <1>3 DEF UploadRead

LEMMA UploadRecheckIInv ==
  ASSUME IInv, NEW p \in Path, UploadRecheck(p)
  PROVE  IInv'
<1>1. /\ phase = "apply" /\ Known(job[p]) /\ job[p] \in Job /\ Quiet
      /\ job[p].op = "upload" /\ job[p].step = "read"
  BY QuietStep DEF UploadRecheck, At, IInv, TypeOK, Known
<1>2. CASE Step(p, "ready")
  <2>1. JobSound(p, [job[p] EXCEPT !.step = "ready"])
    BY <1>1 DEF JobSound, Job, IInv, JobsSound
  <2> QED
    BY <1>1, <1>2, <2>1, StepJob DEF JobSteps
<1>3. CASE EditPending(p)
  BY <1>1, <1>3, DropJob
<1> QED
  BY <1>2, <1>3 DEF UploadRecheck

LEMMA UploadPrecheckIInv ==
  ASSUME IInv, NEW p \in Path, UploadPrecheck(p)
  PROVE  IInv'
<1>1. /\ phase = "apply" /\ Known(job[p]) /\ job[p] \in Job /\ Quiet
      /\ job[p].op = "upload" /\ job[p].step = "ready"
  BY QuietStep DEF UploadPrecheck, At, IInv, TypeOK, Known
<1>2. CASE Step(p, "armed")
  <2>1. JobSound(p, [job[p] EXCEPT !.step = "armed"])
    BY <1>1 DEF JobSound, Job, IInv, JobsSound
  <2> QED
    BY <1>1, <1>2, <2>1, StepJob DEF JobSteps
<1>3. CASE Replan(p)
  BY <1>1, <1>3, DropJob
<1> QED
  BY <1>2, <1>3 DEF UploadPrecheck

(* A new object takes an identity nothing refers to; what is referred to    *)
(* stays as it is.                                                          *)
LEMMA UploadedFacts ==
  ASSUME IInv, NEW p \in Path, NEW o \in Object, Uploaded(p, o)
  PROVE  /\ NewUuid \in Uuid
         /\ object' \in [Uuid -> Object \cup {None}] /\ object'[NewUuid] = o
         /\ remote' \in [Path -> Uuid \cup {None}]
         /\ \A u \in Uuid \cap Referenced : object'[u] = object[u]
         /\ \A q \in Path : Known(remote'[q]) => Known(object'[remote'[q]])
         /\ Known(object'[NewUuid])
<1>1. NewUuid \in Unused
  BY DEF Uploaded, NewUuid
<1>2. NewUuid \in Uuid /\ NewUuid \notin Referenced
  BY <1>1 DEF Unused
<1>3. /\ object' \in [Uuid -> Object \cup {None}] /\ object'[NewUuid] = o
      /\ \A u \in Uuid \cap Referenced : object'[u] = object[u]
  BY <1>2 DEF Uploaded, IInv, TypeOK
<1>4. remote' = [remote EXCEPT ![p] = NewUuid] /\ remote' \in [Path -> Uuid \cup {None}]
  BY <1>2 DEF Uploaded, IInv, TypeOK
<1>5. Known(o)
  BY NoneAssumption DEF Known
<1>6. ASSUME NEW q \in Path, Known(remote'[q]) PROVE Known(object'[remote'[q]])
  <2>1. CASE q = p
    BY <1>3, <1>4, <1>5, <2>1 DEF IInv, TypeOK
  <2>2. CASE q # p
    <3>1. remote'[q] = remote[q] /\ remote[q] \in Uuid
      BY <1>4, <1>6, <2>2 DEF IInv, TypeOK, Known
    <3>2. remote[q] \in Referenced
      BY DEF Referenced
    <3> QED
      BY <1>3, <1>6, <3>1, <3>2 DEF IInv, ReferencesExist
  <2> QED
    BY <2>1, <2>2
<1> QED
  BY <1>2, <1>3, <1>4, <1>5, <1>6

(* Uploading over one path disturbs no scan, no record and no held object. *)
LEMMA UploadKeeps ==
  ASSUME IInv, NEW p \in Path, NEW o \in Object, Uploaded(p, o),
         UNCHANGED <<base, localScan, remoteScan>>
  PROVE  /\ ReferencesExist' /\ BaselineHonest'
         /\ \A q \in Path : Known(remoteScan[q]) =>
              object'[remoteScan[q]] = object[remoteScan[q]]
         /\ \A q \in Path : Known(job[q]) /\ Known(job[q].uuid) =>
              object'[job[q].uuid] = object[job[q].uuid]
<1>1. /\ \A u \in Uuid \cap Referenced : object'[u] = object[u]
      /\ \A q \in Path : Known(remote'[q]) => Known(object'[remote'[q]])
  BY UploadedFacts
<1>2. ASSUME NEW q \in Path, Known(remoteScan[q])
      PROVE  object'[remoteScan[q]] = object[remoteScan[q]]
  <2>1. remoteScan[q] \in Referenced
    BY DEF Referenced
  <2> QED
    BY <1>1, <1>2, <2>1 DEF IInv, TypeOK, Known
<1>3. ReferencesExist'
  BY <1>1, <1>2 DEF IInv, ReferencesExist
<1>4. BaselineHonest'
  <2>1. ASSUME NEW q \in Path, Known(base[q])
        PROVE  object'[base[q].remoteUuid] = object[base[q].remoteUuid]
    <3>1. base[q].remoteUuid \in Uuid
      BY <2>1 DEF IInv, TypeOK, Record, Known
    <3>2. base[q].remoteUuid \in Referenced
      BY <2>1 DEF Referenced
    <3> QED
      BY <1>1, <3>1, <3>2
  <2> QED
    BY <2>1 DEF RecordHonest, IInv, BaselineHonest
<1>5. ASSUME NEW q \in Path, Known(job[q]), Known(job[q].uuid)
      PROVE  object'[job[q].uuid] = object[job[q].uuid]
  <2>1. job[q].uuid \in Uuid
    BY <1>5 DEF IInv, TypeOK, Job, Known
  <2>2. job[q].uuid \in Referenced
    BY <1>5 DEF Referenced
  <2> QED
    BY <1>1, <2>1, <2>2
<1> QED
  BY <1>2, <1>3, <1>4, <1>5

LEMMA UploadCommitIInv ==
  ASSUME IInv, NEW p \in Path, UploadCommit(p)
  PROVE  IInv'
<1> DEFINE o == [content |-> job[p].bytes, mtime |-> localScan[p].mtime, digest |-> TRUE]
           j == [job[p] EXCEPT !.step = "done", !.bytes = job[p].bytes, !.uuid = NewUuid]
<1>1. /\ phase = "apply" /\ Known(job[p]) /\ job[p] \in Job
      /\ job[p].op = "upload" /\ job[p].step = "armed" /\ JobSound(p, job[p])
  BY DEF UploadCommit, At, IInv, TypeOK, JobsSound, Known
<1>2. o \in Object
  BY <1>1 DEF JobSound, Object, IInv, TypeOK, LocalEntry, Known
<1>3. Uploaded(p, o) /\ UNCHANGED <<local, disk, hashes, frame>>
  BY DEF UploadCommit
<1>4. /\ ReferencesExist' /\ BaselineHonest'
      /\ \A q \in Path : Known(remoteScan[q]) =>
           object'[remoteScan[q]] = object[remoteScan[q]]
      /\ \A q \in Path : Known(job[q]) /\ Known(job[q].uuid) =>
           object'[job[q].uuid] = object[job[q].uuid]
  BY <1>2, <1>3, UploadKeeps DEF disk, frame
<1>5. job' = [job EXCEPT ![p] = j] /\ pass' = pass
  BY DEF UploadCommit, Hold, IInv, TypeOK
<1>6. /\ NewUuid \in Uuid /\ Known(NewUuid) /\ Known(object'[NewUuid])
      /\ object'[NewUuid].content = job[p].bytes
      /\ object' \in [Uuid -> Object \cup {None}] /\ remote' \in [Path -> Uuid \cup {None}]
  BY <1>2, <1>3, UploadedFacts, NoneAssumption DEF Known
<1>7. j \in Job
  BY <1>1, <1>6 DEF Job
<1>8. TypeOK'
  BY <1>3, <1>5, <1>6, <1>7 DEF IInv, TypeOK, disk, frame
<1>9. ScanSound'
  BY <1>1, <1>3 DEF ScanSound, frame
<1>10. JobsSound'
  <2>1. ASSUME NEW q \in Path, Known(job'[q]) PROVE JobSound(q, job[q])'
    <3>1. CASE q = p
      <4>1. job'[q] = j
        BY <1>5, <3>1 DEF IInv, TypeOK
      <4> QED
        BY <1>1, <1>3, <1>6, <3>1, <4>1 DEF JobSound, frame, Job
    <3>2. CASE q # p
      <4>1. job'[q] = job[q] /\ JobSound(q, job[q])
        BY <1>5, <2>1, <3>2 DEF IInv, TypeOK, JobsSound
      <4> QED
        BY <1>3, <1>4, <2>1, <4>1 DEF JobSound, disk, frame
    <3> QED
      BY <3>1, <3>2
  <2> QED
    BY <2>1 DEF JobsSound
<1> QED
  BY <1>4, <1>8, <1>9, <1>10 DEF IInv

LEMMA UploadRecordIInv ==
  ASSUME IInv, NEW p \in Path, UploadRecord(p)
  PROVE  IInv'
<1> DEFINE r == UploadedRecord(job[p].bytes, localScan[p].mtime, job[p].uuid)
           j == [job[p] EXCEPT !.step = "recorded"]
<1>1. /\ phase = "apply" /\ Known(job[p]) /\ job[p] \in Job
      /\ job[p].op = "upload" /\ job[p].step = "done" /\ JobSound(p, job[p])
  BY DEF UploadRecord, At, IInv, TypeOK, JobsSound, Known
<1>2. /\ job[p].bytes \in Content /\ job[p].uuid \in Uuid /\ localScan[p].mtime \in Time
      /\ Known(object[job[p].uuid]) /\ object[job[p].uuid].content = job[p].bytes
  BY <1>1 DEF JobSound, Job, IInv, TypeOK, LocalEntry, Known
<1>3. r \in Record /\ RecordHonest(r)
  BY <1>2, SizeAssumption DEF Record, UploadedRecord, RecordHonest
<1>4. j \in Job /\ JobSound(p, j)
  BY <1>1 DEF Job, JobSound
<1>5. job' = [job EXCEPT ![p] = j] /\ pass' = pass
  BY DEF UploadRecord, Step, IInv, TypeOK
<1> HIDE DEF r, j
<1>6. base' = [base EXCEPT ![p] = r] /\ UNCHANGED <<vault, conflict, hashes, frame>>
  BY DEF UploadRecord, r
<1> QED
  BY <1>1, <1>3, <1>4, <1>5, <1>6, ApplyStep
  DEF IInv, TypeOK, ReferencesExist, vault, frame, Bounds

LEMMA UploadFinishIInv ==
  ASSUME IInv, NEW p \in Path, UploadFinish(p)
  PROVE  IInv'
  BY QuietStep, DropJob DEF UploadFinish, At

-----------------------------------------------------------------------------
(* Downloads *)

LEMMA DownloadReadIInv ==
  ASSUME IInv, NEW p \in Path, DownloadRead(p)
  PROVE  IInv'
<1>1. /\ phase = "apply" /\ Known(job[p]) /\ job[p] \in Job /\ Quiet
      /\ job[p].op = "download" /\ JobSound(p, job[p])
  BY QuietStep DEF DownloadRead, At, IInv, TypeOK, JobsSound, Known
<1>2. /\ remoteScan[p] \in Uuid /\ Known(remoteScan[p])
      /\ object[remoteScan[p]].content \in Content
  BY <1>1 DEF JobSound, IInv, TypeOK, ReferencesExist, Object, Known
<1>3. CASE Hold(p, "read", object[remoteScan[p]].content, remoteScan[p])
  <2>1. JobSound(p, [job[p] EXCEPT !.step = "read", !.bytes = object[remoteScan[p]].content,
                                   !.uuid = remoteScan[p]])
    BY <1>1, <1>2 DEF JobSound, Job
  <2> QED
    BY <1>1, <1>2, <1>3, <2>1, HoldJob DEF JobSteps
<1>4. CASE Replan(p)
  BY <1>1, <1>4, DropJob
<1> QED
  BY <1>3, <1>4 DEF DownloadRead

LEMMA DownloadVerifyIInv ==
  ASSUME IInv, NEW p \in Path, DownloadVerify(p)
  PROVE  IInv'
<1>1. /\ phase = "apply" /\ Known(job[p]) /\ job[p] \in Job /\ Quiet
      /\ job[p].op = "download" /\ job[p].step = "read" /\ JobSound(p, job[p])
  BY QuietStep DEF DownloadVerify, At, IInv, TypeOK, JobsSound, Known
<1>2. JobSound(p, [job[p] EXCEPT !.step = "ready"])
  BY <1>1 DEF JobSound, Job
<1> QED
  BY <1>1, <1>2, StepJob, DropJob DEF DownloadVerify, JobSteps

LEMMA DownloadArmIInv ==
  ASSUME IInv, NEW p \in Path, DownloadArm(p)
  PROVE  IInv'
<1>1. /\ phase = "apply" /\ Known(job[p]) /\ job[p] \in Job /\ Quiet
      /\ job[p].op = "download" /\ job[p].step = "ready" /\ JobSound(p, job[p])
  BY QuietStep DEF DownloadArm, At, IInv, TypeOK, JobsSound, Known
<1>2. JobSound(p, [job[p] EXCEPT !.step = "armed"])
  BY <1>1 DEF JobSound, Job
<1> QED
  BY <1>1, <1>2, StepJob, DropJob DEF DownloadArm, JobSteps

(* A step that leaves the history as it is. *)
LEMMA SameHistory ==
  ASSUME IInv, NEW p \in Path, base' = base
  PROVE  /\ base[p] \in Record \cup {None} /\ base' = [base EXCEPT ![p] = base[p]]
         /\ Known(base[p]) => RecordHonest(base[p])
  BY DEF IInv, TypeOK, BaselineHonest

LEMMA DownloadWriteIInv ==
  ASSUME IInv, NEW p \in Path, DownloadWrite(p)
  PROVE  IInv'
<1> DEFINE j == [job[p] EXCEPT !.step = "done"]
<1>1. /\ phase = "apply" /\ Known(job[p]) /\ job[p] \in Job
      /\ job[p].op = "download" /\ job[p].step = "armed" /\ JobSound(p, job[p])
  BY DEF DownloadWrite, At, IInv, TypeOK, JobsSound, Known
<1>2. j \in Job /\ JobSound(p, j)
  BY <1>1 DEF Job, JobSound
<1>3. object[remoteScan[p]] \in Object /\ job[p].bytes = object[remoteScan[p]].content
  BY <1>1 DEF JobSound, IInv, TypeOK, ReferencesExist, Known
<1>4. local' \in [Path -> LocalFile \cup {None}]
  BY <1>3 DEF DownloadWrite, IInv, TypeOK, LocalFile, Object
<1>5. hashes' \in [Path -> Fingerprint \cup {None}]
  BY DEF DownloadWrite, IInv, TypeOK
<1>6. job' = [job EXCEPT ![p] = j] /\ UNCHANGED <<pass, remote, object, disk, frame>>
  BY DEF DownloadWrite, Step, IInv, TypeOK
<1> HIDE DEF j
<1> QED
  BY <1>1, <1>2, <1>4, <1>5, <1>6, SameHistory, ApplyStep
  DEF IInv, TypeOK, ReferencesExist, disk, frame, Bounds

LEMMA DownloadRecordIInv ==
  ASSUME IInv, NEW p \in Path, DownloadRecord(p)
  PROVE  IInv'
<1> DEFINE r == RecordOf(remoteScan[p], job[p].bytes)
<1>1. /\ phase = "apply" /\ Known(job[p]) /\ job[p] \in Job
      /\ job[p].op = "download" /\ job[p].step = "done" /\ JobSound(p, job[p])
  BY DEF DownloadRecord, At, IInv, TypeOK, JobsSound, Known
<1>2. /\ remoteScan[p] \in Uuid /\ object[remoteScan[p]] \in Object
      /\ Known(object[remoteScan[p]])
      /\ job[p].bytes = object[remoteScan[p]].content
  BY <1>1 DEF JobSound, IInv, TypeOK, ReferencesExist, Known
<1>3. r \in Record /\ RecordHonest(r)
  BY <1>2, SizeAssumption DEF Record, RecordOf, RecordHonest, Object
<1>4. base' = [base EXCEPT ![p] = r] /\ UNCHANGED <<pass, vault, conflict, hashes, frame>>
  BY DEF DownloadRecord, Finish
<1>5. job' = [job EXCEPT ![p] = None] /\ ~Known(None)
  BY DEF DownloadRecord, Finish, Known
<1> HIDE DEF r
<1> QED
  BY <1>1, <1>3, <1>4, <1>5, ApplyStep
  DEF IInv, TypeOK, ReferencesExist, vault, frame, Bounds

-----------------------------------------------------------------------------
(* Deletions: nothing is claimed of what such a job holds. *)

LEMMA DeleteLocalProbeIInv ==
  ASSUME IInv, NEW p \in Path, DeleteLocalProbe(p)
  PROVE  IInv'
<1>1. phase = "apply" /\ Known(job[p]) /\ job[p] \in Job /\ Quiet /\ job[p].op = "delete-local"
  BY QuietStep DEF DeleteLocalProbe, At, IInv, TypeOK, Known
<1>2. JobSound(p, [job[p] EXCEPT !.step = "ready"])
  BY <1>1 DEF JobSound, Job
<1> QED
  BY <1>1, <1>2, StepJob, DropJob DEF DeleteLocalProbe, JobSteps

LEMMA DeleteLocalCheckIInv ==
  ASSUME IInv, NEW p \in Path, DeleteLocalCheck(p)
  PROVE  IInv'
<1>1. phase = "apply" /\ Known(job[p]) /\ job[p] \in Job /\ Quiet /\ job[p].op = "delete-local"
  BY QuietStep DEF DeleteLocalCheck, At, IInv, TypeOK, Known
<1>2. /\ JobSound(p, [job[p] EXCEPT !.step = "armed"])
      /\ JobSound(p, [job[p] EXCEPT !.step = "done"])
  BY <1>1 DEF JobSound, Job
<1> QED
  BY <1>1, <1>2, StepJob, DropJob DEF DeleteLocalCheck, JobSteps

LEMMA DeleteLocalTrashIInv ==
  ASSUME IInv, NEW p \in Path, DeleteLocalTrash(p)
  PROVE  IInv'
<1> DEFINE j == [job[p] EXCEPT !.step = "done"]
<1>1. phase = "apply" /\ Known(job[p]) /\ job[p] \in Job /\ job[p].op = "delete-local"
  BY DEF DeleteLocalTrash, At, IInv, TypeOK, Known
<1>2. j \in Job /\ JobSound(p, j)
  BY <1>1 DEF Job, JobSound
<1>3. local' \in [Path -> LocalFile \cup {None}] /\ hashes' \in [Path -> Fingerprint \cup {None}]
  BY DEF DeleteLocalTrash, IInv, TypeOK
<1>4. job' = [job EXCEPT ![p] = j] /\ UNCHANGED <<pass, remote, object, disk, frame>>
  BY DEF DeleteLocalTrash, Step, IInv, TypeOK
<1> HIDE DEF j
<1> QED
  BY <1>1, <1>2, <1>3, <1>4, SameHistory, ApplyStep
  DEF IInv, TypeOK, ReferencesExist, disk, frame, Bounds

(* External lookups lead to identities of the drive. *)
LEMMA LookupType ==
  ASSUME IInv, NEW p \in Path, NEW found \in Lookup(p)
  PROVE  found \in Uuid \cup {None}
  BY DEF Lookup, IInv, TypeOK, Job, Known

LEMMA DeleteRemoteProbeIInv ==
  ASSUME IInv, NEW p \in Path, DeleteRemoteProbe(p)
  PROVE  IInv'
<1>1. phase = "apply" /\ Known(job[p]) /\ job[p] \in Job /\ Quiet /\ job[p].op = "delete-remote"
  BY QuietStep DEF DeleteRemoteProbe, At, IInv, TypeOK, Known
<1>2. PICK found \in Lookup(p) : Hold(p, "armed", None, found) \/ Replan(p)
  BY DEF DeleteRemoteProbe
<1>3. found \in Uuid \cup {None}
  BY LookupType
<1>4. JobSound(p, [job[p] EXCEPT !.step = "armed", !.bytes = None, !.uuid = found])
  BY <1>1 DEF JobSound, Job
<1> QED
  BY <1>1, <1>2, <1>3, <1>4, HoldJob, DropJob DEF JobSteps

LEMMA DeleteRemoteTrashIInv ==
  ASSUME IInv, NEW p \in Path, DeleteRemoteTrash(p)
  PROVE  IInv'
<1> DEFINE j == [job[p] EXCEPT !.step = "done"]
<1>1. phase = "apply" /\ Known(job[p]) /\ job[p] \in Job /\ job[p].op = "delete-remote"
  BY DEF DeleteRemoteTrash, At, IInv, TypeOK, Known
<1>2. j \in Job /\ JobSound(p, j)
  BY <1>1 DEF Job, JobSound
<1>3. /\ remote' \in [Path -> Uuid \cup {None}]
      /\ \A q \in Path : Known(remote'[q]) => Known(object[remote'[q]])
  BY DEF DeleteRemoteTrash, IInv, TypeOK, ReferencesExist, Known
<1>4. job' = [job EXCEPT ![p] = j] /\ UNCHANGED <<pass, local, object, disk, hashes, frame>>
  BY DEF DeleteRemoteTrash, Step, IInv, TypeOK
<1> HIDE DEF j
<1> QED
  BY <1>1, <1>2, <1>3, <1>4, SameHistory, ApplyStep
  DEF IInv, TypeOK, disk, frame, Bounds

LEMMA ForgetDeletedIInv ==
  ASSUME IInv, NEW p \in Path, ForgetDeleted(p)
  PROVE  IInv'
<1>1. phase = "apply" /\ base' = [base EXCEPT ![p] = None] /\ ~Known(None)
  BY DEF ForgetDeleted, At, Known
<1>2. job' = [job EXCEPT ![p] = None] /\ UNCHANGED <<pass, vault, conflict, hashes, frame>>
  BY DEF ForgetDeleted, Finish
<1> QED
  BY <1>1, <1>2, ApplyStep
  DEF IInv, TypeOK, ReferencesExist, vault, frame, Bounds

-----------------------------------------------------------------------------
(* Equality evidence and conflict capture *)

LEMMA AcceptVerifyIInv ==
  ASSUME IInv, NEW p \in Path, AcceptVerify(p)
  PROVE  IInv'
<1>1. /\ phase = "apply" /\ Known(job[p]) /\ job[p] \in Job /\ Quiet
      /\ job[p].op = "accept" /\ JobSound(p, job[p])
  BY QuietStep DEF AcceptVerify, At, IInv, TypeOK, JobsSound, Known
<1>2. JobSound(p, [job[p] EXCEPT !.step = "ready"])
  BY <1>1 DEF JobSound, Job
<1> QED
  BY <1>1, <1>2, StepJob, DropJob DEF AcceptVerify, JobSteps

LEMMA AcceptRecordIInv ==
  ASSUME IInv, NEW p \in Path, AcceptRecord(p)
  PROVE  IInv'
<1> DEFINE r == [RecordOf(remoteScan[p], localScan[p].hash) EXCEPT !.mtime = localScan[p].mtime]
<1>1. /\ phase = "apply" /\ Known(job[p]) /\ job[p] \in Job
      /\ job[p].op = "accept" /\ job[p].step = "ready" /\ JobSound(p, job[p])
      /\ UNCHANGED <<vault, conflict, hashes, frame>>
  BY DEF AcceptRecord, At, IInv, TypeOK, JobsSound, Known
<1>2. CASE Replan(p) /\ UNCHANGED base
  <2>1. Quiet
    BY <1>1, <1>2, QuietStep DEF disk
  <2> QED
    BY <1>1, <1>2, <2>1, DropJob
<1>3. CASE base' = [base EXCEPT ![p] = r] /\ Finish(p)
  <2>1. /\ remoteScan[p] \in Uuid /\ object[remoteScan[p]] \in Object
        /\ Known(object[remoteScan[p]])
        /\ localScan[p].hash = object[remoteScan[p]].content
        /\ localScan[p].mtime \in Time
    BY <1>1 DEF JobSound, IInv, TypeOK, ReferencesExist, LocalEntry, Known
  <2>2. r \in Record /\ RecordHonest(r)
    BY <2>1, SizeAssumption DEF Record, RecordOf, RecordHonest, Object
  <2>3. job' = [job EXCEPT ![p] = None] /\ pass' = pass /\ ~Known(None)
    BY <1>3 DEF Finish, Known
  <2>4. base' = [base EXCEPT ![p] = r]
    BY <1>3
  <2> HIDE DEF r
  <2> QED
    BY <1>1, <2>2, <2>3, <2>4, ApplyStep
    DEF IInv, TypeOK, ReferencesExist, vault, frame, Bounds
<1> QED
  BY <1>2, <1>3 DEF AcceptRecord

(* The steps of a conflict's job. *)
LEMMA ReviewingFacts ==
  ASSUME IInv, NEW p \in Path, NEW s, Reviewing(p, s)
  PROVE  /\ phase \in {"apply", "review"} /\ Known(job[p]) /\ job[p] \in Job
         /\ job[p].op = "conflict" /\ job[p].step = s /\ JobSound(p, job[p])
         /\ s \in Resolving => conflict[p] \in Captured
  BY DEF Reviewing, IInv, TypeOK, JobsSound, JobSound, Known

(* A conflict's lookups lead to uploaded objects. *)
LEMMA FoundFacts ==
  ASSUME IInv, NEW p \in Path, NEW s, Reviewing(p, s), NEW found \in Lookup(p)
  PROVE  found \in Uuid \cup {None} /\ (Known(found) => Known(object[found]))
<1>1. Known(job[p].uuid) => Known(object[job[p].uuid])
  BY ReviewingFacts DEF JobSound
<1> QED
  BY <1>1, LookupType, ReviewingFacts DEF Lookup, IInv, ReferencesExist

LEMMA LiveType ==
  ASSUME IInv, NEW p \in Path
  PROVE  Live(p) \in Content \cup {None}
  BY DEF Live, IInv, TypeOK, LocalFile, Known

LEMMA CaptureReadIInv ==
  ASSUME IInv, NEW p \in Path, CaptureRead(p)
  PROVE  IInv'
<1>1. PICK s \in {"start", "recapture"} : Reviewing(p, s)
  BY DEF CaptureRead
<1>2. Quiet
  BY QuietStep DEF CaptureRead
<1>3. PICK found \in Lookup(p) : Hold(p, "read", Live(p), found) \/ Replan(p) \/ Finish(p)
  BY DEF CaptureRead
<1>4. JobSound(p, [job[p] EXCEPT !.step = "read", !.bytes = Live(p), !.uuid = found])
  BY <1>1, <1>3, ReviewingFacts, FoundFacts DEF JobSound, Job, Resolving
<1> QED
  BY <1>1, <1>2, <1>3, <1>4, ReviewingFacts, FoundFacts, LiveType, HoldJob, DropJob DEF JobSteps

(* A conflict's job moves to another step and keeps what it holds. *)
LEMMA NextStepSound ==
  ASSUME IInv, NEW p \in Path, NEW s, Reviewing(p, s), NEW next \in JobSteps,
         next \in Resolving => Known(conflict[p])
  PROVE  JobSound(p, [job[p] EXCEPT !.step = next])
  BY ReviewingFacts DEF JobSound, Job

LEMMA MayArm ==
  ASSUME IInv, NEW p \in Path, NEW s, Reviewing(p, s), Quiet,
         NEW next \in JobSteps, next \in Resolving => Known(conflict[p]),
         Arm(p, next)
  PROVE  IInv'
<1> DEFINE j == [job[p] EXCEPT !.step = next, !.raced = FALSE]
<1>1. ASSUME NEW x \in Job PROVE [x EXCEPT !.step = next, !.raced = FALSE] \in Job
  BY <1>1, Zenon DEF Job, JobSteps
<1>2. j \in Job /\ j.step = next /\ j.op = job[p].op /\ j.uuid = job[p].uuid
  BY <1>1, ReviewingFacts DEF Job
<1>3. JobSound(p, j)
  BY <1>2, ReviewingFacts DEF JobSound
<1>4. job' = [job EXCEPT ![p] = j] /\ pass' = pass
  BY DEF Arm, IInv, TypeOK
<1> HIDE DEF j
<1> QED
  BY <1>2, <1>3, <1>4, ReviewingFacts, MoveJob

LEMMA CaptureCheckIInv ==
  ASSUME IInv, NEW p \in Path, CaptureCheck(p)
  PROVE  IInv'
<1>1. Reviewing(p, "read") /\ Quiet /\ (Arm(p, "checked") \/ Replan(p))
  BY QuietStep DEF CaptureCheck
<1> QED
  BY <1>1, ReviewingFacts, MayArm, DropJob DEF JobSteps, Resolving

LEMMA MergesType ==
  ASSUME IInv, NEW p \in Path, Known(job[p]), job[p] \in Job, NEW r \in Merges(p)
  PROVE  r \in Content
  BY DEF Merges, Job, Known

LEMMA CaptureRecordIInv ==
  ASSUME IInv, NEW p \in Path, CaptureRecord(p)
  PROVE  IInv'
<1> DEFINE c == Snapshot(job[p].bytes, job[p].uuid)
<1>1. Reviewing(p, "checked") /\ UNCHANGED <<vault, base, hashes, frame>>
      /\ conflict' = [conflict EXCEPT ![p] = c]
  BY DEF CaptureRecord
<1>2. phase \in {"apply", "review"} /\ job[p] \in Job /\ Known(job[p]) /\ JobSound(p, job[p])
      /\ job[p].op = "conflict"
  BY <1>1, ReviewingFacts
<1>3. c \in Captured /\ Known(c)
  <2>1. job[p].bytes \in Content \cup {None} /\ job[p].uuid \in Uuid \cup {None}
    BY <1>2 DEF Job
  <2>2. c \in Captured
    BY <2>1, Zenon DEF Snapshot, Captured
  <2> QED
    BY <2>2, NoneAssumption DEF Known
<1> HIDE DEF c
<1>4. CASE Finish(p)
  <2>1. job' = [job EXCEPT ![p] = None] /\ pass' = pass /\ ~Known(None)
    BY <1>4 DEF Finish, Known
  <2> QED
    BY <1>1, <1>2, <1>3, <2>1, SameHistory, WorkStep
    DEF IInv, TypeOK, ReferencesExist, vault, frame, Bounds
<1>5. CASE \E r \in Merges(p) : Hold(p, "begin", r, None)
  <2>1. PICK r \in Merges(p) : Hold(p, "begin", r, None)
    BY <1>5
  <2>2. r \in Content
    BY <1>2, MergesType
  <2>3. PICK j \in Job : j = [job[p] EXCEPT !.step = "begin", !.bytes = r, !.uuid = None]
    BY <1>2, <2>2 DEF Job
  <2>4. j.op = "conflict" /\ j.step = "begin" /\ j.uuid = None
    BY <1>2, <2>3 DEF Job
  <2>5. job' = [job EXCEPT ![p] = j] /\ pass' = pass
    BY <2>1, <2>3 DEF Hold, IInv, TypeOK
  <2>6. Known(j) => JobSound(p, j)'
    BY <1>1, <1>3, <2>4 DEF JobSound, Known, IInv, TypeOK
  <2> QED
    BY <1>1, <1>2, <1>3, <2>5, <2>6, SameHistory, WorkStep
    DEF IInv, TypeOK, ReferencesExist, vault, frame, Bounds
<1> QED
  BY <1>4, <1>5 DEF CaptureRecord

-----------------------------------------------------------------------------
(* Results that are carried out *)

(* A look at both sides that lets the job go on, or fails it. *)
LEMMA MayGoOn ==
  ASSUME IInv, NEW p \in Path, NEW s, Reviewing(p, s), Quiet,
         NEW next \in JobSteps, next \in Resolving => Known(conflict[p]),
         Step(p, next) \/ Replan(p)
  PROVE  IInv'
  BY ReviewingFacts, NextStepSound, StepJob, DropJob

LEMMA ResumeApprovalIInv ==
  ASSUME IInv, NEW p \in Path, ResumeApproval(p)
  PROVE  IInv'
<1>1. Reviewing(p, "start") /\ Known(conflict[p]) /\ conflict[p] \in Captured /\ Quiet
  BY QuietStep DEF ResumeApproval, Approved, IInv, TypeOK, Known
<1>2. CASE Hold(p, "begin", conflict[p].result, None)
  <2>1. conflict[p].result \in Content \cup {None}
    BY <1>1 DEF Captured
  <2>2. JobSound(p, [job[p] EXCEPT !.step = "begin", !.bytes = conflict[p].result, !.uuid = None])
    BY <1>1, ReviewingFacts DEF JobSound, Job, Known
  <2> QED
    BY <1>1, <1>2, <2>1, <2>2, ReviewingFacts, HoldJob DEF JobSteps
<1>3. CASE Step(p, "recapture")
  BY <1>1, <1>3, MayGoOn DEF JobSteps
<1> QED
  BY <1>2, <1>3 DEF ResumeApproval

LEMMA ApplyReadIInv ==
  ASSUME IInv, NEW p \in Path, ApplyRead(p)
  PROVE  IInv'
<1>1. Reviewing(p, "begin") /\ Quiet
  BY QuietStep DEF ApplyRead
<1>2. /\ phase \in {"apply", "review"} /\ Known(job[p]) /\ job[p] \in Job
      /\ JobSound(p, job[p]) /\ job[p].op = "conflict" /\ Known(conflict[p])
  BY <1>1, ReviewingFacts DEF JobSound, Resolving
<1>3. PICK found \in Lookup(p) :
        \/ \E next \in {"approved", "approve"} : Hold(p, next, job[p].bytes, found)
        \/ /\ job' = [job EXCEPT ![p].step = "recapture"]
           /\ pass' = [pass EXCEPT !.failed = TRUE]
  BY DEF ApplyRead
<1>4. found \in Uuid \cup {None} /\ (Known(found) => Known(object[found]))
  BY <1>1, FoundFacts
<1>5. CASE \E next \in {"approved", "approve"} : Hold(p, next, job[p].bytes, found)
  <2>1. PICK next \in {"approved", "approve"} : Hold(p, next, job[p].bytes, found)
    BY <1>5
  <2>2. JobSound(p, [job[p] EXCEPT !.step = next, !.bytes = job[p].bytes, !.uuid = found])
    BY <1>2, <1>4 DEF JobSound, Job
  <2>3. job[p].bytes \in Content \cup {None}
    BY <1>2 DEF Job
  <2> QED
    BY <1>1, <1>2, <1>4, <2>1, <2>2, <2>3, HoldJob DEF JobSteps
<1>6. CASE /\ job' = [job EXCEPT ![p].step = "recapture"]
           /\ pass' = [pass EXCEPT !.failed = TRUE]
  <2> DEFINE j == [job[p] EXCEPT !.step = "recapture"]
  <2>1. j \in Job /\ job' = [job EXCEPT ![p] = j]
    BY <1>2, <1>6 DEF Job, IInv, TypeOK
  <2>2. JobSound(p, j)
    BY <1>2 DEF JobSound, Job, Resolving
  <2>3. pass' \in Pass
    <3>1. pass \in Pass
      BY DEF IInv, TypeOK
    <3>2. [pass EXCEPT !.failed = TRUE] \in Pass
      BY <3>1, Zenon DEF Pass
    <3> QED
      BY <1>6, <3>2
  <2> HIDE DEF j
  <2> QED
    BY <1>1, <1>2, <2>1, <2>2, <2>3, SameHistory, ApplyStep
    DEF IInv, TypeOK, ReferencesExist, Quiet, vault, disk
<1> QED
  BY <1>3, <1>5, <1>6

LEMMA ApproveIInv ==
  ASSUME IInv, NEW p \in Path, Approve(p)
  PROVE  IInv'
<1>1. Reviewing(p, "approve") /\ Step(p, "approved") /\ UNCHANGED <<vault, base, hashes, frame>>
  BY DEF Approve
<1>2. /\ phase \in {"apply", "review"} /\ Known(job[p]) /\ job[p] \in Job
      /\ JobSound(p, job[p]) /\ job[p].op = "conflict"
      /\ job[p].bytes \in Content \cup {None} /\ conflict[p] \in Captured
  BY <1>1, ReviewingFacts DEF Resolving, Job
<1>3. PICK c \in Captured : conflict' = [conflict EXCEPT ![p] = c]
  <2> DEFINE c == [conflict[p] EXCEPT !.approved = TRUE, !.result = job[p].bytes]
  <2>1. c \in Captured
    BY <1>2, Zenon DEF Captured
  <2>2. conflict' = [conflict EXCEPT ![p] = c]
    BY DEF Approve, IInv, TypeOK
  <2> HIDE DEF c
  <2> QED
    BY <2>1, <2>2
<1>4. PICK j \in Job : j = [job[p] EXCEPT !.step = "approved"]
  BY <1>2 DEF Job
<1>5. j.op = "conflict" /\ j.uuid = job[p].uuid
  BY <1>2, <1>4 DEF Job
<1>6. job' = [job EXCEPT ![p] = j] /\ pass' = pass
  BY <1>1, <1>4 DEF Step, IInv, TypeOK
<1>7. JobSound(p, j)'
  BY <1>1, <1>2, <1>3, <1>5, NoneAssumption DEF JobSound, vault, IInv, TypeOK, Known
<1> QED
  BY <1>1, <1>2, <1>3, <1>6, <1>7, SameHistory, WorkStep
  DEF IInv, TypeOK, ReferencesExist, vault, frame, Bounds

LEMMA RemoteGateIInv ==
  ASSUME IInv, NEW p \in Path, RemoteGate(p)
  PROVE  IInv'
<1>1. Reviewing(p, "approved") /\ Quiet /\ Known(conflict[p])
  BY QuietStep, ReviewingFacts DEF RemoteGate, JobSound, Resolving
<1>2. (Step(p, "sent") \/ Replan(p)) \/ Arm(p, "ready") \/ Arm(p, "armed")
  BY DEF RemoteGate
<1> QED
  BY <1>1, <1>2, MayGoOn, MayArm DEF JobSteps

LEMMA BeforeCommitIInv ==
  ASSUME IInv, NEW p \in Path, BeforeCommit(p)
  PROVE  IInv'
<1>1. Reviewing(p, "ready") /\ Quiet /\ Known(conflict[p])
  BY QuietStep, ReviewingFacts DEF BeforeCommit, JobSound, Resolving
<1>2. Step(p, "armed") \/ Replan(p)
  BY DEF BeforeCommit
<1> QED
  BY <1>1, <1>2, MayGoOn DEF JobSteps

LEMMA SendResultIInv ==
  ASSUME IInv, NEW p \in Path, SendResult(p)
  PROVE  IInv'
<1> DEFINE o == [content |-> conflict[p].result, mtime |-> Now, digest |-> TRUE]
           j == [job[p] EXCEPT !.step = "sent"]
<1>1. Reviewing(p, "armed") /\ Uploaded(p, o) /\ Step(p, "sent")
      /\ UNCHANGED <<local, disk, hashes, frame>>
  BY DEF SendResult
<1>2. /\ phase \in {"apply", "review"} /\ Known(job[p]) /\ job[p] \in Job
      /\ job[p].op = "conflict" /\ job[p].step = "armed" /\ JobSound(p, job[p])
      /\ conflict[p] \in Captured
  BY <1>1, ReviewingFacts DEF Resolving
<1>3. o \in Object
  BY <1>2, NowAssumption DEF SendResult, Captured, Object, Known
<1> HIDE DEF o
<1>4. /\ ReferencesExist' /\ BaselineHonest'
      /\ \A q \in Path : Known(remoteScan[q]) =>
           object'[remoteScan[q]] = object[remoteScan[q]]
      /\ \A q \in Path : Known(job[q]) /\ Known(job[q].uuid) =>
           object'[job[q].uuid] = object[job[q].uuid]
  BY <1>1, <1>3, UploadKeeps DEF disk, frame
<1>5. job' = [job EXCEPT ![p] = j] /\ pass' = pass
  BY <1>1 DEF Step, IInv, TypeOK
<1>6. object' \in [Uuid -> Object \cup {None}] /\ remote' \in [Path -> Uuid \cup {None}]
  BY <1>1, <1>3, UploadedFacts
<1>7. j \in Job
  BY <1>2 DEF Job
<1>8. TypeOK'
  BY <1>1, <1>5, <1>6, <1>7 DEF IInv, TypeOK, disk, frame
<1>9. ScanSound'
  BY <1>1, <1>2 DEF ScanSound, frame
<1>10. JobsSound'
  <2>1. ASSUME NEW q \in Path, Known(job'[q]) PROVE JobSound(q, job[q])'
    <3>1. CASE q = p
      <4>1. job'[q] = j
        BY <1>5, <3>1 DEF IInv, TypeOK
      <4>2. j.op = "conflict" /\ j.uuid = job[p].uuid
        BY <1>2 DEF Job
      <4>3. Known(conflict[p]) /\ (Known(job[p].uuid) => Known(object[job[p].uuid]))
        BY <1>2 DEF JobSound, Resolving
      <4> QED
        BY <1>1, <1>2, <1>4, <3>1, <4>1, <4>2, <4>3 DEF JobSound, disk
    <3>2. CASE q # p
      <4>1. job'[q] = job[q] /\ JobSound(q, job[q])
        BY <1>5, <2>1, <3>2 DEF IInv, TypeOK, JobsSound
      <4> QED
        BY <1>1, <1>4, <2>1, <4>1 DEF JobSound, disk, frame
    <3> QED
      BY <3>1, <3>2
  <2> QED
    BY <2>1 DEF JobsSound
<1> QED
  BY <1>4, <1>8, <1>9, <1>10 DEF IInv

LEMMA TrashRemoteIInv ==
  ASSUME IInv, NEW p \in Path, TrashRemote(p)
  PROVE  IInv'
<1> DEFINE j == [job[p] EXCEPT !.step = "sent"]
<1>1. Reviewing(p, "armed") /\ Step(p, "sent") /\ UNCHANGED <<local, object, disk, hashes, frame>>
  BY DEF TrashRemote
<1>2. /\ phase \in {"apply", "review"} /\ Known(job[p]) /\ job[p] \in Job /\ Known(conflict[p])
  BY <1>1, ReviewingFacts DEF JobSound, Resolving
<1>3. j \in Job /\ JobSound(p, j)
  BY <1>1, <1>2, NextStepSound DEF Job, JobSteps
<1>4. /\ remote' \in [Path -> Uuid \cup {None}]
      /\ \A q \in Path : Known(remote'[q]) => Known(object[remote'[q]])
  BY DEF TrashRemote, IInv, TypeOK, ReferencesExist, Known
<1>5. job' = [job EXCEPT ![p] = j] /\ pass' = pass
  BY <1>1 DEF Step, IInv, TypeOK
<1> HIDE DEF j
<1> QED
  BY <1>1, <1>2, <1>3, <1>4, <1>5, SameHistory, ApplyStep
  DEF IInv, TypeOK, disk, frame, Bounds

LEMMA ReadBackIInv ==
  ASSUME IInv, NEW p \in Path, ReadBack(p)
  PROVE  IInv'
<1>1. Reviewing(p, "sent") /\ Quiet
  BY QuietStep DEF ReadBack
<1>2. /\ phase \in {"apply", "review"} /\ Known(job[p]) /\ job[p] \in Job
      /\ JobSound(p, job[p]) /\ job[p].op = "conflict" /\ Known(conflict[p])
      /\ job[p].bytes \in Content \cup {None}
  BY <1>1, ReviewingFacts DEF JobSound, Resolving, Job
<1>3. PICK found \in Lookup(p) : Hold(p, "applied", job[p].bytes, found) \/ Replan(p)
  BY DEF ReadBack
<1>4. found \in Uuid \cup {None} /\ (Known(found) => Known(object[found]))
  BY <1>1, FoundFacts
<1>5. JobSound(p, [job[p] EXCEPT !.step = "applied", !.bytes = job[p].bytes, !.uuid = found])
  BY <1>2, <1>4 DEF JobSound, Job
<1> QED
  BY <1>1, <1>2, <1>3, <1>4, <1>5, HoldJob, DropJob DEF JobSteps

LEMMA ResultGateIInv ==
  ASSUME IInv, NEW p \in Path, ResultGate(p)
  PROVE  IInv'
<1>1. Reviewing(p, "applied") /\ Quiet /\ Known(conflict[p])
  BY QuietStep, ReviewingFacts DEF ResultGate, JobSound, Resolving
<1>2. Replan(p) \/ Arm(p, "written") \/ Arm(p, "local")
  BY DEF ResultGate
<1> QED
  BY <1>1, <1>2, ReviewingFacts, DropJob, MayArm DEF JobSteps

LEMMA WriteResultIInv ==
  ASSUME IInv, NEW p \in Path, WriteResult(p)
  PROVE  IInv'
<1> DEFINE j == [job[p] EXCEPT !.step = "written"]
<1>1. Reviewing(p, "local") /\ Step(p, "written") /\ UNCHANGED <<remote, object, disk, frame>>
  BY DEF WriteResult
<1>2. /\ phase \in {"apply", "review"} /\ Known(job[p]) /\ job[p] \in Job
      /\ Known(conflict[p]) /\ conflict[p] \in Captured
  BY <1>1, ReviewingFacts DEF JobSound, Resolving
<1>3. j \in Job /\ JobSound(p, j)
  BY <1>1, <1>2, NextStepSound DEF Job, JobSteps
<1>4. local' \in [Path -> LocalFile \cup {None}] /\ hashes' \in [Path -> Fingerprint \cup {None}]
  <2>1. Known(conflict[p].result) =>
          [content |-> conflict[p].result, mtime |-> Now] \in LocalFile
    BY <1>2, NowAssumption DEF Captured, LocalFile, Known
  <2> QED
    BY <2>1 DEF WriteResult, IInv, TypeOK
<1>5. job' = [job EXCEPT ![p] = j] /\ pass' = pass
  BY <1>1 DEF Step, IInv, TypeOK
<1> HIDE DEF j
<1> QED
  BY <1>1, <1>2, <1>3, <1>4, <1>5, SameHistory, ApplyStep
  DEF IInv, TypeOK, ReferencesExist, disk, frame, Bounds

LEMMA RecordResultIInv ==
  ASSUME IInv, NEW p \in Path, RecordResult(p)
  PROVE  IInv'
<1>1. Reviewing(p, "written") /\ UNCHANGED <<vault, conflict, hashes, frame>>
  BY DEF RecordResult
<1>2. /\ phase \in {"apply", "review"} /\ Known(job[p]) /\ job[p] \in Job /\ Known(conflict[p])
  BY <1>1, ReviewingFacts DEF JobSound, Resolving
<1>3. PICK found \in Lookup(p) :
        \/ Replan(p) /\ UNCHANGED base
        \/ /\ BothHold(p, found) /\ Step(p, "recorded")
           /\ base' = [base EXCEPT ![p] =
                IF Known(conflict[p].result)
                THEN [RecordOf(found, conflict[p].result) EXCEPT !.mtime = local[p].mtime]
                ELSE None]
  BY DEF RecordResult
<1>4. CASE Replan(p) /\ UNCHANGED base
  <2>1. Quiet
    BY <1>1, <1>4, QuietStep DEF disk
  <2> QED
    BY <1>2, <1>4, <2>1, DropJob
<1>5. CASE /\ BothHold(p, found) /\ Step(p, "recorded")
           /\ base' = [base EXCEPT ![p] =
                IF Known(conflict[p].result)
                THEN [RecordOf(found, conflict[p].result) EXCEPT !.mtime = local[p].mtime]
                ELSE None]
  <2> DEFINE j == [job[p] EXCEPT !.step = "recorded"]
             full == [RecordOf(found, conflict[p].result) EXCEPT !.mtime = local[p].mtime]
             r == IF Known(conflict[p].result) THEN full ELSE None
  <2>1. j \in Job /\ JobSound(p, j)
    BY <1>1, <1>2, NextStepSound DEF Job, JobSteps
  <2>2. job' = [job EXCEPT ![p] = j] /\ pass' = pass
    BY <1>5 DEF Step, IInv, TypeOK
  <2>3. ASSUME Known(conflict[p].result) PROVE full \in Record /\ RecordHonest(full)
    <3>1. /\ found \in Uuid /\ object[found] \in Object /\ Known(object[found])
          /\ object[found].content = conflict[p].result
      BY <1>1, <1>3, <1>5, <2>3, FoundFacts DEF BothHold, There, IInv, TypeOK, Known
    <3>2. local[p].mtime \in Time
      BY <1>5, <2>3 DEF BothHold, Live, IInv, TypeOK, LocalFile, Known
    <3> QED
      BY <3>1, <3>2, SizeAssumption DEF Record, RecordOf, RecordHonest, Object
  <2>4. ~Known(None)
    BY DEF Known
  <2> HIDE DEF j, full
  <2>5. r \in Record \cup {None} /\ (Known(r) => RecordHonest(r))
    BY <2>3, <2>4
  <2>6. base' = [base EXCEPT ![p] = r]
    BY <1>5 DEF full
  <2> HIDE DEF r
  <2> QED
    BY <1>1, <1>2, <2>1, <2>2, <2>5, <2>6, ApplyStep
    DEF IInv, TypeOK, ReferencesExist, vault, frame, Bounds
<1> QED
  BY <1>3, <1>4, <1>5

LEMMA DropConflictIInv ==
  ASSUME IInv, NEW p \in Path, DropConflict(p)
  PROVE  IInv'
<1>1. Reviewing(p, "recorded") /\ UNCHANGED <<vault, base, hashes, frame>>
  BY DEF DropConflict
<1>2. phase \in {"apply", "review"}
  BY <1>1, ReviewingFacts
<1>3. CASE Replan(p) /\ UNCHANGED conflict
  <2>1. Quiet
    BY <1>1, <1>3, QuietStep DEF disk
  <2> QED
    BY <1>2, <1>3, <2>1, DropJob
<1>4. CASE conflict' = [conflict EXCEPT ![p] = None] /\ Finish(p)
  <2>1. job' = [job EXCEPT ![p] = None] /\ pass' = pass /\ ~Known(None)
    BY <1>4 DEF Finish, Known
  <2> QED
    BY <1>1, <1>2, <1>4, <2>1, SameHistory, WorkStep
    DEF IInv, TypeOK, ReferencesExist, vault, frame, Bounds
<1> QED
  BY <1>3, <1>4 DEF DropConflict

(* Every step of a pass that executes its plan. *)
LEMMA ExecuteIInv ==
  ASSUME IInv, NEW p \in Path, Execute(p)
  PROVE  IInv'
<1>1. CASE Upload(p)
  BY <1>1, UploadReadIInv, UploadRecheckIInv, UploadPrecheckIInv, UploadCommitIInv,
     UploadRecordIInv, UploadFinishIInv DEF Upload
<1>2. CASE Download(p)
  BY <1>2, DownloadReadIInv, DownloadVerifyIInv, DownloadArmIInv, DownloadWriteIInv,
     DownloadRecordIInv DEF Download
<1>3. CASE Delete(p)
  BY <1>3, DeleteLocalProbeIInv, DeleteLocalCheckIInv, DeleteLocalTrashIInv,
     DeleteRemoteProbeIInv, DeleteRemoteTrashIInv, ForgetDeletedIInv DEF Delete
<1>4. CASE Review(p)
  BY <1>4, AcceptVerifyIInv, AcceptRecordIInv, CaptureReadIInv, CaptureCheckIInv,
     CaptureRecordIInv DEF Review
<1>5. CASE Resolve(p)
  BY <1>5, ResumeApprovalIInv, ApplyReadIInv, ApproveIInv, RemoteGateIInv, BeforeCommitIInv,
     SendResultIInv, TrashRemoteIInv, ReadBackIInv, ResultGateIInv, WriteResultIInv,
     RecordResultIInv, DropConflictIInv DEF Resolve
<1> QED
  BY <1>1, <1>2, <1>3, <1>4, <1>5 DEF Execute

-----------------------------------------------------------------------------
(* The user's sessions *)

LEMMA HistoryStays ==
  ASSUME IInv, UNCHANGED <<object, base>>
  PROVE  BaselineHonest'
  BY DEF IInv, BaselineHonest, RecordHonest

LEMMA SessionIInv ==
  ASSUME IInv, NEW p \in Path, NEW step \in {"begin", "recapture"},
         NEW result \in Content \cup {None}, Session(p, step, result)
  PROVE  IInv'
<1> DEFINE j == [NewJob("conflict") EXCEPT !.step = step, !.bytes = result]
<1>1. /\ job = NoJobs /\ Known(conflict[p]) /\ phase' = "review"
      /\ UNCHANGED <<vault, disk, hashes, consent, pass, localScan, remoteScan, spent>>
  BY DEF Session, IInv, ScanSound
<1>2. NewJob("conflict") \in Job /\ NewJob("conflict").uuid = None
      /\ NewJob("conflict").op = "conflict"
  <2>1. NewJob("conflict") \in Job
    BY Zenon DEF NewJob, Job
  <2> QED
    BY <2>1 DEF NewJob
<1>3. j \in Job
  <2>1. ASSUME NEW x \in Job PROVE [x EXCEPT !.step = step, !.bytes = result] \in Job
    BY <2>1, Zenon DEF Job
  <2> QED
    BY <1>2, <2>1
<1>4. j.op = "conflict" /\ j.uuid = None
  BY <1>2 DEF Job
<1>5. job' = [job EXCEPT ![p] = j]
  BY DEF Session
<1> HIDE DEF j
<1>6. job' \in [Path -> Job \cup {None}] /\ \A q \in Path : Known(job'[q]) => q = p /\ job'[q] = j
  BY <1>1, <1>3, <1>5 DEF NoJobs, Known, IInv, TypeOK
<1>7. JobsSound'
  BY <1>1, <1>4, <1>6 DEF JobsSound, JobSound, disk, Known
<1> QED
  BY <1>1, <1>6, <1>7, HistoryStays
  DEF IInv, TypeOK, ReferencesExist, ScanSound, vault, disk

LEMMA UserSessionIInv ==
  ASSUME IInv, NEW p \in Path,
         RefreshReview(p) \/ \E r \in Content \cup {None} : StartReview(p, r)
  PROVE  IInv'
  BY SessionIInv DEF RefreshReview, StartReview

-----------------------------------------------------------------------------
(* Scanning *)

LEMMA BeginPassIInv ==
  ASSUME IInv, NEW d \in SyncDirections, NEW verify \in BOOLEAN, BeginPass(d, verify),
         consent' \in {"none", "attended", "held"}
  PROVE  IInv'
<1>1. pass' \in Pass /\ pass'.read = {}
  <2>1. pass' = [direction |-> d, verify |-> verify, read |-> {},
                 dirty |-> FALSE, failed |-> FALSE, pending |-> FALSE]
    BY DEF BeginPass, IdlePass
  <2> QED
    BY <2>1, Zenon DEF Pass
<1> QED
  BY <1>1, HistoryStays
  DEF BeginPass, IInv, TypeOK, ReferencesExist, ScanSound, JobsSound, JobSound, NoJobs,
      vault, disk, Known

LEMMA StartPassIInv ==
  ASSUME IInv, NEW d \in Directions, StartPass(d)
  PROVE  IInv'
  BY DirectionAssumption, BeginPassIInv DEF StartPass

LEMMA AutomaticPassIInv ==
  ASSUME IInv, NEW verify \in BOOLEAN, AutomaticPass(verify)
  PROVE  IInv'
<1>1. "both" \in SyncDirections /\ consent' \in {"none", "attended", "held"}
  BY DEF SyncDirections, AutomaticPass, IInv, TypeOK
<1> QED
  BY <1>1, BeginPassIInv DEF AutomaticPass

LEMMA ReadMore ==
  ASSUME NEW x \in Pass, NEW side \in {"local", "remote"}
  PROVE  [x EXCEPT !.read = @ \cup {side}] \in Pass
  BY Zenon DEF Pass

LEMMA ScanLocalIInv ==
  ASSUME IInv, ScanLocal
  PROVE  IInv'
<1>1. /\ phase = "scan" /\ job = NoJobs
      /\ UNCHANGED <<vault, disk, phase, consent, remoteScan, job, spent>>
  BY DEF ScanLocal, IInv, ScanSound
<1>2. pass' \in Pass
  BY ReadMore DEF ScanLocal, IInv, TypeOK
<1>3. ASSUME NEW p \in Path, Known(local[p])
      PROVE  /\ local[p].content \in Content /\ local[p].mtime \in Time
             /\ SizeOf[local[p].content] \in Nat
  BY <1>3, SizeAssumption DEF IInv, TypeOK, LocalFile, Known
<1>4. /\ hashes' \in [Path -> Fingerprint \cup {None}]
      /\ localScan' \in [Path -> LocalEntry \cup {None}]
      /\ \A p \in Path : Known(localScan'[p]) => Known(local[p])
  <2> DEFINE found(p) ==
        IF ~pass.verify /\ Known(hashes[p]) THEN hashes[p]
        ELSE IF ~pass.verify /\ ~Known(hashes[p]) /\ ~Known(base[p]) THEN None
        ELSE [hash |-> local[p].content, sha512 |-> FALSE]
  <2>1. ASSUME NEW p \in Path, Known(local[p])
        PROVE  found(p) \in Fingerprint \cup {None}
    <3>1. hashes[p] \in Fingerprint \cup {None}
      BY DEF IInv, TypeOK
    <3>2. [hash |-> local[p].content, sha512 |-> FALSE] \in Fingerprint
      BY <1>3, <2>1, Zenon DEF Fingerprint
    <3> HIDE DEF found
    <3>3. \/ found(p) = hashes[p] \/ found(p) = None
          \/ found(p) = [hash |-> local[p].content, sha512 |-> FALSE]
      BY DEF found
    <3> QED
      BY <3>1, <3>2, <3>3
  <2>2. /\ hashes' = [p \in Path |-> IF Known(local[p]) THEN found(p) ELSE None]
        /\ localScan' = [p \in Path |->
              IF ~Known(local[p]) THEN None
              ELSE [size |-> SizeOf[local[p].content], mtime |-> local[p].mtime,
                    hash |-> IF Known(found(p)) THEN found(p).hash ELSE None]]
    BY DEF ScanLocal
  <2> HIDE DEF found
  <2>3. ASSUME NEW p \in Path, Known(local[p]), Known(found(p))
        PROVE  found(p).hash \in Content
    BY <2>1, <2>3 DEF Fingerprint, Known
  <2> QED
    BY <1>3, <2>1, <2>2, <2>3 DEF LocalEntry, Known
<1> QED
  BY <1>1, <1>2, <1>4, HistoryStays
  DEF IInv, TypeOK, ReferencesExist, ScanSound, JobsSound, NoJobs, vault, disk, Known

LEMMA ScanRemoteIInv ==
  ASSUME IInv, ScanRemote
  PROVE  IInv'
<1>1. /\ phase = "scan" /\ job = NoJobs /\ remoteScan' = remote
      /\ UNCHANGED <<vault, disk, hashes, phase, consent, localScan, job, spent>>
  BY DEF ScanRemote, IInv, ScanSound
<1>2. pass' \in Pass /\ pass'.dirty = pass.dirty /\ ("local" \in pass'.read => "local" \in pass.read)
  BY ReadMore DEF ScanRemote, IInv, TypeOK, Pass
<1> QED
  BY <1>1, <1>2, HistoryStays
  DEF IInv, TypeOK, ReferencesExist, ScanSound, JobsSound, NoJobs, vault, disk, Known

-----------------------------------------------------------------------------
(* Planning *)

(* What was compared was there to be compared. *)
LEMMA ComparedFacts ==
  ASSUME IInv, Scanned, ~pass.dirty, NEW p \in Path, Compared(p)
  PROVE  /\ Known(localScan[p]) /\ Known(local[p]) /\ local[p].content \in Content
         /\ remoteScan[p] \in Uuid /\ object[remoteScan[p]] \in Object
         /\ ComparedFingerprint(p) \in Fingerprint
<1>1. Known(localScan[p]) /\ Known(local[p]) /\ local[p].content \in Content
  BY DEF Scanned, Compared, NeedsEquality, IInv, ScanSound, TypeOK, LocalFile, Known
<1>2. remoteScan[p] \in Uuid /\ object[remoteScan[p]] \in Object
  BY DEF Compared, IInv, TypeOK, ReferencesExist, Known
<1>3. [hash |-> local[p].content, sha512 |-> object[remoteScan[p]].digest] \in Fingerprint
  BY <1>1, <1>2, Zenon DEF Fingerprint, Object
<1>4. Known(hashes[p]) => hashes[p] \in Fingerprint
  BY DEF IInv, TypeOK, Known
<1> QED
  BY <1>1, <1>2, <1>3, <1>4 DEF ComparedFingerprint

LEMMA PlannedLocalType ==
  ASSUME IInv, Scanned, ~pass.dirty, NEW p \in Path
  PROVE  PlannedLocal(p) \in LocalEntry \cup {None}
<1>1. Known(localScan[p]) => EntryHash(p) \in Content \cup {None}
  BY ComparedFacts DEF EntryHash, Fingerprint, IInv, TypeOK, LocalEntry, Known
<1> QED
  BY <1>1 DEF PlannedLocal, IInv, TypeOK, LocalEntry, Known

(* Equality evidence names the content of the object that was scanned. *)
LEMMA EvidenceIsTrue ==
  ASSUME IInv, Scanned, ~pass.dirty, NEW p \in Path,
         VerifiedIdentical(PlannedLocal(p), PlannedRemote(p))
  PROVE  /\ Known(PlannedLocal(p)) /\ Known(remoteScan[p])
         /\ PlannedLocal(p).hash = object[remoteScan[p]].content
<1>1. /\ Known(PlannedLocal(p)) /\ Known(PlannedRemote(p)) /\ Known(PlannedRemote(p).hash)
      /\ PlannedLocal(p).hash = PlannedRemote(p).hash
  BY DEF VerifiedIdentical, Same
<1>2. Known(remoteScan[p])
  BY <1>1 DEF PlannedRemote, Known
<1>3. Compared(p)
  BY <1>1, <1>2 DEF PlannedRemote, RemoteEntry, Known
<1>4. PlannedRemote(p).hash = EqualityHash(EntryHash(p), RemoteEntry(remoteScan[p], None),
                                           object[remoteScan[p]].content)
  BY <1>2, <1>3 DEF PlannedRemote, RemoteEntry
<1>5. RemoteEntry(remoteScan[p], None).remoteHash \in {None, object[remoteScan[p]].content}
  BY DEF RemoteEntry
<1>6. PlannedRemote(p).hash = object[remoteScan[p]].content
  BY <1>1, <1>4, <1>5 DEF EqualityHash, Known
<1> QED
  BY <1>1, <1>2, <1>6

LEMMA PlannedJobSound ==
  ASSUME IInv, Scanned, ~pass.dirty, Plan, NEW p \in Path, NEW j, j = PlannedJob(p)
  PROVE  /\ j \in Job \cup {None}
         /\ Known(j) => JobSound(p, j)'
<1> DEFINE op == PlanSync(Known(conflict[p]), PlannedLocal(p), PlannedRemote(p),
                          base[p], pass.direction)
<1>1. op \in Operations
  BY PlanSyncType DEF IInv, TypeOK, Pass
<1>2. /\ localScan'[p] = PlannedLocal(p) /\ UNCHANGED <<vault, remoteScan>>
  BY DEF Plan
<1>3. op = "download" => Known(remoteScan[p])
  <2>1. op = "download" => Known(PlannedRemote(p))
    BY DownloadNeedsRemote DEF IInv, TypeOK, Pass
  <2> QED
    BY <2>1 DEF PlannedRemote, Known
<1>4. VerifiedIdentical(PlannedLocal(p), PlannedRemote(p)) =>
        /\ Known(PlannedLocal(p)) /\ Known(remoteScan[p])
        /\ PlannedLocal(p).hash = object[remoteScan[p]].content
  BY EvidenceIsTrue
<1> HIDE DEF op
<1>5. \/ op # "noop" /\ PlannedJob(p) = NewJob(op)
      \/ VerifiedIdentical(PlannedLocal(p), PlannedRemote(p)) /\ PlannedJob(p) = NewJob("accept")
      \/ PlannedJob(p) = NewJob("forget")
      \/ PlannedJob(p) = None
  BY DEF PlannedJob, op
<1>6. ASSUME NEW x \in (Operations \ {"noop"}) \cup {"accept", "forget"}
      PROVE  /\ NewJob(x) \in Job /\ NewJob(x).op = x /\ NewJob(x).step = "start" /\ NewJob(x).uuid = None
  <2>1. NewJob(x).op = x /\ NewJob(x).step = "start" /\ NewJob(x).uuid = None
    BY DEF NewJob
  <2>2. x \in {"upload", "download", "delete-local", "delete-remote", "conflict", "accept", "forget"}
    BY DEF Operations
  <2>3. NewJob(x) \in Job
    BY <2>2, Zenon DEF NewJob, Job
  <2> QED
    BY <2>1, <2>3
<1>7. CASE op # "noop" /\ j = NewJob(op)
  BY <1>1, <1>2, <1>3, <1>6, <1>7 DEF JobSound, Resolving, vault, Operations, Known
<1>8. CASE VerifiedIdentical(PlannedLocal(p), PlannedRemote(p)) /\ j = NewJob("accept")
  BY <1>2, <1>4, <1>6, <1>8 DEF JobSound, vault
<1>9. CASE j = NewJob("forget")
  BY <1>6, <1>9 DEF JobSound
<1>10. CASE j = None
  BY <1>10 DEF Known
<1> QED
  BY <1>5, <1>7, <1>8, <1>9, <1>10

LEMMA PlanIInv ==
  ASSUME IInv, Plan
  PROVE  IInv'
<1>1. /\ Scanned /\ ~pass.dirty /\ phase' \in {"confirm", "apply"}
      /\ UNCHANGED <<vault, disk, remoteScan, spent>>
      /\ consent' \in {"none", "attended", "held"}
  BY DEF Plan, IInv, TypeOK
<1>6. pass' \in Pass
  <2>1. pass \in Pass
    BY DEF IInv, TypeOK
  <2> QED
    BY <2>1, Zenon DEF Plan, Pass
<1>2. localScan' \in [Path -> LocalEntry \cup {None}]
  BY <1>1, PlannedLocalType DEF Plan
<1>3. hashes' \in [Path -> Fingerprint \cup {None}]
  BY <1>1, ComparedFacts DEF Plan, IInv, TypeOK
<1>4. job' = [p \in Path |-> PlannedJob(p)]
  BY DEF Plan
<1>5. job' \in [Path -> Job \cup {None}] /\ JobsSound'
  BY <1>1, <1>4, PlannedJobSound DEF JobsSound, JobSound
<1> QED
  BY <1>1, <1>2, <1>3, <1>5, <1>6, HistoryStays
  DEF IInv, TypeOK, ReferencesExist, ScanSound, vault, disk

-----------------------------------------------------------------------------
(* The end of a pass, faults, the hash cache *)

LEMMA FaultBound ==
  ASSUME IInv, Fault
  PROVE  spent' \in Bounds
  BY BoundAssumption DEF Fault, IInv, TypeOK, Bounds

LEMMA IdlePassType == IdlePass \in Pass
<1>1. "both" \in SyncDirections /\ {} \in SUBSET {"local", "remote"}
  BY DEF SyncDirections
<1> QED
  BY <1>1, Zenon DEF IdlePass, Pass

LEMMA LeavePassIInv ==
  ASSUME IInv, LeavePass, UNCHANGED <<vault, disk>>, spent' \in Bounds,
         hashes' = hashes \/ hashes' = NoHashes, consent' \in {"none", "attended", "held"}
  PROVE  IInv'
<1>1. hashes' \in [Path -> Fingerprint \cup {None}]
  BY DEF IInv, TypeOK, NoHashes
<1> QED
  BY <1>1, IdlePassType, HistoryStays
  DEF LeavePass, IInv, TypeOK, ReferencesExist, ScanSound, JobsSound, NoJobs,
      vault, disk, Bounds, Known

LEMMA EndOfPassIInv ==
  ASSUME IInv, DiscardScan \/ Refuse \/ EndPass \/ Decline \/ Crash
  PROVE  IInv'
<1>1. spent \in Bounds /\ consent \in {"none", "attended", "held"}
  BY DEF IInv, TypeOK, Bounds
<1> QED
  BY <1>1, FaultBound, LeavePassIInv DEF DiscardScan, Refuse, EndPass, Decline, Crash

LEMMA ConfirmIInv ==
  ASSUME IInv, Confirm
  PROVE  IInv'
<1>1. JobsSound'
  BY DEF Confirm, IInv, JobsSound, JobSound, vault, disk
<1> QED
  BY <1>1, HistoryStays
  DEF Confirm, IInv, TypeOK, ReferencesExist, ScanSound, vault, disk

LEMMA RequestFailsIInv ==
  ASSUME IInv, NEW p \in Path, RequestFails(p)
  PROVE  IInv'
<1>1. Quiet
  BY FaultBound DEF RequestFails, Quiet
<1> QED
  BY <1>1, DropJob DEF RequestFails

LEMMA ExpireHashIInv ==
  ASSUME IInv, NEW p \in Path, ExpireHash(p)
  PROVE  IInv'
<1>1. hashes' \in [Path -> Fingerprint \cup {None}]
  BY DEF ExpireHash, IInv, TypeOK
<1>2. JobsSound'
  BY DEF ExpireHash, IInv, JobsSound, JobSound, vault, disk
<1> QED
  BY <1>1, <1>2, HistoryStays
  DEF ExpireHash, IInv, TypeOK, ReferencesExist, ScanSound, vault, disk

-----------------------------------------------------------------------------
(* The user and the other devices *)

LEMMA EditBound ==
  ASSUME IInv, Edits
  PROVE  spent' \in Bounds
  BY BoundAssumption DEF Edits, IInv, TypeOK, Bounds

(* A race marks a job and changes nothing else about it. *)
LEMMA RaceFacts ==
  ASSUME IInv, NEW p \in Path, NEW guarded, Race(p, guarded)
  PROVE  /\ job' \in [Path -> Job \cup {None}]
         /\ job = NoJobs => job' = NoJobs
         /\ \A q \in Path : Known(job'[q]) =>
              /\ Known(job[q]) /\ job'[q].op = job[q].op /\ job'[q].step = job[q].step
              /\ job'[q].bytes = job[q].bytes /\ job'[q].uuid = job[q].uuid
<1>1. Known(job[p]) => [job[p] EXCEPT !.raced = TRUE] \in Job
  <2>1. ASSUME NEW x \in Job PROVE [x EXCEPT !.raced = TRUE] \in Job
    BY <2>1, Zenon DEF Job
  <2> QED
    BY <2>1 DEF IInv, TypeOK, Known
<1> QED
  BY <1>1 DEF Race, IInv, TypeOK, NoJobs, Known, Job

LEMMA LocalChangeIInv ==
  ASSUME IInv, NEW p \in Path, Race(p, LocalGuard), spent' \in Bounds, pass' \in Pass,
         pass'.read = pass.read,
         local' \in [Path -> LocalFile \cup {None}],
         hashes' \in [Path -> Fingerprint \cup {None}],
         phase = "scan" /\ ~pass'.dirty =>
            ~pass.dirty /\ \A q \in Path : Known(local[q]) => Known(local'[q]),
         UNCHANGED <<remote, object, disk, phase, consent, localScan, remoteScan>>
  PROVE  IInv'
<1>1. JobsSound'
  BY RaceFacts DEF IInv, JobsSound, JobSound, disk
<1>2. ScanSound'
  BY RaceFacts DEF IInv, ScanSound
<1> QED
  BY <1>1, <1>2, RaceFacts, HistoryStays DEF IInv, TypeOK, ReferencesExist, disk, Bounds

LEMMA UserSetsIInv ==
  ASSUME IInv, NEW p \in Path, NEW f \in LocalFile \cup {None}, UserSets(p, f)
  PROVE  IInv'
<1>1. /\ local' \in [Path -> LocalFile \cup {None}]
      /\ hashes' \in [Path -> Fingerprint \cup {None}]
      /\ spent' \in Bounds
  BY EditBound DEF UserSets, IInv, TypeOK
<1>2. pass' \in Pass /\ pass'.read = pass.read /\ pass'.dirty = (phase = "scan")
  <2>1. ASSUME NEW x \in Pass, NEW d \in BOOLEAN
        PROVE  /\ [x EXCEPT !.dirty = d] \in Pass
               /\ [x EXCEPT !.dirty = d].read = x.read /\ [x EXCEPT !.dirty = d].dirty = d
    BY <2>1, Zenon DEF Pass
  <2> QED
    BY <2>1 DEF UserSets, IInv, TypeOK
<1> QED
  BY <1>1, <1>2, LocalChangeIInv DEF UserSets

LEMMA SilentEditIInv ==
  ASSUME IInv, NEW p \in Path, NEW c \in Content, SilentEdit(p, c)
  PROVE  IInv'
<1>1. spent' \in Bounds
  BY BoundAssumption DEF SilentEdit, IInv, TypeOK, Bounds
<1>2. /\ local' \in [Path -> LocalFile \cup {None}]
      /\ \A q \in Path : Known(local[q]) => Known(local'[q])
  <2>1. [local[p] EXCEPT !.content = c] \in LocalFile
    BY DEF SilentEdit, IInv, TypeOK, LocalFile, Known
  <2>2. LocalFile \cap {None} = {}
    BY NoneAssumption
  <2> QED
    BY <2>1, <2>2 DEF SilentEdit, IInv, TypeOK, Known
<1> QED
  BY <1>1, <1>2, LocalChangeIInv DEF SilentEdit, IInv, TypeOK

LEMMA OtherDeviceUploadsIInv ==
  ASSUME IInv, NEW p \in Path, NEW o \in Object, OtherDeviceUploads(p, o)
  PROVE  IInv'
<1>1. Uploaded(p, o) /\ Race(p, RemoteGuard) /\ spent' \in Bounds
      /\ UNCHANGED <<local, disk, hashes, phase, consent, pass, localScan, remoteScan>>
  BY EditBound DEF OtherDeviceUploads
<1>2. /\ ReferencesExist' /\ BaselineHonest'
      /\ \A q \in Path : Known(remoteScan[q]) =>
           object'[remoteScan[q]] = object[remoteScan[q]]
      /\ \A q \in Path : Known(job[q]) /\ Known(job[q].uuid) =>
           object'[job[q].uuid] = object[job[q].uuid]
  BY <1>1, UploadKeeps DEF disk
<1>3. object' \in [Uuid -> Object \cup {None}] /\ remote' \in [Path -> Uuid \cup {None}]
  BY <1>1, UploadedFacts
<1>4. JobsSound'
  <2>1. ASSUME NEW q \in Path, Known(job'[q]) PROVE JobSound(q, job[q])
    BY <1>1, <2>1, RaceFacts DEF IInv, JobsSound
  <2> QED
    BY <1>1, <1>2, <2>1, RaceFacts DEF JobsSound, JobSound, disk
<1>5. ScanSound'
  BY <1>1, RaceFacts DEF IInv, ScanSound
<1> QED
  BY <1>1, <1>2, <1>3, <1>4, <1>5, RaceFacts DEF IInv, TypeOK, disk, Bounds

LEMMA OtherDeviceDeletesIInv ==
  ASSUME IInv, NEW p \in Path, OtherDeviceDeletes(p)
  PROVE  IInv'
<1>1. /\ Race(p, RemoteGuard) /\ spent' \in Bounds /\ remote' = [remote EXCEPT ![p] = None]
      /\ UNCHANGED <<local, object, disk, hashes, phase, consent, pass, localScan, remoteScan>>
  BY EditBound DEF OtherDeviceDeletes
<1>2. ReferencesExist'
  BY <1>1 DEF IInv, TypeOK, ReferencesExist, Known
<1>3. JobsSound'
  BY <1>1, RaceFacts DEF IInv, JobsSound, JobSound, disk
<1>4. ScanSound'
  BY <1>1, RaceFacts DEF IInv, ScanSound
<1> QED
  BY <1>1, <1>2, <1>3, <1>4, RaceFacts, HistoryStays DEF IInv, TypeOK, disk, Bounds

-----------------------------------------------------------------------------
LEMMA StepIInv ==
  ASSUME IInv, [Next]_vars
  PROVE  IInv'
<1>1. CASE Engine
  BY <1>1, AutomaticPassIInv, ScanLocalIInv, ScanRemoteIInv, PlanIInv, EndOfPassIInv,
     ExecuteIInv DEF Engine
<1>6. CASE User
  BY <1>6, StartPassIInv, ConfirmIInv, UserSessionIInv DEF User
<1>2. CASE Faults
  BY <1>2, EndOfPassIInv, RequestFailsIInv DEF Faults
<1>3. CASE World
  BY <1>3, UserSetsIInv, SilentEditIInv, OtherDeviceUploadsIInv, OtherDeviceDeletesIInv DEF World
<1>4. ASSUME NEW p \in Path, ExpireHash(p) PROVE IInv'
  BY <1>4, ExpireHashIInv
<1>5. CASE UNCHANGED vars
  BY <1>5 DEF vars, IInv, TypeOK, ReferencesExist, ScanSound, JobsSound, JobSound,
              BaselineHonest, RecordHonest
<1> QED
  BY <1>1, <1>2, <1>3, <1>4, <1>5, <1>6 DEF Next

(* In every reachable state every variable has its type. *)
THEOREM TypeCorrect == Spec => []TypeOK
<1>1. IInv => TypeOK
  BY DEF IInv
<1> QED
  BY <1>1, InitIInv, StepIInv, PTL DEF Spec

(* In every reachable state the sync history names an uploaded object and   *)
(* holds its digests and size (SyncExecutor: pushLocal, pullRemote and the  *)
(* "identical content" branch), whatever edits, failures, crashes and stale *)
(* lookups came in between.                                                 *)
THEOREM HistoryIsHonest == Spec => []BaselineHonest
<1>1. IInv => BaselineHonest
  BY DEF IInv
<1> QED
  BY <1>1, InitIInv, StepIInv, PTL DEF Spec
=============================================================================
