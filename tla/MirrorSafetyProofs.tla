------------------------- MODULE MirrorSafetyProofs -------------------------
(***************************************************************************)
(* No pass destroys what was not synced, and none touches a conflict but   *)
(* to carry out an approved result: the safety properties of MirrorSync    *)
(* for every instance.  What the plan knew of a path stays true while its  *)
(* job is under way, and so does the last check of a job until its write,  *)
(* unless somebody else changed the file meanwhile.                        *)
(***************************************************************************)
EXTENDS MirrorSyncProofs

(* What the plan knew. *)
PlanKept(p, j) ==
  /\ pass.direction = "push" => j.op \notin LocalWrite
  /\ pass.direction = "pull" => j.op \notin {"upload", "delete-remote"}
  /\ Known(conflict[p]) => j.op = "conflict"
  /\ pass.direction = "both" /\ j.op \in LocalWrite /\ Known(localScan[p]) =>
       Known(base[p]) /\ localScan[p].hash = base[p].hash
  /\ j.op = "delete-remote" => Known(remoteScan[p])
  /\ \/ j.op = "delete-remote"
     \/ pass.direction = "both" /\ j.op = "upload" /\ j.step # "recorded" /\ Known(remoteScan[p])
     => Known(base[p]) /\ object[remoteScan[p]].content = base[p].hash

(* What the last check before the write saw. *)
CheckKept(p, j) ==
  j.step = "armed" =>
    /\ j.op \in LocalWrite /\ ~j.raced =>
         \/ ~Known(local[p])
         \/ /\ Known(localScan[p])
            /\ Known(localScan[p].hash) => local[p].content = localScan[p].hash
    /\ j.op = "upload" /\ ~j.raced => remote[p] = remoteScan[p]
    /\ j.op = "delete-remote" => j.uuid = remoteScan[p]

(* What carrying out a conflict's result has established so far. *)
Carried == {"approved", "ready", "armed", "sent", "applied", "local", "written", "recorded"}

ResultKept(p, j) ==
  j.op = "conflict" =>
    /\ j.step = "checked" /\ ~j.raced => Live(p) = j.bytes
    /\ j.step \in {"approve", "ready", "armed"} => j.uuid = conflict[p].remote
    /\ j.step = "approved" => j.uuid = conflict[p].remote \/ There(j.uuid) = conflict[p].result
    /\ j.step \in Carried => conflict[p].approved
    /\ j.step \in {"ready", "armed"} /\ ~j.raced /\ Known(conflict[p].result) =>
         remote[p] = j.uuid
    /\ j.step = "local" /\ ~j.raced => Live(p) = conflict[p].local
    /\ j.step = "recorded" => HistoryHolds(p) = conflict[p].result

Kept(p, j) == PlanKept(p, j) /\ CheckKept(p, j) /\ ResultKept(p, j)

JobsKept == \A p \in Path : Known(job[p]) => Kept(p, job[p])

(* Every scanned file that has a history has been hashed. *)
Hashed ==
  phase = "scan" /\ "local" \in pass.read =>
    \A p \in Path : Known(localScan[p]) /\ Known(base[p]) => Known(localScan[p].hash)

SafeInv == IInv /\ Hashed /\ JobsKept

-----------------------------------------------------------------------------
LEMMA InitSafe == Init => SafeInv
  BY InitIInv DEF SafeInv, Hashed, JobsKept, Init, IdlePass, NoJobs, Known

(* A step of a pass or a session: one path's job moves on; nothing of the   *)
(* other paths changes.                                                     *)
OnePath(p) ==
  /\ phase \in {"apply", "review"} /\ phase' = phase /\ pass'.direction = pass.direction
  /\ UNCHANGED <<localScan, remoteScan>>
  /\ \A q \in Path : Known(remoteScan[q]) => object'[remoteScan[q]] = object[remoteScan[q]]
  /\ \A q \in Path : Known(job[q]) /\ Known(job[q].uuid) =>
       object'[job[q].uuid] = object[job[q].uuid]
  /\ \A q \in Path \ {p} :
       /\ local'[q] = local[q] /\ remote'[q] = remote[q] /\ base'[q] = base[q]
       /\ conflict'[q] = conflict[q] /\ job'[q] = job[q]

LEMMA OthersSafe ==
  ASSUME SafeInv, NEW p \in Path, OnePath(p), NEW j, job'[p] = j, Known(j) => Kept(p, j)'
  PROVE  Hashed' /\ JobsKept'
<1>1. ASSUME NEW q \in Path, q # p, NEW k, k = job'[q], Known(k)
      PROVE  PlanKept(q, k)' /\ CheckKept(q, k)' /\ ResultKept(q, k)'
  <2>1. k = job[q] /\ PlanKept(q, k) /\ CheckKept(q, k) /\ ResultKept(q, k)
    BY <1>1 DEF SafeInv, JobsKept, Kept, OnePath
  <2>2. PlanKept(q, k)'
    BY <1>1, <2>1 DEF PlanKept, OnePath
  <2>3. CheckKept(q, k)'
    BY <1>1, <2>1 DEF CheckKept, OnePath
  <2>4. There(k.uuid)' = There(k.uuid)
    BY <1>1, <2>1 DEF There, OnePath
  <2>5. ResultKept(q, k)'
    BY <1>1, <2>1, <2>4 DEF ResultKept, Live, HistoryHolds, OnePath
  <2> QED
    BY <2>2, <2>3, <2>5
<1>2. JobsKept'
  <2>1. ASSUME NEW q \in Path, NEW k, k = job'[q], Known(k) PROVE Kept(q, k)'
    BY <1>1, <2>1 DEF Kept
  <2> QED
    BY <2>1 DEF JobsKept, Kept, PlanKept, CheckKept, ResultKept, Live, HistoryHolds, There
<1> QED
  BY <1>2 DEF Hashed, OnePath

(* A job of the plan, but a conflict's. *)
LEMMA ApplySafe ==
  ASSUME SafeInv, NEW p \in Path, OnePath(p), NEW j, job'[p] = j,
         Known(j) =>
           /\ Known(job[p]) /\ j.op = job[p].op /\ j.step # "start" /\ j.op # "conflict"
           /\ conflict'[p] = conflict[p]
           /\ base'[p] = base[p] \/ (j.op = "upload" /\ j.step = "recorded")
           /\ j.step # "recorded" => job[p].step # "recorded"
           /\ j.step = "armed" => CheckKept(p, j)'
  PROVE  Hashed' /\ JobsKept'
<1>1. ASSUME Known(j) PROVE PlanKept(p, j)' /\ CheckKept(p, j)'
  <2>1. PlanKept(p, job[p])
    BY <1>1 DEF SafeInv, JobsKept, Kept
  <2>2. j.op = "upload" => j.op \notin LocalWrite
    BY DEF LocalWrite
  <2>3. CheckKept(p, j)'
    <3>1. CASE j.step = "armed"
      BY <1>1, <3>1
    <3>2. CASE j.step # "armed"
      BY <3>2 DEF CheckKept
    <3> QED
      BY <3>1, <3>2
  <2> QED
    BY <1>1, <2>1, <2>2, <2>3 DEF PlanKept, OnePath
<1>2. Known(j) => ResultKept(p, j)'
  BY DEF ResultKept
<1>3. Known(j) => Kept(p, j)'
  BY <1>1, <1>2 DEF Kept
<1> QED
  BY <1>3, OthersSafe

(* A conflict's job: only what its steps establish is to be shown. *)
LEMMA ConflictSafe ==
  ASSUME SafeInv, NEW p \in Path, OnePath(p), NEW j, job'[p] = j,
         Known(j) => j.op = "conflict" /\ ResultKept(p, j)'
  PROVE  Hashed' /\ JobsKept'
<1>1. Known(j) => PlanKept(p, j)' /\ CheckKept(p, j)'
  BY DEF PlanKept, CheckKept, LocalWrite
<1>2. Known(j) => Kept(p, j)'
  BY <1>1 DEF Kept
<1> QED
  BY <1>2, OthersSafe

LEMMA DropSafe ==
  ASSUME SafeInv, NEW p \in Path, phase \in {"apply", "review"},
         Finish(p) \/ Replan(p) \/ EditPending(p),
         \A q \in Path \ {p} : conflict'[q] = conflict[q] /\ base'[q] = base[q],
         UNCHANGED <<vault, phase, localScan, remoteScan>>
  PROVE  Hashed' /\ JobsKept'
<1>1. job' = [job EXCEPT ![p] = None] /\ ~Known(None)
  BY DEF Finish, Replan, EditPending, Known
<1>2. pass'.direction = pass.direction
  BY DEF Finish, Replan, EditPending, SafeInv, IInv, TypeOK, Pass
<1>3. OnePath(p) /\ job'[p] = None
  BY <1>1, <1>2 DEF OnePath, SafeInv, IInv, TypeOK, vault
<1> QED
  BY <1>1, <1>3, ApplySafe

(* A job that moves on without a write, to a step that need not be guarded  *)
(* or whose guard has just been checked.                                    *)
LEMMA MoveSafe ==
  ASSUME SafeInv, NEW p \in Path, phase = "apply", Known(job[p]), Quiet,
         job[p].step # "recorded", job[p].op # "conflict",
         NEW k \in Job, pass' = pass, job' = [job EXCEPT ![p] = k],
         k.op = job[p].op, k.step \notin {"start", "recorded"}, CheckKept(p, k)
  PROVE  Hashed' /\ JobsKept'
<1>1. CheckKept(p, k)'
  BY DEF CheckKept, Quiet, vault
<1>2. OnePath(p) /\ job'[p] = k
  BY DEF OnePath, SafeInv, IInv, TypeOK, Quiet, vault, disk
<1> QED
  BY <1>1, <1>2, ApplySafe DEF Quiet, disk

LEMMA HoldSafe ==
  ASSUME SafeInv, NEW p \in Path, phase = "apply", Known(job[p]), Quiet,
         job[p].step # "recorded", job[p].op # "conflict",
         NEW s \in {"read", "ready", "armed", "done"},
         NEW b \in Content \cup {None}, NEW u \in Uuid \cup {None}, Hold(p, s, b, u),
         CheckKept(p, [job[p] EXCEPT !.step = s, !.bytes = b, !.uuid = u])
  PROVE  Hashed' /\ JobsKept'
<1> DEFINE k == [job[p] EXCEPT !.step = s, !.bytes = b, !.uuid = u]
<1>1. k \in Job /\ k.op = job[p].op /\ k.step \notin {"start", "recorded"}
  BY DEF SafeInv, IInv, TypeOK, Job, Known
<1>2. job' = [job EXCEPT ![p] = k] /\ pass' = pass
  BY DEF Hold, SafeInv, IInv, TypeOK
<1> HIDE DEF k
<1>3. CheckKept(p, k)
  BY DEF k
<1> QED
  BY <1>1, <1>2, <1>3, MoveSafe

LEMMA StepSafe ==
  ASSUME SafeInv, NEW p \in Path, phase = "apply", Known(job[p]), Quiet,
         job[p].step # "recorded", job[p].op # "conflict",
         NEW s \in {"read", "ready", "armed", "done"}, Step(p, s),
         CheckKept(p, [job[p] EXCEPT !.step = s])
  PROVE  Hashed' /\ JobsKept'
<1> DEFINE k == [job[p] EXCEPT !.step = s]
<1>1. k \in Job /\ k.op = job[p].op /\ k.step \notin {"start", "recorded"}
  BY DEF SafeInv, IInv, TypeOK, Job, Known
<1>2. job' = [job EXCEPT ![p] = k] /\ pass' = pass
  BY DEF Step, SafeInv, IInv, TypeOK
<1> HIDE DEF k
<1>3. CheckKept(p, k)
  BY DEF k
<1> QED
  BY <1>1, <1>2, <1>3, MoveSafe

-----------------------------------------------------------------------------
LEMMA UploadSafe ==
  ASSUME SafeInv, NEW p \in Path, Upload(p)
  PROVE  Hashed' /\ JobsKept'
<1>1. phase = "apply" /\ Known(job[p]) /\ job[p].op = "upload" /\ job[p] \in Job
  BY DEF Upload, UploadRead, UploadRecheck, UploadPrecheck, UploadCommit, UploadRecord,
         UploadFinish, At, SafeInv, IInv, TypeOK, Known
<1>2. CASE UploadRead(p)
  <2>1. Quiet /\ job[p].step = "start"
    BY <1>2, QuietStep DEF UploadRead, At, SafeInv
  <2>2. CASE StatUnchanged(p) /\ Hold(p, "read", local[p].content, None)
    <3>1. local[p].content \in Content
      BY <2>2 DEF StatUnchanged, SafeInv, IInv, TypeOK, LocalFile, Known
    <3>2. CheckKept(p, [job[p] EXCEPT !.step = "read", !.bytes = local[p].content, !.uuid = None])
      BY <1>1 DEF CheckKept, Job
    <3> QED
      BY <1>1, <2>1, <2>2, <3>1, <3>2, HoldSafe
  <2>3. CASE EditPending(p)
    BY <1>1, <2>1, <2>3, DropSafe DEF Quiet, vault, disk
  <2> QED
    BY <1>2, <2>2, <2>3 DEF UploadRead
<1>3. CASE UploadRecheck(p)
  <2>1. Quiet /\ job[p].step = "read"
    BY <1>3, QuietStep DEF UploadRecheck, At, SafeInv
  <2>2. CheckKept(p, [job[p] EXCEPT !.step = "ready"])
    BY <1>1 DEF CheckKept, Job
  <2> QED
    BY <1>1, <1>3, <2>1, <2>2, StepSafe, DropSafe DEF UploadRecheck, Quiet, vault, disk
<1>4. CASE UploadPrecheck(p)
  <2>1. Quiet /\ job[p].step = "ready"
    BY <1>4, QuietStep DEF UploadPrecheck, At, SafeInv
  <2>2. CASE remote[p] = remoteScan[p] /\ Step(p, "armed")
    <3>1. CheckKept(p, [job[p] EXCEPT !.step = "armed"])
      BY <1>1, <2>2 DEF CheckKept, Job, LocalWrite
    <3> QED
      BY <1>1, <2>1, <2>2, <3>1, StepSafe
  <2>3. CASE Replan(p)
    BY <1>1, <2>1, <2>3, DropSafe DEF Quiet, vault, disk
  <2> QED
    BY <1>4, <2>2, <2>3 DEF UploadPrecheck
<1>5. CASE UploadCommit(p)
  <2> DEFINE o == [content |-> job[p].bytes, mtime |-> localScan[p].mtime, digest |-> TRUE]
             k == [job[p] EXCEPT !.step = "done", !.bytes = job[p].bytes, !.uuid = NewUuid]
  <2>1. o \in Object
    BY <1>1, <1>5 DEF UploadCommit, At, SafeInv, IInv, JobsSound, JobSound, Object, TypeOK,
                      LocalEntry, Known
  <2>2. Uploaded(p, o) /\ UNCHANGED <<local, disk, hashes, frame>>
    BY <1>5 DEF UploadCommit
  <2>3. \A q \in Path : Known(remoteScan[q]) => object'[remoteScan[q]] = object[remoteScan[q]]
    BY <2>1, <2>2, UploadKeeps DEF SafeInv, disk, frame
  <2>7. \A q \in Path : Known(job[q]) /\ Known(job[q].uuid) =>
          object'[job[q].uuid] = object[job[q].uuid]
    BY <2>1, <2>2, UploadKeeps DEF SafeInv, disk, frame
  <2>4. remote' = [remote EXCEPT ![p] = NewUuid]
    BY <2>2 DEF Uploaded
  <2>5. job' = [job EXCEPT ![p] = k] /\ pass' = pass
    BY <1>5 DEF UploadCommit, Hold, SafeInv, IInv, TypeOK
  <2>6. k.op = job[p].op /\ k.step = "done" /\ job[p].step = "armed"
    BY <1>1, <1>5 DEF UploadCommit, At, Job
  <2> HIDE DEF k
  <2> QED
    <3>1. OnePath(p) /\ job'[p] = k
      BY <1>1, <2>2, <2>3, <2>4, <2>5, <2>7 DEF OnePath, SafeInv, IInv, TypeOK, disk, frame
    <3> QED
      BY <1>1, <2>2, <2>6, <3>1, ApplySafe DEF disk
<1>6. CASE UploadRecord(p)
  <2> DEFINE k == [job[p] EXCEPT !.step = "recorded"]
  <2>1. job' = [job EXCEPT ![p] = k] /\ pass' = pass
    BY <1>6 DEF UploadRecord, Step, SafeInv, IInv, TypeOK
  <2>2. k.op = "upload" /\ k.op = job[p].op /\ k.step = "recorded"
    BY <1>1 DEF Job
  <2> HIDE DEF k
  <2>3. /\ \A q \in Path \ {p} : base'[q] = base[q]
        /\ UNCHANGED <<vault, conflict, hashes, frame>>
    BY <1>6 DEF UploadRecord, SafeInv, IInv, TypeOK
  <2> QED
    <3>1. OnePath(p) /\ job'[p] = k
      BY <1>1, <2>1, <2>3 DEF OnePath, SafeInv, IInv, TypeOK, vault, frame
    <3> QED
      BY <1>1, <2>2, <2>3, <3>1, ApplySafe
<1>7. CASE UploadFinish(p)
  BY <1>1, <1>7, DropSafe DEF UploadFinish, vault, disk, frame
<1> QED
  BY <1>2, <1>3, <1>4, <1>5, <1>6, <1>7 DEF Upload

-----------------------------------------------------------------------------
LEMMA DownloadSafe ==
  ASSUME SafeInv, NEW p \in Path, Download(p)
  PROVE  Hashed' /\ JobsKept'
<1>1. phase = "apply" /\ Known(job[p]) /\ job[p].op = "download" /\ job[p] \in Job
  BY DEF Download, DownloadRead, DownloadVerify, DownloadArm, DownloadWrite, DownloadRecord,
         At, SafeInv, IInv, TypeOK, Known
<1>2. CASE DownloadRead(p)
  <2>1. Quiet /\ job[p].step = "start" /\ Known(remoteScan[p])
    BY <1>1, <1>2, QuietStep DEF DownloadRead, At, SafeInv, IInv, JobsSound, JobSound
  <2>2. remoteScan[p] \in Uuid /\ object[remoteScan[p]].content \in Content
    BY <2>1 DEF SafeInv, IInv, TypeOK, ReferencesExist, Object, Known
  <2>3. CheckKept(p, [job[p] EXCEPT !.step = "read", !.bytes = object[remoteScan[p]].content,
                                    !.uuid = remoteScan[p]])
    BY <1>1 DEF CheckKept, Job
  <2> QED
    BY <1>1, <1>2, <2>1, <2>2, <2>3, HoldSafe, DropSafe DEF DownloadRead, Quiet, vault, disk
<1>3. CASE DownloadVerify(p)
  <2>1. Quiet /\ job[p].step = "read"
    BY <1>3, QuietStep DEF DownloadVerify, At, SafeInv
  <2>2. CheckKept(p, [job[p] EXCEPT !.step = "ready"])
    BY <1>1 DEF CheckKept, Job
  <2> QED
    BY <1>1, <1>3, <2>1, <2>2, StepSafe, DropSafe DEF DownloadVerify, Quiet, vault, disk
<1>4. CASE DownloadArm(p)
  <2>1. Quiet /\ job[p].step = "ready"
    BY <1>4, QuietStep DEF DownloadArm, At, SafeInv
  <2>2. CASE (~Known(local[p]) \/ LocalUnchanged(p)) /\ Step(p, "armed")
    <3>1. CheckKept(p, [job[p] EXCEPT !.step = "armed"])
      BY <1>1, <2>2 DEF CheckKept, Job, LocalUnchanged, StatUnchanged
    <3> QED
      BY <1>1, <2>1, <2>2, <3>1, StepSafe
  <2>3. CASE EditPending(p)
    BY <1>1, <2>1, <2>3, DropSafe DEF Quiet, vault, disk
  <2> QED
    BY <1>4, <2>2, <2>3 DEF DownloadArm
<1>5. CASE DownloadWrite(p)
  <2> DEFINE k == [job[p] EXCEPT !.step = "done"]
  <2>1. job' = [job EXCEPT ![p] = k] /\ pass' = pass /\ job[p].step = "armed"
    BY <1>5 DEF DownloadWrite, Step, At, SafeInv, IInv, TypeOK
  <2>2. k.op = job[p].op /\ k.step = "done"
    BY <1>1 DEF Job
  <2>3. /\ \A q \in Path \ {p} : local'[q] = local[q]
        /\ UNCHANGED <<remote, object, disk, frame>>
    BY <1>5 DEF DownloadWrite, SafeInv, IInv, TypeOK
  <2> HIDE DEF k
  <2> QED
    <3>1. OnePath(p) /\ job'[p] = k
      BY <1>1, <2>1, <2>3 DEF OnePath, SafeInv, IInv, TypeOK, disk, frame
    <3> QED
      BY <1>1, <2>1, <2>2, <2>3, <3>1, ApplySafe DEF disk
<1>6. CASE DownloadRecord(p)
  <2>1. /\ \A q \in Path \ {p} : base'[q] = base[q]
        /\ Finish(p) /\ UNCHANGED <<vault, conflict, frame>>
    BY <1>6 DEF DownloadRecord, SafeInv, IInv, TypeOK
  <2> QED
    BY <1>1, <2>1, DropSafe DEF frame
<1> QED
  BY <1>2, <1>3, <1>4, <1>5, <1>6 DEF Download

LEMMA DeleteSafe ==
  ASSUME SafeInv, NEW p \in Path, Delete(p)
  PROVE  Hashed' /\ JobsKept'
<1>1. /\ phase = "apply" /\ Known(job[p]) /\ job[p] \in Job
      /\ job[p].op \in {"delete-local", "delete-remote", "forget"}
  BY DEF Delete, DeleteLocalProbe, DeleteLocalCheck, DeleteLocalTrash, DeleteRemoteProbe,
         DeleteRemoteTrash, ForgetDeleted, At, SafeInv, IInv, TypeOK, Known
<1>2. CASE DeleteLocalProbe(p)
  <2>1. Quiet /\ job[p].step = "start"
    BY <1>2, QuietStep DEF DeleteLocalProbe, At, SafeInv
  <2>2. CheckKept(p, [job[p] EXCEPT !.step = "ready"])
    BY <1>1 DEF CheckKept, Job
  <2> QED
    BY <1>1, <1>2, <2>1, <2>2, StepSafe, DropSafe DEF DeleteLocalProbe, Quiet, vault, disk
<1>3. CASE DeleteLocalCheck(p)
  <2>1. Quiet /\ job[p].op = "delete-local" /\ job[p].step = "ready"
    BY <1>3, QuietStep DEF DeleteLocalCheck, At, SafeInv
  <2>2. CheckKept(p, [job[p] EXCEPT !.step = "done"])
    BY <1>1 DEF CheckKept, Job
  <2>3. CASE LocalUnchanged(p) /\ Step(p, "armed")
    <3>1. CheckKept(p, [job[p] EXCEPT !.step = "armed"])
      BY <1>1, <2>1, <2>3 DEF CheckKept, Job, LocalUnchanged, StatUnchanged
    <3> QED
      BY <1>1, <2>1, <2>3, <3>1, StepSafe
  <2>4. CASE Replan(p) \/ EditPending(p)
    BY <1>1, <2>1, <2>4, DropSafe DEF Quiet, vault, disk
  <2>5. CASE Step(p, "done")
    BY <1>1, <2>1, <2>2, <2>5, StepSafe
  <2> QED
    BY <1>3, <2>3, <2>4, <2>5 DEF DeleteLocalCheck
<1>4. CASE DeleteLocalTrash(p)
  <2> DEFINE k == [job[p] EXCEPT !.step = "done"]
  <2>1. job' = [job EXCEPT ![p] = k] /\ pass' = pass /\ job[p].step = "armed"
    BY <1>4 DEF DeleteLocalTrash, Step, At, SafeInv, IInv, TypeOK
  <2>2. k.op = job[p].op /\ k.step = "done"
    BY <1>1 DEF Job
  <2>3. /\ \A q \in Path \ {p} : local'[q] = local[q]
        /\ UNCHANGED <<remote, object, disk, frame>>
    BY <1>4 DEF DeleteLocalTrash, SafeInv, IInv, TypeOK
  <2> HIDE DEF k
  <2> QED
    <3>1. OnePath(p) /\ job'[p] = k
      BY <1>1, <2>1, <2>3 DEF OnePath, SafeInv, IInv, TypeOK, disk, frame
    <3> QED
      BY <1>1, <2>1, <2>2, <2>3, <3>1, ApplySafe DEF disk
<1>5. CASE DeleteRemoteProbe(p)
  <2>1. Quiet /\ job[p].step = "start" /\ job[p].op = "delete-remote"
    BY <1>5, QuietStep DEF DeleteRemoteProbe, At, SafeInv
  <2>2. CASE Hold(p, "armed", None, remoteScan[p])
    <3>1. CheckKept(p, [job[p] EXCEPT !.step = "armed", !.bytes = None, !.uuid = remoteScan[p]])
      BY <1>1, <2>1 DEF CheckKept, Job, LocalWrite
    <3>2. remoteScan[p] \in Uuid \cup {None}
      BY DEF SafeInv, IInv, TypeOK
    <3> QED
      BY <1>1, <2>1, <2>2, <3>1, <3>2, HoldSafe
  <2>3. CASE Replan(p)
    BY <1>1, <2>1, <2>3, DropSafe DEF Quiet, vault, disk
  <2> QED
    BY <1>5, <2>2, <2>3 DEF DeleteRemoteProbe
<1>6. CASE DeleteRemoteTrash(p)
  <2> DEFINE k == [job[p] EXCEPT !.step = "done"]
  <2>1. job' = [job EXCEPT ![p] = k] /\ pass' = pass /\ job[p].step = "armed"
    BY <1>6 DEF DeleteRemoteTrash, Step, At, SafeInv, IInv, TypeOK
  <2>2. k.op = job[p].op /\ k.step = "done"
    BY <1>1 DEF Job
  <2>3. /\ \A q \in Path \ {p} : remote'[q] = remote[q]
        /\ UNCHANGED <<local, object, disk, frame>>
    BY <1>6 DEF DeleteRemoteTrash, SafeInv, IInv, TypeOK
  <2> HIDE DEF k
  <2> QED
    <3>1. OnePath(p) /\ job'[p] = k
      BY <1>1, <2>1, <2>3 DEF OnePath, SafeInv, IInv, TypeOK, disk, frame
    <3> QED
      BY <1>1, <2>1, <2>2, <2>3, <3>1, ApplySafe DEF disk
<1>7. CASE ForgetDeleted(p)
  <2>1. /\ \A q \in Path \ {p} : base'[q] = base[q]
        /\ Finish(p) /\ UNCHANGED <<vault, conflict, frame>>
    BY <1>7 DEF ForgetDeleted, SafeInv, IInv, TypeOK
  <2> QED
    BY <1>1, <2>1, DropSafe DEF frame
<1> QED
  BY <1>2, <1>3, <1>4, <1>5, <1>6, <1>7 DEF Delete


-----------------------------------------------------------------------------
(* Conflicts and equality *)

LEMMA Established ==
  ASSUME SafeInv, NEW p \in Path, NEW s, Reviewing(p, s)
  PROVE  /\ IInv /\ ResultKept(p, job[p]) /\ phase \in {"apply", "review"}
         /\ Known(job[p]) /\ job[p] \in Job /\ job[p].op = "conflict" /\ job[p].step = s
         /\ job[p].bytes \in Content \cup {None} /\ job[p].uuid \in Uuid \cup {None}
         /\ s \in Resolving => Known(conflict[p]) /\ conflict[p] \in Captured
<1>1. IInv
  BY DEF SafeInv
<1>2. /\ phase \in {"apply", "review"} /\ Known(job[p]) /\ job[p] \in Job
      /\ job[p].op = "conflict" /\ job[p].step = s /\ JobSound(p, job[p])
      /\ s \in Resolving => conflict[p] \in Captured
  BY <1>1, ReviewingFacts
<1> QED
  BY <1>1, <1>2 DEF SafeInv, JobsKept, Kept, JobSound, Job

(* A look that moves a conflict's job, and nothing else. *)
LEMMA ConflictMoves ==
  ASSUME SafeInv, NEW p \in Path, NEW s, Reviewing(p, s), Quiet,
         NEW k \in Job, k.op = "conflict", ResultKept(p, k),
         job' = [job EXCEPT ![p] = k], pass'.direction = pass.direction
  PROVE  Hashed' /\ JobsKept'
<1>1. phase \in {"apply", "review"}
  BY Established
<1>2. OnePath(p) /\ job'[p] = k
  BY <1>1 DEF OnePath, SafeInv, IInv, TypeOK, Quiet, vault, disk
<1>3. ResultKept(p, k)'
  BY DEF ResultKept, Live, HistoryHolds, There, Quiet, vault, disk
<1> QED
  BY <1>2, <1>3, ConflictSafe

(* Its next step needs what the last one has established. *)
LEMMA ConflictSteps ==
  ASSUME SafeInv, NEW p \in Path, NEW s, Reviewing(p, s), Quiet, NEW next \in JobSteps,
         Step(p, next), ResultKept(p, [job[p] EXCEPT !.step = next])
  PROVE  Hashed' /\ JobsKept'
<1>1. PICK k \in Job : k = [job[p] EXCEPT !.step = next]
  BY Established DEF Job, JobSteps
<1>2. k.op = "conflict"
  BY <1>1, Established DEF Job
<1>3. job' = [job EXCEPT ![p] = k] /\ pass' = pass
  BY <1>1 DEF Step, SafeInv, IInv, TypeOK
<1> QED
  BY <1>1, <1>2, <1>3, ConflictMoves

LEMMA ConflictHolds ==
  ASSUME SafeInv, NEW p \in Path, NEW s, Reviewing(p, s), Quiet, NEW next \in JobSteps,
         NEW b \in Content \cup {None}, NEW u \in Uuid \cup {None}, Hold(p, next, b, u),
         ResultKept(p, [job[p] EXCEPT !.step = next, !.bytes = b, !.uuid = u])
  PROVE  Hashed' /\ JobsKept'
<1>1. PICK k \in Job : k = [job[p] EXCEPT !.step = next, !.bytes = b, !.uuid = u]
  <2>1. ASSUME NEW x \in Job PROVE [x EXCEPT !.step = next, !.bytes = b, !.uuid = u] \in Job
    BY <2>1, Zenon DEF Job, JobSteps
  <2> QED
    BY <2>1, Established
<1>2. k.op = "conflict"
  BY <1>1, Established DEF Job
<1>3. job' = [job EXCEPT ![p] = k] /\ pass' = pass
  BY <1>1 DEF Hold, SafeInv, IInv, TypeOK
<1> QED
  BY <1>1, <1>2, <1>3, ConflictMoves

LEMMA ConflictArms ==
  ASSUME SafeInv, NEW p \in Path, NEW s, Reviewing(p, s), Quiet, NEW next \in JobSteps,
         Arm(p, next), ResultKept(p, [job[p] EXCEPT !.step = next, !.raced = FALSE])
  PROVE  Hashed' /\ JobsKept'
<1>1. PICK k \in Job : k = [job[p] EXCEPT !.step = next, !.raced = FALSE]
  <2>1. ASSUME NEW x \in Job PROVE [x EXCEPT !.step = next, !.raced = FALSE] \in Job
    BY <2>1, Zenon DEF Job, JobSteps
  <2> QED
    BY <2>1, Established
<1>2. k.op = "conflict"
  BY <1>1, Established DEF Job
<1>3. job' = [job EXCEPT ![p] = k] /\ pass' = pass
  BY <1>1 DEF Arm, SafeInv, IInv, TypeOK
<1> QED
  BY <1>1, <1>2, <1>3, ConflictMoves

LEMMA ConflictFails ==
  ASSUME SafeInv, NEW p \in Path, NEW s, Reviewing(p, s), Quiet,
         Finish(p) \/ Replan(p) \/ EditPending(p)
  PROVE  Hashed' /\ JobsKept'
<1>1. phase \in {"apply", "review"}
  BY Established
<1> QED
  BY <1>1, DropSafe DEF Quiet, vault, disk

LEMMA SafeQuiet ==
  ASSUME SafeInv, UNCHANGED <<vault, disk, hashes, frame>>
  PROVE  Quiet
  BY QuietStep DEF SafeInv

LEMMA ReviewSafe ==
  ASSUME SafeInv, NEW p \in Path, Review(p)
  PROVE  Hashed' /\ JobsKept'
<1>1. CASE AcceptVerify(p)
  <2>1. /\ phase = "apply" /\ Known(job[p]) /\ job[p] \in Job /\ Quiet
        /\ job[p].op = "accept" /\ job[p].step = "start"
    BY <1>1, SafeQuiet DEF AcceptVerify, At, SafeInv, IInv, TypeOK, Known
  <2>2. CheckKept(p, [job[p] EXCEPT !.step = "ready"])
    BY <2>1 DEF CheckKept, Job
  <2>3. Step(p, "ready") \/ Replan(p) \/ EditPending(p)
    BY <1>1 DEF AcceptVerify
  <2> QED
    BY <2>1, <2>2, <2>3, StepSafe, DropSafe DEF Quiet, vault, disk
<1>2. CASE AcceptRecord(p)
  <2>1. /\ \A q \in Path \ {p} : base'[q] = base[q]
        /\ Finish(p) \/ Replan(p)
        /\ phase = "apply" /\ UNCHANGED <<vault, conflict, frame>>
    BY <1>2 DEF AcceptRecord, At, SafeInv, IInv, TypeOK
  <2> QED
    BY <2>1, DropSafe DEF frame
<1>3. CASE CaptureRead(p)
  <2>1. PICK s \in {"start", "recapture"} : Reviewing(p, s)
    BY <1>3 DEF CaptureRead
  <2>2. Quiet
    BY <1>3, SafeQuiet DEF CaptureRead
  <2>3. PICK found \in Lookup(p) : Hold(p, "read", Live(p), found) \/ Replan(p) \/ Finish(p)
    BY <1>3 DEF CaptureRead
  <2>4. Live(p) \in Content \cup {None} /\ found \in Uuid \cup {None}
    BY LiveType, LookupType DEF SafeInv
  <2>5. ResultKept(p, [job[p] EXCEPT !.step = "read", !.bytes = Live(p), !.uuid = found])
    BY <2>1, Established DEF ResultKept, Carried, Job
  <2> QED
    BY <2>1, <2>2, <2>3, <2>4, <2>5, ConflictHolds, ConflictFails DEF JobSteps
<1>4. CASE CaptureCheck(p)
  <2>1. Reviewing(p, "read") /\ Quiet
    BY <1>4, SafeQuiet DEF CaptureCheck
  <2>2. CASE Live(p) = job[p].bytes /\ Arm(p, "checked")
    <3>1. ResultKept(p, [job[p] EXCEPT !.step = "checked", !.raced = FALSE])
      BY <2>1, <2>2, Established DEF ResultKept, Carried, Job
    <3> QED
      BY <2>1, <2>2, <3>1, ConflictArms DEF JobSteps
  <2>3. CASE Replan(p)
    BY <2>1, <2>3, ConflictFails
  <2> QED
    BY <1>4, <2>2, <2>3 DEF CaptureCheck
<1>5. CASE CaptureRecord(p)
  <2>1. /\ Reviewing(p, "checked") /\ UNCHANGED <<vault, base, hashes, frame>>
        /\ phase \in {"apply", "review"}
        /\ \A q \in Path \ {p} : conflict'[q] = conflict[q]
    BY <1>5, Established DEF CaptureRecord, SafeInv, IInv, TypeOK
  <2>2. CASE Finish(p)
    BY <2>1, <2>2, DropSafe DEF frame
  <2>3. CASE \E r \in Merges(p) : Hold(p, "begin", r, None)
    <3>1. PICK r \in Merges(p) : Hold(p, "begin", r, None)
      BY <2>3
    <3>2. r \in Content
      BY <2>1, Established, MergesType
    <3>3. PICK k \in Job : k = [job[p] EXCEPT !.step = "begin", !.bytes = r, !.uuid = None]
      <4>1. ASSUME NEW x \in Job
            PROVE  [x EXCEPT !.step = "begin", !.bytes = r, !.uuid = None] \in Job
        BY <3>2, <4>1, Zenon DEF Job
      <4> QED
        BY <2>1, <4>1, Established
    <3>4. k.op = "conflict" /\ k.step = "begin"
      BY <2>1, <3>3, Established DEF Job
    <3>5. job' = [job EXCEPT ![p] = k] /\ pass' = pass
      BY <3>1, <3>3 DEF Hold, SafeInv, IInv, TypeOK
    <3>6. OnePath(p) /\ job'[p] = k
      BY <2>1, <3>5 DEF OnePath, SafeInv, IInv, TypeOK, vault, frame
    <3>7. ResultKept(p, k)'
      BY <3>4 DEF ResultKept, Carried
    <3> QED
      BY <3>4, <3>6, <3>7, ConflictSafe
  <2> QED
    BY <1>5, <2>2, <2>3 DEF CaptureRecord
<1> QED
  BY <1>1, <1>2, <1>3, <1>4, <1>5 DEF Review

-----------------------------------------------------------------------------
(* Carrying out a result *)

LEMMA ResumeSafe ==
  ASSUME SafeInv, NEW p \in Path, ResumeApproval(p) \/ ApplyRead(p)
  PROVE  Hashed' /\ JobsKept'
<1>1. Quiet
  BY SafeQuiet DEF ResumeApproval, ApplyRead
<1>2. CASE ResumeApproval(p)
  <2>1. Reviewing(p, "start") /\ conflict[p] \in Captured
    BY <1>2 DEF ResumeApproval, Approved, SafeInv, IInv, TypeOK, Known
  <2>2. conflict[p].result \in Content \cup {None}
    BY <2>1 DEF Captured
  <2>3. /\ ResultKept(p, [job[p] EXCEPT !.step = "begin", !.bytes = conflict[p].result,
                                        !.uuid = None])
        /\ ResultKept(p, [job[p] EXCEPT !.step = "recapture"])
    BY <2>1, Established DEF ResultKept, Carried, Job
  <2>4. Hold(p, "begin", conflict[p].result, None) \/ Step(p, "recapture")
    BY <1>2 DEF ResumeApproval
  <2> QED
    BY <1>1, <2>1, <2>2, <2>3, <2>4, ConflictHolds, ConflictSteps DEF JobSteps
<1>3. CASE ApplyRead(p)
  <2>1. Reviewing(p, "begin")
    BY <1>3 DEF ApplyRead
  <2>2. PICK found \in Lookup(p) :
          \/ /\ RemoteFits(p, found)
             /\ Hold(p, IF Approved(p) THEN "approved" ELSE "approve", job[p].bytes, found)
          \/ /\ job' = [job EXCEPT ![p].step = "recapture"]
             /\ pass' = [pass EXCEPT !.failed = TRUE]
    BY <1>3 DEF ApplyRead
  <2>3. /\ found \in Uuid \cup {None} /\ Known(conflict[p]) /\ conflict[p] \in Captured
        /\ job[p].bytes \in Content \cup {None}
    BY <2>1, Established, LookupType DEF Resolving
  <2>4. CASE Approved(p) /\ RemoteFits(p, found) /\ Hold(p, "approved", job[p].bytes, found)
    <3>1. ResultKept(p, [job[p] EXCEPT !.step = "approved", !.bytes = job[p].bytes, !.uuid = found])
      BY <2>1, <2>4, Established DEF ResultKept, Carried, Job, RemoteFits, Approved
    <3> QED
      BY <1>1, <2>1, <2>3, <2>4, <3>1, ConflictHolds DEF JobSteps
  <2>5. CASE ~Approved(p) /\ RemoteFits(p, found) /\ Hold(p, "approve", job[p].bytes, found)
    <3>1. ResultKept(p, [job[p] EXCEPT !.step = "approve", !.bytes = job[p].bytes, !.uuid = found])
      BY <2>1, <2>3, <2>5, Established DEF ResultKept, Carried, Job, RemoteFits, Approved
    <3> QED
      BY <1>1, <2>1, <2>3, <2>5, <3>1, ConflictHolds DEF JobSteps
  <2>6. CASE /\ job' = [job EXCEPT ![p].step = "recapture"]
             /\ pass' = [pass EXCEPT !.failed = TRUE]
    <3>1. PICK k \in Job : k = [job[p] EXCEPT !.step = "recapture"]
      BY <2>1, Established DEF Job
    <3>2. k.op = "conflict" /\ k.step = "recapture"
      BY <2>1, <3>1, Established DEF Job
    <3>3. ResultKept(p, k)
      BY <3>2 DEF ResultKept, Carried
    <3>4. job' = [job EXCEPT ![p] = k] /\ pass'.direction = pass.direction
      BY <2>6, <3>1 DEF SafeInv, IInv, TypeOK, Pass
    <3> QED
      BY <1>1, <2>1, <3>2, <3>3, <3>4, ConflictMoves
  <2> QED
    BY <2>2, <2>4, <2>5, <2>6
<1> QED
  BY <1>2, <1>3

LEMMA ApproveSafe ==
  ASSUME SafeInv, NEW p \in Path, Approve(p)
  PROVE  Hashed' /\ JobsKept'
<1>1. /\ Reviewing(p, "approve") /\ Step(p, "approved") /\ UNCHANGED <<vault, base, hashes, frame>>
      /\ phase \in {"apply", "review"} /\ conflict[p] \in Captured
      /\ job[p].uuid = conflict[p].remote
  BY Established DEF Approve, Resolving, ResultKept
<1>2. PICK k \in Job : k = [job[p] EXCEPT !.step = "approved"]
  BY <1>1, Established DEF Job
<1>3. k.op = "conflict" /\ k.step = "approved" /\ k.uuid = job[p].uuid
  BY <1>1, <1>2, Established DEF Job
<1>4. job' = [job EXCEPT ![p] = k] /\ pass' = pass
  BY <1>1, <1>2 DEF Step, SafeInv, IInv, TypeOK
<1>5. PICK c : /\ conflict' = [conflict EXCEPT ![p] = c]
               /\ c = [conflict[p] EXCEPT !.approved = TRUE, !.result = job[p].bytes]
  BY DEF Approve, SafeInv, IInv, TypeOK
<1>6. c.approved /\ c.remote = conflict[p].remote
  BY <1>1, <1>5 DEF Captured
<1>7. conflict'[p] = c /\ \A q \in Path \ {p} : conflict'[q] = conflict[q]
  BY <1>5 DEF SafeInv, IInv, TypeOK
<1>8. OnePath(p) /\ job'[p] = k
  BY <1>1, <1>4, <1>7 DEF OnePath, SafeInv, IInv, TypeOK, vault, frame
<1>9. ResultKept(p, k)'
  BY <1>1, <1>3, <1>6, <1>7 DEF ResultKept, Carried
<1> QED
  BY <1>3, <1>8, <1>9, ConflictSafe

LEMMA GateSafe ==
  ASSUME SafeInv, NEW p \in Path, RemoteGate(p) \/ BeforeCommit(p) \/ ReadBack(p) \/ ResultGate(p)
  PROVE  Hashed' /\ JobsKept'
<1>1. Quiet
  BY SafeQuiet DEF RemoteGate, BeforeCommit, ReadBack, ResultGate
<1>2. CASE RemoteGate(p)
  <2>1. Reviewing(p, "approved")
    BY <1>2 DEF RemoteGate
  <2>2. /\ job[p] \in Job /\ job[p].step = "approved" /\ conflict[p].approved
        /\ job[p].uuid = conflict[p].remote \/ There(job[p].uuid) = conflict[p].result
    BY <2>1, Established DEF ResultKept, Carried
  <2>3. ResultKept(p, [job[p] EXCEPT !.step = "sent"])
    BY <2>2 DEF ResultKept, Job
  <2>4. CASE There(job[p].uuid) # conflict[p].result /\ remote[p] = job[p].uuid /\ Arm(p, "ready")
    <3>1. ResultKept(p, [job[p] EXCEPT !.step = "ready", !.raced = FALSE])
      BY <2>2, <2>4 DEF ResultKept, Job
    <3> QED
      BY <1>1, <2>1, <2>4, <3>1, ConflictArms DEF JobSteps
  <2>5. CASE /\ There(job[p].uuid) # conflict[p].result /\ ~Known(conflict[p].result)
             /\ Arm(p, "armed")
    <3>1. ResultKept(p, [job[p] EXCEPT !.step = "armed", !.raced = FALSE])
      BY <2>2, <2>5 DEF ResultKept, Job
    <3> QED
      BY <1>1, <2>1, <2>5, <3>1, ConflictArms DEF JobSteps
  <2>6. CASE Step(p, "sent") \/ Replan(p)
    BY <1>1, <2>1, <2>3, <2>6, ConflictSteps, ConflictFails DEF JobSteps
  <2> QED
    BY <1>2, <2>4, <2>5, <2>6 DEF RemoteGate
<1>3. CASE BeforeCommit(p)
  <2>1. Reviewing(p, "ready") /\ (Step(p, "armed") \/ Replan(p))
    BY <1>3 DEF BeforeCommit
  <2>2. ResultKept(p, [job[p] EXCEPT !.step = "armed"])
    BY <2>1, Established DEF ResultKept, Carried, Job
  <2> QED
    BY <1>1, <2>1, <2>2, ConflictSteps, ConflictFails DEF JobSteps
<1>4. CASE ReadBack(p)
  <2>1. Reviewing(p, "sent")
    BY <1>4 DEF ReadBack
  <2>2. PICK found \in Lookup(p) : Hold(p, "applied", job[p].bytes, found) \/ Replan(p)
    BY <1>4 DEF ReadBack
  <2>3. ResultKept(p, [job[p] EXCEPT !.step = "applied", !.bytes = job[p].bytes, !.uuid = found])
    BY <2>1, Established DEF ResultKept, Carried, Job
  <2>4. found \in Uuid \cup {None} /\ job[p].bytes \in Content \cup {None}
    BY <2>1, Established, LookupType
  <2> QED
    BY <1>1, <2>1, <2>2, <2>3, <2>4, ConflictHolds, ConflictFails DEF JobSteps
<1>5. CASE ResultGate(p)
  <2>1. Reviewing(p, "applied")
    BY <1>5 DEF ResultGate
  <2>2. job[p] \in Job /\ conflict[p].approved
    BY <2>1, Established DEF ResultKept, Carried
  <2>3. CASE LocalFits(p) /\ Live(p) # conflict[p].result /\ Arm(p, "local")
    <3>1. ResultKept(p, [job[p] EXCEPT !.step = "local", !.raced = FALSE])
      BY <2>2, <2>3 DEF ResultKept, Job, LocalFits
    <3> QED
      BY <1>1, <2>1, <2>3, <3>1, ConflictArms DEF JobSteps
  <2>4. CASE Arm(p, "written")
    <3>1. ResultKept(p, [job[p] EXCEPT !.step = "written", !.raced = FALSE])
      BY <2>2 DEF ResultKept, Job
    <3> QED
      BY <1>1, <2>1, <2>4, <3>1, ConflictArms DEF JobSteps
  <2>5. CASE Replan(p)
    BY <1>1, <2>1, <2>5, ConflictFails
  <2> QED
    BY <1>5, <2>3, <2>4, <2>5 DEF ResultGate
<1> QED
  BY <1>2, <1>3, <1>4, <1>5

(* A write of the result: the job goes on, still approved. *)
LEMMA WrittenSafe ==
  ASSUME SafeInv, NEW p \in Path, NEW s \in Carried, Reviewing(p, s),
         NEW next \in {"sent", "written", "recorded"}, Step(p, next),
         next = "recorded" => HistoryHolds(p)' = conflict[p].result,
         UNCHANGED <<conflict, frame>>,
         \A q \in Path : Known(remoteScan[q]) => object'[remoteScan[q]] = object[remoteScan[q]],
         \A q \in Path : Known(job[q]) /\ Known(job[q].uuid) =>
           object'[job[q].uuid] = object[job[q].uuid],
         \A q \in Path \ {p} : local'[q] = local[q] /\ remote'[q] = remote[q] /\ base'[q] = base[q]
  PROVE  Hashed' /\ JobsKept'
<1>1. phase \in {"apply", "review"} /\ conflict[p].approved /\ job[p] \in Job
  BY Established DEF ResultKept
<1>2. PICK k \in Job : k = [job[p] EXCEPT !.step = next]
  BY <1>1 DEF Job
<1>3. k.op = "conflict" /\ k.step = next
  BY <1>2, Established DEF Job
<1>4. job' = [job EXCEPT ![p] = k] /\ pass' = pass
  BY <1>2 DEF Step, SafeInv, IInv, TypeOK
<1>5. OnePath(p) /\ job'[p] = k
  BY <1>1, <1>4 DEF OnePath, SafeInv, IInv, TypeOK, frame
<1>6. ResultKept(p, k)'
  BY <1>1, <1>3 DEF ResultKept
<1> QED
  BY <1>3, <1>5, <1>6, ConflictSafe

LEMMA SendSafe ==
  ASSUME SafeInv, NEW p \in Path, SendResult(p)
  PROVE  Hashed' /\ JobsKept'
<1> DEFINE o == [content |-> conflict[p].result, mtime |-> Now, digest |-> TRUE]
<1>1. /\ Reviewing(p, "armed") /\ Uploaded(p, o) /\ Step(p, "sent")
      /\ UNCHANGED <<local, disk, hashes, frame>>
  BY DEF SendResult
<1>2. o \in Object
  BY <1>1, NowAssumption, Established DEF SendResult, Captured, Object, Known, Resolving
<1>3. \A q \in Path \ {p} : remote'[q] = remote[q]
  BY <1>1 DEF Uploaded, SafeInv, IInv, TypeOK
<1> HIDE DEF o
<1>4. /\ \A q \in Path : Known(remoteScan[q]) => object'[remoteScan[q]] = object[remoteScan[q]]
      /\ \A q \in Path : Known(job[q]) /\ Known(job[q].uuid) =>
           object'[job[q].uuid] = object[job[q].uuid]
  BY <1>1, <1>2, UploadKeeps DEF disk, frame, SafeInv
<1> QED
  BY <1>1, <1>3, <1>4, WrittenSafe DEF disk, Carried

(* The history has the result once it is recorded. *)
LEMMA RecordedHistory ==
  ASSUME SafeInv, NEW p \in Path, Reviewing(p, "written"), NEW found \in Lookup(p),
         BothHold(p, found),
         base' = [base EXCEPT ![p] =
            IF Known(conflict[p].result)
            THEN [RecordOf(found, conflict[p].result) EXCEPT !.mtime = local[p].mtime]
            ELSE None]
  PROVE  HistoryHolds(p)' = conflict[p].result
<1> DEFINE full == [RecordOf(found, conflict[p].result) EXCEPT !.mtime = local[p].mtime]
<1>1. CASE Known(conflict[p].result)
  <2>1. found \in Uuid /\ object[found] \in Object /\ object[found].content = conflict[p].result
    BY <1>1, FoundFacts DEF BothHold, There, SafeInv, IInv, TypeOK, Known
  <2>2. local[p].mtime \in Time
    BY <1>1 DEF BothHold, Live, SafeInv, IInv, TypeOK, LocalFile, Known
  <2>3. full \in Record /\ full.hash = conflict[p].result
    BY <2>1, <2>2, SizeAssumption DEF Record, RecordOf, Object
  <2>4. base'[p] = full
    BY <1>1 DEF SafeInv, IInv, TypeOK
  <2> HIDE DEF full
  <2>5. Known(base'[p])
    BY <2>3, <2>4, NoneAssumption DEF Known
  <2> QED
    BY <2>3, <2>4, <2>5 DEF HistoryHolds
<1>2. CASE ~Known(conflict[p].result)
  <2>1. base'[p] = None
    BY <1>2 DEF SafeInv, IInv, TypeOK
  <2> QED
    BY <1>2, <2>1 DEF HistoryHolds, Known
<1> QED
  BY <1>1, <1>2

LEMMA ResolveSafe ==
  ASSUME SafeInv, NEW p \in Path, Resolve(p)
  PROVE  Hashed' /\ JobsKept'
<1>1. CASE TrashRemote(p)
  <2>1. \A q \in Path \ {p} : remote'[q] = remote[q]
    BY <1>1 DEF TrashRemote, SafeInv, IInv, TypeOK
  <2> QED
    BY <1>1, <2>1, WrittenSafe DEF TrashRemote, disk, Carried
<1>2. CASE WriteResult(p)
  <2>1. \A q \in Path \ {p} : local'[q] = local[q]
    BY <1>2 DEF WriteResult, SafeInv, IInv, TypeOK
  <2> QED
    BY <1>2, <2>1, WrittenSafe DEF WriteResult, disk, Carried
<1>3. CASE RecordResult(p)
  <2>1. Reviewing(p, "written") /\ UNCHANGED <<vault, conflict, hashes, frame>>
    BY <1>3 DEF RecordResult
  <2>2. PICK found \in Lookup(p) :
          \/ Replan(p) /\ UNCHANGED base
          \/ /\ BothHold(p, found) /\ Step(p, "recorded")
             /\ base' = [base EXCEPT ![p] =
                  IF Known(conflict[p].result)
                  THEN [RecordOf(found, conflict[p].result) EXCEPT !.mtime = local[p].mtime]
                  ELSE None]
    BY <1>3 DEF RecordResult
  <2>3. CASE Replan(p) /\ UNCHANGED base
    <3>1. Quiet
      BY <2>1, <2>3, SafeQuiet DEF disk
    <3> QED
      BY <2>1, <2>3, <3>1, ConflictFails
  <2>4. CASE /\ BothHold(p, found) /\ Step(p, "recorded")
             /\ base' = [base EXCEPT ![p] =
                  IF Known(conflict[p].result)
                  THEN [RecordOf(found, conflict[p].result) EXCEPT !.mtime = local[p].mtime]
                  ELSE None]
    <3>3. HistoryHolds(p)' = conflict[p].result
      BY <2>1, <2>4, RecordedHistory
    <3>4. \A q \in Path \ {p} : base'[q] = base[q]
      BY <2>4 DEF SafeInv, IInv, TypeOK
    <3> QED
      BY <2>1, <2>4, <3>3, <3>4, WrittenSafe DEF vault, Carried
  <2> QED
    BY <2>2, <2>3, <2>4
<1>4. CASE DropConflict(p)
  <2>1. /\ Reviewing(p, "recorded") /\ UNCHANGED <<vault, base, hashes, frame>>
        /\ Finish(p) \/ Replan(p)
        /\ \A q \in Path \ {p} : conflict'[q] = conflict[q]
    BY <1>4 DEF DropConflict, SafeInv, IInv, TypeOK
  <2>2. phase \in {"apply", "review"}
    BY <2>1, Established
  <2> QED
    BY <2>1, <2>2, DropSafe DEF frame
<1> QED
  BY <1>1, <1>2, <1>3, <1>4, ResumeSafe, ApproveSafe, GateSafe, SendSafe DEF Resolve

LEMMA ExecuteSafe ==
  ASSUME SafeInv, NEW p \in Path, Execute(p)
  PROVE  Hashed' /\ JobsKept'
  BY UploadSafe, DownloadSafe, DeleteSafe, ReviewSafe, ResolveSafe DEF Execute

(* A session has its one conflict, and has not looked at it yet. *)
LEMMA SessionSafe ==
  ASSUME SafeInv, NEW p \in Path, NEW step \in {"begin", "recapture"},
         NEW result \in Content \cup {None}, Session(p, step, result)
  PROVE  Hashed' /\ JobsKept'
<1> DEFINE j == [NewJob("conflict") EXCEPT !.step = step, !.bytes = result]
<1>1. job = NoJobs /\ phase' = "review" /\ job' = [job EXCEPT ![p] = j]
  BY DEF Session, SafeInv, IInv, ScanSound
<1>2. j.op = "conflict" /\ j.step = step
  BY DEF NewJob
<1> HIDE DEF j
<1>3. \A q \in Path : Known(job'[q]) => q = p /\ job'[q] = j
  BY <1>1 DEF NoJobs, Known, SafeInv, IInv, TypeOK
<1>4. JobsKept'
  BY <1>2, <1>3 DEF JobsKept, Kept, PlanKept, CheckKept, ResultKept, LocalWrite, Carried
<1> QED
  BY <1>1, <1>4 DEF Hashed
-----------------------------------------------------------------------------
(* Scanning and planning *)

LEMMA IdleSafe ==
  ASSUME job' = NoJobs, phase' # "scan" \/ "local" \notin pass'.read
  PROVE  Hashed' /\ JobsKept'
  BY DEF Hashed, JobsKept, NoJobs, Known

LEMMA ScanLocalSafe ==
  ASSUME SafeInv, ScanLocal
  PROVE  Hashed' /\ JobsKept'
<1>1. job' = NoJobs /\ UNCHANGED <<local, base>>
  BY DEF ScanLocal, SafeInv, IInv, ScanSound, vault, disk
<1>2. ASSUME NEW p \in Path, Known(localScan'[p]), Known(base[p])
      PROVE  Known(localScan'[p].hash)
  <2> DEFINE fresh == [hash |-> local[p].content, sha512 |-> FALSE]
             found == IF ~pass.verify /\ Known(hashes[p]) THEN hashes[p]
                      ELSE IF ~pass.verify /\ ~Known(hashes[p]) /\ ~Known(base[p]) THEN None
                      ELSE fresh
             entry == [size |-> SizeOf[local[p].content], mtime |-> local[p].mtime,
                       hash |-> IF Known(found) THEN found.hash ELSE None]
  <2>1. Known(local[p]) /\ localScan'[p] = entry
    BY <1>2 DEF ScanLocal, Known
  <2>2. local[p].content \in Content
    BY <2>1 DEF SafeInv, IInv, TypeOK, LocalFile, Known
  <2>3. fresh \in Fingerprint /\ fresh.hash = local[p].content
    BY <2>2, Zenon DEF Fingerprint
  <2>4. Known(hashes[p]) => hashes[p] \in Fingerprint
    BY DEF SafeInv, IInv, TypeOK, Known
  <2> HIDE DEF fresh
  <2>5. found \in Fingerprint
    BY <1>2, <2>3, <2>4
  <2> HIDE DEF found
  <2>6. Known(found) /\ Known(found.hash)
    BY <2>5, NoneAssumption DEF Fingerprint, Known
  <2> QED
    BY <2>1, <2>6
<1> QED
  BY <1>1, <1>2 DEF Hashed, JobsKept, NoJobs, Known

LEMMA ScanRemoteSafe ==
  ASSUME SafeInv, ScanRemote
  PROVE  Hashed' /\ JobsKept'
<1>1. job' = NoJobs /\ UNCHANGED <<phase, localScan, base>>
  BY DEF ScanRemote, SafeInv, IInv, ScanSound, disk
<1>2. pass'.read = pass.read \cup {"remote"}
  BY DEF ScanRemote, SafeInv, IInv, TypeOK, Pass
<1> QED
  BY <1>1, <1>2 DEF SafeInv, Hashed, JobsKept, NoJobs, Known

(* What the planner is told of the remote side is true of the scanned       *)
(* object.                                                                  *)
LEMMA PlannedRemoteIsTrue ==
  ASSUME IInv, NEW p \in Path, Known(remoteScan[p])
  PROVE  /\ Known(PlannedRemote(p)) /\ PlannedRemote(p).uuid = remoteScan[p]
         /\ PlannedRemote(p).remoteHash \in {None, object[remoteScan[p]].content}
         /\ PlannedRemote(p).hash \in {None, object[remoteScan[p]].content}
<1>1. PICK h : /\ PlannedRemote(p) = RemoteEntry(remoteScan[p], h)
               /\ \/ h = None
                  \/ h = EqualityHash(EntryHash(p), RemoteEntry(remoteScan[p], None),
                                      object[remoteScan[p]].content)
  BY DEF PlannedRemote
<1>2. RemoteEntry(remoteScan[p], None).remoteHash \in {None, object[remoteScan[p]].content}
  BY DEF RemoteEntry
<1>3. h \in {None, object[remoteScan[p]].content}
  BY <1>1, <1>2 DEF EqualityHash, Known
<1>4. remoteScan[p] \in Uuid /\ object[remoteScan[p]] \in Object
  BY DEF IInv, TypeOK, ReferencesExist, Known
<1>5. /\ object[remoteScan[p]].content \in Content /\ object[remoteScan[p]].mtime \in Time
      /\ SizeOf[object[remoteScan[p]].content] \in Nat
  BY <1>4, SizeAssumption DEF Object
<1>6. RemoteEntry(remoteScan[p], h) \in ScannedObject
  BY <1>3, <1>4, <1>5 DEF RemoteEntry, ScannedObject
<1>7. Known(PlannedRemote(p))
  BY <1>1, <1>6, NoneAssumption DEF Known
<1> QED
  BY <1>1, <1>3, <1>7 DEF RemoteEntry

(* A remote file the planner takes as unchanged holds the synced content.   *)
LEMMA UnchangedRemote ==
  ASSUME IInv, NEW p \in Path, Known(PlannedRemote(p)), Known(base[p]),
         ~IsRemoteChanged(PlannedRemote(p), base[p])
  PROVE  Known(remoteScan[p]) /\ object[remoteScan[p]].content = base[p].hash
<1> DEFINE r == PlannedRemote(p)
<1>1. /\ Known(remoteScan[p]) /\ r.uuid = remoteScan[p]
      /\ r.remoteHash \in {None, object[remoteScan[p]].content}
      /\ r.hash \in {None, object[remoteScan[p]].content}
  BY PlannedRemoteIsTrue DEF PlannedRemote, Known
<1>2. /\ base[p].hash \in Content /\ base[p].remoteUuid \in Uuid
      /\ RecordHonest(base[p])
  BY DEF IInv, TypeOK, BaselineHonest, Record, Known
<1>3. Known(base[p].hash) /\ Known(base[p].remoteUuid)
  BY <1>2, NoneAssumption DEF Known
<1> HIDE DEF r
<1>4. \/ Known(r.hash) /\ r.hash = base[p].hash
      \/ Same(r.remoteHash, base[p].remoteHash)
      \/ r.uuid = base[p].remoteUuid
  BY <1>1, <1>3 DEF IsRemoteChanged, Differ, r
<1> QED
  BY <1>1, <1>2, <1>4 DEF RecordHonest, Same, Known

(* A local file the planner takes as unchanged was hashed, and its hash is  *)
(* the synced one.                                                          *)
LEMMA UnchangedLocal ==
  ASSUME SafeInv, Scanned, ~pass.dirty, NEW p \in Path, Known(PlannedLocal(p)), Known(base[p]),
         ~IsLocalChanged(PlannedLocal(p), base[p])
  PROVE  PlannedLocal(p).hash = base[p].hash
<1>1. Known(localScan[p]) /\ Known(localScan[p].hash)
  BY DEF SafeInv, Hashed, Scanned, PlannedLocal, Known
<1>2. PlannedLocal(p).hash = EntryHash(p)
  BY <1>1 DEF PlannedLocal, SafeInv, IInv, TypeOK, LocalEntry, Known
<1>3. Known(EntryHash(p))
  <2>1. CASE Compared(p)
    <3>1. ComparedFingerprint(p) \in Fingerprint
      BY <2>1, ComparedFacts DEF SafeInv
    <3> QED
      BY <2>1, <3>1, NoneAssumption DEF EntryHash, Fingerprint, Known
  <2>2. CASE ~Compared(p)
    BY <1>1, <2>2 DEF EntryHash
  <2> QED
    BY <2>1, <2>2
<1>4. Known(base[p].hash)
  BY NoneAssumption DEF SafeInv, IInv, TypeOK, Record, Known
<1> QED
  BY <1>2, <1>3, <1>4 DEF IsLocalChanged, Differ

LEMMA PlanSafe ==
  ASSUME SafeInv, Plan
  PROVE  Hashed' /\ JobsKept'
<1>1. /\ Scanned /\ ~pass.dirty /\ phase' \in {"confirm", "apply"}
      /\ pass'.direction = pass.direction
      /\ UNCHANGED <<vault, disk, remoteScan>>
      /\ localScan' = [p \in Path |-> PlannedLocal(p)]
      /\ job' = [p \in Path |-> PlannedJob(p)]
  BY DEF Plan, SafeInv, IInv, TypeOK, Pass
<1>2. ASSUME NEW p \in Path, NEW j, j = PlannedJob(p), Known(j)
      PROVE  Kept(p, j)'
  <2> DEFINE l  == PlannedLocal(p)
             r  == PlannedRemote(p)
             op == PlanSync(Known(conflict[p]), l, r, base[p], pass.direction)
  <2>1. pass.direction \in SyncDirections /\ Known(conflict[p]) \in BOOLEAN
    BY DEF SafeInv, IInv, TypeOK, Pass, Known
  <2>2. /\ j.step = "start"
        /\ \/ j.op = op
           \/ op = "noop" /\ j.op \in {"accept", "forget"}
    <3> HIDE DEF op
    <3>1. \/ PlannedJob(p) = NewJob(op)
          \/ op = "noop" /\ PlannedJob(p) = NewJob("accept")
          \/ op = "noop" /\ PlannedJob(p) = NewJob("forget")
          \/ PlannedJob(p) = None
      BY DEF PlannedJob, op
    <3> QED
      BY <1>2, <3>1 DEF NewJob, Known
  <2>3. Known(remoteScan[p]) => Known(r)
    BY PlannedRemoteIsTrue DEF SafeInv
  <2>4. /\ pass.direction = "push" => op \notin LocalWrite
        /\ pass.direction = "pull" => op \notin {"upload", "delete-remote"}
        /\ Known(conflict[p]) => op = "conflict"
    BY <2>1, DirectionLimits DEF LocalWrite
  <2>5. pass.direction = "both" /\ op \in LocalWrite /\ Known(l) =>
          Known(base[p]) /\ l.hash = base[p].hash
    BY <1>1, LocalLossIsSynced, UnchangedLocal DEF LocalWrite
  <2>6. op = "delete-remote" =>
          Known(remoteScan[p]) /\ Known(base[p]) /\ object[remoteScan[p]].content = base[p].hash
    BY <2>1, RemoteDeletionIsSynced, UnchangedRemote DEF SafeInv
  <2>7. pass.direction = "both" /\ op = "upload" /\ Known(remoteScan[p]) =>
          Known(base[p]) /\ object[remoteScan[p]].content = base[p].hash
    BY <2>3, RemoteLossIsSynced, UnchangedRemote DEF SafeInv
  <2>8. localScan'[p] = l
    BY <1>1
  <2> HIDE DEF op, l, r
  <2>9. PlanKept(p, j)'
    BY <1>1, <2>2, <2>4, <2>5, <2>6, <2>7, <2>8 DEF PlanKept, LocalWrite, vault, disk
  <2> QED
    BY <2>2, <2>9 DEF Kept, CheckKept, ResultKept, Carried
<1>3. JobsKept'
  BY <1>1, <1>2 DEF JobsKept, Kept, PlanKept, CheckKept, ResultKept, Live, HistoryHolds, There
<1> QED
  BY <1>1, <1>3 DEF Hashed

-----------------------------------------------------------------------------
(* The user and the other devices *)

(* A change on one side of one path: what the plan knew is not touched, and *)
(* a check it overtakes is marked.                                          *)
LEMMA WorldSafe ==
  ASSUME SafeInv, NEW p \in Path, NEW guarded, Race(p, guarded),
         phase' = phase, pass'.direction = pass.direction, pass'.read = pass.read,
         UNCHANGED <<disk, localScan, remoteScan>>,
         \A q \in Path : Known(remoteScan[q]) =>
            object'[remoteScan[q]] = object[remoteScan[q]],
         \A q \in Path : Known(job[q]) /\ Known(job[q].uuid) =>
            object'[job[q].uuid] = object[job[q].uuid],
         \A q \in Path \ {p} : local'[q] = local[q] /\ remote'[q] = remote[q],
         local'[p] = local[p] \/ LocalGuard \subseteq guarded,
         remote'[p] = remote[p] \/ RemoteGuard \subseteq guarded
  PROVE  Hashed' /\ JobsKept'
<1>1. ASSUME NEW q \in Path, NEW k, k = job'[q], Known(k)
      PROVE  Kept(q, k)'
  <2>1. /\ Known(job[q]) /\ k.op = job[q].op /\ k.step = job[q].step
        /\ k.uuid = job[q].uuid /\ k.bytes = job[q].bytes
        /\ PlanKept(q, job[q]) /\ CheckKept(q, job[q]) /\ ResultKept(q, job[q])
    BY <1>1, RaceFacts DEF SafeInv, JobsKept, Kept
  <2>2. PlanKept(q, k)'
    BY <2>1 DEF PlanKept, disk
  <2>3. There(k.uuid)' = There(k.uuid)
    BY <2>1 DEF There
  <2>4. CASE q # p
    <3>1. k = job[q]
      BY <1>1, <2>4 DEF Race, SafeInv, IInv, TypeOK
    <3>2. CheckKept(q, k)'
      BY <2>1, <2>4, <3>1 DEF CheckKept
    <3>3. ResultKept(q, k)'
      BY <2>1, <2>3, <2>4, <3>1 DEF ResultKept, Live, HistoryHolds, disk
    <3> QED
      BY <2>2, <3>2, <3>3 DEF Kept
  <2>5. CASE q = p
    <3>1. <<k.op, k.step>> \in guarded => k.raced
      BY <1>1, <2>1, <2>5 DEF Race, SafeInv, IInv, TypeOK, Job, Known
    <3>2. ~k.raced => ~job[q].raced
      BY <1>1, <2>1, <2>5 DEF Race, SafeInv, IInv, TypeOK, Job, Known
    <3>3. /\ local'[p] # local[p] => LocalGuard \subseteq guarded
          /\ remote'[p] # remote[p] => RemoteGuard \subseteq guarded
      OBVIOUS
    <3>4. /\ k.op \in LocalWrite /\ k.step = "armed" => <<k.op, k.step>> \in LocalGuard
          /\ k.op = "conflict" /\ k.step \in {"checked", "local"} => <<k.op, k.step>> \in LocalGuard
      BY DEF LocalGuard
    <3>5. /\ k.op = "upload" /\ k.step = "armed" => <<k.op, k.step>> \in RemoteGuard
          /\ k.op = "conflict" /\ k.step \in {"ready", "armed"} => <<k.op, k.step>> \in RemoteGuard
      BY DEF RemoteGuard
    <3>6. /\ ~k.raced /\ <<k.op, k.step>> \in LocalGuard => local'[p] = local[p]
          /\ ~k.raced /\ <<k.op, k.step>> \in RemoteGuard => remote'[p] = remote[p]
      BY <3>1, <3>3
    <3>7. CheckKept(q, k)'
      BY <2>1, <2>5, <3>2, <3>4, <3>5, <3>6 DEF CheckKept
    <3>8. ResultKept(q, k)'
      BY <2>1, <2>3, <2>5, <3>2, <3>4, <3>5, <3>6 DEF ResultKept, Live, HistoryHolds, disk
    <3> QED
      BY <2>2, <3>7, <3>8 DEF Kept
  <2> QED
    BY <2>4, <2>5
<1>2. JobsKept'
  BY <1>1 DEF JobsKept, Kept, PlanKept, CheckKept, ResultKept, Live, HistoryHolds, There
<1> QED
  BY <1>2 DEF SafeInv, Hashed, disk

LEMMA StepSafeInv ==
  ASSUME SafeInv, [Next]_vars
  PROVE  SafeInv'
<1> SUFFICES Hashed' /\ JobsKept'
  BY StepIInv DEF SafeInv
<1>1. ASSUME NEW d, NEW verify, BeginPass(d, verify) PROVE Hashed' /\ JobsKept'
  BY <1>1, IdleSafe DEF BeginPass, IdlePass, SafeInv, IInv, ScanSound
<1>2. CASE Engine
  <2>1. CASE \E verify \in BOOLEAN : AutomaticPass(verify)
    BY <1>1, <2>1 DEF AutomaticPass
  <2>2. CASE DiscardScan \/ Refuse \/ EndPass
    BY <2>2, IdleSafe DEF DiscardScan, Refuse, EndPass, LeavePass
  <2> QED
    BY <1>2, <2>1, <2>2, ScanLocalSafe, ScanRemoteSafe, PlanSafe, ExecuteSafe DEF Engine
<1>3. CASE User
  <2>1. CASE \E d \in Directions : StartPass(d)
    BY <1>1, <2>1 DEF StartPass
  <2>2. CASE Confirm
    BY <2>2 DEF Confirm, SafeInv, Hashed, JobsKept, Kept, PlanKept, CheckKept, ResultKept,
                Live, HistoryHolds, There, vault, disk
  <2>3. ASSUME NEW p \in Path,
               RefreshReview(p) \/ \E r \in Content \cup {None} : StartReview(p, r)
        PROVE  Hashed' /\ JobsKept'
    BY <2>3, SessionSafe DEF RefreshReview, StartReview
  <2> QED
    BY <1>3, <2>1, <2>2, <2>3 DEF User
<1>4. CASE Faults
  <2>1. CASE Crash \/ Decline
    BY <2>1, IdleSafe DEF Crash, Decline, LeavePass
  <2>2. ASSUME NEW p \in Path, RequestFails(p) PROVE Hashed' /\ JobsKept'
    BY <2>2, DropSafe DEF RequestFails, disk
  <2> QED
    BY <1>4, <2>1, <2>2 DEF Faults
<1>5. CASE World
  <2>1. ASSUME NEW p \in Path, NEW f \in LocalFile \cup {None}, UserSets(p, f)
        PROVE  Hashed' /\ JobsKept'
    <3>1. pass'.direction = pass.direction /\ pass'.read = pass.read
      BY <2>1 DEF UserSets, SafeInv, IInv, TypeOK, Pass
    <3> QED
      BY <2>1, <3>1, WorldSafe DEF UserSets, SafeInv, IInv, TypeOK
  <2>2. ASSUME NEW p \in Path, NEW c \in Content, SilentEdit(p, c)
        PROVE  Hashed' /\ JobsKept'
    BY <2>2, WorldSafe DEF SilentEdit, SafeInv, IInv, TypeOK
  <2>3. ASSUME NEW p \in Path, NEW o \in Object, OtherDeviceUploads(p, o)
        PROVE  Hashed' /\ JobsKept'
    <3>1. /\ \A q \in Path : Known(remoteScan[q]) => object'[remoteScan[q]] = object[remoteScan[q]]
          /\ \A q \in Path : Known(job[q]) /\ Known(job[q].uuid) =>
               object'[job[q].uuid] = object[job[q].uuid]
      BY <2>3, UploadKeeps DEF OtherDeviceUploads, SafeInv, disk
    <3>2. \A q \in Path \ {p} : remote'[q] = remote[q]
      BY <2>3 DEF OtherDeviceUploads, Uploaded, SafeInv, IInv, TypeOK
    <3> QED
      BY <2>3, <3>1, <3>2, WorldSafe DEF OtherDeviceUploads
  <2>4. ASSUME NEW p \in Path, OtherDeviceDeletes(p)
        PROVE  Hashed' /\ JobsKept'
    BY <2>4, WorldSafe DEF OtherDeviceDeletes, SafeInv, IInv, TypeOK
  <2> QED
    BY <1>5, <2>1, <2>2, <2>3, <2>4 DEF World
<1>6. ASSUME NEW p \in Path, ExpireHash(p) PROVE Hashed' /\ JobsKept'
  BY <1>6, IdleSafe DEF ExpireHash, SafeInv, IInv, ScanSound
<1>7. CASE UNCHANGED vars
  BY <1>7 DEF vars, SafeInv, Hashed, JobsKept, Kept, PlanKept, CheckKept, ResultKept,
              Live, HistoryHolds, There
<1> QED
  BY <1>2, <1>3, <1>4, <1>5, <1>6, <1>7 DEF Next

-----------------------------------------------------------------------------
(* In every reachable state, the local file a two-way pass is about to      *)
(* write or trash (pullRemote, deleteLocal) holds the last synced content,  *)
(* or is absent, unless it was edited after the last check.                 *)
THEOREM LocalWritesAreSafe == Spec => []LocalWriteIsSafe
<1>1. ASSUME SafeInv PROVE LocalWriteIsSafe
  <2> SUFFICES ASSUME NEW p \in Path, pass.direction = "both",
                      Own(p, LocalWrite, {"armed"}), ~job[p].raced
               PROVE  ~Known(local[p]) \/ (Known(base[p]) /\ local[p].content = base[p].hash)
    BY DEF LocalWriteIsSafe
  <2>1. PlanKept(p, job[p]) /\ CheckKept(p, job[p])
    BY <1>1 DEF Own, SafeInv, JobsKept, Kept
  <2>2. Known(base[p]) => Known(base[p].hash)
    BY <1>1, NoneAssumption DEF SafeInv, IInv, TypeOK, Record, Known
  <2> QED
    BY <2>1, <2>2 DEF PlanKept, CheckKept, Own
<1>2. Init => SafeInv
  BY InitSafe
<1>3. SafeInv /\ [Next]_vars => SafeInv'
  BY StepSafeInv
<1> QED
  BY <1>1, <1>2, <1>3, PTL DEF Spec

(* The same for the object a two-way upload is about to replace (pushLocal, *)
(* writeFile): it holds the last synced content unless another device wrote *)
(* after the last look.                                                     *)
THEOREM RemoteWritesAreSafe == Spec => []RemoteWriteIsSafe
<1>1. ASSUME SafeInv PROVE RemoteWriteIsSafe
  <2> SUFFICES ASSUME NEW p \in Path, pass.direction = "both",
                      Own(p, {"upload"}, {"armed"}), ~job[p].raced
               PROVE  \/ ~Known(remote[p])
                      \/ Known(base[p]) /\ object[remote[p]].content = base[p].hash
    BY DEF RemoteWriteIsSafe
  <2>1. PlanKept(p, job[p]) /\ CheckKept(p, job[p])
    BY <1>1 DEF Own, SafeInv, JobsKept, Kept
  <2> QED
    BY <2>1 DEF PlanKept, CheckKept, Own
<1>2. Init => SafeInv
  BY InitSafe
<1>3. SafeInv /\ [Next]_vars => SafeInv'
  BY StepSafeInv
<1> QED
  BY <1>1, <1>2, <1>3, PTL DEF Spec

-----------------------------------------------------------------------------
(* What the engine's own steps do to one path.                              *)

Untouched(p) ==
  local'[p] = local[p] /\ remote'[p] = remote[p] /\ base'[p] = base[p] /\ conflict'[p] = conflict[p]

(* A step of the path's own job, by its kind. *)
OwnEffect(p) ==
  /\ Known(job[p])
  /\ \/ /\ job[p].op \in LocalWrite
        /\ remote'[p] = remote[p] /\ conflict'[p] = conflict[p]
     \/ /\ job[p].op = "upload"
        /\ local'[p] = local[p] /\ conflict'[p] = conflict[p]
        /\ remote'[p] = remote[p] \/ Known(remote'[p])
     \/ /\ job[p].op = "delete-remote"
        /\ local'[p] = local[p] /\ conflict'[p] = conflict[p]
        /\ remote'[p] = remote[p] \/ remote[p] = remoteScan[p]
     \/ /\ job[p].op \in {"accept", "forget"}
        /\ local'[p] = local[p] /\ remote'[p] = remote[p] /\ conflict'[p] = conflict[p]
     \/ /\ job[p].op = "conflict"
        /\ IF Known(conflict[p]) THEN TowardsResult(p)
           ELSE local'[p] = local[p] /\ remote'[p] = remote[p] /\ base'[p] = base[p]
        /\ CapturedLive(p)
        /\ Known(remote[p]) /\ ~Known(remote'[p]) => RemovalIsKnown(p)

LEMMA UploadEffect ==
  ASSUME SafeInv, NEW p \in Path, Upload(p)
  PROVE  OwnEffect(p) /\ \A q \in Path \ {p} : Untouched(q)
<1>1. Known(job[p]) /\ job[p].op = "upload"
  BY DEF Upload, UploadRead, UploadRecheck, UploadPrecheck, UploadCommit, UploadRecord,
         UploadFinish, At
<1>2. CASE UploadCommit(p)
  <2> DEFINE o == [content |-> job[p].bytes, mtime |-> localScan[p].mtime, digest |-> TRUE]
  <2>1. o \in Object
    BY <1>1, <1>2 DEF UploadCommit, At, SafeInv, IInv, JobsSound, JobSound, Object, TypeOK,
                      LocalEntry, Known
  <2>2. Uploaded(p, o) /\ UNCHANGED <<local, disk>>
    BY <1>2 DEF UploadCommit
  <2>3. NewUuid \in Uuid /\ remote' = [remote EXCEPT ![p] = NewUuid]
    BY <2>1, <2>2, UploadedFacts DEF Uploaded, SafeInv
  <2>4. Known(NewUuid)
    BY <2>3, NoneAssumption DEF Known
  <2> QED
    BY <1>1, <2>2, <2>3, <2>4 DEF OwnEffect, Untouched, SafeInv, IInv, TypeOK, disk
<1>3. CASE UploadRecord(p)
  BY <1>1, <1>3 DEF UploadRecord, OwnEffect, Untouched, SafeInv, IInv, TypeOK, vault
<1>4. CASE UploadRead(p) \/ UploadRecheck(p) \/ UploadPrecheck(p) \/ UploadFinish(p)
  <2>1. UNCHANGED <<vault, disk>>
    BY <1>4 DEF UploadRead, UploadRecheck, UploadPrecheck, UploadFinish
  <2> QED
    BY <1>1, <2>1 DEF OwnEffect, Untouched, vault, disk
<1> QED
  BY <1>2, <1>3, <1>4 DEF Upload

LEMMA DownloadEffect ==
  ASSUME SafeInv, NEW p \in Path, Download(p)
  PROVE  OwnEffect(p) /\ \A q \in Path \ {p} : Untouched(q)
<1>1. Known(job[p]) /\ job[p].op = "download" /\ job[p].op \in LocalWrite
  BY DEF Download, DownloadRead, DownloadVerify, DownloadArm, DownloadWrite, DownloadRecord,
         At, LocalWrite
<1>2. CASE DownloadWrite(p)
  BY <1>1, <1>2 DEF DownloadWrite, OwnEffect, Untouched, SafeInv, IInv, TypeOK, disk
<1>3. CASE DownloadRecord(p)
  BY <1>1, <1>3 DEF DownloadRecord, OwnEffect, Untouched, SafeInv, IInv, TypeOK, vault
<1>4. CASE DownloadRead(p) \/ DownloadVerify(p) \/ DownloadArm(p)
  <2>1. UNCHANGED <<vault, disk>>
    BY <1>4 DEF DownloadRead, DownloadVerify, DownloadArm
  <2> QED
    BY <1>1, <2>1 DEF OwnEffect, Untouched, vault, disk
<1> QED
  BY <1>2, <1>3, <1>4 DEF Download

LEMMA DeleteEffect ==
  ASSUME SafeInv, NEW p \in Path, Delete(p)
  PROVE  OwnEffect(p) /\ \A q \in Path \ {p} : Untouched(q)
<1>1. CASE DeleteLocalTrash(p)
  BY <1>1 DEF DeleteLocalTrash, At, OwnEffect, LocalWrite, Untouched, SafeInv, IInv, TypeOK, disk
<1>2. CASE DeleteRemoteTrash(p)
  <2>1. Known(job[p]) /\ job[p].op = "delete-remote" /\ job[p].step = "armed"
    BY <1>2 DEF DeleteRemoteTrash, At
  <2>2. job[p].uuid = remoteScan[p]
    BY <2>1 DEF SafeInv, JobsKept, Kept, CheckKept
  <2>3. /\ remote'[p] = remote[p] \/ remote[p] = remoteScan[p]
        /\ \A q \in Path \ {p} : remote'[q] = remote[q]
        /\ UNCHANGED <<local, disk>>
    BY <1>2, <2>2 DEF DeleteRemoteTrash, SafeInv, IInv, TypeOK
  <2> QED
    BY <2>1, <2>3 DEF OwnEffect, Untouched, disk
<1>3. CASE ForgetDeleted(p)
  BY <1>3 DEF ForgetDeleted, At, OwnEffect, LocalWrite, Untouched, SafeInv, IInv, TypeOK, vault
<1>4. CASE DeleteLocalProbe(p) \/ DeleteLocalCheck(p) \/ DeleteRemoteProbe(p)
  <2>1. UNCHANGED <<vault, disk>> /\ Known(job[p]) /\ job[p].op \in {"delete-local", "delete-remote"}
    BY <1>4 DEF DeleteLocalProbe, DeleteLocalCheck, DeleteRemoteProbe, At
  <2> QED
    BY <2>1 DEF OwnEffect, LocalWrite, Untouched, vault, disk
<1> QED
  BY <1>1, <1>2, <1>3, <1>4 DEF Delete

(* A conflict's step that only looks. *)
LEMMA LookEffect ==
  ASSUME SafeInv, NEW p \in Path, NEW s, Reviewing(p, s), UNCHANGED <<vault, disk>>
  PROVE  OwnEffect(p) /\ \A q \in Path \ {p} : Untouched(q)
<1>1. Known(job[p]) /\ job[p].op = "conflict"
  BY Established
<1> QED
  BY <1>1 DEF OwnEffect, TowardsResult, CapturedLive, Untouched, vault, disk

LEMMA CaptureEffect ==
  ASSUME SafeInv, NEW p \in Path, CaptureRecord(p)
  PROVE  OwnEffect(p) /\ \A q \in Path \ {p} : Untouched(q)
<1>1. Reviewing(p, "checked") /\ UNCHANGED <<vault, base>>
  BY DEF CaptureRecord
<1>2. /\ Known(job[p]) /\ job[p].op = "conflict" /\ job[p].step = "checked"
      /\ job[p].bytes \in Content \cup {None} /\ job[p].uuid \in Uuid \cup {None}
      /\ ~job[p].raced => Live(p) = job[p].bytes
  BY <1>1, Established DEF ResultKept
<1>3. PICK c : c = Snapshot(job[p].bytes, job[p].uuid)
  OBVIOUS
<1>4. Known(c) /\ c.local = job[p].bytes
  <2>1. c \in Captured
    BY <1>2, <1>3, Zenon DEF Snapshot, Captured
  <2> QED
    BY <1>3, <2>1, NoneAssumption DEF Snapshot, Known
<1>5. conflict'[p] = c /\ \A q \in Path \ {p} : conflict'[q] = conflict[q]
  BY <1>3 DEF CaptureRecord, SafeInv, IInv, TypeOK
<1> QED
  BY <1>1, <1>2, <1>4, <1>5 DEF OwnEffect, TowardsResult, CapturedLive, Untouched, vault

LEMMA ReviewEffect ==
  ASSUME SafeInv, NEW p \in Path, Review(p)
  PROVE  OwnEffect(p) /\ \A q \in Path \ {p} : Untouched(q)
<1>1. CASE AcceptVerify(p)
  <2>1. UNCHANGED <<vault, disk>> /\ Known(job[p]) /\ job[p].op = "accept"
    BY <1>1 DEF AcceptVerify, At
  <2> QED
    BY <2>1 DEF OwnEffect, Untouched, vault, disk
<1>2. CASE AcceptRecord(p)
  <2>1. Known(job[p]) /\ job[p].op = "accept" /\ UNCHANGED <<vault, conflict>>
    BY <1>2 DEF AcceptRecord, At
  <2>2. \A q \in Path \ {p} : base'[q] = base[q]
    BY <1>2 DEF AcceptRecord, SafeInv, IInv, TypeOK
  <2> QED
    BY <2>1, <2>2 DEF OwnEffect, Untouched, vault
<1>3. CASE CaptureRead(p)
  <2>1. PICK s \in {"start", "recapture"} : Reviewing(p, s)
    BY <1>3 DEF CaptureRead
  <2> QED
    BY <1>3, <2>1, LookEffect DEF CaptureRead
<1>4. CASE CaptureCheck(p)
  BY <1>4, LookEffect DEF CaptureCheck
<1> QED
  BY <1>1, <1>2, <1>3, <1>4, CaptureEffect DEF Review

LEMMA ApproveEffect ==
  ASSUME SafeInv, NEW p \in Path, Approve(p)
  PROVE  OwnEffect(p) /\ \A q \in Path \ {p} : Untouched(q)
<1>1. /\ Reviewing(p, "approve") /\ UNCHANGED <<vault, base>>
      /\ Known(job[p]) /\ job[p].op = "conflict" /\ conflict[p] \in Captured
      /\ job[p].bytes \in Content \cup {None}
  BY Established DEF Approve, Resolving
<1>2. PICK c : /\ conflict' = [conflict EXCEPT ![p] = c]
               /\ c = [conflict[p] EXCEPT !.approved = TRUE, !.result = job[p].bytes]
  BY DEF Approve, SafeInv, IInv, TypeOK
<1>3. c \in Captured /\ c.approved
  <2>1. ASSUME NEW x \in Captured, NEW r \in Content \cup {None}
        PROVE  /\ [x EXCEPT !.approved = TRUE, !.result = r] \in Captured
               /\ [x EXCEPT !.approved = TRUE, !.result = r].approved
    BY <2>1, Zenon DEF Captured
  <2> QED
    BY <1>1, <1>2, <2>1
<1>4. Known(c)
  BY <1>3, NoneAssumption DEF Known
<1>5. conflict'[p] = c /\ \A q \in Path \ {p} : conflict'[q] = conflict[q]
  BY <1>2 DEF SafeInv, IInv, TypeOK
<1> QED
  BY <1>1, <1>3, <1>4, <1>5 DEF OwnEffect, TowardsResult, CapturedLive, Untouched, vault

(* The drive gets the result over what was reviewed. *)
LEMMA SendEffect ==
  ASSUME SafeInv, NEW p \in Path, SendResult(p) \/ TrashRemote(p)
  PROVE  OwnEffect(p) /\ \A q \in Path \ {p} : Untouched(q)
<1>1. Reviewing(p, "armed") /\ UNCHANGED <<local, disk>>
  BY DEF SendResult, TrashRemote
<1>2. /\ Known(job[p]) /\ job[p].op = "conflict" /\ Known(conflict[p]) /\ conflict[p].approved
      /\ conflict[p] \in Captured /\ job[p].uuid = conflict[p].remote
      /\ ~job[p].raced /\ Known(conflict[p].result) => remote[p] = job[p].uuid
  BY <1>1, Established DEF ResultKept, Carried, Resolving
<1>3. CASE SendResult(p)
  <2> DEFINE o == [content |-> conflict[p].result, mtime |-> Now, digest |-> TRUE]
  <2>1. o \in Object /\ o.content = conflict[p].result /\ Known(conflict[p].result)
    BY <1>2, <1>3, NowAssumption DEF SendResult, Captured, Object, Known
  <2>2. Uploaded(p, o)
    BY <1>3 DEF SendResult
  <2> HIDE DEF o
  <2>3. NewUuid \in Uuid /\ object'[NewUuid] = o /\ remote' = [remote EXCEPT ![p] = NewUuid]
    BY <2>1, <2>2, UploadedFacts DEF Uploaded, SafeInv
  <2>4. Known(NewUuid)
    BY <2>3, NoneAssumption DEF Known
  <2>5. remote'[p] = NewUuid /\ \A q \in Path \ {p} : remote'[q] = remote[q]
    BY <2>3 DEF SafeInv, IInv, TypeOK
  <2>6. RemoteHolds(p)' = conflict[p].result
    BY <2>1, <2>3, <2>4, <2>5 DEF RemoteHolds, There
  <2> QED
    BY <1>1, <1>2, <2>1, <2>4, <2>5, <2>6
    DEF OwnEffect, TowardsResult, CapturedLive, Approved, Untouched, disk
<1>4. CASE TrashRemote(p)
  <2>1. /\ ~Known(conflict[p].result)
        /\ remote'[p] = IF remote[p] = job[p].uuid THEN None ELSE remote[p]
        /\ \A q \in Path \ {p} : remote'[q] = remote[q]
    BY <1>4 DEF TrashRemote, SafeInv, IInv, TypeOK
  <2>2. remote'[p] # remote[p] => RemoteHolds(p)' = conflict[p].result
    BY <2>1 DEF RemoteHolds, There, Known
  <2> QED
    BY <1>1, <1>2, <2>1, <2>2
    DEF OwnEffect, TowardsResult, CapturedLive, RemovalIsKnown, Approved, Untouched, disk
<1> QED
  BY <1>3, <1>4

(* The vault gets it over what was reviewed, then the history. *)
LEMMA WriteEffect ==
  ASSUME SafeInv, NEW p \in Path, WriteResult(p)
  PROVE  OwnEffect(p) /\ \A q \in Path \ {p} : Untouched(q)
<1>1. Reviewing(p, "local") /\ UNCHANGED <<remote, object, disk>>
  BY DEF WriteResult
<1>2. /\ Known(job[p]) /\ job[p].op = "conflict" /\ Known(conflict[p]) /\ conflict[p].approved
      /\ conflict[p] \in Captured
      /\ ~job[p].raced => Live(p) = conflict[p].local
  BY <1>1, Established DEF ResultKept, Carried, Resolving
<1>3. \A q \in Path \ {p} : local'[q] = local[q]
  BY DEF WriteResult, SafeInv, IInv, TypeOK
<1>4. Live(p)' = conflict[p].result
  <2> DEFINE f == [content |-> conflict[p].result, mtime |-> Now]
  <2>1. local'[p] = IF Known(conflict[p].result) THEN f ELSE None
    BY DEF WriteResult, SafeInv, IInv, TypeOK
  <2>2. Known(conflict[p].result) => f \in LocalFile /\ f.content = conflict[p].result
    BY <1>2, NowAssumption DEF Captured, LocalFile, Known
  <2> HIDE DEF f
  <2> QED
    BY <2>1, <2>2, NoneAssumption DEF Live, Known
<1> QED
  BY <1>1, <1>2, <1>3, <1>4
  DEF OwnEffect, TowardsResult, CapturedLive, Approved, Untouched, disk

LEMMA RecordEffect ==
  ASSUME SafeInv, NEW p \in Path, RecordResult(p)
  PROVE  OwnEffect(p) /\ \A q \in Path \ {p} : Untouched(q)
<1>1. Reviewing(p, "written") /\ UNCHANGED <<vault, conflict>>
  BY DEF RecordResult
<1>2. /\ Known(job[p]) /\ job[p].op = "conflict" /\ Known(conflict[p]) /\ conflict[p].approved
  BY <1>1, Established DEF ResultKept, Carried, Resolving
<1>3. /\ base'[p] # base[p] => HistoryHolds(p)' = conflict[p].result
      /\ \A q \in Path \ {p} : base'[q] = base[q]
  <2>1. PICK found \in Lookup(p) :
          \/ UNCHANGED base
          \/ /\ BothHold(p, found)
             /\ base' = [base EXCEPT ![p] =
                  IF Known(conflict[p].result)
                  THEN [RecordOf(found, conflict[p].result) EXCEPT !.mtime = local[p].mtime]
                  ELSE None]
    BY DEF RecordResult
  <2>2. CASE UNCHANGED base
    BY <2>2
  <2>3. CASE /\ BothHold(p, found)
             /\ base' = [base EXCEPT ![p] =
                  IF Known(conflict[p].result)
                  THEN [RecordOf(found, conflict[p].result) EXCEPT !.mtime = local[p].mtime]
                  ELSE None]
    <3>1. HistoryHolds(p)' = conflict[p].result
      BY <1>1, <2>3, RecordedHistory
    <3>2. \A q \in Path \ {p} : base'[q] = base[q]
      BY <2>3 DEF SafeInv, IInv, TypeOK
    <3> QED
      BY <3>1, <3>2
  <2> QED
    BY <2>1, <2>2, <2>3
<1> QED
  BY <1>1, <1>2, <1>3
  DEF OwnEffect, TowardsResult, CapturedLive, Approved, Untouched, vault

(* The record goes once the vault and the history have the result. *)
LEMMA DropEffect ==
  ASSUME SafeInv, NEW p \in Path, DropConflict(p)
  PROVE  OwnEffect(p) /\ \A q \in Path \ {p} : Untouched(q)
<1>1. Reviewing(p, "recorded") /\ UNCHANGED <<vault, base>>
  BY DEF DropConflict
<1>2. /\ Known(job[p]) /\ job[p].op = "conflict" /\ Known(conflict[p]) /\ conflict[p].approved
      /\ HistoryHolds(p) = conflict[p].result
  BY <1>1, Established DEF ResultKept, Carried, Resolving
<1>3. /\ conflict'[p] = conflict[p] \/ (conflict'[p] = None /\ Live(p) = conflict[p].result)
      /\ \A q \in Path \ {p} : conflict'[q] = conflict[q]
  BY DEF DropConflict, BothHold, SafeInv, IInv, TypeOK
<1> QED
  BY <1>1, <1>2, <1>3
  DEF OwnEffect, TowardsResult, CapturedLive, Approved, Untouched, vault, Known

LEMMA ResolveEffect ==
  ASSUME SafeInv, NEW p \in Path, Resolve(p)
  PROVE  OwnEffect(p) /\ \A q \in Path \ {p} : Untouched(q)
<1>1. CASE \/ ResumeApproval(p) \/ ApplyRead(p) \/ RemoteGate(p) \/ BeforeCommit(p)
           \/ ReadBack(p) \/ ResultGate(p)
  BY <1>1, LookEffect DEF ResumeApproval, ApplyRead, RemoteGate, BeforeCommit, ReadBack, ResultGate
<1> QED
  BY <1>1, ApproveEffect, SendEffect, WriteEffect, RecordEffect, DropEffect DEF Resolve

(* Whatever the plugin does, one path at a time moves, by its planned job.  *)
LEMMA SyncStep ==
  ASSUME SafeInv, [Next]_vars, BySync, NEW p \in Path
  PROVE  Untouched(p) \/ OwnEffect(p)
<1>1. ASSUME UNCHANGED <<local, remote, base, conflict>> PROVE Untouched(p)
  BY <1>1 DEF Untouched
<1>2. CASE Engine
  <2>1. ASSUME NEW q \in Path, Execute(q) PROVE Untouched(p) \/ OwnEffect(p)
    BY <2>1, UploadEffect, DownloadEffect, DeleteEffect, ReviewEffect, ResolveEffect DEF Execute
  <2>2. CASE \/ \E verify \in BOOLEAN : AutomaticPass(verify)
             \/ ScanLocal \/ ScanRemote \/ Plan \/ DiscardScan \/ Refuse \/ EndPass
    BY <1>1, <2>2 DEF AutomaticPass, BeginPass, ScanLocal, ScanRemote, Plan, DiscardScan, Refuse,
                      EndPass, vault, disk
  <2> QED
    BY <1>2, <2>1, <2>2 DEF Engine
<1>3. CASE User
  BY <1>1, <1>3 DEF User, StartPass, BeginPass, Confirm, RefreshReview, StartReview, Session,
                    vault, disk
<1>4. CASE Faults
  BY <1>1, <1>4 DEF Faults, Crash, Decline, RequestFails, vault, disk
<1>5. CASE World
  <2>1. spent.edits \in Nat /\ spent.silent \in Nat
    BY BoundAssumption DEF SafeInv, IInv, TypeOK
  <2> QED
    BY <1>5, <2>1 DEF World, UserSets, SilentEdit, OtherDeviceUploads, OtherDeviceDeletes,
                      Edits, BySync, SafeInv, IInv, TypeOK
<1>6. ASSUME NEW q \in Path, ExpireHash(q) PROVE Untouched(p)
  BY <1>1, <1>6 DEF ExpireHash, vault, disk
<1>7. CASE UNCHANGED vars
  BY <1>1, <1>7 DEF vars
<1> QED
  BY <1>2, <1>3, <1>4, <1>5, <1>6, <1>7 DEF Next

-----------------------------------------------------------------------------
(* The plugin removes a remote file only when the history holds its content *)
(* (deleteRemote), or to carry out an approved deletion of the object that  *)
(* was reviewed (conflict-apply.ts), in every direction and whatever        *)
(* happens meanwhile.                                                       *)
THEOREM RemoteDeletionsAreKnown == Spec => RemoteDeletionIsKnown
<1>1. ASSUME SafeInv, [Next]_vars,
             NEW p \in Path, BySync, Known(remote[p]), ~Known(remote'[p])
      PROVE  RemovalIsKnown(p)
  <2>1. OwnEffect(p) /\ remote'[p] # remote[p]
    BY <1>1, SyncStep DEF Untouched
  <2>2. CASE job[p].op = "conflict"
    BY <1>1, <2>1, <2>2 DEF OwnEffect, LocalWrite
  <2>3. CASE job[p].op # "conflict"
    <3>1. job[p].op = "delete-remote" /\ remote[p] = remoteScan[p]
      BY <1>1, <2>1, <2>3 DEF OwnEffect, LocalWrite
    <3>2. PlanKept(p, job[p])
      BY <1>1, <2>1 DEF OwnEffect, SafeInv, JobsKept, Kept
    <3> QED
      BY <3>1, <3>2 DEF PlanKept, RemovalIsKnown
  <2> QED
    BY <2>2, <2>3
<1>2. Init => SafeInv
  BY InitSafe
<1>3. SafeInv /\ [Next]_vars => SafeInv'
  BY StepSafeInv
<1>4. SafeInv /\ [Next]_vars =>
        [\A p \in Path : BySync /\ Known(remote[p]) /\ ~Known(remote'[p]) => RemovalIsKnown(p)]_vars
  BY <1>1
<1> QED
  BY <1>2, <1>3, <1>4, PTL DEF Spec, RemoteDeletionIsKnown

(* While a conflict is recorded, passes and sessions move its sides and its *)
(* history only to an approved result, and only from what was reviewed,     *)
(* whichever of them carries it out and wherever an earlier one stopped.    *)
THEOREM OnlyApprovedMoves == Spec => ApprovedOnly
<1>1. ASSUME SafeInv, [Next]_vars, NEW p \in Path, BySync
      PROVE  (Known(conflict[p]) => TowardsResult(p)) /\ CapturedLive(p)
  <2>1. CASE Untouched(p)
    BY <2>1 DEF Untouched, TowardsResult, CapturedLive
  <2>2. CASE OwnEffect(p)
    <3>1. PlanKept(p, job[p]) /\ Known(job[p])
      BY <1>1, <2>2 DEF OwnEffect, SafeInv, JobsKept, Kept
    <3>2. Known(conflict[p]) => job[p].op = "conflict"
      BY <3>1 DEF PlanKept
    <3>3. CASE job[p].op = "conflict"
      BY <2>2, <3>3 DEF OwnEffect, LocalWrite
    <3>4. CASE job[p].op # "conflict"
      <4>1. conflict'[p] = conflict[p]
        BY <2>2, <3>4 DEF OwnEffect
      <4> QED
        BY <3>2, <3>4, <4>1 DEF CapturedLive
    <3> QED
      BY <3>3, <3>4
  <2> QED
    BY <1>1, <2>1, <2>2, SyncStep
<1>2. Init => SafeInv
  BY InitSafe
<1>3. SafeInv /\ [Next]_vars => SafeInv'
  BY StepSafeInv
<1>4. SafeInv /\ [Next]_vars =>
        [\A p \in Path : BySync => /\ Known(conflict[p]) => TowardsResult(p)
                                   /\ CapturedLive(p)]_vars
  BY <1>1
<1> QED
  BY <1>2, <1>3, <1>4, PTL DEF Spec, ApprovedOnly

(* A push writes nothing in the vault and a pull nothing on the drive, but  *)
(* the approved result of a conflict they meet, whatever the two sides hold *)
(* when the plan is carried out.                                            *)
THEOREM DirectionsAreRespected == Spec => DirectionRespected
<1>1. ASSUME SafeInv, [Next]_vars, BySync, NEW p \in Path
      PROVE  /\ pass.direction = "push" /\ local'[p] # local[p] => Approved(p)
             /\ pass.direction = "pull" /\ remote'[p] # remote[p] => Approved(p)
  <2>1. CASE Untouched(p)
    BY <2>1 DEF Untouched
  <2>2. CASE OwnEffect(p) /\ job[p].op = "conflict"
    BY <2>2 DEF OwnEffect, LocalWrite, TowardsResult
  <2>3. CASE OwnEffect(p) /\ job[p].op # "conflict"
    <3>1. PlanKept(p, job[p])
      BY <1>1, <2>3 DEF OwnEffect, SafeInv, JobsKept, Kept
    <3> QED
      BY <2>3, <3>1 DEF OwnEffect, PlanKept
  <2> QED
    BY <1>1, <2>1, <2>2, <2>3, SyncStep
<1>2. Init => SafeInv
  BY InitSafe
<1>3. SafeInv /\ [Next]_vars => SafeInv'
  BY StepSafeInv
<1>4. SafeInv /\ [Next]_vars =>
        [BySync => \A p \in Path :
           /\ pass.direction = "push" /\ local'[p] # local[p] => Approved(p)
           /\ pass.direction = "pull" /\ remote'[p] # remote[p] => Approved(p)]_vars
  BY <1>1
<1> QED
  BY <1>2, <1>3, <1>4, PTL DEF Spec, DirectionRespected
=============================================================================
