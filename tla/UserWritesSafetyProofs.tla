----------------------- MODULE UserWritesSafetyProofs -----------------------
(***************************************************************************)
(* What the plugin's own writes may do to the files of the two sides, from *)
(* the invariant of UserWritesProofs: which steps write, what they may     *)
(* replace, and how the conflict of a path goes on.                        *)
(***************************************************************************)
EXTENDS UserWritesProofs, MCUserWrites

-----------------------------------------------------------------------------
(* Which steps write.                                                       *)

WritesLocal(p)  == LocalWrite(p) \/ CleanTrash(p)
WritesRemote(p) == RemoveTrash(p) \/ ApplyCommit(p) \/ CleanRemove(p)

LEMMA WritersOfReviews ==
  ASSUME NEW p \in Originals, ReviewStep(p)
  PROVE  /\ UNCHANGED local \/ WritesLocal(p)
         /\ UNCHANGED remote \/ WritesRemote(p)
<1> USE DEF WritesLocal, WritesRemote, disks
<1>1. CASE CaptureRead(p) \/ Publish(p) \/ Collect(p)
  BY <1>1 DEF CaptureRead, Publish, Collect
<1>2. CASE ResumeCheck(p) \/ ApplyRead(p) \/ VerifyCopies(p) \/ Approve(p)
  BY <1>2 DEF ResumeCheck, ApplyRead, VerifyCopies, Approve
<1>3. CASE RemoteGate(p) \/ RemoveProbe(p) \/ RemoveTrash(p)
  BY <1>3 DEF RemoteGate, RemoveProbe, RemoveTrash
<1>4. CASE ApplyPrecheck(p) \/ ApplyPrecommit(p) \/ BeforeCommit(p) \/ ApplyCommit(p)
  BY <1>4 DEF ApplyPrecheck, ApplyPrecommit, BeforeCommit, ApplyCommit
<1>5. CASE ReadBack(p) \/ LocalGate(p) \/ LocalWrite(p) \/ Verify(p) \/ RecordResult(p)
  BY <1>5 DEF ReadBack, LocalGate, LocalWrite, Verify, RecordResult
<1>6. CASE CleanVerify(p) \/ CleanRemote(p) \/ CleanRemove(p) \/ CleanLocal(p)
  BY <1>6 DEF CleanVerify, CleanRemote, CleanRemove, CleanLocal
<1>7. CASE CleanTrash(p) \/ CleanForget(p) \/ CleanEnd(p) \/ Resolve(p)
  BY <1>7 DEF CleanTrash, CleanForget, CleanEnd, Resolve
<1> QED BY <1>1, <1>2, <1>3, <1>4, <1>5, <1>6, <1>7 DEF ReviewStep, ApplyStep

(* A step of the environment is counted, so an own step is none.            *)
LEMMA Writers ==
  ASSUME TypeOK, [Next]_vars, OwnStep
  PROVE  /\ UNCHANGED local \/ RestoreReplace \/ \E p \in Originals : WritesLocal(p)
         /\ \/ UNCHANGED remote \/ ForceCommit \/ RestoreSwap \/ UndeleteRevive
            \/ \E p \in Originals : WritesRemote(p)
<1> USE DEF disks
<1>1. ASSUME NEW p \in Originals, ReviewStep(p)
      PROVE  /\ UNCHANGED local \/ WritesLocal(p)
             /\ UNCHANGED remote \/ WritesRemote(p)
  BY <1>1, WritersOfReviews
<1>2. CASE ForceStep
  BY <1>2 DEF ForceStep, ForceLook, ForceRead, ForceStat, ForceCommit, ForceRecord
<1>3. CASE RestoreStep
  BY <1>3 DEF RestoreStep, RestoreRead, RestorePreserve, RestoreRecheck, RestoreBefore,
    RestoreAfter, RestoreReplace, RestoreLookup, RestoreSwap, UndeleteLook, UndeleteCheck, UndeleteRevive
<1>4. ASSUME NEW p \in Originals,
             StartConflict(p) \/ StartResume(p) \/ OpenReview(p)
             \/ StartForce(p) \/ StartRestore(p) \/ StartUndelete(p)
             \/ \E bytes \in Maybe(Content) : StartApply(p, bytes)
      PROVE  UNCHANGED <<local, remote>>
  BY <1>4 DEF StartConflict, StartResume, OpenReview, StartForce, StartRestore, StartUndelete, StartApply
<1>5. ASSUME NEW p \in Path, UserEdits(p) \/ OtherDevice(p)
      PROVE  FALSE
  <2>1. spent' = [spent EXCEPT !.edits = @ + 1] /\ spent' = spent
    BY <1>5 DEF UserEdits, OtherDevice, Edited, OwnStep
  <2>2. spent.edits \in Nat /\ spent'.edits = spent.edits + 1
    BY <2>1, BoundsAssumption DEF TypeOK
  <2>3. \A n \in Nat : n # n + 1
    OBVIOUS
  <2> QED BY <2>1, <2>2, <2>3
<1>6. ASSUME NEW p \in Path, NEW q \in Path, UserRenames(p, q)
      PROVE  FALSE
  <2>1. spent' = [spent EXCEPT !.renames = @ + 1] /\ spent' = spent
    BY <1>6 DEF UserRenames, OwnStep
  <2>2. spent.renames \in Nat /\ spent'.renames = spent.renames + 1
    BY <2>1, BoundsAssumption DEF TypeOK
  <2>3. \A n \in Nat : n # n + 1
    OBVIOUS
  <2> QED BY <2>1, <2>2, <2>3
<1>7. CASE Interrupt
  BY <1>7 DEF Interrupt
<1>8. CASE UNCHANGED vars
  BY <1>8 DEF vars
<1> QED BY <1>1, <1>2, <1>3, <1>4, <1>5, <1>6, <1>7, <1>8 DEF Next, Proceed

-----------------------------------------------------------------------------
(* What they may replace.                                                   *)

USE DEF IInv, OpIsSound, Exists, Known, StepsOfKind, Removing, Committing, Uploading,
  Targeting, Cleaning, Recorded, Finishing, Approved, ApplySteps, ForceSteps, Replacing, RestoreSteps,
  ReviveSteps, Rev, Kept

(* Of the vault: what was reviewed and is kept as a recovery copy.          *)
LEMMA LocalIsKept ==
  ASSUME IInv, OwnStep, [Next]_vars, NEW p \in Path, local'[p] # local[p], Known(local[p])
  PROVE  \/ "local" \in op.raced
         \/ local[p] \in recovery /\ (op.kind # "restore" => local[p] \in Shown(p))
<1> USE DEF Shown
<1>1. ASSUME NEW o \in Originals, LocalWrite(o)
      PROVE  \/ "local" \in op.raced
             \/ local[p] \in recovery /\ local[p] \in Shown(p)
  <2>1. /\ op.path = o /\ op.step = "write" /\ Known(review[o]) /\ o \in Path
    BY <1>1, WorkingFacts DEF LocalWrite
  <2>2. p = o
    BY <1>1, <2>1 DEF LocalWrite, TypeOK
  <2>3. "local" \in op.raced \/ local[p] \in {review[p].at.local, review[p].result}
    BY <2>1, <2>2 DEF LocalIsSound
  <2>4. RecordIsKept(p, review[p], recovery)
    BY <2>1, <2>2 DEF StoresAreSound, RecordsAreKept
  <2> QED BY <2>1, <2>2, <2>3, <2>4 DEF RecordIsKept
<1>2. ASSUME NEW o \in Originals, CleanTrash(o)
      PROVE  \/ "local" \in op.raced
             \/ local[p] \in recovery /\ local[p] \in Shown(p)
  <2>0. /\ op.path = o /\ op.step = "clean-trash" /\ Known(review[o]) /\ o \in Path
    BY <1>2, WorkingFacts DEF CleanTrash
  <2>1. /\ op.target \in Path /\ op.target # o /\ op.target \in DOMAIN review[o].copies
        /\ Known(review[o].copies) /\ op.path = o /\ op.step = "clean-trash"
    BY <2>0, TargetFacts DEF ApplyIsSound
  <2>2. p = op.target
    BY <1>2, <2>1 DEF CleanTrash, TypeOK
  <2>3. "local" \in op.raced \/ local[p] = review[o].copies[p].local
    BY <2>1, <2>2 DEF CleaningIsSound
  <2>4. RecordIsKept(o, review[o], recovery)
    BY <2>0 DEF StoresAreSound, RecordsAreKept
  <2> QED BY <2>1, <2>2, <2>3, <2>4 DEF RecordIsKept
<1>3. CASE RestoreReplace
  <2>1. op.kind = "restore" /\ op.step = "replace" /\ op.path \in Path
    BY <1>3, RestoringFacts DEF RestoreReplace
  <2>2. p = op.path
    BY <1>3, <2>1 DEF RestoreReplace, TypeOK
  <2> QED BY <2>1, <2>2 DEF RestoreIsSound
<1> QED BY <1>1, <1>2, <1>3, Writers DEF WritesLocal

(* Of the drive: what was reviewed, synced or agreed to.                    *)
LEMMA RemoteIsAgreed ==
  ASSUME IInv, OwnStep, [Next]_vars, NEW p \in Path, remote'[p] # remote[p], Known(remote[p])
  PROVE  \/ "remote" \in op.raced
         \/ op.kind = "restore"
         \/ op.kind = "force" /\ Consented(p)
         \/ op.kind \in {"apply", "resume"} /\ Reviewed(p) = remote[p]
<1> USE DEF Reviewed
<1>1. ASSUME NEW o \in Originals, RemoveTrash(o)
      PROVE  op.kind \in {"apply", "resume"} /\ Reviewed(p) = remote[p]
  <2>1. op.path = o /\ op.step = "trash" /\ o \in Path /\ op.kind \in {"apply", "resume"}
    BY <1>1, WorkingFacts DEF RemoveTrash
  <2>2. p = o /\ remote[p] = op.remote
    BY <1>1, <2>1 DEF RemoveTrash, Trashed, TypeOK
  <2> QED BY <2>1, <2>2 DEF RemoteIsSound
<1>2. ASSUME NEW o \in Originals, ApplyCommit(o)
      PROVE  \/ "remote" \in op.raced
             \/ op.kind \in {"apply", "resume"} /\ Reviewed(p) = remote[p]
  <2>1. op.path = o /\ op.step = "commit" /\ o \in Path /\ op.kind \in {"apply", "resume"}
    BY <1>2, WorkingFacts DEF ApplyCommit
  <2>2. p = o
    BY <1>2, <2>1 DEF ApplyCommit, Upload, TypeOK
  <2> QED BY <2>1, <2>2 DEF RemoteIsSound
<1>3. ASSUME NEW o \in Originals, CleanRemove(o)
      PROVE  op.kind \in {"apply", "resume"} /\ Reviewed(p) = remote[p]
  <2>1. /\ op.path = o /\ op.step = "clean-rm" /\ o \in Path /\ op.kind \in {"apply", "resume"}
        /\ op.target \in Path /\ op.target # o
    BY <1>3, WorkingFacts, TargetFacts DEF CleanRemove
  <2>2. p = op.target /\ remote[p] = op.remote
    BY <1>3, <2>1 DEF CleanRemove, Trashed, TypeOK
  <2> QED BY <2>1, <2>2 DEF CleaningIsSound
<1>4. CASE ForceCommit
  <2>1. op.kind = "force" /\ op.step = "upload" /\ op.target \in Path
    BY <1>4, ForcingFacts DEF ForceCommit, ForceIsSound
  <2>2. p = op.target
    BY <1>4, <2>1 DEF ForceCommit, Upload, TypeOK
  <2> QED BY <2>1, <2>2 DEF ForceIsSound, MayReplace, Consented
<1>5. CASE RestoreSwap
  BY <1>5, RestoringFacts DEF RestoreSwap
<1>6. CASE UndeleteRevive
  <2>1. op.step = "revive" /\ op.path \in Path
    BY <1>6, RestoringFacts DEF UndeleteRevive
  <2>2. p = op.path
    BY <1>6, <2>1 DEF UndeleteRevive, TypeOK
  <2> QED BY <2>1, <2>2 DEF RestoreIsSound
<1> QED BY <1>1, <1>2, <1>3, <1>4, <1>5, <1>6, Writers DEF WritesRemote

(* No content of the vault is lost by an application, a cleanup or a        *)
(* restored revision: it was on the screen, or put there after the last     *)
(* look, and a recovery copy of it exists (conflict-apply.ts:130-147,       *)
(* conflict-cleanup.ts:117-124, src/file-version-modal.ts).                 *)
THEOREM OriginalsStayKept == Spec => OriginalsAreKept
<1>1. IInv /\ [Next]_vars =>
        [\A p \in Path :
           OwnStep /\ local'[p] # local[p] /\ Known(local[p]) =>
             \/ "local" \in op.raced
             \/ local[p] \in recovery /\ (op.kind # "restore" => local[p] \in Shown(p))]_vars
  BY LocalIsKept
<1> QED BY <1>1, Invariance, PTL DEF Spec, OriginalsAreKept

(* No object of the drive is replaced or trashed but the reviewed one, or   *)
(* by a forced upload the synced or agreed one, or one that came after the  *)
(* last look (conflict-apply.ts:93-123, force-upload.ts:50-72).             *)
THEOREM RemoteWritesStayAgreed == Spec => RemoteWritesAreAgreed
<1>1. IInv /\ [Next]_vars =>
        [\A p \in Path :
           OwnStep /\ remote'[p] # remote[p] /\ Known(remote[p]) =>
             \/ "remote" \in op.raced
             \/ op.kind = "restore"
             \/ op.kind = "force" /\ Consented(p)
             \/ op.kind \in {"apply", "resume"} /\ Reviewed(p) = remote[p]]_vars
  BY RemoteIsAgreed
<1> QED BY <1>1, Invariance, PTL DEF Spec, RemoteWritesAreAgreed

-----------------------------------------------------------------------------
(* How the conflict of a path goes on: the steps that write its record or   *)
(* its history, and what each of them is in Resolution.                     *)

WritesRecord(p) ==
  \/ Publish(p) \/ Collect(p) \/ Approve(p) \/ ReadBack(p) \/ Verify(p)
  \/ RecordResult(p) \/ CleanForget(p) \/ Resolve(p)

LEMMA RecordWritersOfReviews ==
  ASSUME NEW p \in Originals, ReviewStep(p)
  PROVE  UNCHANGED <<base, review>> \/ WritesRecord(p)
<1> USE DEF WritesRecord, stores
<1>1. CASE CaptureRead(p) \/ ResumeCheck(p) \/ ApplyRead(p) \/ VerifyCopies(p)
  BY <1>1 DEF CaptureRead, ResumeCheck, ApplyRead, VerifyCopies
<1>2. CASE RemoteGate(p) \/ RemoveProbe(p) \/ RemoveTrash(p) \/ ApplyPrecheck(p)
  BY <1>2 DEF RemoteGate, RemoveProbe, RemoveTrash, ApplyPrecheck
<1>3. CASE ApplyPrecommit(p) \/ BeforeCommit(p) \/ ApplyCommit(p) \/ LocalGate(p) \/ LocalWrite(p)
  BY <1>3 DEF ApplyPrecommit, BeforeCommit, ApplyCommit, LocalGate, LocalWrite
<1>4. CASE CleanVerify(p) \/ CleanRemote(p) \/ CleanRemove(p) \/ CleanLocal(p)
           \/ CleanTrash(p) \/ CleanEnd(p)
  BY <1>4 DEF CleanVerify, CleanRemote, CleanRemove, CleanLocal, CleanTrash, CleanEnd
<1> QED BY <1>1, <1>2, <1>3, <1>4 DEF ReviewStep, ApplyStep

LEMMA RecordWriters ==
  ASSUME [Next]_vars
  PROVE  UNCHANGED <<base, review>> \/ ForceRecord \/ \E p \in Originals : WritesRecord(p)
<1> USE DEF stores
<1>1. ASSUME NEW p \in Originals, ReviewStep(p)
      PROVE  UNCHANGED <<base, review>> \/ WritesRecord(p)
  BY <1>1, RecordWritersOfReviews
<1>2. CASE ForceStep
  BY <1>2 DEF ForceStep, ForceLook, ForceRead, ForceStat, ForceCommit, ForceRecord
<1>3. CASE RestoreStep
  BY <1>3 DEF RestoreStep, RestoreRead, RestorePreserve, RestoreRecheck, RestoreBefore,
    RestoreAfter, RestoreReplace, RestoreLookup, RestoreSwap, UndeleteLook, UndeleteCheck, UndeleteRevive
<1>4. ASSUME NEW p \in Originals,
             StartConflict(p) \/ StartResume(p) \/ OpenReview(p)
             \/ StartForce(p) \/ StartRestore(p) \/ StartUndelete(p)
             \/ \E bytes \in Maybe(Content) : StartApply(p, bytes)
      PROVE  UNCHANGED <<base, review>>
  BY <1>4 DEF StartConflict, StartResume, OpenReview, StartForce, StartRestore, StartUndelete, StartApply
<1>5. ASSUME NEW p \in Path, UserEdits(p) \/ OtherDevice(p)
      PROVE  UNCHANGED <<base, review>>
  BY <1>5 DEF UserEdits, OtherDevice
<1>6. ASSUME NEW p \in Path, NEW q \in Path, UserRenames(p, q)
      PROVE  UNCHANGED <<base, review>>
  BY <1>6 DEF UserRenames
<1>7. CASE Interrupt
  BY <1>7 DEF Interrupt
<1>8. CASE UNCHANGED vars
  BY <1>8 DEF vars
<1> QED BY <1>1, <1>2, <1>3, <1>4, <1>5, <1>6, <1>7, <1>8 DEF Next, Proceed

(* A forced upload refuses a path in review, but the file it holds may be   *)
(* renamed onto one: what follows is about behaviours where it is not.      *)
RenameAvoidsReviews == \A p, q \in Path : UserRenames(p, q) => ~Known(review[q])

ForcesUnreviewed == op.kind = "force" => ~Known(review[op.path])

HIDE DEF IInv, OpIsSound, StepsOfKind, Targeting, Cleaning, Recorded, Finishing, Approved, ApplySteps,
  ForceSteps, Replacing, RestoreSteps, ReviveSteps, Rev
USE DEF Exists, Known, Kept, ForcesUnreviewed

(* No step on a conflict is one of a forced upload, nor begins one.         *)
LEMMA ReviewsStartNoForce ==
  ASSUME IInv, NEW p \in Originals, ReviewStep(p)
  PROVE  op.kind # "force" /\ op'.kind # "force"
<1>0. op \in Op
  BY DEF IInv, TypeOK
<1>1. op.kind # "force"
  <2>1. ApplyStep(p) => op.kind \in {"apply", "resume"}
    BY DEF ApplyStep, Working, At, ResumeCheck, ApplyRead, VerifyCopies, Approve, RemoteGate,
      RemoveProbe, RemoveTrash, ApplyPrecheck, ApplyPrecommit, BeforeCommit, ApplyCommit, ReadBack,
      LocalGate, LocalWrite, Verify, RecordResult, CleanVerify, CleanRemote, CleanRemove,
      CleanLocal, CleanTrash, CleanForget, CleanEnd, Resolve
  <2>2. CaptureRead(p) \/ Publish(p) => op.step \in CaptureSteps
    BY DEF CaptureRead, Publish, CaptureSteps
  <2>3. op.step \in CaptureSteps => op.kind # "force"
    BY DEF IInv, OpIsSound, StepsOfKind, CaptureSteps, ForceSteps
  <2>4. Collect(p) => op.kind = "review"
    BY DEF Collect, At
  <2> QED BY <2>1, <2>2, <2>3, <2>4 DEF ReviewStep
<1>2. \A s : Goto(s) => op'.kind = op.kind
  BY <1>0 DEF Goto, Op
<1>3. \A s, l, u : Saw(s, l, u) => op'.kind = op.kind
  BY <1>0 DEF Saw, Op
<1>4. Leave => op'.kind = "none"
  BY DEF Leave, NoOp
<1>5. ReviewRequired => op'.kind \in {op.kind, "none"}
  BY <1>2, <1>4 DEF ReviewRequired
<1>6. \A l, u : AfterCapture(l, u) => op'.kind \in {op.kind, "apply", "none"}
  BY <1>0, <1>2, <1>4 DEF AfterCapture, Op
<1>7. CASE CaptureRead(p)
  BY <1>1, <1>2, <1>3, <1>4, <1>5, <1>6, <1>7 DEF CaptureRead
<1>8. CASE Publish(p)
  BY <1>1, <1>2, <1>3, <1>4, <1>5, <1>6, <1>8 DEF Publish
<1>9. CASE Collect(p)
  BY <1>1, <1>2, <1>3, <1>4, <1>5, <1>6, <1>9 DEF Collect
<1>10. CASE ResumeCheck(p)
  BY <1>0, <1>1, <1>2, <1>3, <1>4, <1>5, <1>6, <1>10 DEF ResumeCheck, Op
<1>11. CASE ApplyRead(p)
  BY <1>1, <1>2, <1>3, <1>4, <1>5, <1>6, <1>11 DEF ApplyRead
<1>12. CASE VerifyCopies(p)
  BY <1>1, <1>2, <1>3, <1>4, <1>5, <1>6, <1>12 DEF VerifyCopies
<1>13. CASE Approve(p)
  BY <1>1, <1>2, <1>3, <1>4, <1>5, <1>6, <1>13 DEF Approve
<1>14. CASE RemoteGate(p)
  BY <1>1, <1>2, <1>3, <1>4, <1>5, <1>6, <1>14 DEF RemoteGate
<1>15. CASE RemoveProbe(p)
  BY <1>1, <1>2, <1>3, <1>4, <1>5, <1>6, <1>15 DEF RemoveProbe
<1>16. CASE RemoveTrash(p)
  BY <1>1, <1>2, <1>3, <1>4, <1>5, <1>6, <1>16 DEF RemoveTrash
<1>17. CASE ApplyPrecheck(p)
  BY <1>0, <1>1, <1>2, <1>3, <1>4, <1>5, <1>6, <1>17 DEF ApplyPrecheck, Op
<1>18. CASE ApplyPrecommit(p)
  BY <1>1, <1>2, <1>3, <1>4, <1>5, <1>6, <1>18 DEF ApplyPrecommit
<1>19. CASE BeforeCommit(p)
  BY <1>1, <1>2, <1>3, <1>4, <1>5, <1>6, <1>19 DEF BeforeCommit
<1>20. CASE ApplyCommit(p)
  BY <1>1, <1>2, <1>3, <1>4, <1>5, <1>6, <1>20 DEF ApplyCommit
<1>21. CASE ReadBack(p)
  BY <1>1, <1>2, <1>3, <1>4, <1>5, <1>6, <1>21 DEF ReadBack
<1>22. CASE LocalGate(p)
  BY <1>1, <1>2, <1>3, <1>4, <1>5, <1>6, <1>22 DEF LocalGate
<1>23. CASE LocalWrite(p)
  BY <1>1, <1>2, <1>3, <1>4, <1>5, <1>6, <1>23 DEF LocalWrite
<1>24. CASE Verify(p)
  BY <1>1, <1>2, <1>3, <1>4, <1>5, <1>6, <1>24 DEF Verify
<1>25. CASE RecordResult(p)
  BY <1>1, <1>2, <1>3, <1>4, <1>5, <1>6, <1>25 DEF RecordResult
<1>26. CASE CleanVerify(p)
  BY <1>0, <1>1, <1>2, <1>3, <1>4, <1>5, <1>6, <1>26 DEF CleanVerify, Op
<1>27. CASE CleanRemote(p)
  BY <1>0, <1>1, <1>2, <1>3, <1>4, <1>5, <1>6, <1>27 DEF CleanRemote, Op
<1>28. CASE CleanRemove(p)
  BY <1>1, <1>2, <1>3, <1>4, <1>5, <1>6, <1>28 DEF CleanRemove
<1>29. CASE CleanLocal(p)
  BY <1>0, <1>1, <1>2, <1>3, <1>4, <1>5, <1>6, <1>29 DEF CleanLocal, Op
<1>30. CASE CleanTrash(p)
  BY <1>1, <1>2, <1>3, <1>4, <1>5, <1>6, <1>30 DEF CleanTrash
<1>31. CASE CleanForget(p)
  BY <1>0, <1>1, <1>2, <1>3, <1>4, <1>5, <1>6, <1>31 DEF CleanForget, Op
<1>32. CASE CleanEnd(p)
  BY <1>1, <1>2, <1>3, <1>4, <1>5, <1>6, <1>32 DEF CleanEnd
<1>33. CASE Resolve(p)
  BY <1>1, <1>2, <1>3, <1>4, <1>5, <1>6, <1>33 DEF Resolve
<1> QED
  BY <1>1, <1>7, <1>8, <1>9, <1>10, <1>11, <1>12, <1>13, <1>14, <1>15, <1>16, <1>17, <1>18, <1>19, <1>20,
    <1>21, <1>22, <1>23, <1>24, <1>25, <1>26, <1>27, <1>28, <1>29, <1>30, <1>31, <1>32, <1>33
  DEF ReviewStep, ApplyStep

LEMMA ForceStaysUnreviewed ==
  ASSUME IInv, ForcesUnreviewed, [Next]_vars, [RenameAvoidsReviews]_vars
  PROVE  ForcesUnreviewed'
<1>0. op \in Op
  BY DEF IInv, TypeOK
<1>1. ASSUME NEW p \in Originals, ReviewStep(p)
      PROVE  ForcesUnreviewed'
  BY <1>1, ReviewsStartNoForce
<1>2. CASE ForceStep
  <2>1. review' = review
    BY <1>2 DEF ForceStep, ForceLook, ForceRead, ForceStat, ForceCommit, ForceRecord, stores
  <2>2. op' = NoOp \/ (op'.kind = op.kind /\ op'.path = op.path)
    BY <1>0, <1>2 DEF ForceStep, ForceLook, ForceRead, ForceStat, ForceCommit, ForceRecord, Leave, Op
  <2> QED BY <2>1, <2>2 DEF NoOp
<1>3. CASE RestoreStep
  <2>1. op.kind \in {"restore", "undelete"}
    BY <1>3 DEF RestoreStep, Restoring, At, RestoreRead, RestorePreserve, RestoreRecheck, RestoreBefore,
      RestoreAfter, RestoreReplace, RestoreLookup, RestoreSwap, UndeleteLook, UndeleteCheck, UndeleteRevive
  <2>2. op' = NoOp \/ op'.kind = op.kind
    BY <1>0, <1>3 DEF RestoreStep, Goto, Saw, Leave, Op, RestoreRead, RestorePreserve, RestoreRecheck,
      RestoreBefore, RestoreAfter, RestoreReplace, RestoreLookup, RestoreSwap, UndeleteLook,
      UndeleteCheck, UndeleteRevive
  <2> QED BY <2>1, <2>2 DEF NoOp
<1>4. ASSUME NEW p \in Originals,
             StartConflict(p) \/ StartResume(p) \/ OpenReview(p)
             \/ StartRestore(p) \/ StartUndelete(p)
             \/ \E bytes \in Maybe(Content) : StartApply(p, bytes)
      PROVE  ForcesUnreviewed'
  <2>1. review' = review
    BY <1>4 DEF StartConflict, StartResume, OpenReview, StartRestore, StartUndelete, StartApply, stores
  <2>2. op' = op \/ op'.kind # "force"
    <3>1. CASE StartConflict(p)
      <4>1. PICK kind \in {"conflict", "auto"} :
              op' = [NoOp EXCEPT !.kind = kind, !.path = p, !.step = "capture",
                                 !.local = local[p], !.remote = remote[p]]
        BY <3>1 DEF StartConflict
      <4>2. op'.kind = kind
        BY <4>1 DEF NoOp
      <4> QED BY <4>2
    <3>2. CASE StartResume(p)
      BY <3>2 DEF StartResume, NoOp
    <3>3. CASE OpenReview(p)
      <4>1. op' = op \/ op' = [NoOp EXCEPT !.kind = "review", !.path = p, !.step = "capture"]
        BY <3>3 DEF OpenReview
      <4> QED BY <4>1 DEF NoOp
    <3>4. CASE StartRestore(p) \/ StartUndelete(p)
      BY <3>4 DEF StartRestore, StartUndelete, NoOp
    <3>5. CASE \E bytes \in Maybe(Content) : StartApply(p, bytes)
      BY <3>5 DEF StartApply, NoOp
    <3> QED BY <1>4, <3>1, <3>2, <3>3, <3>4, <3>5
  <2> QED BY <2>1, <2>2
<1>5. ASSUME NEW p \in Originals, StartForce(p)
      PROVE  ForcesUnreviewed'
  <2>1. op' = [NoOp EXCEPT !.kind = "force", !.path = p, !.step = "look"]
    BY <1>5 DEF StartForce
  <2>2. op'.path = p
    BY <2>1 DEF NoOp
  <2> QED BY <1>5, <2>2 DEF StartForce, stores
<1>6. ASSUME NEW p \in Path, UserEdits(p) \/ OtherDevice(p)
      PROVE  ForcesUnreviewed'
  <2>1. review' = review /\ (op' = op \/ Race(p, "local") \/ Race(p, "remote"))
    BY <1>6 DEF UserEdits, OtherDevice, stores
  <2>2. op'.kind = op.kind /\ op'.path = op.path
    BY <1>0, <2>1, RaceFields
  <2> QED BY <2>1, <2>2
<1>7. ASSUME NEW p \in Path, NEW q \in Path, UserRenames(p, q)
      PROVE  ForcesUnreviewed'
  <2>1. review' = review /\ op' = [op EXCEPT !.path = q] /\ spent' = [spent EXCEPT !.renames = @ + 1]
    BY <1>7 DEF UserRenames, stores
  <2>2. op'.path = q
    BY <1>0, <2>1 DEF Op
  <2>3. spent' # spent
    <3>1. spent.renames \in Nat /\ spent'.renames = spent.renames + 1
      BY <2>1, BoundsAssumption DEF IInv, TypeOK
    <3>2. \A n \in Nat : n # n + 1
      OBVIOUS
    <3> QED BY <3>1, <3>2
  <2>4. RenameAvoidsReviews
    BY <2>3 DEF vars
  <2> QED BY <1>7, <2>1, <2>2, <2>4 DEF RenameAvoidsReviews
<1>8. CASE Interrupt
  BY <1>8 DEF Interrupt, Leave, NoOp
<1>9. CASE UNCHANGED vars
  BY <1>9 DEF vars
<1> QED BY <1>1, <1>2, <1>3, <1>4, <1>5, <1>6, <1>7, <1>8, <1>9 DEF Next, Proceed

(* Resolution looks at nothing but the record and the history of the path.  *)
LEMMA Stays ==
  ASSUME review'[note] = review[note], base'[note] = base[note]
  PROVE  UNCHANGED Resolving!resolution
BY DEF Resolving!resolution, StateOf, ApprovedOf, HistoryOf

LEMMA RefinesInit ==
  ASSUME Init, note \in Originals
  PROVE  Resolving!ResolutionInit
<1>1. note \in Path /\ review[note] = None /\ base[note] \in Maybe(Record)
  BY OriginalsArePaths, InitIsSound DEF Init, TypeOK
<1> QED BY <1>1 DEF Resolving!ResolutionInit, StateOf, ApprovedOf, HistoryOf, Maybe, Record

LEMMA ReviewedResult ==
  ASSUME IInv, note \in Originals
  PROVE  /\ note \in Path
         /\ Known(review[note]) => /\ review[note].approved \in BOOLEAN
                                   /\ review[note].result \in Maybe(Content)
                                   /\ ~review[note].approved => review[note].result = None
<1>1. note \in Path
  BY OriginalsArePaths
<1>2. Known(review[note]) => RecordIsKept(note, review[note], recovery)
  BY <1>1 DEF IInv, StoresAreSound, RecordsAreKept
<1> QED BY <1>1, <1>2, RevType DEF IInv, RecordIsKept

LEMMA PublishedRecord ==
  ASSUME IInv, NEW p \in Originals, Publish(p), review' # review
  PROVE  /\ Known(review'[p]) /\ review'[p].approved = FALSE /\ review'[p].result = None
         /\ \A q \in Path : q # p => review'[q] = review[q]
<1> DEFINE r == [at |-> [local |-> op.local, remote |-> op.remote],
                 copies |-> IF Known(review[p]) THEN review[p].copies ELSE None,
                 approved |-> FALSE, result |-> None,
                 remoteApplied |-> FALSE, localApplied |-> FALSE]
<1>1. op.remote \in Maybe(Id) /\ op.local \in Maybe(Content) /\ p \in Path
  BY CapturingFacts DEF Publish, CaptureSteps
<1>2. Known(review[p]) => review[p] \in Review
  BY <1>1, RevType DEF IInv
<1>3. r \in Review
  BY <1>1, <1>2 DEF Review, Snapshot, Maybe
<1>4. review' = [review EXCEPT ![p] = r]
  BY DEF Publish
<1>5. review'[p] = r /\ \A q \in Path : q # p => review'[q] = review[q]
  BY <1>1, <1>4 DEF IInv, TypeOK
<1>6. r.approved = FALSE /\ r.result = None
  OBVIOUS
<1> HIDE DEF r
<1> QED BY <1>3, <1>5, <1>6, UnknownAssumption

(* Each step that writes the record or the history of the path is a step of *)
(* Resolution, or leaves what Resolution looks at as it is.                 *)
LEMMA RefinesRecords ==
  ASSUME IInv, note \in Originals, WritesRecord(note)
  PROVE  [Resolving!ResolutionNext]_(Resolving!resolution)
<1>0. /\ note \in Path
      /\ Known(review[note]) => /\ review[note].approved \in BOOLEAN
                                /\ review[note].result \in Maybe(Content)
                                /\ ~review[note].approved => review[note].result = None
  BY ReviewedResult
<1> USE DEF StateOf, ApprovedOf, HistoryOf
<1>1. CASE Publish(note)
  <2>1. base' = base
    BY <1>1 DEF Publish
  <2>2. CASE review' = review
    BY <2>1, <2>2, Stays
  <2>3. CASE review' # review
    <3>1. Known(review'[note]) /\ review'[note].approved = FALSE /\ review'[note].result = None
      BY <1>1, <2>3, PublishedRecord
    <3>2. CASE ~Known(review[note])
      <4>1. Resolving!Open
        BY <2>1, <3>1, <3>2 DEF Resolving!Open
      <4> QED BY <4>1 DEF Resolving!ResolutionNext
    <3>3. CASE Known(review[note]) /\ ~review[note].approved
      BY <1>0, <2>1, <3>1, <3>3 DEF Resolving!resolution
    <3>4. CASE Known(review[note]) /\ review[note].approved
      <4>1. Resolving!Reopen
        BY <2>1, <3>1, <3>4 DEF Resolving!Reopen
      <4> QED BY <4>1 DEF Resolving!ResolutionNext
    <3> QED BY <3>2, <3>3, <3>4
  <2> QED BY <2>2, <2>3
<1>2. CASE Collect(note)
  <2>1. Known(review[note]) /\ base' = base
    <3>1. op.step = "collect" /\ op.path = note
      BY <1>2 DEF Collect, At
    <3> QED BY <1>2, <3>1 DEF Collect, IInv, OpIsSound, ApplyIsSound, Rev
  <2>2. /\ Known(review'[note]) /\ review'[note].approved = review[note].approved
        /\ review'[note].result = review[note].result
    BY <1>0, <1>2, <2>1, CollectionIsSound DEF IInv
  <2> QED BY <2>1, <2>2 DEF Resolving!resolution
<1>3. CASE Approve(note)
  <2>1. /\ Known(review[note]) /\ op.bytes \in Maybe(Content) /\ op.step = "approve" /\ op.path = note
    BY <1>3, WorkingFacts DEF Approve, ApplySteps, Unapproved
  <2>2. ~review[note].approved
    BY <2>1 DEF IInv, OpIsSound, ApplyIsSound, Unapproved, Rev
  <2>3. Known(review'[note]) /\ review'[note].approved = TRUE /\ review'[note].result = op.bytes
    BY <1>0, <1>3, <2>1, ApprovalIsSound DEF IInv, Approve
  <2>4. Resolving!Approval(op.bytes)
    BY <1>3, <2>1, <2>2, <2>3 DEF Resolving!Approval, Approve
  <2> QED BY <2>1, <2>4 DEF Resolving!ResolutionNext, Maybe
<1>4. CASE ReadBack(note) \/ Verify(note)
  <2>1. Known(review[note]) /\ base' = base
    BY <1>4, WorkingFacts DEF ReadBack, Verify, ApplySteps, Approved, Finishing
  <2>2. CASE review' = review
    BY <2>1, <2>2, Stays
  <2>3. CASE review' # review
    <3>1. \/ review' = [review EXCEPT ![note].remoteApplied = TRUE]
          \/ review' = [review EXCEPT ![note].localApplied = TRUE]
      BY <1>4, <2>3 DEF ReadBack, Verify
    <3>2. UNCHANGED <<disks, base, recovery>>
      BY <1>4 DEF ReadBack, Verify
    <3>3. /\ Known(review'[note]) /\ review'[note].approved = review[note].approved
          /\ review'[note].result = review[note].result
      BY <1>0, <2>1, <3>1, <3>2, FlagIsSound DEF IInv
    <3> QED BY <2>1, <3>3 DEF Resolving!resolution
  <2> QED BY <2>2, <2>3
<1>5. CASE RecordResult(note)
  <2>1. /\ Known(review[note]) /\ op.step = "record" /\ op.path = note /\ review' = review
    BY <1>5, WorkingFacts DEF RecordResult, ApplySteps, Approved, Finishing
  <2>2. review[note].approved
    BY <2>1 DEF IInv, OpIsSound, ApplyIsSound, Approved, Finishing, Rev
  <2>3. op'.path = note /\ op'.step \in {"clean", "final"}
    BY <1>5, <2>1 DEF RecordResult, Goto, IInv, TypeOK, Op
  <2>4. HistoryOf(note)' = review[note].result
    <3>1. CleaningIsSound'
      BY <1>5, RecordResultSound DEF OpIsSound
    <3> QED BY <2>1, <2>3, <3>1 DEF CleaningIsSound, Recorded, Rev
  <2>5. Resolving!Recorded
    BY <2>1, <2>2, <2>4 DEF Resolving!Recorded
  <2> QED BY <2>5 DEF Resolving!ResolutionNext
<1>6. CASE CleanForget(note)
  <2>1. op.target # note /\ review' = review /\ base' = [base EXCEPT ![op.target] = None]
    BY <1>6, TargetFacts DEF CleanForget, Working, At, Targeting
  <2>2. base'[note] = base[note]
    BY <1>0, <2>1 DEF IInv, TypeOK
  <2> QED BY <2>1, <2>2, Stays
<1>7. CASE Resolve(note)
  <2>1. /\ Known(review[note]) /\ op.step = "final" /\ op.path = note /\ base' = base
    BY <1>7, WorkingFacts DEF Resolve, ApplySteps, Approved, Recorded
  <2>2. review[note].approved /\ HistoryOf(note) = review[note].result
    BY <2>1 DEF IInv, OpIsSound, ApplyIsSound, CleaningIsSound, Approved, Recorded, Rev
  <2>3. CASE review' = review
    BY <2>1, <2>3, Stays
  <2>4. CASE review' # review
    <3>1. review' = [review EXCEPT ![note] = None]
      BY <1>7, <2>4 DEF Resolve
    <3>2. review'[note] = None
      BY <1>0, <3>1 DEF IInv, TypeOK
    <3>3. Resolving!Resolved
      BY <2>1, <2>2, <3>2 DEF Resolving!Resolved
    <3> QED BY <3>3 DEF Resolving!ResolutionNext
  <2> QED BY <2>3, <2>4
<1> QED BY <1>1, <1>2, <1>3, <1>4, <1>5, <1>6, <1>7 DEF WritesRecord

(* What is recorded of another file is not this one's.                      *)
LEMMA OthersStay ==
  ASSUME IInv, note \in Originals, NEW p \in Originals, p # note, WritesRecord(p)
  PROVE  UNCHANGED Resolving!resolution
<1>0. note \in Path /\ p \in Path /\ DOMAIN review = Path /\ DOMAIN base = Path
  BY OriginalsArePaths DEF IInv, TypeOK
<1>1. CASE Publish(p) \/ Collect(p) \/ Approve(p)
  <2>1. base'[note] = base[note]
    BY <1>1 DEF Publish, Collect, Approve
  <2>2. review'[note] = review[note]
    BY <1>0, <1>1 DEF Publish, Collect, Approve
  <2> QED BY <2>1, <2>2, Stays
<1>2. CASE ReadBack(p) \/ Verify(p) \/ Resolve(p)
  <2>1. base'[note] = base[note]
    BY <1>2 DEF ReadBack, Verify, Resolve
  <2>2. review'[note] = review[note]
    BY <1>0, <1>2 DEF ReadBack, Verify, Resolve
  <2> QED BY <2>1, <2>2, Stays
<1>3. CASE RecordResult(p)
  BY <1>0, <1>3, Stays DEF RecordResult
<1>4. CASE CleanForget(p)
  <2>1. /\ op.path = p /\ op.step = "clean-forget" /\ review' = review
        /\ base' = [base EXCEPT ![op.target] = None]
    BY <1>4 DEF CleanForget, Working, At
  <2>2. op.target \in DOMAIN review[p].copies
    BY <2>1, TargetFacts DEF Targeting
  <2>3. Known(review[p]) /\ Known(review[p].copies)
    BY <2>1 DEF IInv, OpIsSound, ApplyIsSound, Rev, Cleaning, Targeting, ApplySteps, Approved, Recorded
  <2>4. DOMAIN review[p].copies \subseteq CopiesOf[p]
    BY <1>0, <2>3 DEF IInv, StoresAreSound, RecordsAreKept, RecordIsKept
  <2>5. op.target # note
    BY <1>0, <2>2, <2>4 DEF Originals
  <2>6. base'[note] = base[note]
    BY <1>0, <2>1, <2>5
  <2> QED BY <2>1, <2>6, Stays
<1> QED BY <1>1, <1>2, <1>3, <1>4 DEF WritesRecord

LEMMA RefinesNext ==
  ASSUME IInv, ForcesUnreviewed, note \in Originals, [Next]_vars
  PROVE  [Resolving!ResolutionNext]_(Resolving!resolution)
<1>0. note \in Path
  BY OriginalsArePaths
<1>1. CASE UNCHANGED <<base, review>>
  BY <1>1, Stays
<1>2. ASSUME NEW p \in Originals, WritesRecord(p)
      PROVE  [Resolving!ResolutionNext]_(Resolving!resolution)
  <2>1. CASE p = note
    BY <1>2, <2>1, RefinesRecords
  <2>2. CASE p # note
    BY <1>2, <2>2, OthersStay
  <2> QED BY <2>1, <2>2
<1>3. CASE ForceRecord
  <2>1. op.kind = "force" /\ op.path \in Path /\ op.step = "history"
    BY <1>3, ForcingFacts DEF ForceRecord, ForceSteps
  <2>2. op.bytes \in Content /\ op.remote \in Id
    <3>1. Known(op.remote) /\ op.bytes \in Content
      BY <2>1 DEF IInv, OpIsSound, ForceIsSound
    <3> QED BY <3>1 DEF IInv, TypeOK, Op, Maybe
  <2>3. review' = review /\ (base' = base \/
          base' = [base EXCEPT ![op.path] = [hash |-> op.bytes, uuid |-> op.remote]])
    BY <1>3 DEF ForceRecord
  <2>4. CASE base'[note] = base[note]
    BY <2>3, <2>4, Stays
  <2>5. CASE base'[note] # base[note]
    <3>1. op.path = note /\ base'[note] = [hash |-> op.bytes, uuid |-> op.remote]
      BY <1>0, <2>1, <2>3, <2>5 DEF IInv, TypeOK
    <3>2. base'[note] \in Record /\ base'[note].hash = op.bytes
      BY <2>2, <3>1 DEF Record
    <3>3. HistoryOf(note)' \in Content
      BY <2>2, <3>2, UnknownAssumption DEF HistoryOf
    <3>4. ~Known(review[note])
      BY <2>1, <3>1
    <3>5. Resolving!Synced
      BY <2>3, <3>3, <3>4 DEF Resolving!Synced, StateOf, ApprovedOf
    <3> QED BY <3>5 DEF Resolving!ResolutionNext
  <2> QED BY <2>4, <2>5
<1> QED BY <1>1, <1>2, <1>3, RecordWriters

(* A conflict ends only as Resolution says: by a result that was approved   *)
(* for it and that the history then names, and nothing else moves the       *)
(* history of a file in conflict (src/sync/conflict-apply.ts,               *)
(* conflict-review.ts), unless another file is renamed onto it while it is  *)
(* being uploaded by force (src/sync/force-upload.ts:77-90).                *)
THEOREM ResolutionIsImplemented ==
  ASSUME note \in Originals
  PROVE  Spec /\ [][RenameAvoidsReviews]_vars => ImplementsResolution
<1> HIDE DEF ForcesUnreviewed
<1>1. Init => Resolving!ResolutionInit
  BY RefinesInit
<1>2. Init => ForcesUnreviewed
  BY DEF Init, NoOp, ForcesUnreviewed
<1>3. IInv /\ ForcesUnreviewed /\ [Next]_vars /\ [RenameAvoidsReviews]_vars => ForcesUnreviewed'
  BY ForceStaysUnreviewed
<1>4. IInv /\ ForcesUnreviewed /\ [Next]_vars =>
        [Resolving!ResolutionNext]_(Resolving!resolution)
  BY RefinesNext
<1> QED
  BY <1>1, <1>2, <1>3, <1>4, Invariance, PTL DEF Spec, ImplementsResolution, Resolving!ResolutionSpec
=============================================================================
