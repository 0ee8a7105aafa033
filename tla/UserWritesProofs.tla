-------------------------- MODULE UserWritesProofs --------------------------
(***************************************************************************)
(* Proofs about the files that the user has written one at a time, for any *)
(* files, contents, identities and bounds: the history stays honest, what  *)
(* is replaced or trashed was shown or agreed to, and the conflict of a    *)
(* file goes on as the module Resolution says.                             *)
(***************************************************************************)
EXTENDS UserWrites, TLAPS

-----------------------------------------------------------------------------
(* The inductive invariant *)

(* The steps of each kind of operation. *)
CaptureSteps == {"capture", "publish"}
Unapproved   == {"copies", "approve"}
Removing     == {"rm", "trash"}
Committing   == {"precommit", "approved-local", "commit"}
Uploading    == Committing \cup {"precheck"}
Finishing    == {"read-back", "local", "write", "verify", "record"}
Targeting    == {"clean-rm", "clean-local", "clean-trash", "clean-forget"}
Cleaning     == Targeting \cup {"clean-remote"}
Recorded     == Cleaning \cup {"clean", "final"}
Approved     == {"remote"} \cup Removing \cup Uploading \cup Finishing \cup Recorded
ApplySteps   == {"resume", "begin"} \cup Unapproved \cup Approved
ForceSteps   == {"look", "read", "stat", "upload", "history"}
Replacing    == {"before", "after", "replace", "version", "swap"}
RestoreSteps == {"current", "preserve", "preserved"} \cup Replacing
ReviveSteps  == {"vacant", "unoccupied", "revive"}

StepsOfKind ==
  /\ op.kind = "none"                  => op.step = "idle"
  /\ op.kind = "review"                => op.step \in CaptureSteps \cup {"collect"}
  /\ op.kind \in {"conflict", "auto"}  => op.step \in CaptureSteps
  /\ op.kind \in {"apply", "resume"}   => op.step \in CaptureSteps \cup ApplySteps
  /\ op.kind = "force"                 => op.step \in ForceSteps
  /\ op.kind = "restore"               => op.step \in RestoreSteps
  /\ op.kind = "undelete"              => op.step \in ReviveSteps
  /\ op.kind # "none"                  => op.path \in Path

(* A record keeps what it shows, and a result once it is approved. *)
Kept(c) == Known(c) => c \in recovery

RecordIsKept(p, r, kept) ==
  /\ Known(r.at.local) => r.at.local \in kept
  /\ Known(r.result) => r.result \in kept
  /\ ~r.approved => r.result = None
  /\ Known(r.copies) =>
       /\ DOMAIN r.copies \subseteq CopiesOf[p]
       /\ \A q \in DOMAIN r.copies : Known(r.copies[q].local) => r.copies[q].local \in kept

RecordsAreKept == \A p \in Path : Known(review[p]) => RecordIsKept(p, review[p], recovery)

(* Whatever is referred to has been uploaded, and what a path has on the    *)
(* drive was uploaded to it.                                                *)
Exists(u) == Known(u) => Known(object[u])

RefsExist ==
  /\ \A p \in Path : Exists(remote[p])
  /\ \A p \in Path : Known(base[p]) => Exists(base[p].uuid)
  /\ \A p \in Path : Known(review[p]) => \A s \in Snapshots(review[p]) : Exists(s.remote)

RemoteIsOfItsPath == \A p \in Path : Known(remote[p]) => object[remote[p]].path = p

(* What an application may rely on at each of its steps. *)
Rev == review[op.path]

ApplyIsSound ==
  /\ op.step \in ApplySteps \cup {"collect"} => Known(Rev)
  /\ op.step \in Unapproved =>
       ~Rev.approved /\ op.local = Rev.at.local /\ op.remote = Rev.at.remote
  /\ op.step \in {"copies", "clean"} \cup Cleaning => Known(Rev.copies)
  /\ op.step \in Approved => Rev.approved

RemoteIsSound ==
  /\ op.step = "remote" => op.remote = Rev.at.remote \/ Hash(op.remote) = Rev.result
  /\ op.step \in Removing \cup Uploading => op.remote = Rev.at.remote
  /\ op.step \in Uploading => Known(Rev.result)
  /\ op.step \in Committing => "remote" \in op.raced \/ remote[op.path] = op.remote
  /\ op.step = "record" => op.local = Rev.result /\ Hash(op.remote) = Rev.result

LocalIsSound ==
  op.step = "write" =>
    \/ "local" \in op.raced
    \/ Known(local[op.path]) => local[op.path] \in {Rev.at.local, Rev.result}

CleaningIsSound ==
  /\ op.step \in Recorded => HistoryOf(op.path) = Rev.result
  /\ op.step \in Cleaning => op.left \subseteq DOMAIN Rev.copies
  /\ op.step \in Targeting => op.target \in op.left
  /\ op.step = "clean-rm" => op.remote = Rev.copies[op.target].remote
  /\ op.step = "clean-trash" =>
       \/ "local" \in op.raced
       \/ Known(local[op.target]) => local[op.target] = Rev.copies[op.target].local

(* The object that a forced upload found is still there, and may be         *)
(* replaced, unless the drive has moved since.                              *)
MayReplace(p) ==
  \/ "remote" \in op.raced
  \/ remote[p] = op.remote /\ (op.consent \/ (Known(base[p]) /\ base[p].uuid = op.remote))

ForceIsSound ==
  /\ op.step \in {"look", "read"} => op.target = None
  /\ op.step \in {"stat", "upload", "history"} => op.target \in Path /\ op.bytes \in Content
  /\ op.step = "read" /\ Known(op.remote) => MayReplace(object[op.remote].path)
  /\ op.step \in {"stat", "upload"} /\ Known(op.remote) /\ object[op.remote].path = op.target =>
       MayReplace(op.target)
  /\ op.step = "upload" =>
       IF Known(op.remote) THEN object[op.remote].path = op.target
       ELSE "remote" \in op.raced \/ ~Known(remote[op.target])
  /\ op.step = "history" => Known(op.remote) /\ Hash(op.remote) = op.bytes

RestoreIsSound ==
  /\ op.kind \in {"restore", "undelete"} /\ Known(op.remote) => object[op.remote].path = op.path
  /\ op.step = "preserved" => Kept(op.local)
  /\ op.step \in Replacing => "local" \in op.raced \/ Kept(local[op.path])
  /\ op.step = "revive" => "remote" \in op.raced \/ ~Known(remote[op.path])

OpIsSound ==
  /\ Exists(op.remote) /\ StepsOfKind
  /\ ApplyIsSound /\ RemoteIsSound /\ LocalIsSound /\ CleaningIsSound
  /\ ForceIsSound /\ RestoreIsSound

StoresAreSound == RecordsAreKept /\ RefsExist /\ RemoteIsOfItsPath /\ HistoryIsHonest

IInv == TypeOK /\ StoresAreSound /\ OpIsSound

-----------------------------------------------------------------------------
(* What the steps of an operation do to its record *)

LEMMA GotoFields ==
  ASSUME op \in Op, NEW s \in Steps, Goto(s)
  PROVE  /\ op' \in Op /\ op'.step = s
         /\ op'.kind = op.kind /\ op'.path = op.path /\ op'.bytes = op.bytes
         /\ op'.local = op.local /\ op'.remote = op.remote /\ op'.consent = op.consent
         /\ op'.target = op.target /\ op'.left = op.left /\ op'.raced = op.raced
BY DEF Goto, Op

LEMMA SawFields ==
  ASSUME op \in Op, NEW s \in Steps, NEW l \in Maybe(Content), NEW u \in Maybe(Id), Saw(s, l, u)
  PROVE  /\ op' \in Op /\ op'.step = s /\ op'.local = l /\ op'.remote = u /\ op'.raced = {}
         /\ op'.kind = op.kind /\ op'.path = op.path /\ op'.bytes = op.bytes
         /\ op'.consent = op.consent /\ op'.target = op.target /\ op'.left = op.left
BY DEF Saw, Op

LEMMA BeginFields ==
  ASSUME op \in Op, NEW b \in Maybe(Content), op' = [op EXCEPT !.step = "begin", !.bytes = b]
  PROVE  /\ op' \in Op /\ op'.step = "begin"
         /\ op'.kind = op.kind /\ op'.path = op.path /\ op'.remote = op.remote
BY DEF Op, Steps

LEMMA LeaveIsSound ==
  ASSUME Leave
  PROVE  op' \in Op /\ OpIsSound'
<1>1. op' = NoOp
  BY DEF Leave
<1>2. NoOp \in Op
  BY DEF NoOp, Op, Kinds, Steps, Maybe
<1>3. /\ op'.kind = "none" /\ op'.step = "idle" /\ op'.remote = None
  BY <1>1 DEF NoOp
<1> QED
  BY <1>1, <1>2, <1>3 DEF OpIsSound, Exists, Known, StepsOfKind, ApplyIsSound, RemoteIsSound,
    LocalIsSound, CleaningIsSound, ForceIsSound, RestoreIsSound, CaptureSteps, Unapproved,
    Removing, Committing, Uploading, Finishing, Targeting, Cleaning, Recorded, Approved,
    ApplySteps, ForceSteps, Replacing, RestoreSteps, ReviveSteps

(* A step that writes nothing leaves the stores sound. *)
LEMMA QuietIsSound ==
  ASSUME StoresAreSound, UNCHANGED <<disks, stores>>
  PROVE  StoresAreSound'
BY DEF StoresAreSound, RecordsAreKept, RefsExist, RemoteIsOfItsPath, HistoryIsHonest,
  disks, stores, Kept, Exists, Hash, Snapshots

LEMMA QuietType ==
  ASSUME TypeOK, UNCHANGED <<disks, stores, shown, spent>>, op' \in Op
  PROVE  TypeOK'
BY DEF TypeOK, disks, stores

LEMMA RevType ==
  ASSUME TypeOK, NEW p \in Path, Known(review[p])
  PROVE  /\ review[p] \in Review
         /\ review[p].at.local \in Maybe(Content) /\ review[p].at.remote \in Maybe(Id)
         /\ review[p].approved \in BOOLEAN /\ review[p].result \in Maybe(Content)
<1>1. review[p] \in Review
  BY DEF TypeOK, Known, Maybe
<1> QED BY <1>1 DEF Review, Snapshot

LEMMA CopiesType ==
  ASSUME TypeOK, NEW p \in Path, Known(review[p]), Known(review[p].copies)
  PROVE  /\ DOMAIN review[p].copies \subseteq Path
         /\ \A q \in DOMAIN review[p].copies :
              review[p].copies[q].local \in Maybe(Content) /\ review[p].copies[q].remote \in Maybe(Id)
<1>1. review[p].copies \in UNION {[S -> Snapshot] : S \in SUBSET Path}
  BY RevType DEF Review, Known, Maybe
<1>2. PICK S \in SUBSET Path : review[p].copies \in [S -> Snapshot]
  BY <1>1
<1> QED BY <1>2 DEF Snapshot

LEMMA OriginalsArePaths == Originals \subseteq Path
BY DEF Originals

(* A lookup finds an object that was uploaded to the path. *)
LEMMA LookupFinds ==
  ASSUME TypeOK, RefsExist, RemoteIsOfItsPath,
         NEW p \in Path, NEW seen \in Maybe(Id), Exists(seen), NEW u \in Lookup(p, seen)
  PROVE  /\ u \in Maybe(Id) /\ Exists(u) /\ u \in {remote[p], seen}
         /\ Known(u) => object[u].path = p
BY DEF TypeOK, RefsExist, RemoteIsOfItsPath, Lookup, Exists, Known

-----------------------------------------------------------------------------
(* What is written *)

(* An upload gets an identity of its own and leaves alone whatever is       *)
(* referred to.                                                             *)
LEMMA UploadFacts ==
  ASSUME TypeOK, NEW p \in Path, NEW c \in Content, Upload(p, c)
  PROVE  /\ NewId \in Id /\ NewId \notin Referenced /\ Known(NewId)
         /\ object' \in [Id -> Maybe(Object)] /\ remote' \in [Path -> Maybe(Id)]
         /\ remote'[p] = NewId /\ \A q \in Path : q # p => remote'[q] = remote[q]
         /\ object'[NewId] = [content |-> c, path |-> p] /\ Known(object'[NewId])
         /\ \A u \in Referenced : Known(u) => u \in Id /\ object'[u] = object[u]
<1>1. NewId \in Unused
  BY DEF Upload, NewId
<1>2. NewId \in Id /\ NewId \notin Referenced /\ Known(NewId)
  BY <1>1, UnknownAssumption DEF Unused, Known
<1>3. Referenced \subseteq Maybe(Id)
  <2>1. \A q \in Path : remote[q] \in Maybe(Id)
    BY DEF TypeOK
  <2>2. op.remote \in Maybe(Id)
    BY DEF TypeOK, Op
  <2>3. \A q \in Path : Known(base[q]) => base[q].uuid \in Maybe(Id)
    BY DEF TypeOK, Record, Maybe, Known
  <2>4. ASSUME NEW q \in Path, Known(review[q]), NEW s \in Snapshots(review[q])
        PROVE  s.remote \in Maybe(Id)
    BY <2>4, RevType, CopiesType DEF Snapshots
  <2> QED BY <2>1, <2>2, <2>3, <2>4 DEF Referenced
<1>4. object' = [u \in Id |-> IF u = NewId THEN [content |-> c, path |-> p]
                            ELSE IF u \in Referenced THEN object[u] ELSE None]
      /\ remote' = [remote EXCEPT ![p] = NewId]
  BY DEF Upload
<1>5. [content |-> c, path |-> p] \in Object
  BY DEF Object
<1>6. object' \in [Id -> Maybe(Object)]
  <2>1. \A u \in Id : object[u] \in Maybe(Object)
    BY DEF TypeOK
  <2> QED BY <1>4, <1>5, <2>1 DEF Maybe
<1>7. remote' \in [Path -> Maybe(Id)] /\ remote'[p] = NewId
      /\ \A q \in Path : q # p => remote'[q] = remote[q]
  BY <1>2, <1>4 DEF TypeOK, Maybe
<1>8. object'[NewId] = [content |-> c, path |-> p] /\ Known(object'[NewId])
  BY <1>2, <1>4, <1>5, UnknownAssumption DEF Known
<1>9. \A u \in Referenced : Known(u) => u \in Id /\ object'[u] = object[u]
  BY <1>2, <1>3, <1>4 DEF Known, Maybe
<1> QED BY <1>2, <1>6, <1>7, <1>8, <1>9

LEMMA ReferencedFacts ==
  /\ op.remote \in Referenced
  /\ \A p \in Path :
       /\ remote[p] \in Referenced
       /\ Known(base[p]) => base[p].uuid \in Referenced
       /\ Known(review[p]) => \A s \in Snapshots(review[p]) : s.remote \in Referenced
BY DEF Referenced

LEMMA UploadIsSound ==
  ASSUME TypeOK, StoresAreSound, NEW p \in Path, NEW c \in Content, Upload(p, c), UNCHANGED stores
  PROVE  StoresAreSound'
<1> USE DEF stores
<1>0. /\ remote'[p] = NewId /\ \A q \in Path : q # p => remote'[q] = remote[q]
      /\ object'[NewId] = [content |-> c, path |-> p] /\ Known(object'[NewId])
      /\ \A u \in Referenced : Known(u) => object'[u] = object[u]
  BY UploadFacts
<1>1. RecordsAreKept'
  BY DEF StoresAreSound, RecordsAreKept
<1>2. RefsExist'
  <2>1. \A q \in Path : Exists(remote[q])'
    BY <1>0, ReferencedFacts DEF StoresAreSound, RefsExist, Exists
  <2>2. \A q \in Path : (Known(base[q]) => Exists(base[q].uuid))'
    BY <1>0, ReferencedFacts DEF StoresAreSound, RefsExist, Exists
  <2>3. ASSUME NEW q \in Path, Known(review[q])', NEW s \in Snapshots(review[q])'
        PROVE  Exists(s.remote)'
    <3>1. s \in Snapshots(review[q]) /\ Known(review[q])
      BY <2>3 DEF Snapshots
    <3> QED BY <3>1, <1>0, ReferencedFacts DEF StoresAreSound, RefsExist, Exists
  <2> QED BY <2>1, <2>2, <2>3 DEF RefsExist
<1>3. RemoteIsOfItsPath'
  <2> SUFFICES ASSUME NEW q \in Path, Known(remote'[q]) PROVE object'[remote'[q]].path = q
    BY DEF RemoteIsOfItsPath, Known
  <2>1. CASE q = p
    <3>1. object'[NewId].path = p
      BY <1>0
    <3> QED BY <2>1, <3>1, <1>0
  <2>2. CASE q # p
    <3>1. remote'[q] = remote[q] /\ object'[remote[q]] = object[remote[q]]
      <4>1. remote'[q] = remote[q]
        BY <2>2, <1>0
      <4>2. remote[q] \in Referenced /\ Known(remote[q])
        BY <4>1, ReferencedFacts
      <4> QED BY <4>1, <4>2, <1>0
    <3> QED BY <3>1 DEF StoresAreSound, RemoteIsOfItsPath
  <2> QED BY <2>1, <2>2
<1>4. HistoryIsHonest'
  <2> SUFFICES ASSUME NEW q \in Path, Known(base[q])
               PROVE  Known(object'[base[q].uuid]) /\ base[q].hash = Hash(base[q].uuid)'
    BY DEF HistoryIsHonest, Known, Hash
  <2>1. Known(object[base[q].uuid]) /\ base[q].hash = Hash(base[q].uuid)
    BY DEF StoresAreSound, HistoryIsHonest
  <2>2. Known(base[q].uuid)
    BY UnknownAssumption DEF TypeOK, Record, Maybe, Known
  <2>3. object'[base[q].uuid] = object[base[q].uuid]
    BY <2>2, <1>0, ReferencedFacts
  <2> QED BY <2>1, <2>3 DEF Hash
<1> QED BY <1>1, <1>2, <1>3, <1>4 DEF StoresAreSound

(* The drive gives up an object, or takes one back that was uploaded here.  *)
LEMMA DriveIsSound ==
  ASSUME TypeOK, StoresAreSound, NEW p \in Path, NEW u \in Maybe(Id),
         Exists(u), Known(u) => object[u].path = p,
         remote' = [remote EXCEPT ![p] = u], UNCHANGED <<object, stores>>
  PROVE  StoresAreSound' /\ remote' \in [Path -> Maybe(Id)]
<1> USE DEF stores
<1>0. remote' \in [Path -> Maybe(Id)] /\ \A q \in Path : remote'[q] = IF q = p THEN u ELSE remote[q]
  BY DEF TypeOK
<1>1. RecordsAreKept'
  BY DEF StoresAreSound, RecordsAreKept
<1>2. RefsExist'
  BY <1>0 DEF StoresAreSound, RefsExist, Exists, Snapshots
<1>3. RemoteIsOfItsPath'
  BY <1>0 DEF StoresAreSound, RemoteIsOfItsPath, Known
<1>4. HistoryIsHonest'
  BY DEF StoresAreSound, HistoryIsHonest, Hash
<1> QED BY <1>0, <1>1, <1>2, <1>3, <1>4 DEF StoresAreSound

(* What the vault holds is nothing that the stores refer to. *)
LEMMA LocalIsFree ==
  ASSUME StoresAreSound, UNCHANGED <<remote, object, stores>>
  PROVE  StoresAreSound'
BY DEF StoresAreSound, RecordsAreKept, RefsExist, RemoteIsOfItsPath, HistoryIsHonest,
  stores, Kept, Exists, Hash, Snapshots

(* The history of a path is forgotten, or names an object with its digest. *)
LEMMA BaseIsSound ==
  ASSUME TypeOK, StoresAreSound, NEW p \in Path, NEW r \in Maybe(Record),
         Known(r) => Known(object[r.uuid]) /\ r.hash = Hash(r.uuid),
         base' = [base EXCEPT ![p] = r], UNCHANGED <<disks, review, recovery>>
  PROVE  StoresAreSound' /\ base' \in [Path -> Maybe(Record)]
<1> USE DEF disks
<1>0. base' \in [Path -> Maybe(Record)] /\ \A q \in Path : base'[q] = IF q = p THEN r ELSE base[q]
  BY DEF TypeOK
<1>1. RecordsAreKept'
  BY DEF StoresAreSound, RecordsAreKept
<1>2. RefsExist'
  BY <1>0 DEF StoresAreSound, RefsExist, Exists, Snapshots
<1>3. RemoteIsOfItsPath'
  BY DEF StoresAreSound, RemoteIsOfItsPath
<1>4. HistoryIsHonest'
  BY <1>0 DEF StoresAreSound, HistoryIsHonest, Hash
<1> QED BY <1>0, <1>1, <1>2, <1>3, <1>4 DEF StoresAreSound

(* One record is replaced by one that is kept, and nothing is lost. *)
LEMMA ReviewIsSound ==
  ASSUME TypeOK, StoresAreSound, NEW p \in Path, NEW r \in Maybe(Review),
         review' = [review EXCEPT ![p] = r], recovery \subseteq recovery', recovery' \subseteq Content,
         Known(r) => RecordIsKept(p, r, recovery') /\ \A s \in Snapshots(r) : Exists(s.remote),
         UNCHANGED <<disks, base>>
  PROVE  StoresAreSound' /\ review' \in [Path -> Maybe(Review)]
<1> USE DEF disks
<1>0. review' \in [Path -> Maybe(Review)] /\ \A q \in Path : review'[q] = IF q = p THEN r ELSE review[q]
  BY DEF TypeOK
<1>1. RecordsAreKept'
  <2> SUFFICES ASSUME NEW q \in Path, Known(review'[q]) PROVE RecordIsKept(q, review'[q], recovery')
    BY DEF RecordsAreKept, Known, RecordIsKept
  <2>1. CASE q = p
    BY <1>0, <2>1
  <2>2. CASE q # p
    <3>1. review'[q] = review[q] /\ RecordIsKept(q, review[q], recovery)
      BY <1>0, <2>2 DEF StoresAreSound, RecordsAreKept
    <3> QED BY <3>1 DEF RecordIsKept
  <2> QED BY <2>1, <2>2
<1>2. RefsExist'
  BY <1>0 DEF StoresAreSound, RefsExist, Exists, Snapshots
<1>3. RemoteIsOfItsPath'
  BY DEF StoresAreSound, RemoteIsOfItsPath
<1>4. HistoryIsHonest'
  BY DEF StoresAreSound, HistoryIsHonest, Hash
<1> QED BY <1>0, <1>1, <1>2, <1>3, <1>4 DEF StoresAreSound

(* The flags of a record are not what it keeps. *)
LEMMA FlagIsSound ==
  ASSUME TypeOK, StoresAreSound, NEW p \in Path, Known(review[p]),
         \/ review' = [review EXCEPT ![p].remoteApplied = TRUE]
         \/ review' = [review EXCEPT ![p].localApplied = TRUE],
         UNCHANGED <<disks, base, recovery>>
  PROVE  /\ StoresAreSound' /\ review' \in [Path -> Maybe(Review)]
         /\ Known(review'[p]) /\ review'[p].at = review[p].at /\ review'[p].copies = review[p].copies
         /\ review'[p].approved = review[p].approved /\ review'[p].result = review[p].result
<1> DEFINE r == review'[p]
<1>0. review[p] \in Review /\ DOMAIN review = Path
  BY RevType DEF TypeOK
<1>1. /\ r \in Review /\ r.at = review[p].at /\ r.copies = review[p].copies
      /\ r.approved = review[p].approved /\ r.result = review[p].result
  <2>1. CASE review' = [review EXCEPT ![p].remoteApplied = TRUE]
    <3>1. r = [review[p] EXCEPT !.remoteApplied = TRUE]
      BY <1>0, <2>1
    <3> QED BY <1>0, <3>1 DEF Review
  <2>2. CASE review' = [review EXCEPT ![p].localApplied = TRUE]
    <3>1. r = [review[p] EXCEPT !.localApplied = TRUE]
      BY <1>0, <2>2
    <3> QED BY <1>0, <3>1 DEF Review
  <2> QED BY <2>1, <2>2
<1>2. review' = [review EXCEPT ![p] = r]
  BY DEF TypeOK
<1>3. RecordIsKept(p, review[p], recovery) /\ \A s \in Snapshots(review[p]) : Exists(s.remote)
  BY DEF StoresAreSound, RecordsAreKept, RefsExist
<1>4. RecordIsKept(p, r, recovery') /\ \A s \in Snapshots(r) : Exists(s.remote)
  BY <1>1, <1>3 DEF RecordIsKept, Snapshots
<1>5. Known(r) /\ r \in Maybe(Review)
  BY <1>1, UnknownAssumption DEF Known, Maybe
<1>6. recovery' = recovery /\ recovery \subseteq Content
  BY DEF TypeOK
<1> HIDE DEF r
<1>7. StoresAreSound' /\ review' \in [Path -> Maybe(Review)]
  BY <1>2, <1>4, <1>5, <1>6, ReviewIsSound
<1> QED BY <1>1, <1>5, <1>7 DEF r

LEMMA ApprovalIsSound ==
  ASSUME TypeOK, StoresAreSound, NEW p \in Path, Known(review[p]), NEW b \in Maybe(Content),
         review' = [review EXCEPT ![p].approved = TRUE, ![p].result = b], Preserve({b}),
         UNCHANGED <<disks, base>>
  PROVE  /\ StoresAreSound' /\ review' \in [Path -> Maybe(Review)] /\ recovery' \subseteq Content
         /\ Known(review'[p]) /\ review'[p].at = review[p].at /\ review'[p].copies = review[p].copies
         /\ review'[p].approved = TRUE /\ review'[p].result = b
<1> DEFINE r == review'[p]
<1>0. review[p] \in Review
  BY RevType
<1>1. /\ r \in Review /\ r.at = review[p].at /\ r.copies = review[p].copies
      /\ r.approved = TRUE /\ r.result = b
  BY <1>0 DEF Review, TypeOK
<1>2. review' = [review EXCEPT ![p] = r]
  BY DEF TypeOK
<1>3. RecordIsKept(p, review[p], recovery) /\ \A s \in Snapshots(review[p]) : Exists(s.remote)
  BY DEF StoresAreSound, RecordsAreKept, RefsExist
<1>4. recovery \subseteq recovery' /\ recovery' \subseteq Content /\ (Known(b) => b \in recovery')
  BY DEF Preserve, TypeOK, Maybe, Known
<1>5. RecordIsKept(p, r, recovery') /\ \A s \in Snapshots(r) : Exists(s.remote)
  BY <1>1, <1>3, <1>4 DEF RecordIsKept, Snapshots
<1>6. Known(r) /\ r \in Maybe(Review)
  BY <1>1, UnknownAssumption DEF Known, Maybe
<1> HIDE DEF r
<1>7. StoresAreSound' /\ review' \in [Path -> Maybe(Review)]
  BY <1>2, <1>4, <1>5, <1>6, ReviewIsSound
<1> QED BY <1>1, <1>4, <1>6, <1>7 DEF r

(* An object found is trashed. *)
LEMMA TrashIsSound ==
  ASSUME TypeOK, StoresAreSound, NEW p \in Path, NEW u, Trashed(p, u), UNCHANGED <<object, stores>>
  PROVE  /\ StoresAreSound' /\ remote' \in [Path -> Maybe(Id)]
         /\ \A q \in Path : remote'[q] \in {remote[q], None}
<1> DEFINE v == IF remote[p] = u THEN None ELSE remote[p]
<1>1. remote' = [remote EXCEPT ![p] = v]
  BY DEF Trashed, TypeOK
<1>2. v \in Maybe(Id) /\ Exists(v) /\ (Known(v) => object[v].path = p)
  BY DEF TypeOK, StoresAreSound, RefsExist, RemoteIsOfItsPath, Exists, Known, Maybe
<1>3. \A q \in Path : remote'[q] \in {remote[q], None}
  BY <1>1 DEF TypeOK
<1> HIDE DEF v
<1>4. StoresAreSound' /\ remote' \in [Path -> Maybe(Id)]
  BY <1>1, <1>2, DriveIsSound
<1> QED BY <1>3, <1>4

LEMMA MergeFields ==
  ASSUME op \in Op, NEW b \in Content,
         op' = [op EXCEPT !.kind = "apply", !.step = "begin", !.bytes = b, !.local = None, !.remote = None]
  PROVE  op' \in Op /\ op'.kind = "apply" /\ op'.step = "begin" /\ op'.path = op.path /\ op'.remote = None
<1> DEFINE half == [op EXCEPT !.kind = "apply", !.step = "begin", !.bytes = b]
<1>1. half \in Op
  BY DEF Op, Kinds, Steps, Maybe
<1>2. op' = [half EXCEPT !.local = None, !.remote = None]
  OBVIOUS
<1>3. op'.kind = "apply" /\ op'.step = "begin" /\ op'.path = op.path /\ op'.remote = None
  BY DEF Op
<1> HIDE DEF half
<1>4. [half EXCEPT !.local = None, !.remote = None] \in Op
  BY <1>1 DEF Op, Maybe
<1> QED BY ONLY <1>2, <1>3, <1>4

LEMMA StartFields ==
  ASSUME NEW k \in Kinds, NEW p \in Path, NEW s \in Steps,
         op' = [NoOp EXCEPT !.kind = k, !.path = p, !.step = s]
  PROVE  op' \in Op /\ op'.kind = k /\ op'.path = p /\ op'.step = s /\ op'.remote = None
         /\ op'.target = None
BY DEF NoOp, Op, Maybe

LEMMA StartBytesFields ==
  ASSUME NEW k \in Kinds, NEW p \in Path, NEW s \in Steps, NEW b \in Maybe(Content),
         op' = [NoOp EXCEPT !.kind = k, !.path = p, !.step = s, !.bytes = b]
  PROVE  op' \in Op /\ op'.kind = k /\ op'.path = p /\ op'.step = s /\ op'.remote = None
BY DEF NoOp, Op, Maybe

LEMMA SpentIsBounded ==
  ASSUME TypeOK
  PROVE  /\ Act => spent' \in [edits : 0 .. MaxEdits, renames : 0 .. MaxRenames,
                               acts : 0 .. MaxActs, faults : 0 .. MaxFaults]
         /\ Edited => spent' \in [edits : 0 .. MaxEdits, renames : 0 .. MaxRenames,
                                  acts : 0 .. MaxActs, faults : 0 .. MaxFaults]
BY BoundsAssumption DEF TypeOK, Act, Edited

(* The copies of a file are recorded in its review. *)
LEMMA CollectionIsSound ==
  ASSUME TypeOK, StoresAreSound, NEW p \in Path, Known(review[p]), Collect(p)
  PROVE  /\ StoresAreSound' /\ review' \in [Path -> Maybe(Review)] /\ recovery' \subseteq Content
         /\ Known(review'[p]) /\ review'[p].approved = review[p].approved
         /\ review'[p].result = review[p].result
<1> DEFINE found == [q \in CopyPaths(p) |-> [local |-> local[q], remote |-> remote[q]]]
           r == [review[p] EXCEPT !.copies = found]
           seen == UNION {{local[q], Hash(remote[q])} : q \in CopyPaths(p)}
<1>1. review[p] \in Review
  BY RevType
<1>2. CopyPaths(p) \subseteq CopiesOf[p] /\ CopyPaths(p) \subseteq Path
  BY CopiesAssumption DEF CopyPaths
<1>3. \A q \in Path : local[q] \in Maybe(Content) /\ remote[q] \in Maybe(Id) /\ Hash(remote[q]) \in Maybe(Content)
  <2> TAKE q \in Path
  <2>1. local[q] \in Maybe(Content) /\ remote[q] \in Maybe(Id)
    BY DEF TypeOK
  <2>2. Known(remote[q]) => object[remote[q]] \in Object
    BY <2>1 DEF StoresAreSound, RefsExist, Exists, TypeOK, Maybe, Known
  <2>3. Hash(remote[q]) \in Maybe(Content)
    BY <2>2 DEF Hash, Object, Maybe
  <2> QED BY <2>1, <2>3
<1>4. found \in [CopyPaths(p) -> Snapshot]
  BY <1>2, <1>3 DEF Snapshot
<1>5. found \in Maybe(UNION {[S -> Snapshot] : S \in SUBSET Path})
  <2> HIDE DEF found
  <2> QED BY <1>2, <1>4 DEF Maybe
<1>6. r \in Review /\ r.copies = found /\ r.at = review[p].at /\ r.approved = review[p].approved
      /\ r.result = review[p].result
  <2> HIDE DEF found
  <2> QED BY <1>1, <1>5 DEF Review
<1>7. review' = [review EXCEPT ![p] = r]
  BY DEF Collect
<1>8. Known(r) /\ r \in Maybe(Review)
  <2> HIDE DEF r
  <2> QED BY <1>6, UnknownAssumption DEF Known, Maybe
<1>9. /\ recovery \subseteq recovery' /\ recovery' \subseteq Content
      /\ \A q \in CopyPaths(p) : Known(local[q]) => local[q] \in recovery'
  <2>1. seen \in SUBSET Maybe(Content)
    BY <1>2, <1>3
  <2>2. Preserve(seen)
    BY DEF Collect
  <2>3. \A q \in CopyPaths(p) : local[q] \in seen
    OBVIOUS
  <2> HIDE DEF seen
  <2> QED BY <2>1, <2>2, <2>3 DEF Preserve, TypeOK, Maybe, Known
<1>10. RecordIsKept(p, r, recovery')
  <2>1. RecordIsKept(p, review[p], recovery)
    BY DEF StoresAreSound, RecordsAreKept
  <2>2. DOMAIN found = CopyPaths(p) /\ \A q \in CopyPaths(p) : found[q].local = local[q]
    OBVIOUS
  <2> HIDE DEF r, found
  <2> QED BY <1>2, <1>6, <1>9, <2>1, <2>2 DEF RecordIsKept
<1>11. \A s \in Snapshots(r) : Exists(s.remote)
  <2>1. \A s \in Snapshots(review[p]) : Exists(s.remote)
    BY DEF StoresAreSound, RefsExist
  <2>2. DOMAIN found = CopyPaths(p) /\ \A q \in CopyPaths(p) : found[q].remote = remote[q]
    OBVIOUS
  <2>3. \A q \in CopyPaths(p) : Exists(remote[q])
    BY <1>2 DEF StoresAreSound, RefsExist
  <2>4. \A s \in Snapshots(r) : s = review[p].at \/ \E q \in CopyPaths(p) : s = found[q]
    <3> HIDE DEF r, found
    <3> QED BY <1>6, <2>2 DEF Snapshots
  <2>5. review[p].at \in Snapshots(review[p])
    BY DEF Snapshots
  <2> HIDE DEF r, found
  <2> QED BY <2>1, <2>2, <2>3, <2>4, <2>5
<1>12. review'[p] = r
  BY <1>7 DEF TypeOK
<1> HIDE DEF r
<1>13. StoresAreSound' /\ review' \in [Path -> Maybe(Review)]
  BY <1>7, <1>8, <1>9, <1>10, <1>11, ReviewIsSound DEF Collect
<1> QED BY <1>6, <1>8, <1>9, <1>12, <1>13

-----------------------------------------------------------------------------
(* The application of a result: the steps that write nothing *)

USE DEF Exists, Known, StepsOfKind, ApplyIsSound, RemoteIsSound,
  LocalIsSound, CleaningIsSound, ForceIsSound, RestoreIsSound, CaptureSteps, Unapproved,
  Removing, Committing, Uploading, Finishing, Targeting, Cleaning, Recorded, Approved,
  ApplySteps, ForceSteps, Replacing, RestoreSteps, ReviveSteps, Rev, Hash, HistoryOf, Kept, MayReplace

LEMMA WorkingFacts ==
  ASSUME IInv, NEW p \in Originals, NEW s \in ApplySteps, Working(p, s)
  PROVE  /\ op \in Op /\ op.path = p /\ op.kind \in {"apply", "resume"} /\ op.step = s
         /\ op.remote \in Maybe(Id) /\ op.local \in Maybe(Content) /\ op.bytes \in Maybe(Content)
         /\ p \in Path /\ Known(review[p])
BY OriginalsArePaths DEF Working, At, TypeOK, Op, IInv, OpIsSound

LEMMA CaptureIsSound ==
  ASSUME IInv, op.kind \in {"apply", "resume"}, UNCHANGED <<disks, stores>>, Goto("capture")
  PROVE  op' \in Op /\ OpIsSound'
<1>1. /\ op' \in Op /\ op'.step = "capture"
      /\ op'.kind = op.kind /\ op'.path = op.path /\ op'.remote = op.remote
  BY GotoFields DEF Steps, TypeOK, IInv
<1> QED BY <1>1 DEF disks, stores, IInv, OpIsSound

LEMMA ReviewRequiredIsSound ==
  ASSUME IInv, op.kind \in {"apply", "resume"}, UNCHANGED <<disks, stores>>, ReviewRequired
  PROVE  op' \in Op /\ OpIsSound'
<1>1. CASE Leave
  BY <1>1, LeaveIsSound
<1>2. CASE Goto("capture")
  BY <1>2, CaptureIsSound
<1> QED BY <1>1, <1>2 DEF ReviewRequired

LEMMA ResumeCheckSound ==
  ASSUME IInv, NEW p \in Originals, ResumeCheck(p)
  PROVE  op' \in Op /\ OpIsSound'
<1>0. /\ op \in Op /\ op.path = p /\ op.kind \in {"apply", "resume"} /\ op.step = "resume"
      /\ UNCHANGED <<disks, stores>> /\ Known(review[p]) /\ p \in Path
  BY WorkingFacts DEF ResumeCheck
<1>1. CASE Leave
  BY <1>1, LeaveIsSound
<1>2. CASE op' = [op EXCEPT !.step = "begin", !.bytes = Result(p)]
  <2>1. Result(p) \in Maybe(Content)
    BY <1>0, RevType DEF Result, IInv
  <2>2. /\ op' \in Op /\ op'.step = "begin"
        /\ op'.kind = op.kind /\ op'.path = op.path /\ op'.remote = op.remote
    BY <1>0, <1>2, <2>1, BeginFields
  <2> QED BY <1>0, <2>2 DEF disks, stores, IInv, OpIsSound
<1>3. CASE Goto("capture")
  BY <1>0, <1>3, CaptureIsSound
<1> QED
  BY <1>1, <1>2, <1>3 DEF ResumeCheck

LEMMA ApplyReadSound ==
  ASSUME IInv, NEW p \in Originals, ApplyRead(p)
  PROVE  op' \in Op /\ OpIsSound'
<1>0. /\ op \in Op /\ op.path = p /\ op.kind \in {"apply", "resume"} /\ op.step = "begin"
      /\ UNCHANGED <<disks, stores>> /\ Known(review[p]) /\ p \in Path /\ op.remote \in Maybe(Id)
  BY WorkingFacts DEF ApplyRead
<1>1. PICK u \in Lookup(p, op.remote) :
        \/ Leave \/ Goto("capture")
        \/ /\ review[p].approved /\ AcceptableRemote(p, u) /\ Saw("remote", local[p], u)
        \/ /\ ~review[p].approved /\ Matches(local[p], u, review[p].at)
           /\ Saw(IF Known(review[p].copies) THEN "copies" ELSE "approve", local[p], u)
  BY DEF ApplyRead
<1>2. u \in Maybe(Id) /\ Exists(u) /\ local[p] \in Maybe(Content)
  BY <1>0, LookupFinds DEF TypeOK, StoresAreSound, IInv, OpIsSound
<1>3. CASE Leave
  BY <1>3, LeaveIsSound
<1>4. CASE Goto("capture")
  BY <1>0, <1>4, CaptureIsSound
<1>5. CASE review[p].approved /\ AcceptableRemote(p, u) /\ Saw("remote", local[p], u)
  <2>1. /\ op' \in Op /\ op'.step = "remote" /\ op'.remote = u
        /\ op'.kind = op.kind /\ op'.path = op.path
    BY <1>0, <1>2, <1>5, SawFields DEF Steps
  <2> QED BY <1>0, <1>2, <1>5, <2>1 DEF disks, stores, AcceptableRemote, Result, IInv, OpIsSound
<1>6. CASE ~review[p].approved /\ Matches(local[p], u, review[p].at) /\ Saw("copies", local[p], u)
           /\ Known(review[p].copies)
  <2>1. /\ op' \in Op /\ op'.step = "copies" /\ op'.local = local[p] /\ op'.remote = u
        /\ op'.kind = op.kind /\ op'.path = op.path
    BY <1>0, <1>2, <1>6, SawFields DEF Steps
  <2> QED BY <1>0, <1>2, <1>6, <2>1 DEF disks, stores, Matches, IInv, OpIsSound
<1>7. CASE ~review[p].approved /\ Matches(local[p], u, review[p].at) /\ Saw("approve", local[p], u)
  <2>1. /\ op' \in Op /\ op'.step = "approve" /\ op'.local = local[p] /\ op'.remote = u
        /\ op'.kind = op.kind /\ op'.path = op.path
    BY <1>0, <1>2, <1>7, SawFields DEF Steps
  <2> QED BY <1>0, <1>2, <1>7, <2>1 DEF disks, stores, Matches, IInv, OpIsSound
<1> QED
  BY <1>1, <1>3, <1>4, <1>5, <1>6, <1>7
LEMMA VerifyCopiesSound ==
  ASSUME IInv, NEW p \in Originals, VerifyCopies(p)
  PROVE  op' \in Op /\ OpIsSound'
<1>0. /\ op \in Op /\ op.path = p /\ op.kind \in {"apply", "resume"} /\ op.step = "copies"
      /\ UNCHANGED <<disks, stores>> /\ Known(review[p]) /\ p \in Path /\ op.remote \in Maybe(Id)
      /\ review[p].approved \in BOOLEAN
  BY WorkingFacts, RevType DEF VerifyCopies, IInv
<1>1. CASE ReviewRequired
  BY <1>0, <1>1, ReviewRequiredIsSound
<1>2. CASE Goto("approve")
  <2>1. /\ op' \in Op /\ op'.step = "approve" /\ op'.kind = op.kind /\ op'.path = op.path
        /\ op'.local = op.local /\ op'.remote = op.remote /\ op'.raced = op.raced
        /\ op'.left = op.left /\ op'.target = op.target
    BY <1>0, <1>2, GotoFields DEF Steps
  <2> QED BY <1>0, <1>2, <2>1 DEF disks, stores, IInv, OpIsSound
<1> QED
  BY <1>1, <1>2 DEF VerifyCopies

LEMMA RemoteGateSound ==
  ASSUME IInv, NEW p \in Originals, RemoteGate(p)
  PROVE  op' \in Op /\ OpIsSound'
<1>0. /\ op \in Op /\ op.path = p /\ op.kind \in {"apply", "resume"} /\ op.step = "remote"
      /\ UNCHANGED <<disks, stores>> /\ Known(review[p]) /\ p \in Path /\ op.remote \in Maybe(Id)
      /\ review[p].approved \in BOOLEAN
  BY WorkingFacts, RevType DEF RemoteGate, IInv
<1>1. CASE Leave
  BY <1>0, <1>1, LeaveIsSound
<1>2. CASE Goto("read-back")
  <2>1. /\ op' \in Op /\ op'.step = "read-back" /\ op'.kind = op.kind /\ op'.path = op.path
        /\ op'.local = op.local /\ op'.remote = op.remote /\ op'.raced = op.raced
        /\ op'.left = op.left /\ op'.target = op.target
    BY <1>0, <1>2, GotoFields DEF Steps
  <2> QED BY <1>0, <1>2, <2>1 DEF disks, stores, IInv, OpIsSound
<1>3. CASE Goto("precheck") /\ Hash(op.remote) # Result(p) /\ Known(Result(p))
  <2>1. /\ op' \in Op /\ op'.step = "precheck" /\ op'.kind = op.kind /\ op'.path = op.path
        /\ op'.local = op.local /\ op'.remote = op.remote /\ op'.raced = op.raced
        /\ op'.left = op.left /\ op'.target = op.target
    BY <1>0, <1>3, GotoFields DEF Steps
  <2> QED BY <1>0, <1>3, <2>1 DEF disks, stores, Result, IInv, OpIsSound
<1>4. CASE Goto("rm") /\ Hash(op.remote) # Result(p)
  <2>1. /\ op' \in Op /\ op'.step = "rm" /\ op'.kind = op.kind /\ op'.path = op.path
        /\ op'.local = op.local /\ op'.remote = op.remote /\ op'.raced = op.raced
        /\ op'.left = op.left /\ op'.target = op.target
    BY <1>0, <1>4, GotoFields DEF Steps
  <2> QED BY <1>0, <1>4, <2>1 DEF disks, stores, Result, IInv, OpIsSound
<1> QED
  BY <1>1, <1>2, <1>3, <1>4 DEF RemoteGate

LEMMA RemoveProbeSound ==
  ASSUME IInv, NEW p \in Originals, RemoveProbe(p)
  PROVE  op' \in Op /\ OpIsSound'
<1>0. /\ op \in Op /\ op.path = p /\ op.kind \in {"apply", "resume"} /\ op.step = "rm"
      /\ UNCHANGED <<disks, stores>> /\ Known(review[p]) /\ p \in Path /\ op.remote \in Maybe(Id)
      /\ review[p].approved \in BOOLEAN
  BY WorkingFacts, RevType DEF RemoveProbe, IInv
<1>1. CASE Leave
  BY <1>0, <1>1, LeaveIsSound
<1>2. CASE Goto("trash")
  <2>1. /\ op' \in Op /\ op'.step = "trash" /\ op'.kind = op.kind /\ op'.path = op.path
        /\ op'.local = op.local /\ op'.remote = op.remote /\ op'.raced = op.raced
        /\ op'.left = op.left /\ op'.target = op.target
    BY <1>0, <1>2, GotoFields DEF Steps
  <2> QED BY <1>0, <1>2, <2>1 DEF disks, stores, IInv, OpIsSound
<1> QED
  BY <1>1, <1>2 DEF RemoveProbe

LEMMA ApplyPrecheckSound ==
  ASSUME IInv, NEW p \in Originals, ApplyPrecheck(p)
  PROVE  op' \in Op /\ OpIsSound'
<1>0. /\ op \in Op /\ op.path = p /\ op.kind \in {"apply", "resume"} /\ op.step = "precheck"
      /\ UNCHANGED <<disks, stores>> /\ Known(review[p]) /\ p \in Path /\ op.remote \in Maybe(Id)
      /\ review[p].approved \in BOOLEAN
  BY WorkingFacts, RevType DEF ApplyPrecheck, IInv
<1>1. CASE Leave
  BY <1>0, <1>1, LeaveIsSound
<1>2. CASE op' = [op EXCEPT !.step = "precommit", !.raced = {}] /\ remote[p] = op.remote
  <2>1. /\ op' \in Op /\ op'.step = "precommit" /\ op'.kind = op.kind /\ op'.path = op.path
        /\ op'.remote = op.remote
    BY <1>0, <1>2 DEF Op, Steps
  <2> QED BY <1>0, <1>2, <2>1 DEF disks, stores, IInv, OpIsSound
<1> QED
  BY <1>1, <1>2 DEF ApplyPrecheck

LEMMA ApplyPrecommitSound ==
  ASSUME IInv, NEW p \in Originals, ApplyPrecommit(p)
  PROVE  op' \in Op /\ OpIsSound'
<1>0. /\ op \in Op /\ op.path = p /\ op.kind \in {"apply", "resume"} /\ op.step = "precommit"
      /\ UNCHANGED <<disks, stores>> /\ Known(review[p]) /\ p \in Path /\ op.remote \in Maybe(Id)
      /\ review[p].approved \in BOOLEAN
  BY WorkingFacts, RevType DEF ApplyPrecommit, IInv
<1>1. CASE Leave
  BY <1>0, <1>1, LeaveIsSound
<1>2. CASE Goto("approved-local")
  <2>1. /\ op' \in Op /\ op'.step = "approved-local" /\ op'.kind = op.kind /\ op'.path = op.path
        /\ op'.local = op.local /\ op'.remote = op.remote /\ op'.raced = op.raced
        /\ op'.left = op.left /\ op'.target = op.target
    BY <1>0, <1>2, GotoFields DEF Steps
  <2> QED BY <1>0, <1>2, <2>1 DEF disks, stores, IInv, OpIsSound
<1> QED
  BY <1>1, <1>2 DEF ApplyPrecommit

LEMMA BeforeCommitSound ==
  ASSUME IInv, NEW p \in Originals, BeforeCommit(p)
  PROVE  op' \in Op /\ OpIsSound'
<1>0. /\ op \in Op /\ op.path = p /\ op.kind \in {"apply", "resume"} /\ op.step = "approved-local"
      /\ UNCHANGED <<disks, stores>> /\ Known(review[p]) /\ p \in Path /\ op.remote \in Maybe(Id)
      /\ review[p].approved \in BOOLEAN
  BY WorkingFacts, RevType DEF BeforeCommit, IInv
<1>1. CASE Leave
  BY <1>0, <1>1, LeaveIsSound
<1>2. CASE Goto("commit")
  <2>1. /\ op' \in Op /\ op'.step = "commit" /\ op'.kind = op.kind /\ op'.path = op.path
        /\ op'.local = op.local /\ op'.remote = op.remote /\ op'.raced = op.raced
        /\ op'.left = op.left /\ op'.target = op.target
    BY <1>0, <1>2, GotoFields DEF Steps
  <2> QED BY <1>0, <1>2, <2>1 DEF disks, stores, IInv, OpIsSound
<1> QED
  BY <1>1, <1>2 DEF BeforeCommit

LEMMA LocalGateSound ==
  ASSUME IInv, NEW p \in Originals, LocalGate(p)
  PROVE  op' \in Op /\ OpIsSound'
<1>0. /\ op \in Op /\ op.path = p /\ op.kind \in {"apply", "resume"} /\ op.step = "local"
      /\ UNCHANGED <<disks, stores>> /\ Known(review[p]) /\ p \in Path /\ op.remote \in Maybe(Id)
      /\ review[p].approved \in BOOLEAN
  BY WorkingFacts, RevType DEF LocalGate, IInv
<1>1. CASE Leave
  BY <1>0, <1>1, LeaveIsSound
<1>2. CASE Saw("verify", local[p], op.remote)
  <2>1. /\ op' \in Op /\ op'.step = "verify" /\ op'.kind = op.kind /\ op'.path = op.path
        /\ op'.local = local[p] /\ op'.remote = op.remote
    BY <1>0, <1>2, SawFields DEF Steps, TypeOK, IInv
  <2> QED BY <1>0, <1>2, <2>1 DEF disks, stores, IInv, OpIsSound
<1>3. CASE Saw("write", local[p], op.remote) /\ Acceptable(p, local[p])
  <2>1. /\ op' \in Op /\ op'.step = "write" /\ op'.kind = op.kind /\ op'.path = op.path
        /\ op'.local = local[p] /\ op'.remote = op.remote
    BY <1>0, <1>3, SawFields DEF Steps, TypeOK, IInv
  <2> QED BY <1>0, <1>3, <2>1 DEF disks, stores, Acceptable, Result, IInv, OpIsSound
<1> QED
  BY <1>1, <1>2, <1>3 DEF LocalGate

LEMMA CleanVerifySound ==
  ASSUME IInv, NEW p \in Originals, CleanVerify(p)
  PROVE  op' \in Op /\ OpIsSound'
<1>0. /\ op \in Op /\ op.path = p /\ op.kind \in {"apply", "resume"} /\ op.step = "clean"
      /\ UNCHANGED <<disks, stores>> /\ Known(review[p]) /\ p \in Path /\ op.remote \in Maybe(Id)
      /\ review[p].approved \in BOOLEAN
  BY WorkingFacts, RevType DEF CleanVerify, IInv
<1>1. CASE ReviewRequired
  BY <1>0, <1>1, ReviewRequiredIsSound
<1>2. CASE op' = [op EXCEPT !.step = "clean-remote", !.left = Copies(p)]
  <2>1. Copies(p) \in SUBSET Path
    BY <1>0, CopiesType DEF Copies, IInv, OpIsSound
  <2>2. /\ op' \in Op /\ op'.step = "clean-remote" /\ op'.kind = op.kind /\ op'.path = op.path
        /\ op'.remote = op.remote /\ op'.left = Copies(p)
    BY <1>0, <1>2, <2>1 DEF Op, Steps
  <2> QED BY <1>0, <2>2 DEF disks, stores, Copies, IInv, OpIsSound
<1> QED
  BY <1>1, <1>2 DEF CleanVerify

LEMMA CleanRemoteSound ==
  ASSUME IInv, NEW p \in Originals, CleanRemote(p)
  PROVE  op' \in Op /\ OpIsSound'
<1>0. /\ op \in Op /\ op.path = p /\ op.kind \in {"apply", "resume"} /\ op.step = "clean-remote"
      /\ UNCHANGED <<disks, stores>> /\ Known(review[p]) /\ p \in Path /\ op.remote \in Maybe(Id)
      /\ review[p].approved \in BOOLEAN
  BY WorkingFacts, RevType DEF CleanRemote, IInv
<1>1. CASE ReviewRequired
  BY <1>0, <1>1, ReviewRequiredIsSound
<1>2. ASSUME NEW q \in op.left, NEW u \in Lookup(q, review[p].copies[q].remote),
             ~(Known(u) /\ u # review[p].copies[q].remote),
             op' = [op EXCEPT !.target = q, !.remote = u,
                              !.step = IF Known(u) THEN "clean-rm" ELSE "clean-local"]
      PROVE  op' \in Op /\ OpIsSound'
  <2> DEFINE seen == review[p].copies[q].remote
  <2>1. q \in DOMAIN review[p].copies /\ Known(review[p].copies)
    BY <1>0 DEF IInv, OpIsSound
  <2>2. q \in Path /\ seen \in Maybe(Id)
    BY <1>0, <2>1, CopiesType DEF IInv
  <2>3. Exists(seen)
    BY <1>0, <2>1 DEF StoresAreSound, RefsExist, Snapshots, IInv
  <2>4. u \in Maybe(Id) /\ Exists(u)
    BY <1>2, <2>2, <2>3, LookupFinds DEF StoresAreSound, IInv
  <2>5. q \in Maybe(Path)
    BY <2>2 DEF Maybe
  <2>6. CASE Known(u)
    <3>1. op' = [op EXCEPT !.target = q, !.remote = u, !.step = "clean-rm"]
      BY <1>2, <2>6
    <3>2. /\ op' \in Op /\ op'.step = "clean-rm" /\ op'.kind = op.kind /\ op'.path = op.path
          /\ op'.remote = u /\ op'.target = q /\ op'.left = op.left
      BY <1>0, <2>4, <2>5, <3>1 DEF Op, Steps
    <3> QED BY <1>0, <1>2, <2>1, <2>4, <2>6, <3>2 DEF disks, stores, IInv, OpIsSound
  <2>7. CASE ~Known(u)
    <3>1. op' = [op EXCEPT !.target = q, !.remote = u, !.step = "clean-local"]
      BY <1>2, <2>7
    <3>2. /\ op' \in Op /\ op'.step = "clean-local" /\ op'.kind = op.kind /\ op'.path = op.path
          /\ op'.remote = u /\ op'.target = q /\ op'.left = op.left
      BY <1>0, <2>4, <2>5, <3>1 DEF Op, Steps
    <3> QED BY <1>0, <1>2, <2>1, <2>4, <2>7, <3>2 DEF disks, stores, IInv, OpIsSound
  <2> QED BY <2>6, <2>7
<1> QED
  BY <1>1, <1>2 DEF CleanRemote

LEMMA CleanLocalSound ==
  ASSUME IInv, NEW p \in Originals, CleanLocal(p)
  PROVE  op' \in Op /\ OpIsSound'
<1>0. /\ op \in Op /\ op.path = p /\ op.kind \in {"apply", "resume"} /\ op.step = "clean-local"
      /\ UNCHANGED <<disks, stores>> /\ Known(review[p]) /\ p \in Path /\ op.remote \in Maybe(Id)
      /\ review[p].approved \in BOOLEAN
  BY WorkingFacts, RevType DEF CleanLocal, IInv
<1>1. CASE ReviewRequired
  BY <1>0, <1>1, ReviewRequiredIsSound
<1>2. CASE Goto("clean-forget")
  <2>1. /\ op' \in Op /\ op'.step = "clean-forget" /\ op'.kind = op.kind /\ op'.path = op.path
        /\ op'.local = op.local /\ op'.remote = op.remote /\ op'.raced = op.raced
        /\ op'.left = op.left /\ op'.target = op.target
    BY <1>0, <1>2, GotoFields DEF Steps
  <2> QED BY <1>0, <1>2, <2>1 DEF disks, stores, IInv, OpIsSound
<1>3. CASE /\ op' = [op EXCEPT !.step = "clean-trash", !.raced = {}]
           /\ local[op.target] = review[p].copies[op.target].local
  <2>1. /\ op' \in Op /\ op'.step = "clean-trash" /\ op'.kind = op.kind /\ op'.path = op.path
        /\ op'.remote = op.remote /\ op'.target = op.target /\ op'.left = op.left
    BY <1>0, <1>3 DEF Op, Steps
  <2> QED BY <1>0, <1>3, <2>1 DEF disks, stores, IInv, OpIsSound
<1> QED
  BY <1>1, <1>2, <1>3 DEF CleanLocal

LEMMA CleanEndSound ==
  ASSUME IInv, NEW p \in Originals, CleanEnd(p)
  PROVE  op' \in Op /\ OpIsSound'
<1>0. /\ op \in Op /\ op.path = p /\ op.kind \in {"apply", "resume"} /\ op.step = "clean-remote"
      /\ UNCHANGED <<disks, stores>> /\ Known(review[p]) /\ p \in Path /\ op.remote \in Maybe(Id)
      /\ review[p].approved \in BOOLEAN
  BY WorkingFacts, RevType DEF CleanEnd, IInv
<1>1. CASE ReviewRequired
  BY <1>0, <1>1, ReviewRequiredIsSound
<1>2. CASE Goto("final")
  <2>1. /\ op' \in Op /\ op'.step = "final" /\ op'.kind = op.kind /\ op'.path = op.path
        /\ op'.local = op.local /\ op'.remote = op.remote /\ op'.raced = op.raced
        /\ op'.left = op.left /\ op'.target = op.target
    BY <1>0, <1>2, GotoFields DEF Steps
  <2> QED BY <1>0, <1>2, <2>1 DEF disks, stores, IInv, OpIsSound
<1> QED
  BY <1>1, <1>2 DEF CleanEnd
-----------------------------------------------------------------------------
(* The application of a result: the steps that write *)

LEMMA ApproveSound ==
  ASSUME IInv, NEW p \in Originals, Approve(p)
  PROVE  TypeOK' /\ StoresAreSound' /\ OpIsSound'
<1>0. /\ op \in Op /\ op.path = p /\ op.kind \in {"apply", "resume"} /\ op.step = "approve"
      /\ Known(review[p]) /\ p \in Path /\ op.remote \in Maybe(Id)
      /\ op.local \in Maybe(Content) /\ op.bytes \in Maybe(Content)
      /\ review[p].approved \in BOOLEAN /\ Result(p) = review[p].result
      /\ review[p].result \in Maybe(Content)
  BY WorkingFacts, RevType DEF Approve, Result, IInv
<1>1. /\ op' \in Op /\ op'.step = "remote" /\ op'.kind = op.kind /\ op'.path = op.path
      /\ op'.local = op.local /\ op'.remote = op.remote /\ op'.raced = op.raced
      /\ op'.left = op.left /\ op'.target = op.target
  BY <1>0, GotoFields DEF Approve, Steps
<1>2. /\ StoresAreSound' /\ review' \in [Path -> Maybe(Review)] /\ recovery' \subseteq Content
      /\ Known(review'[p]) /\ review'[p].at = review[p].at /\ review'[p].approved = TRUE
  BY <1>0, ApprovalIsSound DEF Approve, IInv
<1>3. TypeOK'
  BY <1>1, <1>2 DEF TypeOK, Approve, disks, IInv
<1>4. OpIsSound'
  BY <1>0, <1>1, <1>2 DEF Approve, disks, IInv, OpIsSound
<1> QED
  BY <1>2, <1>3, <1>4

LEMMA RemoveTrashSound ==
  ASSUME IInv, NEW p \in Originals, RemoveTrash(p)
  PROVE  TypeOK' /\ StoresAreSound' /\ OpIsSound'
<1>0. /\ op \in Op /\ op.path = p /\ op.kind \in {"apply", "resume"} /\ op.step = "trash"
      /\ Known(review[p]) /\ p \in Path /\ op.remote \in Maybe(Id)
      /\ op.local \in Maybe(Content) /\ op.bytes \in Maybe(Content)
      /\ review[p].approved \in BOOLEAN /\ Result(p) = review[p].result
      /\ review[p].result \in Maybe(Content)
  BY WorkingFacts, RevType DEF RemoveTrash, Result, IInv
<1>1. /\ op' \in Op /\ op'.step = "read-back" /\ op'.kind = op.kind /\ op'.path = op.path
      /\ op'.local = op.local /\ op'.remote = op.remote /\ op'.raced = op.raced
      /\ op'.left = op.left /\ op'.target = op.target
  BY <1>0, GotoFields DEF RemoveTrash, Steps
<1>2. StoresAreSound' /\ remote' \in [Path -> Maybe(Id)]
  BY <1>0, TrashIsSound DEF RemoveTrash, IInv
<1>3. TypeOK'
  BY <1>1, <1>2 DEF TypeOK, RemoveTrash, stores, IInv
<1>4. OpIsSound'
  BY <1>0, <1>1 DEF RemoveTrash, stores, IInv, OpIsSound
<1> QED
  BY <1>2, <1>3, <1>4

LEMMA ApplyCommitSound ==
  ASSUME IInv, NEW p \in Originals, ApplyCommit(p)
  PROVE  TypeOK' /\ StoresAreSound' /\ OpIsSound'
<1>0. /\ op \in Op /\ op.path = p /\ op.kind \in {"apply", "resume"} /\ op.step = "commit"
      /\ Known(review[p]) /\ p \in Path /\ op.remote \in Maybe(Id)
      /\ op.local \in Maybe(Content) /\ op.bytes \in Maybe(Content)
      /\ review[p].approved \in BOOLEAN /\ Result(p) = review[p].result
      /\ review[p].result \in Maybe(Content)
  BY WorkingFacts, RevType DEF ApplyCommit, Result, IInv
<1>1. /\ op' \in Op /\ op'.step = "read-back" /\ op'.kind = op.kind /\ op'.path = op.path
      /\ op'.local = op.local /\ op'.remote = op.remote /\ op'.raced = op.raced
      /\ op'.left = op.left /\ op'.target = op.target
  BY <1>0, GotoFields DEF ApplyCommit, Steps
<1>2. Result(p) \in Content /\ Upload(p, Result(p)) /\ UNCHANGED stores
  BY <1>0 DEF ApplyCommit, Maybe, IInv, OpIsSound
<1>3. StoresAreSound'
  BY <1>0, <1>2, UploadIsSound DEF IInv
<1>4. /\ object' \in [Id -> Maybe(Object)] /\ remote' \in [Path -> Maybe(Id)]
      /\ \A u \in Referenced : Known(u) => object'[u] = object[u]
  BY <1>0, <1>2, UploadFacts DEF IInv
<1>5. TypeOK'
  BY <1>1, <1>2, <1>4 DEF TypeOK, ApplyCommit, stores, IInv
<1>6. Known(op.remote) => object'[op.remote] = object[op.remote]
  BY <1>4, ReferencedFacts
<1>7. OpIsSound'
  BY <1>0, <1>1, <1>2, <1>6 DEF stores, IInv, OpIsSound
<1> QED
  BY <1>3, <1>5, <1>7

LEMMA ReadBackSound ==
  ASSUME IInv, NEW p \in Originals, ReadBack(p)
  PROVE  TypeOK' /\ StoresAreSound' /\ OpIsSound'
<1>0. /\ op \in Op /\ op.path = p /\ op.kind \in {"apply", "resume"} /\ op.step = "read-back"
      /\ Known(review[p]) /\ p \in Path /\ op.remote \in Maybe(Id)
      /\ op.local \in Maybe(Content) /\ op.bytes \in Maybe(Content)
      /\ review[p].approved \in BOOLEAN /\ Result(p) = review[p].result
      /\ review[p].result \in Maybe(Content)
  BY WorkingFacts, RevType DEF ReadBack, Result, IInv
<1>1. CASE Leave /\ UNCHANGED review
  <2>1. op' \in Op /\ OpIsSound'
    BY <1>1, LeaveIsSound
  <2>2. UNCHANGED <<disks, stores, shown, spent>>
    BY <1>1 DEF ReadBack, stores
  <2> QED
    BY <2>1, <2>2, QuietIsSound, QuietType DEF IInv
<1>2. ASSUME NEW u \in Lookup(p, op.remote), Hash(u) = Result(p), op.local = op.local,
             review' = [review EXCEPT ![p].remoteApplied = TRUE], Saw("local", op.local, u)
      PROVE  TypeOK' /\ StoresAreSound' /\ OpIsSound'
  <2>1. u \in Maybe(Id) /\ Exists(u) /\ op.local \in Maybe(Content)
    BY <1>0, <1>2, LookupFinds DEF TypeOK, StoresAreSound, IInv, OpIsSound
  <2>2. /\ op' \in Op /\ op'.step = "local" /\ op'.kind = op.kind /\ op'.path = op.path
        /\ op'.local = op.local /\ op'.remote = u
    BY <1>0, <1>2, <2>1, SawFields DEF Steps
  <2>3. /\ StoresAreSound' /\ review' \in [Path -> Maybe(Review)]
        /\ Known(review'[p]) /\ review'[p].approved = review[p].approved
        /\ review'[p].result = review[p].result
    BY <1>0, <1>2, FlagIsSound DEF ReadBack, IInv
  <2>4. TypeOK'
    BY <2>2, <2>3 DEF TypeOK, ReadBack, disks, IInv
  <2>5. OpIsSound'
    BY <1>0, <1>2, <2>1, <2>2, <2>3 DEF ReadBack, disks, IInv, OpIsSound
  <2> QED
    BY <2>3, <2>4, <2>5
<1> QED
  BY <1>1, <1>2 DEF ReadBack

LEMMA VerifySound ==
  ASSUME IInv, NEW p \in Originals, Verify(p)
  PROVE  TypeOK' /\ StoresAreSound' /\ OpIsSound'
<1>0. /\ op \in Op /\ op.path = p /\ op.kind \in {"apply", "resume"} /\ op.step = "verify"
      /\ Known(review[p]) /\ p \in Path /\ op.remote \in Maybe(Id)
      /\ op.local \in Maybe(Content) /\ op.bytes \in Maybe(Content)
      /\ review[p].approved \in BOOLEAN /\ Result(p) = review[p].result
      /\ review[p].result \in Maybe(Content)
  BY WorkingFacts, RevType DEF Verify, Result, IInv
<1>1. CASE Leave /\ UNCHANGED review
  <2>1. op' \in Op /\ OpIsSound'
    BY <1>1, LeaveIsSound
  <2>2. UNCHANGED <<disks, stores, shown, spent>>
    BY <1>1 DEF Verify, stores
  <2> QED
    BY <2>1, <2>2, QuietIsSound, QuietType DEF IInv
<1>2. ASSUME NEW u \in Lookup(p, op.remote), Hash(u) = Result(p), local[p] = Result(p),
             review' = [review EXCEPT ![p].localApplied = TRUE], Saw("record", local[p], u)
      PROVE  TypeOK' /\ StoresAreSound' /\ OpIsSound'
  <2>1. u \in Maybe(Id) /\ Exists(u) /\ local[p] \in Maybe(Content)
    BY <1>0, <1>2, LookupFinds DEF TypeOK, StoresAreSound, IInv, OpIsSound
  <2>2. /\ op' \in Op /\ op'.step = "record" /\ op'.kind = op.kind /\ op'.path = op.path
        /\ op'.local = local[p] /\ op'.remote = u
    BY <1>0, <1>2, <2>1, SawFields DEF Steps
  <2>3. /\ StoresAreSound' /\ review' \in [Path -> Maybe(Review)]
        /\ Known(review'[p]) /\ review'[p].approved = review[p].approved
        /\ review'[p].result = review[p].result
    BY <1>0, <1>2, FlagIsSound DEF Verify, IInv
  <2>4. TypeOK'
    BY <2>2, <2>3 DEF TypeOK, Verify, disks, IInv
  <2>5. OpIsSound'
    BY <1>0, <1>2, <2>1, <2>2, <2>3 DEF Verify, disks, IInv, OpIsSound
  <2> QED
    BY <2>3, <2>4, <2>5
<1> QED
  BY <1>1, <1>2 DEF Verify

LEMMA LocalWriteSound ==
  ASSUME IInv, NEW p \in Originals, LocalWrite(p)
  PROVE  TypeOK' /\ StoresAreSound' /\ OpIsSound'
<1>0. /\ op \in Op /\ op.path = p /\ op.kind \in {"apply", "resume"} /\ op.step = "write"
      /\ Known(review[p]) /\ p \in Path /\ op.remote \in Maybe(Id)
      /\ op.local \in Maybe(Content) /\ op.bytes \in Maybe(Content)
      /\ review[p].approved \in BOOLEAN /\ Result(p) = review[p].result
      /\ review[p].result \in Maybe(Content)
  BY WorkingFacts, RevType DEF LocalWrite, Result, IInv
<1>1. /\ op' \in Op /\ op'.step = "verify" /\ op'.kind = op.kind /\ op'.path = op.path
      /\ op'.local = op.local /\ op'.remote = op.remote /\ op'.raced = op.raced
      /\ op'.left = op.left /\ op'.target = op.target
  BY <1>0, GotoFields DEF LocalWrite, Steps
<1>2. local' \in [Path -> Maybe(Content)]
  BY <1>0 DEF LocalWrite, TypeOK, IInv
<1>3. StoresAreSound'
  BY LocalIsFree DEF LocalWrite, IInv
<1>4. TypeOK'
  BY <1>1, <1>2 DEF TypeOK, LocalWrite, stores, IInv
<1>5. OpIsSound'
  BY <1>0, <1>1 DEF LocalWrite, stores, IInv, OpIsSound
<1> QED
  BY <1>3, <1>4, <1>5

LEMMA RecordResultSound ==
  ASSUME IInv, NEW p \in Originals, RecordResult(p)
  PROVE  TypeOK' /\ StoresAreSound' /\ OpIsSound'
<1>0. /\ op \in Op /\ op.path = p /\ op.kind \in {"apply", "resume"} /\ op.step = "record"
      /\ Known(review[p]) /\ p \in Path /\ op.remote \in Maybe(Id)
      /\ op.local \in Maybe(Content) /\ op.bytes \in Maybe(Content)
      /\ review[p].approved \in BOOLEAN /\ Result(p) = review[p].result
      /\ review[p].result \in Maybe(Content)
  BY WorkingFacts, RevType DEF RecordResult, Result, IInv
<1> DEFINE r == IF Known(Result(p)) THEN [hash |-> op.local, uuid |-> op.remote] ELSE None
           s == IF Known(review[p].copies) THEN "clean" ELSE "final"
<1>1. /\ op' \in Op /\ op'.step = s /\ op'.kind = op.kind /\ op'.path = op.path
      /\ op'.local = op.local /\ op'.remote = op.remote
  <2>1. s \in Steps
    BY DEF Steps
  <2>2. Goto(s)
    BY DEF RecordResult
  <2> HIDE DEF s
  <2> QED BY <1>0, <2>1, <2>2, GotoFields
<1>2. op.local = Result(p) /\ Hash(op.remote) = Result(p)
  BY <1>0 DEF IInv, OpIsSound
<1>3. Known(Result(p)) => op.local \in Content /\ op.remote \in Id /\ Known(object[op.remote])
  BY <1>0, <1>2 DEF Maybe, IInv, OpIsSound
<1>4. r \in Maybe(Record) /\ (Known(r) => Known(object[r.uuid]) /\ r.hash = Hash(r.uuid))
  BY <1>2, <1>3 DEF Record, Maybe
<1>5. base' = [base EXCEPT ![p] = r]
  BY DEF RecordResult
<1>6. StoresAreSound' /\ base' \in [Path -> Maybe(Record)]
  <2> HIDE DEF r
  <2> QED BY <1>0, <1>4, <1>5, BaseIsSound DEF RecordResult, IInv
<1>7. base'[p] = r
  BY <1>0, <1>5 DEF TypeOK, IInv
<1>8. HistoryOf(p)' = Result(p)
  <2>1. CASE Known(Result(p))
    <3>1. r = [hash |-> op.local, uuid |-> op.remote] /\ Known(r)
      BY <1>3, <2>1, UnknownAssumption DEF Record
    <3> QED BY <1>2, <1>7, <3>1
  <2>2. CASE ~Known(Result(p))
    BY <1>7, <2>2
  <2> QED BY <2>1, <2>2
<1>9. TypeOK'
  BY <1>1, <1>6 DEF TypeOK, RecordResult, disks, IInv
<1>10. OpIsSound'
  <2> HIDE DEF r
  <2>1. CASE Known(review[p].copies)
    BY <1>0, <1>1, <1>8, <2>1 DEF RecordResult, disks, IInv, OpIsSound
  <2>2. CASE ~Known(review[p].copies)
    BY <1>0, <1>1, <1>8, <2>2 DEF RecordResult, disks, IInv, OpIsSound
  <2> QED BY <2>1, <2>2
<1> QED
  BY <1>6, <1>9, <1>10
(* The copy being cleaned up is another file than the one in conflict. *)
LEMMA TargetFacts ==
  ASSUME IInv, NEW p \in Originals, op.path = p, op.step \in Targeting
  PROVE  op.target \in Path /\ op.target # p /\ op.target \in DOMAIN review[p].copies
<1>1. p \in Path /\ Known(review[p]) /\ Known(review[p].copies) /\ op.target \in DOMAIN review[p].copies
  BY OriginalsArePaths DEF IInv, OpIsSound
<1>2. DOMAIN review[p].copies \subseteq CopiesOf[p] /\ DOMAIN review[p].copies \subseteq Path
  BY <1>1, CopiesType DEF StoresAreSound, RecordsAreKept, RecordIsKept, IInv
<1>3. p \notin CopiesOf[p]
  BY <1>1 DEF Originals
<1> QED BY <1>1, <1>2, <1>3

LEMMA CleanRemoveSound ==
  ASSUME IInv, NEW p \in Originals, CleanRemove(p)
  PROVE  TypeOK' /\ StoresAreSound' /\ OpIsSound'
<1>0. /\ op \in Op /\ op.path = p /\ op.kind \in {"apply", "resume"} /\ op.step = "clean-rm"
      /\ Known(review[p]) /\ p \in Path /\ op.remote \in Maybe(Id)
      /\ op.local \in Maybe(Content) /\ op.bytes \in Maybe(Content)
      /\ review[p].approved \in BOOLEAN /\ Result(p) = review[p].result
      /\ review[p].result \in Maybe(Content)
  BY WorkingFacts, RevType DEF CleanRemove, Result, IInv
<1>1. /\ op' \in Op /\ op'.step = "clean-local" /\ op'.kind = op.kind /\ op'.path = op.path
      /\ op'.local = op.local /\ op'.remote = op.remote /\ op'.raced = op.raced
      /\ op'.left = op.left /\ op'.target = op.target
  BY <1>0, GotoFields DEF CleanRemove, Steps
<1>2. op.target \in Path
  BY <1>0, TargetFacts
<1>3. StoresAreSound' /\ remote' \in [Path -> Maybe(Id)]
  BY <1>2, TrashIsSound DEF CleanRemove, IInv
<1>4. TypeOK'
  BY <1>1, <1>3 DEF TypeOK, CleanRemove, stores, IInv
<1>5. OpIsSound'
  BY <1>0, <1>1 DEF CleanRemove, stores, IInv, OpIsSound
<1> QED
  BY <1>3, <1>4, <1>5

LEMMA CleanTrashSound ==
  ASSUME IInv, NEW p \in Originals, CleanTrash(p)
  PROVE  TypeOK' /\ StoresAreSound' /\ OpIsSound'
<1>0. /\ op \in Op /\ op.path = p /\ op.kind \in {"apply", "resume"} /\ op.step = "clean-trash"
      /\ Known(review[p]) /\ p \in Path /\ op.remote \in Maybe(Id)
      /\ op.local \in Maybe(Content) /\ op.bytes \in Maybe(Content)
      /\ review[p].approved \in BOOLEAN /\ Result(p) = review[p].result
      /\ review[p].result \in Maybe(Content)
  BY WorkingFacts, RevType DEF CleanTrash, Result, IInv
<1>1. /\ op' \in Op /\ op'.step = "clean-forget" /\ op'.kind = op.kind /\ op'.path = op.path
      /\ op'.local = op.local /\ op'.remote = op.remote /\ op'.raced = op.raced
      /\ op'.left = op.left /\ op'.target = op.target
  BY <1>0, GotoFields DEF CleanTrash, Steps
<1>2. local' \in [Path -> Maybe(Content)]
  BY <1>0 DEF CleanTrash, TypeOK, Maybe, IInv
<1>3. StoresAreSound'
  BY LocalIsFree DEF CleanTrash, IInv
<1>4. TypeOK'
  BY <1>1, <1>2 DEF TypeOK, CleanTrash, stores, IInv
<1>5. OpIsSound'
  BY <1>0, <1>1 DEF CleanTrash, stores, IInv, OpIsSound
<1> QED
  BY <1>3, <1>4, <1>5

LEMMA CleanForgetSound ==
  ASSUME IInv, NEW p \in Originals, CleanForget(p)
  PROVE  TypeOK' /\ StoresAreSound' /\ OpIsSound'
<1>0. /\ op \in Op /\ op.path = p /\ op.kind \in {"apply", "resume"} /\ op.step = "clean-forget"
      /\ Known(review[p]) /\ p \in Path /\ op.remote \in Maybe(Id)
      /\ op.local \in Maybe(Content) /\ op.bytes \in Maybe(Content)
      /\ review[p].approved \in BOOLEAN /\ Result(p) = review[p].result
      /\ review[p].result \in Maybe(Content)
  BY WorkingFacts, RevType DEF CleanForget, Result, IInv
<1>1. op.target \in Path /\ op.target # p
  BY <1>0, TargetFacts
<1>2. /\ op' \in Op /\ op'.step = "clean-remote" /\ op'.kind = op.kind /\ op'.path = op.path
      /\ op'.remote = op.remote /\ op'.left = op.left \ {op.target}
  <2>1. None \in Maybe(Path) /\ op.left \ {op.target} \in SUBSET Path
    BY <1>0 DEF Maybe, Op
  <2>2. op' = [op EXCEPT !.step = "clean-remote", !.left = @ \ {op.target}, !.target = None]
    BY DEF CleanForget
  <2> QED BY <1>0, <2>1, <2>2 DEF Op, Steps
<1>3. base' = [base EXCEPT ![op.target] = None]
  BY DEF CleanForget
<1>4. StoresAreSound' /\ base' \in [Path -> Maybe(Record)]
  BY <1>1, <1>3, BaseIsSound DEF CleanForget, Maybe, IInv
<1>5. HistoryOf(p)' = HistoryOf(p)
  BY <1>0, <1>1, <1>3 DEF TypeOK
<1>6. TypeOK'
  BY <1>2, <1>4 DEF TypeOK, CleanForget, disks, IInv
<1>7. OpIsSound'
  BY <1>0, <1>2, <1>5 DEF CleanForget, disks, IInv, OpIsSound
<1> QED
  BY <1>4, <1>6, <1>7

LEMMA ResolveSound ==
  ASSUME IInv, NEW p \in Originals, Resolve(p)
  PROVE  TypeOK' /\ StoresAreSound' /\ OpIsSound'
<1>0. /\ op \in Op /\ op.path = p /\ op.kind \in {"apply", "resume"} /\ op.step = "final"
      /\ Known(review[p]) /\ p \in Path /\ op.remote \in Maybe(Id)
      /\ op.local \in Maybe(Content) /\ op.bytes \in Maybe(Content)
      /\ review[p].approved \in BOOLEAN /\ Result(p) = review[p].result
      /\ review[p].result \in Maybe(Content)
  BY WorkingFacts, RevType DEF Resolve, Result, IInv
<1>1. op' \in Op /\ OpIsSound'
  BY LeaveIsSound DEF Resolve
<1>2. CASE UNCHANGED review
  <2>1. UNCHANGED <<disks, stores, shown, spent>>
    BY <1>2 DEF Resolve, stores
  <2> QED
    BY <1>1, <2>1, QuietIsSound, QuietType DEF IInv
<1>3. CASE review' = [review EXCEPT ![p] = None]
  <2>1. StoresAreSound' /\ review' \in [Path -> Maybe(Review)]
    BY <1>0, <1>3, ReviewIsSound DEF Resolve, Maybe, TypeOK, IInv
  <2>2. TypeOK'
    BY <1>1, <2>1 DEF TypeOK, Resolve, disks, IInv
  <2> QED
    BY <1>1, <2>1, <2>2
<1> QED
  BY <1>2, <1>3 DEF Resolve
-----------------------------------------------------------------------------
(* Captures and reviews *)

LEMMA CapturingFacts ==
  ASSUME IInv, NEW p \in Originals, op.path = p, op.step \in CaptureSteps
  PROVE  /\ op \in Op /\ p \in Path /\ op.kind \in {"review", "conflict", "auto", "apply", "resume"}
         /\ op.remote \in Maybe(Id) /\ op.local \in Maybe(Content)
BY OriginalsArePaths DEF TypeOK, Op, Kinds, IInv, OpIsSound

LEMMA AfterCaptureIsSound ==
  ASSUME IInv, op.step \in CaptureSteps, op.kind # "none",
         NEW l, NEW u, AfterCapture(l, u), Known(review'[op.path]), UNCHANGED object
  PROVE  op' \in Op /\ OpIsSound'
<1>0. op \in Op
  BY DEF TypeOK, IInv
<1>1. CASE op.kind = "review" /\ Goto("collect")
  <2>1. /\ op' \in Op /\ op'.step = "collect" /\ op'.kind = "review" /\ op'.path = op.path
        /\ op'.remote = op.remote
    BY <1>0, <1>1, GotoFields DEF Steps
  <2> QED BY <2>1 DEF IInv, OpIsSound
<1>2. ASSUME NEW merged \in Content,
             op' = [op EXCEPT !.kind = "apply", !.step = "begin", !.bytes = merged,
                              !.local = None, !.remote = None]
      PROVE  op' \in Op /\ OpIsSound'
  <2>1. op' \in Op /\ op'.kind = "apply" /\ op'.step = "begin" /\ op'.path = op.path /\ op'.remote = None
    BY <1>0, <1>2, MergeFields
  <2> QED BY <2>1 DEF IInv, OpIsSound
<1>3. CASE Leave
  BY <1>3, LeaveIsSound
<1> QED BY <1>1, <1>2, <1>3 DEF AfterCapture

LEMMA CaptureReadSound ==
  ASSUME IInv, NEW p \in Originals, CaptureRead(p)
  PROVE  op' \in Op /\ OpIsSound'
<1>0. /\ op \in Op /\ op.path = p /\ p \in Path /\ op.remote \in Maybe(Id) /\ op.step = "capture"
      /\ op.kind \in {"review", "conflict", "auto", "apply", "resume"} /\ UNCHANGED <<disks, stores>>
  BY CapturingFacts DEF CaptureRead
<1>1. PICK u \in Lookup(p, op.remote) :
        \/ Leave \/ Saw("publish", local[p], u)
        \/ Known(review[p]) /\ AfterCapture(local[p], u)
  BY DEF CaptureRead
<1>2. u \in Maybe(Id) /\ Exists(u) /\ local[p] \in Maybe(Content)
  BY <1>0, LookupFinds DEF TypeOK, StoresAreSound, IInv, OpIsSound
<1>3. CASE Leave
  BY <1>3, LeaveIsSound
<1>4. CASE Saw("publish", local[p], u)
  <2>1. /\ op' \in Op /\ op'.step = "publish" /\ op'.kind = op.kind /\ op'.path = op.path
        /\ op'.remote = u
    BY <1>0, <1>2, <1>4, SawFields DEF Steps
  <2> QED BY <1>0, <1>2, <2>1 DEF disks, IInv, OpIsSound
<1>5. CASE Known(review[p]) /\ AfterCapture(local[p], u)
  <2>1. Known(review'[op.path]) /\ UNCHANGED object /\ op.kind # "none"
    BY <1>0, <1>5 DEF disks, stores
  <2> QED BY <1>0, <1>5, <2>1, AfterCaptureIsSound
<1> QED BY <1>1, <1>3, <1>4, <1>5

LEMMA PreserveAdds ==
  ASSUME TypeOK, NEW C \in SUBSET Maybe(Content), Preserve(C)
  PROVE  /\ recovery \subseteq recovery' /\ recovery' \subseteq Content
         /\ \A c \in C : Known(c) => c \in recovery'
BY DEF Preserve, TypeOK, Maybe

LEMMA PublishSound ==
  ASSUME IInv, NEW p \in Originals, Publish(p)
  PROVE  TypeOK' /\ StoresAreSound' /\ OpIsSound'
<1> DEFINE r == [at |-> [local |-> op.local, remote |-> op.remote],
                 copies |-> IF Known(review[p]) THEN review[p].copies ELSE None,
                 approved |-> FALSE, result |-> None,
                 remoteApplied |-> FALSE, localApplied |-> FALSE]
<1>0. /\ op \in Op /\ op.path = p /\ p \in Path /\ op.remote \in Maybe(Id) /\ op.step = "publish"
      /\ op.local \in Maybe(Content) /\ op.kind \in {"review", "conflict", "auto", "apply", "resume"}
  BY CapturingFacts DEF Publish
<1>1. Hash(op.remote) \in Maybe(Content)
  <2>1. CASE Known(op.remote)
    <3>1. object[op.remote] \in Object
      BY <1>0, <2>1 DEF TypeOK, Maybe, IInv, OpIsSound
    <3> QED BY <2>1, <3>1 DEF Object, Maybe
  <2>2. CASE ~Known(op.remote)
    BY <2>2 DEF Maybe
  <2> QED BY <2>1, <2>2
<1>2. /\ recovery \subseteq recovery' /\ recovery' \subseteq Content
      /\ (Known(op.local) => op.local \in recovery')
  <2>1. {op.local, Hash(op.remote)} \in SUBSET Maybe(Content)
    BY <1>0, <1>1
  <2> QED BY <2>1, PreserveAdds DEF Publish, IInv
<1>3. CASE Leave /\ UNCHANGED <<review, shown>>
  <2>1. op' \in Op /\ OpIsSound'
    BY <1>3, LeaveIsSound
  <2>2. StoresAreSound'
    <3>1. UNCHANGED <<disks, base, review>>
      BY <1>3 DEF Publish
    <3>2. RecordsAreKept'
      BY <1>2, <3>1 DEF StoresAreSound, RecordsAreKept, RecordIsKept, IInv
    <3> QED BY <3>1, <3>2 DEF StoresAreSound, RefsExist, RemoteIsOfItsPath, HistoryIsHonest, disks, Snapshots, IInv
  <2>3. TypeOK'
    BY <1>2, <1>3, <2>1 DEF TypeOK, Publish, disks, IInv
  <2> QED BY <2>1, <2>2, <2>3
<1>4. CASE review' = [review EXCEPT ![p] = r] /\ shown' = FALSE /\ AfterCapture(op.local, op.remote)
  <2>1. Known(review[p]) => review[p] \in Review
    BY <1>0, RevType DEF IInv
  <2>2. r \in Review
    BY <1>0, <2>1 DEF Review, Snapshot, Maybe
  <2>3. Known(r) /\ r \in Maybe(Review)
    <3> HIDE DEF r
    <3> QED BY <2>2, UnknownAssumption DEF Maybe
  <2>4. /\ r.at = [local |-> op.local, remote |-> op.remote] /\ r.approved = FALSE /\ r.result = None
        /\ r.copies = IF Known(review[p]) THEN review[p].copies ELSE None
    OBVIOUS
  <2>5. Known(r.copies) => Known(review[p]) /\ r.copies = review[p].copies
    BY <2>4
  <2> HIDE DEF r
  <2>6. RecordIsKept(p, r, recovery')
    <3>1. Known(review[p]) => RecordIsKept(p, review[p], recovery)
      BY <1>0 DEF StoresAreSound, RecordsAreKept, IInv
    <3> QED BY <1>2, <2>4, <2>5, <3>1 DEF RecordIsKept
  <2>7. \A s \in Snapshots(r) : Exists(s.remote)
    <3>1. Known(review[p]) => \A s \in Snapshots(review[p]) : Exists(s.remote)
      BY <1>0 DEF StoresAreSound, RefsExist, IInv
    <3> QED BY <2>4, <2>5, <3>1 DEF Snapshots, IInv, OpIsSound
  <2>8. StoresAreSound' /\ review' \in [Path -> Maybe(Review)]
    BY <1>0, <1>2, <1>4, <2>3, <2>6, <2>7, ReviewIsSound DEF Publish, IInv
  <2>9. review'[op.path] = r
    BY <1>0, <1>4 DEF TypeOK, IInv
  <2>10. op' \in Op /\ OpIsSound'
    BY <1>0, <1>4, <2>3, <2>9, AfterCaptureIsSound DEF Publish, disks
  <2>11. TypeOK'
    BY <1>2, <1>4, <2>8, <2>10 DEF TypeOK, Publish, disks, IInv
  <2> QED BY <2>8, <2>10, <2>11
<1> QED
  BY <1>0, <1>3, <1>4 DEF Publish
LEMMA CollectSound ==
  ASSUME IInv, NEW p \in Originals, Collect(p)
  PROVE  TypeOK' /\ StoresAreSound' /\ OpIsSound'
<1>1. p \in Path /\ Known(review[p])
  BY OriginalsArePaths DEF Collect, At, IInv, OpIsSound
<1>2. op' \in Op /\ OpIsSound'
  BY LeaveIsSound DEF Collect
<1>3. StoresAreSound' /\ review' \in [Path -> Maybe(Review)] /\ recovery' \subseteq Content
  BY <1>1, CollectionIsSound DEF IInv
<1>4. TypeOK'
  BY <1>2, <1>3 DEF TypeOK, Collect, disks, IInv
<1> QED BY <1>2, <1>3, <1>4

-----------------------------------------------------------------------------
(* What begins *)

LEMMA StartConflictSound ==
  ASSUME IInv, NEW p \in Originals, StartConflict(p)
  PROVE  op' \in Op /\ OpIsSound'
<1>0. p \in Path /\ UNCHANGED <<disks, stores>>
  BY OriginalsArePaths DEF StartConflict
<1>1. PICK k \in {"conflict", "auto"} :
        op' = [NoOp EXCEPT !.kind = k, !.path = p, !.step = "capture",
                           !.local = local[p], !.remote = remote[p]]
  BY DEF StartConflict
<1>2. k \in Kinds /\ "capture" \in Steps
  BY DEF Kinds, Steps
<1>3. local[p] \in Maybe(Content) /\ remote[p] \in Maybe(Id) /\ Exists(remote[p])
  BY <1>0 DEF TypeOK, StoresAreSound, RefsExist, IInv
<1>4. op' \in Op /\ op'.kind = k /\ op'.path = p /\ op'.step = "capture" /\ op'.remote = remote[p]
  BY <1>0, <1>1, <1>2, <1>3 DEF NoOp, Op, Maybe
<1> QED BY <1>0, <1>3, <1>4 DEF disks, IInv, OpIsSound

LEMMA StartResumeSound ==
  ASSUME IInv, NEW p \in Originals, StartResume(p)
  PROVE  op' \in Op /\ OpIsSound'
<1>0. p \in Path /\ UNCHANGED <<disks, stores>> /\ Known(review[p]) /\ "resume" \in Kinds
  BY OriginalsArePaths DEF StartResume, Kinds
<1>1. PICK s \in {"resume", "capture"} :
        op' = [NoOp EXCEPT !.kind = "resume", !.path = p, !.step = s]
  BY DEF StartResume
<1>2. s \in Steps
  BY DEF Steps
<1>3. op' \in Op /\ op'.kind = "resume" /\ op'.path = p /\ op'.step = s /\ op'.remote = None
  BY <1>0, <1>1, <1>2, StartFields
<1> QED BY <1>0, <1>3 DEF stores, IInv, OpIsSound

LEMMA StartApplySound ==
  ASSUME IInv, NEW p \in Originals, NEW bytes \in Maybe(Content), StartApply(p, bytes)
  PROVE  op' \in Op /\ OpIsSound'
<1>0. p \in Path /\ UNCHANGED <<disks, stores>> /\ Known(review[p]) /\ "apply" \in Kinds /\ "begin" \in Steps
  BY OriginalsArePaths DEF StartApply, Kinds, Steps
<1>1. op' \in Op /\ op'.kind = "apply" /\ op'.path = p /\ op'.step = "begin" /\ op'.remote = None
  BY <1>0, StartBytesFields DEF StartApply
<1> QED BY <1>0, <1>1 DEF stores, IInv, OpIsSound

LEMMA OpenReviewSound ==
  ASSUME IInv, NEW p \in Originals, OpenReview(p)
  PROVE  op' \in Op /\ OpIsSound' /\ shown' \in BOOLEAN
<1>0. /\ p \in Path /\ UNCHANGED <<disks, stores>> /\ "review" \in Kinds /\ "capture" \in Steps
      /\ shown \in BOOLEAN /\ op \in Op
  BY OriginalsArePaths DEF OpenReview, Kinds, Steps, TypeOK, IInv
<1>1. CASE UNCHANGED op /\ shown' = TRUE
  BY <1>0, <1>1 DEF disks, stores, IInv, OpIsSound
<1>2. CASE op' = [NoOp EXCEPT !.kind = "review", !.path = p, !.step = "capture"] /\ UNCHANGED shown
  <2>1. op' \in Op /\ op'.kind = "review" /\ op'.path = p /\ op'.step = "capture" /\ op'.remote = None
    BY <1>0, <1>2, StartFields
  <2> QED BY <1>0, <1>2, <2>1 DEF IInv, OpIsSound
<1> QED BY <1>1, <1>2 DEF OpenReview

LEMMA StartForceSound ==
  ASSUME IInv, NEW p \in Originals, StartForce(p)
  PROVE  op' \in Op /\ OpIsSound'
<1>0. p \in Path /\ "force" \in Kinds /\ "look" \in Steps
  BY OriginalsArePaths DEF Kinds, Steps
<1>1. op' \in Op /\ op'.kind = "force" /\ op'.path = p /\ op'.step = "look" /\ op'.remote = None
      /\ op'.target = None
  BY <1>0, StartFields DEF StartForce
<1> QED BY <1>0, <1>1 DEF IInv, OpIsSound

LEMMA StartRestoreSound ==
  ASSUME IInv, NEW p \in Originals, StartRestore(p)
  PROVE  op' \in Op /\ OpIsSound'
<1>0. p \in Path /\ UNCHANGED <<disks, stores>> /\ "restore" \in Kinds /\ "current" \in Steps
  BY OriginalsArePaths DEF StartRestore, Kinds, Steps
<1>1. ASSUME NEW c \in recovery,
             op' = [NoOp EXCEPT !.kind = "restore", !.path = p, !.step = "current", !.bytes = c]
      PROVE  op' \in Op /\ OpIsSound'
  <2>1. c \in Maybe(Content)
    BY DEF TypeOK, Maybe, IInv
  <2>2. op' \in Op /\ op'.kind = "restore" /\ op'.path = p /\ op'.step = "current" /\ op'.remote = None
    BY <1>0, <1>1, <2>1, StartBytesFields
  <2> QED BY <1>0, <2>2 DEF IInv, OpIsSound
<1>2. ASSUME NEW u \in Versions(p),
             op' = [NoOp EXCEPT !.kind = "restore", !.path = p, !.step = "current", !.remote = u]
      PROVE  op' \in Op /\ OpIsSound'
  <2>1. u \in Maybe(Id) /\ Known(object[u]) /\ object[u].path = p
    BY DEF Versions, Earlier, Maybe
  <2>2. op' \in Op /\ op'.kind = "restore" /\ op'.path = p /\ op'.step = "current" /\ op'.remote = u
    BY <1>0, <1>2, <2>1 DEF NoOp, Op, Maybe
  <2> QED BY <1>0, <2>1, <2>2 DEF disks, IInv, OpIsSound
<1> QED BY <1>1, <1>2 DEF StartRestore

LEMMA StartUndeleteSound ==
  ASSUME IInv, NEW p \in Originals, StartUndelete(p)
  PROVE  op' \in Op /\ OpIsSound'
<1>0. p \in Path /\ UNCHANGED <<disks, stores>> /\ "undelete" \in Kinds /\ "vacant" \in Steps
  BY OriginalsArePaths DEF StartUndelete, Kinds, Steps
<1>1. PICK u \in Deleted(p) :
        op' = [NoOp EXCEPT !.kind = "undelete", !.path = p, !.step = "vacant", !.remote = u]
  BY DEF StartUndelete
<1>2. u \in Maybe(Id) /\ Known(object[u]) /\ object[u].path = p
  BY DEF Deleted, Earlier, Maybe
<1>3. op' \in Op /\ op'.kind = "undelete" /\ op'.path = p /\ op'.step = "vacant" /\ op'.remote = u
  BY <1>0, <1>1, <1>2 DEF NoOp, Op, Maybe
<1> QED BY <1>0, <1>2, <1>3 DEF disks, IInv, OpIsSound
-----------------------------------------------------------------------------
(* A forced upload *)

LEMMA ForcingFacts ==
  ASSUME IInv, NEW s \in ForceSteps, Forcing(s)
  PROVE  /\ op \in Op /\ op.kind = "force" /\ op.step = s /\ op.path \in Path
         /\ op.remote \in Maybe(Id) /\ op.raced \in SUBSET {"local", "remote"}
         /\ op.consent \in BOOLEAN
BY DEF Forcing, At, TypeOK, Op, IInv, OpIsSound

LEMMA ForceLookSound ==
  ASSUME IInv, ForceLook
  PROVE  op' \in Op /\ OpIsSound'
<1>0. /\ op \in Op /\ op.kind = "force" /\ op.step = "look" /\ op.path \in Path
      /\ UNCHANGED <<disks, stores>>
  BY ForcingFacts DEF ForceLook
<1>1. CASE Leave
  BY <1>1, LeaveIsSound
<1>2. ASSUME NEW asked \in BOOLEAN, IsRemoteChangedSinceBaseline(op.path) => asked,
             op' = [op EXCEPT !.step = "read", !.remote = remote[op.path],
                              !.consent = asked, !.raced = {}]
      PROVE  op' \in Op /\ OpIsSound'
  <2>1. remote[op.path] \in Maybe(Id) /\ Exists(remote[op.path]) /\ op.target = None
        /\ (Known(remote[op.path]) => object[remote[op.path]].path = op.path)
    BY <1>0 DEF TypeOK, StoresAreSound, RefsExist, RemoteIsOfItsPath, IInv, OpIsSound
  <2>2. "read" \in Steps /\ {} \in SUBSET {"local", "remote"}
    BY DEF Steps
  <2>3. /\ op' \in Op /\ op'.step = "read" /\ op'.kind = "force" /\ op'.path = op.path
        /\ op'.remote = remote[op.path] /\ op'.consent = asked /\ op'.target = None
    BY <1>0, <1>2, <2>1, <2>2 DEF Op
  <2>4. Known(remote[op.path]) => asked \/ (Known(base[op.path]) /\ base[op.path].uuid = remote[op.path])
    BY <1>2 DEF IsRemoteChangedSinceBaseline
  <2> QED BY <1>0, <2>1, <2>3, <2>4 DEF disks, stores, IInv, OpIsSound
<1> QED BY <1>1, <1>2 DEF ForceLook

LEMMA ForceReadSound ==
  ASSUME IInv, ForceRead
  PROVE  op' \in Op /\ OpIsSound'
<1>0. /\ op \in Op /\ op.kind = "force" /\ op.step = "read" /\ op.path \in Path
      /\ op.raced \in SUBSET {"local", "remote"} /\ UNCHANGED <<disks, stores>>
  BY ForcingFacts DEF ForceRead
<1>1. CASE Leave
  BY <1>1, LeaveIsSound
<1>2. CASE Known(local[op.path]) /\
           op' = [op EXCEPT !.step = "stat", !.bytes = local[op.path], !.target = op.path,
                            !.raced = @ \ {"local"}]
  <2>1. local[op.path] \in Content
    BY <1>0, <1>2 DEF TypeOK, Maybe, IInv
  <2>2. "stat" \in Steps /\ op.raced \ {"local"} \in SUBSET {"local", "remote"}
        /\ op.path \in Maybe(Path) /\ local[op.path] \in Maybe(Content)
    BY <1>0, <2>1 DEF Steps, Maybe
  <2>3. /\ op' \in Op /\ op'.step = "stat" /\ op'.kind = "force" /\ op'.path = op.path
        /\ op'.remote = op.remote /\ op'.consent = op.consent /\ op'.target = op.path
        /\ op'.bytes = local[op.path] /\ op'.raced = op.raced \ {"local"}
    BY <1>0, <1>2, <2>2 DEF Op
  <2> QED BY <1>0, <2>1, <2>3 DEF disks, stores, IInv, OpIsSound
<1> QED BY <1>1, <1>2 DEF ForceRead

LEMMA ForceStatSound ==
  ASSUME IInv, ForceStat
  PROVE  op' \in Op /\ OpIsSound'
<1>0. /\ op \in Op /\ op.kind = "force" /\ op.step = "stat" /\ op.path \in Path
      /\ op.remote \in Maybe(Id) /\ op.target \in Path /\ op.bytes \in Content
      /\ op.raced \in SUBSET {"local", "remote"} /\ UNCHANGED <<disks, stores>>
  BY ForcingFacts DEF ForceStat, IInv, OpIsSound
<1>1. CASE Leave
  BY <1>1, LeaveIsSound
<1>2. ASSUME op.remote \in Lookup(op.target, op.remote),
             op' = [op EXCEPT !.step = "upload",
                              !.raced = IF Known(op.remote) THEN @ ELSE @ \ {"remote"}]
      PROVE  op' \in Op /\ OpIsSound'
  <2>1. "upload" \in Steps /\ op.raced \ {"remote"} \in SUBSET {"local", "remote"}
    BY <1>0 DEF Steps
  <2>2. /\ op' \in Op /\ op'.step = "upload" /\ op'.kind = "force" /\ op'.path = op.path
        /\ op'.remote = op.remote /\ op'.consent = op.consent /\ op'.target = op.target
        /\ op'.bytes = op.bytes /\ (Known(op.remote) => op'.raced = op.raced)
    BY <1>0, <1>2, <2>1 DEF Op
  <2>3. Known(op.remote) => object[op.remote].path = op.target
    BY <1>0, <1>2, LookupFinds DEF StoresAreSound, IInv, OpIsSound
  <2>4. ~Known(op.remote) => ~Known(remote[op.target])
    BY <1>2 DEF Lookup
  <2> QED BY <1>0, <2>2, <2>3, <2>4 DEF disks, stores, IInv, OpIsSound
<1> QED BY <1>1, <1>2 DEF ForceStat

LEMMA ForceCommitSound ==
  ASSUME IInv, ForceCommit
  PROVE  TypeOK' /\ StoresAreSound' /\ OpIsSound'
<1>0. /\ op \in Op /\ op.kind = "force" /\ op.step = "upload" /\ op.path \in Path
      /\ op.target \in Path /\ op.bytes \in Content
  BY ForcingFacts DEF ForceCommit, IInv, OpIsSound
<1>1. Upload(op.target, op.bytes) /\ UNCHANGED <<local, stores, shown, spent>>
      /\ op' = [op EXCEPT !.step = "history", !.remote = NewId]
  BY DEF ForceCommit
<1>2. StoresAreSound'
  BY <1>0, <1>1, UploadIsSound DEF IInv
<1>3. /\ NewId \in Id /\ Known(NewId)
      /\ object' \in [Id -> Maybe(Object)] /\ remote' \in [Path -> Maybe(Id)]
      /\ object'[NewId] = [content |-> op.bytes, path |-> op.target] /\ Known(object'[NewId])
  BY <1>0, <1>1, UploadFacts DEF IInv
<1>4. "history" \in Steps /\ NewId \in Maybe(Id)
  BY <1>3 DEF Steps, Maybe
<1> HIDE DEF NewId
<1>5. /\ op' \in Op /\ op'.step = "history" /\ op'.kind = "force" /\ op'.path = op.path
      /\ op'.remote = NewId /\ op'.target = op.target /\ op'.bytes = op.bytes
  BY <1>0, <1>1, <1>4 DEF Op
<1>6. TypeOK'
  BY <1>1, <1>3, <1>5 DEF TypeOK, stores, IInv
<1>7. object'[NewId].content = op.bytes
  BY <1>3
<1>8. OpIsSound'
  BY <1>0, <1>3, <1>5, <1>7 DEF IInv, OpIsSound
<1> QED BY <1>2, <1>6, <1>8

LEMMA ForceRecordSound ==
  ASSUME IInv, ForceRecord
  PROVE  TypeOK' /\ StoresAreSound' /\ OpIsSound'
<1>0. /\ op \in Op /\ op.kind = "force" /\ op.step = "history" /\ op.path \in Path
      /\ op.remote \in Id /\ op.bytes \in Content /\ Known(object[op.remote])
      /\ Hash(op.remote) = op.bytes
  BY ForcingFacts DEF ForceRecord, Maybe, IInv, OpIsSound
<1>1. op' \in Op /\ OpIsSound'
  BY LeaveIsSound DEF ForceRecord
<1>2. CASE UNCHANGED base
  <2>1. UNCHANGED <<disks, stores, shown, spent>>
    BY <1>2 DEF ForceRecord, stores
  <2> QED
    BY <1>1, <2>1, QuietIsSound, QuietType DEF IInv
<1>3. CASE base' = [base EXCEPT ![op.path] = [hash |-> op.bytes, uuid |-> op.remote]]
  <2> DEFINE r == [hash |-> op.bytes, uuid |-> op.remote]
  <2>1. r \in Maybe(Record) /\ r.uuid = op.remote /\ r.hash = op.bytes
    BY <1>0 DEF Record, Maybe
  <2>2. base' = [base EXCEPT ![op.path] = r] /\ UNCHANGED <<disks, review, recovery, shown, spent>>
    BY <1>3 DEF ForceRecord
  <2> HIDE DEF r
  <2>3. StoresAreSound' /\ base' \in [Path -> Maybe(Record)]
    BY <1>0, <2>1, <2>2, BaseIsSound DEF IInv
  <2>4. TypeOK'
    BY <1>1, <2>2, <2>3 DEF TypeOK, disks, IInv
  <2> QED BY <1>1, <2>3, <2>4
<1> QED BY <1>2, <1>3 DEF ForceRecord
-----------------------------------------------------------------------------
(* What is restored *)

LEMMA RestoringFacts ==
  ASSUME IInv, NEW s \in RestoreSteps \cup ReviveSteps, Restoring(s)
  PROVE  /\ op \in Op /\ op.kind \in {"restore", "undelete"} /\ op.step = s /\ op.path \in Path
         /\ op.remote \in Maybe(Id) /\ op.local \in Maybe(Content) /\ op.bytes \in Maybe(Content)
         /\ (Known(op.remote) => object[op.remote].path = op.path)
         /\ (s \in RestoreSteps => op.kind = "restore")
         /\ local[op.path] \in Maybe(Content)
BY DEF Restoring, At, TypeOK, Op, IInv, OpIsSound

LEMMA RestoreReadSound ==
  ASSUME IInv, RestoreRead
  PROVE  op' \in Op /\ OpIsSound'
<1>0. /\ op \in Op /\ op.kind = "restore" /\ op.step = "current" /\ op.path \in Path
      /\ op.remote \in Maybe(Id) /\ local[op.path] \in Maybe(Content)
      /\ (Known(op.remote) => object[op.remote].path = op.path)
      /\ UNCHANGED <<disks, stores>>
  BY RestoringFacts DEF RestoreRead
<1>1. CASE Leave
  BY <1>1, LeaveIsSound
<1>2. CASE Saw("preserve", local[op.path], op.remote)
  <2>1. /\ op' \in Op /\ op'.step = "preserve" /\ op'.kind = op.kind /\ op'.path = op.path
        /\ op'.remote = op.remote
    BY <1>0, <1>2, SawFields DEF Steps
  <2> QED BY <1>0, <2>1 DEF disks, IInv, OpIsSound
<1>3. CASE Goto("version") /\ ~Known(local[op.path])
  <2>1. /\ op' \in Op /\ op'.step = "version" /\ op'.kind = op.kind /\ op'.path = op.path
        /\ op'.remote = op.remote
    BY <1>0, <1>3, GotoFields DEF Steps
  <2> QED BY <1>0, <1>3, <2>1 DEF disks, IInv, OpIsSound
<1> QED BY <1>1, <1>2, <1>3 DEF RestoreRead

LEMMA RestorePreserveSound ==
  ASSUME IInv, RestorePreserve
  PROVE  TypeOK' /\ StoresAreSound' /\ OpIsSound'
<1>0. /\ op \in Op /\ op.kind = "restore" /\ op.step = "preserve" /\ op.path \in Path
      /\ op.remote \in Maybe(Id) /\ op.local \in Maybe(Content)
      /\ (Known(op.remote) => object[op.remote].path = op.path)
  BY RestoringFacts DEF RestorePreserve
<1>1. Goto("preserved") /\ Preserve({op.local}) /\ UNCHANGED <<disks, base, review, shown, spent>>
  BY DEF RestorePreserve
<1>2. /\ op' \in Op /\ op'.step = "preserved" /\ op'.kind = op.kind /\ op'.path = op.path
      /\ op'.remote = op.remote /\ op'.local = op.local
  BY <1>0, <1>1, GotoFields DEF Steps
<1>3. recovery \subseteq recovery' /\ recovery' \subseteq Content /\ (Known(op.local) => op.local \in recovery')
  <2>1. {op.local} \in SUBSET Maybe(Content)
    BY <1>0
  <2> QED BY <1>1, <2>1, PreserveAdds DEF IInv
<1>4. StoresAreSound'
  <2>1. RecordsAreKept'
    BY <1>1, <1>3 DEF StoresAreSound, RecordsAreKept, RecordIsKept, IInv
  <2> QED BY <1>1, <2>1 DEF StoresAreSound, RefsExist, RemoteIsOfItsPath, HistoryIsHonest, disks, Snapshots, IInv
<1>5. TypeOK'
  BY <1>1, <1>2, <1>3 DEF TypeOK, disks, IInv
<1>6. OpIsSound'
  BY <1>0, <1>1, <1>2, <1>3 DEF disks, IInv, OpIsSound
<1> QED BY <1>4, <1>5, <1>6

LEMMA RestoreRecheckSound ==
  ASSUME IInv, RestoreRecheck
  PROVE  op' \in Op /\ OpIsSound'
<1>0. /\ op \in Op /\ op.kind = "restore" /\ op.step = "preserved" /\ op.path \in Path
      /\ op.remote \in Maybe(Id) /\ op.bytes \in Maybe(Content)
      /\ (Known(op.remote) => object[op.remote].path = op.path)
      /\ UNCHANGED <<disks, stores>>
  BY RestoringFacts DEF RestoreRecheck
<1>1. CASE Leave
  BY <1>1, LeaveIsSound
<1>2. ASSUME NEW s \in {"before", "version"}, local[op.path] = op.local,
             op' = [op EXCEPT !.step = s, !.raced = {}]
      PROVE  op' \in Op /\ OpIsSound'
  <2>1. s \in Steps /\ {} \in SUBSET {"local", "remote"}
    BY DEF Steps
  <2>2. /\ op' \in Op /\ op'.step = s /\ op'.kind = op.kind /\ op'.path = op.path
        /\ op'.remote = op.remote
    BY <1>0, <1>2, <2>1 DEF Op
  <2> QED BY <1>0, <1>2, <2>2 DEF disks, stores, IInv, OpIsSound
<1> QED BY <1>1, <1>2 DEF RestoreRecheck

LEMMA RestoreBeforeSound ==
  ASSUME IInv, RestoreBefore
  PROVE  op' \in Op /\ OpIsSound'
<1>0. /\ op \in Op /\ op.kind = "restore" /\ op.step = "before" /\ op.path \in Path
      /\ op.remote \in Maybe(Id) /\ local[op.path] \in Maybe(Content)
      /\ (Known(op.remote) => object[op.remote].path = op.path)
      /\ UNCHANGED <<disks, stores>>
  BY RestoringFacts DEF RestoreBefore
<1>1. CASE Leave
  BY <1>1, LeaveIsSound
<1>2. CASE op' = [op EXCEPT !.step = "after", !.local = local[op.path]]
  <2>1. "after" \in Steps
    BY DEF Steps
  <2>2. /\ op' \in Op /\ op'.step = "after" /\ op'.kind = op.kind /\ op'.path = op.path
        /\ op'.remote = op.remote /\ op'.raced = op.raced
    BY <1>0, <1>2, <2>1 DEF Op
  <2> QED BY <1>0, <2>2 DEF disks, stores, IInv, OpIsSound
<1> QED BY <1>1, <1>2 DEF RestoreBefore

LEMMA RestoreAfterSound ==
  ASSUME IInv, RestoreAfter
  PROVE  op' \in Op /\ OpIsSound'
<1>0. /\ op \in Op /\ op.kind = "restore" /\ op.step = "after" /\ op.path \in Path
      /\ op.remote \in Maybe(Id) /\ (Known(op.remote) => object[op.remote].path = op.path)
      /\ UNCHANGED <<disks, stores>>
  BY RestoringFacts DEF RestoreAfter
<1>1. CASE Leave
  BY <1>1, LeaveIsSound
<1>2. CASE Goto("replace")
  <2>1. /\ op' \in Op /\ op'.step = "replace" /\ op'.kind = op.kind /\ op'.path = op.path
        /\ op'.remote = op.remote /\ op'.raced = op.raced
    BY <1>0, <1>2, GotoFields DEF Steps
  <2> QED BY <1>0, <2>1 DEF disks, stores, IInv, OpIsSound
<1> QED BY <1>1, <1>2 DEF RestoreAfter

LEMMA RestoreReplaceSound ==
  ASSUME IInv, RestoreReplace
  PROVE  TypeOK' /\ StoresAreSound' /\ OpIsSound'
<1>0. op.path \in Path /\ op.bytes \in Maybe(Content)
  BY RestoringFacts DEF RestoreReplace
<1>1. op' \in Op /\ OpIsSound'
  BY LeaveIsSound DEF RestoreReplace
<1>2. local' \in [Path -> Maybe(Content)]
  BY <1>0 DEF RestoreReplace, TypeOK, IInv
<1>3. StoresAreSound'
  BY LocalIsFree DEF RestoreReplace, IInv
<1>4. TypeOK'
  BY <1>1, <1>2 DEF TypeOK, RestoreReplace, stores, IInv
<1> QED BY <1>1, <1>3, <1>4

LEMMA RestoreLookupSound ==
  ASSUME IInv, RestoreLookup
  PROVE  op' \in Op /\ OpIsSound'
<1>0. /\ op \in Op /\ op.kind = "restore" /\ op.step = "version" /\ op.path \in Path
      /\ op.remote \in Maybe(Id) /\ (Known(op.remote) => object[op.remote].path = op.path)
      /\ UNCHANGED <<disks, stores>>
  BY RestoringFacts DEF RestoreLookup
<1>1. CASE Leave
  BY <1>1, LeaveIsSound
<1>2. CASE Goto("swap")
  <2>1. /\ op' \in Op /\ op'.step = "swap" /\ op'.kind = op.kind /\ op'.path = op.path
        /\ op'.remote = op.remote /\ op'.raced = op.raced
    BY <1>0, <1>2, GotoFields DEF Steps
  <2> QED BY <1>0, <2>1 DEF disks, stores, IInv, OpIsSound
<1> QED BY <1>1, <1>2 DEF RestoreLookup

LEMMA RestoreSwapSound ==
  ASSUME IInv, RestoreSwap
  PROVE  TypeOK' /\ StoresAreSound' /\ OpIsSound'
<1> DEFINE u == IF Known(remote[op.path]) THEN op.remote ELSE remote[op.path]
<1>0. /\ op.path \in Path /\ op.remote \in Maybe(Id) /\ (Known(op.remote) => object[op.remote].path = op.path)
  BY RestoringFacts DEF RestoreSwap
<1>1. op' \in Op /\ OpIsSound'
  BY LeaveIsSound DEF RestoreSwap
<1>2. remote' = [remote EXCEPT ![op.path] = u] /\ UNCHANGED <<local, object, stores, shown, spent>>
  BY <1>0 DEF RestoreSwap, TypeOK
<1>3. u \in Maybe(Id) /\ Exists(u) /\ (Known(u) => object[u].path = op.path)
  BY <1>0 DEF TypeOK, StoresAreSound, RefsExist, RemoteIsOfItsPath, IInv, OpIsSound
<1> HIDE DEF u
<1>4. StoresAreSound' /\ remote' \in [Path -> Maybe(Id)]
  BY <1>0, <1>2, <1>3, DriveIsSound DEF IInv
<1>5. TypeOK'
  BY <1>1, <1>2, <1>4 DEF TypeOK, stores, IInv
<1> QED BY <1>1, <1>4, <1>5

LEMMA UndeleteLookSound ==
  ASSUME IInv, UndeleteLook
  PROVE  op' \in Op /\ OpIsSound'
<1>0. /\ op \in Op /\ op.kind \in {"restore", "undelete"} /\ op.step = "vacant" /\ op.path \in Path
      /\ op.remote \in Maybe(Id) /\ (Known(op.remote) => object[op.remote].path = op.path)
      /\ UNCHANGED <<disks, stores>>
  BY RestoringFacts DEF UndeleteLook
<1>1. CASE Leave
  BY <1>1, LeaveIsSound
<1>2. CASE Goto("unoccupied")
  <2>1. /\ op' \in Op /\ op'.step = "unoccupied" /\ op'.kind = op.kind /\ op'.path = op.path
        /\ op'.remote = op.remote
    BY <1>0, <1>2, GotoFields DEF Steps
  <2> QED BY <1>0, <2>1 DEF disks, IInv, OpIsSound
<1> QED BY <1>1, <1>2 DEF UndeleteLook

LEMMA UndeleteCheckSound ==
  ASSUME IInv, UndeleteCheck
  PROVE  op' \in Op /\ OpIsSound'
<1>0. /\ op \in Op /\ op.kind \in {"restore", "undelete"} /\ op.step = "unoccupied" /\ op.path \in Path
      /\ op.remote \in Maybe(Id) /\ (Known(op.remote) => object[op.remote].path = op.path)
      /\ UNCHANGED <<disks, stores>>
  BY RestoringFacts DEF UndeleteCheck
<1>1. CASE Leave
  BY <1>1, LeaveIsSound
<1>2. CASE ~Known(remote[op.path]) /\ op' = [op EXCEPT !.step = "revive", !.raced = {}]
  <2>1. "revive" \in Steps /\ {} \in SUBSET {"local", "remote"}
    BY DEF Steps
  <2>2. /\ op' \in Op /\ op'.step = "revive" /\ op'.kind = op.kind /\ op'.path = op.path
        /\ op'.remote = op.remote
    BY <1>0, <1>2, <2>1 DEF Op
  <2> QED BY <1>0, <1>2, <2>2 DEF disks, IInv, OpIsSound
<1> QED BY <1>1, <1>2 DEF UndeleteCheck

LEMMA UndeleteReviveSound ==
  ASSUME IInv, UndeleteRevive
  PROVE  TypeOK' /\ StoresAreSound' /\ OpIsSound'
<1>0. /\ op.path \in Path /\ op.remote \in Maybe(Id) /\ (Known(op.remote) => object[op.remote].path = op.path)
      /\ Exists(op.remote)
  BY RestoringFacts DEF UndeleteRevive, IInv, OpIsSound
<1>1. op' \in Op /\ OpIsSound'
  BY LeaveIsSound DEF UndeleteRevive
<1>2. remote' = [remote EXCEPT ![op.path] = op.remote] /\ UNCHANGED <<local, object, stores, shown, spent>>
  BY DEF UndeleteRevive
<1>3. StoresAreSound' /\ remote' \in [Path -> Maybe(Id)]
  BY <1>0, <1>2, DriveIsSound DEF IInv
<1>4. TypeOK'
  BY <1>1, <1>2, <1>3 DEF TypeOK, stores, IInv
<1> QED BY <1>1, <1>3, <1>4
-----------------------------------------------------------------------------
(* The user, other devices and failures *)

LEMMA RaceFields ==
  ASSUME op \in Op, NEW p, NEW side \in {"local", "remote"}, Race(p, side)
  PROVE  /\ op' \in Op /\ op'.kind = op.kind /\ op'.path = op.path /\ op'.step = op.step
         /\ op'.bytes = op.bytes /\ op'.local = op.local /\ op'.remote = op.remote
         /\ op'.consent = op.consent /\ op'.target = op.target /\ op'.left = op.left
         /\ op.raced \subseteq op'.raced /\ (p \in Watched(side) => side \in op'.raced)
<1>1. CASE p \in Watched(side)
  <2>1. op' = [op EXCEPT !.raced = @ \cup {side}]
    BY <1>1 DEF Race
  <2>2. op.raced \cup {side} \in SUBSET {"local", "remote"}
    BY DEF Op
  <2> QED BY <2>1, <2>2 DEF Op
<1>2. CASE p \notin Watched(side)
  BY <1>2 DEF Race
<1> QED BY <1>1, <1>2

LEMMA UserEditsSound ==
  ASSUME IInv, NEW p \in Path, UserEdits(p)
  PROVE  TypeOK' /\ StoresAreSound' /\ OpIsSound'
<1>0. op \in Op
  BY DEF TypeOK, IInv
<1>1. PICK c \in Maybe(Content) :
        /\ local' = [local EXCEPT ![p] = c]
        /\ IF Known(c) /\ (op.kind = "force" => Known(local[p]))
           THEN Race(p, "local") ELSE UNCHANGED op
  BY DEF UserEdits
<1>2. local' \in [Path -> Maybe(Content)] /\ \A q \in Path : local'[q] = IF q = p THEN c ELSE local[q]
  BY <1>1 DEF TypeOK, IInv
<1>3. StoresAreSound' /\ UNCHANGED <<remote, object, stores, shown>>
  BY LocalIsFree DEF UserEdits, IInv
<1>4. /\ op' \in Op /\ op'.kind = op.kind /\ op'.path = op.path /\ op'.step = op.step
      /\ op'.bytes = op.bytes /\ op'.local = op.local /\ op'.remote = op.remote
      /\ op'.consent = op.consent /\ op'.target = op.target /\ op'.left = op.left
      /\ op.raced \subseteq op'.raced
      /\ (op.kind # "force" /\ Known(c) /\ p \in {op.path, op.target} => "local" \in op'.raced)
  <2>1. CASE Race(p, "local")
    BY <1>0, <2>1, RaceFields DEF Watched
  <2>2. CASE UNCHANGED op /\ (~Known(c) \/ op.kind = "force")
    BY <1>0, <2>2
  <2> QED BY <1>1, <2>1, <2>2
<1>5. TypeOK'
  BY <1>2, <1>3, <1>4, SpentIsBounded DEF TypeOK, UserEdits, stores, IInv
<1>6. (ApplyIsSound /\ RemoteIsSound /\ ForceIsSound /\ StepsOfKind)'
  BY <1>3, <1>4 DEF stores, IInv, OpIsSound
<1>7. (LocalIsSound /\ CleaningIsSound)'
  <2>1. op.step = "write" => op.path \in Path /\ op.kind # "force"
    BY DEF IInv, OpIsSound
  <2>2. op.step = "clean-trash" => op.target \in Path /\ op.kind # "force"
    <3> SUFFICES ASSUME op.step = "clean-trash" PROVE op.target \in Path /\ op.kind # "force"
      OBVIOUS
    <3>1. op.path \in Path /\ op.kind # "force" /\ Known(review[op.path]) /\ Known(review[op.path].copies)
          /\ op.target \in DOMAIN review[op.path].copies
      BY DEF IInv, OpIsSound
    <3> QED BY <3>1, CopiesType DEF IInv
  <2>3. LocalIsSound'
    BY <1>2, <1>3, <1>4, <2>1 DEF stores, IInv, OpIsSound
  <2>4. CleaningIsSound'
    BY <1>2, <1>3, <1>4, <2>2 DEF stores, IInv, OpIsSound
  <2> QED BY <2>3, <2>4
<1>8. RestoreIsSound'
  BY <1>2, <1>3, <1>4 DEF stores, IInv, OpIsSound
<1> QED BY <1>3, <1>4, <1>5, <1>6, <1>7, <1>8 DEF IInv, OpIsSound

LEMMA UserRenamesSound ==
  ASSUME IInv, NEW p \in Path, NEW q \in Path, UserRenames(p, q)
  PROVE  TypeOK' /\ StoresAreSound' /\ OpIsSound'
<1>0. op \in Op /\ op.kind = "force" /\ UNCHANGED <<remote, object, stores, shown>>
  BY DEF UserRenames, TypeOK, IInv
<1>1. q \in Maybe(Path)
  BY DEF Maybe
<1>2. /\ op' \in Op /\ op'.kind = op.kind /\ op'.path = q /\ op'.step = op.step
      /\ op'.bytes = op.bytes /\ op'.remote = op.remote
      /\ op'.consent = op.consent /\ op'.target = op.target /\ op'.raced = op.raced
  BY <1>0, <1>1 DEF UserRenames, Op
<1>3. local' \in [Path -> Maybe(Content)]
  BY DEF UserRenames, TypeOK, Maybe, IInv
<1>4. StoresAreSound'
  BY <1>0, LocalIsFree DEF IInv
<1>5. spent' \in [edits : 0 .. MaxEdits, renames : 0 .. MaxRenames,
                  acts : 0 .. MaxActs, faults : 0 .. MaxFaults]
  BY BoundsAssumption DEF UserRenames, TypeOK, IInv
<1>6. TypeOK'
  BY <1>0, <1>2, <1>3, <1>5 DEF TypeOK, stores, IInv
<1>7. OpIsSound'
  BY <1>0, <1>2 DEF stores, IInv, OpIsSound
<1> QED BY <1>4, <1>6, <1>7

LEMMA DriveMoved ==
  ASSUME IInv, NEW p \in Path, Race(p, "remote"), UNCHANGED <<local, stores>>,
         \A q \in Path : q # p => remote'[q] = remote[q],
         Known(op.remote) => object'[op.remote] = object[op.remote]
  PROVE  op' \in Op /\ OpIsSound'
<1>1. /\ op' \in Op /\ op'.kind = op.kind /\ op'.path = op.path /\ op'.step = op.step
      /\ op'.bytes = op.bytes /\ op'.local = op.local /\ op'.remote = op.remote
      /\ op'.consent = op.consent /\ op'.target = op.target /\ op'.left = op.left
      /\ op.raced \subseteq op'.raced /\ (p \in Watched("remote") => "remote" \in op'.raced)
  BY RaceFields DEF TypeOK, IInv
<1>2. ApplyIsSound' /\ LocalIsSound' /\ CleaningIsSound' /\ StepsOfKind'
  BY <1>1 DEF stores, IInv, OpIsSound
<1>3. RemoteIsSound'
  <2>1. op.step \in Committing => op.path \in Path /\ (op.path = p => "remote" \in op'.raced)
    BY <1>1 DEF Watched, IInv, OpIsSound
  <2>2. op.step \in Committing => "remote" \in op'.raced \/ remote'[op.path] = op.remote
    BY <1>1, <2>1 DEF IInv, OpIsSound
  <2>3. review' = review
    BY DEF stores
  <2>4. (op.step \in Committing => "remote" \in op.raced \/ remote[op.path] = op.remote)'
    BY <1>1, <2>2
  <2>5. (op.step = "remote" => op.remote = Rev.at.remote \/ Hash(op.remote) = Rev.result)'
    BY <1>1, <2>3 DEF IInv, OpIsSound
  <2>6. (op.step = "record" => op.local = Rev.result /\ Hash(op.remote) = Rev.result)'
    BY <1>1, <2>3 DEF IInv, OpIsSound
  <2>7. (/\ op.step \in Removing \cup Uploading => op.remote = Rev.at.remote
         /\ op.step \in Uploading => Known(Rev.result))'
    BY <1>1, <2>3 DEF IInv, OpIsSound
  <2> HIDE DEF Removing, Uploading, Committing, Hash, Rev, Known
  <2> QED BY <2>4, <2>5, <2>6, <2>7
<1>4. RestoreIsSound'
  <2>1. op.step = "revive" => op.path \in Path /\ (op.path = p => "remote" \in op'.raced)
    BY <1>1 DEF Watched, IInv, OpIsSound
  <2>2. local' = local /\ recovery' = recovery
    BY DEF stores
  <2> QED BY <1>1, <2>1, <2>2 DEF IInv, OpIsSound
<1>5. ForceIsSound'
  <2>1. op.step \in {"look", "read"} => op.target = None
    BY DEF IInv, OpIsSound
  <2>2. op.step = "read" /\ Known(op.remote) =>
          /\ object[op.remote].path = p => "remote" \in op'.raced
          /\ object[op.remote].path \in Path
    <3>1. Known(op.remote) => op.remote \in Id /\ Known(object[op.remote])
      BY DEF TypeOK, Op, Maybe, IInv, OpIsSound
    <3>2. Known(op.remote) => object[op.remote] \in Object
      BY <3>1 DEF TypeOK, Maybe, IInv
    <3>3. op.step = "read" => op.kind = "force" /\ op.target = None
      BY DEF TypeOK, Op, Kinds, IInv, OpIsSound
    <3>4. op.step = "read" /\ Known(op.remote) => Watched("remote") = {object[op.remote].path}
      BY <3>3 DEF Watched
    <3> QED BY <1>1, <3>2, <3>4 DEF Object
  <2>3. op.step \in {"stat", "upload"} => op.target \in Path /\ (op.target = p => "remote" \in op'.raced)
    BY <1>1, UnknownAssumption DEF Watched, IInv, OpIsSound
  <2> QED BY <1>1, <2>1, <2>2, <2>3 DEF stores, IInv, OpIsSound
<1> QED BY <1>1, <1>2, <1>3, <1>4, <1>5 DEF IInv, OpIsSound

LEMMA OtherDeviceSound ==
  ASSUME IInv, NEW p \in Path, OtherDevice(p)
  PROVE  TypeOK' /\ StoresAreSound' /\ OpIsSound'
<1>0. Race(p, "remote") /\ UNCHANGED <<local, stores, shown>> /\ Edited
  BY DEF OtherDevice
<1> DEFINE Moved == /\ StoresAreSound'
                    /\ remote' \in [Path -> Maybe(Id)] /\ object' \in [Id -> Maybe(Object)]
                    /\ \A q \in Path : q # p => remote'[q] = remote[q]
                    /\ Known(op.remote) => object'[op.remote] = object[op.remote]
<1>1. Moved
  <2>1. ASSUME NEW c \in Content, Upload(p, c)
        PROVE  Moved
    BY <1>0, <2>1, UploadIsSound, UploadFacts, ReferencedFacts DEF IInv
  <2>2. ASSUME NEW u \in Maybe(Id), Known(u) => Known(object[u]) /\ object[u].path = p,
               remote' = [remote EXCEPT ![p] = u], UNCHANGED object
        PROVE  Moved
    <3>1. StoresAreSound' /\ remote' \in [Path -> Maybe(Id)]
      BY <1>0, <2>2, DriveIsSound DEF IInv
    <3>2. \A q \in Path : q # p => remote'[q] = remote[q]
      BY <2>2 DEF TypeOK
    <3> QED BY <2>2, <3>1, <3>2 DEF TypeOK, IInv
  <2>3. ASSUME NEW u \in Earlier(p), remote' = [remote EXCEPT ![p] = u], UNCHANGED object
        PROVE  Moved
    BY <2>2, <2>3 DEF Earlier, Maybe
  <2>4. CASE remote' = [remote EXCEPT ![p] = None] /\ UNCHANGED object
    BY <2>2, <2>4 DEF Maybe
  <2> QED BY <2>1, <2>3, <2>4 DEF OtherDevice
<1>2. op' \in Op /\ OpIsSound'
  BY <1>0, <1>1, DriveMoved
<1>3. TypeOK'
  BY <1>0, <1>1, <1>2, SpentIsBounded DEF TypeOK, stores, IInv
<1> QED BY <1>1, <1>2, <1>3

LEMMA InterruptSound ==
  ASSUME IInv, Interrupt
  PROVE  TypeOK' /\ StoresAreSound' /\ OpIsSound'
<1>1. op' \in Op /\ OpIsSound'
  BY LeaveIsSound DEF Interrupt
<1>2. StoresAreSound'
  BY QuietIsSound DEF Interrupt, IInv
<1>3. spent' \in [edits : 0 .. MaxEdits, renames : 0 .. MaxRenames,
                  acts : 0 .. MaxActs, faults : 0 .. MaxFaults]
  BY BoundsAssumption DEF Interrupt, TypeOK, IInv
<1>4. TypeOK'
  BY <1>1, <1>3 DEF TypeOK, Interrupt, disks, stores, IInv
<1> QED BY <1>1, <1>2, <1>4

LEMMA InitIsSound ==
  ASSUME Init
  PROVE  TypeOK /\ StoresAreSound /\ OpIsSound
<1> DEFINE name == CHOOSE f \in [Originals -> Id] : \A p, q \in Originals : p # q => f[p] # f[q]
<1>1. name \in [Originals -> Id] /\ \A p, q \in Originals : p # q => name[p] # name[q]
  BY IdAssumption
<1>2. PICK synced \in SUBSET {p \in Originals : Known(local[p])} :
        /\ remote = [p \in Path |-> IF p \in synced THEN name[p] ELSE None]
        /\ base = [p \in Path |-> IF p \in synced
                                  THEN [hash |-> local[p], uuid |-> name[p]] ELSE None]
        /\ object = [u \in Id |-> IF \E p \in synced : name[p] = u
                                  THEN LET p == CHOOSE p \in synced : name[p] = u
                                       IN  [content |-> local[p], path |-> p]
                                  ELSE None]
  BY DEF Init
<1> HIDE DEF name
<1>3. synced \subseteq Originals /\ synced \subseteq Path /\ \A p \in synced : local[p] \in Content
  BY <1>2, OriginalsArePaths DEF Init, Maybe
<1>4. ASSUME NEW p \in synced
      PROVE  /\ name[p] \in Id /\ object[name[p]] = [content |-> local[p], path |-> p]
             /\ Known(object[name[p]]) /\ Known(name[p])
  <2>1. p \in Originals /\ name[p] \in Id
    BY <1>1, <1>3
  <2> DEFINE owner == CHOOSE q \in synced : name[q] = name[p]
  <2>2. owner \in synced /\ name[owner] = name[p]
    OBVIOUS
  <2>3. owner = p
    BY <1>1, <1>3, <2>1, <2>2
  <2>4. object[name[p]] = [content |-> local[owner], path |-> owner]
    BY <1>2, <2>1
  <2>5. object[name[p]] = [content |-> local[p], path |-> p]
    BY <2>3, <2>4
  <2>6. object[name[p]] \in Object
    BY <1>3, <2>5 DEF Object
  <2> QED BY <2>1, <2>5, <2>6, UnknownAssumption
<1>5. \A p \in Path : remote[p] = (IF p \in synced THEN name[p] ELSE None)
      /\ base[p] = (IF p \in synced THEN [hash |-> local[p], uuid |-> name[p]] ELSE None)
  BY <1>2
<1>6. object \in [Id -> Maybe(Object)]
  <2>1. ASSUME NEW u \in Id PROVE object[u] \in Maybe(Object)
    <3>1. CASE \E p \in synced : name[p] = u
      <4>1. PICK p \in synced : name[p] = u
        BY <3>1
      <4>2. object[u] = [content |-> local[p], path |-> p] /\ local[p] \in Content /\ p \in Path
        BY <1>3, <1>4, <4>1
      <4> QED BY <4>2 DEF Object, Maybe
    <3>2. CASE ~\E p \in synced : name[p] = u
      BY <1>2, <3>2 DEF Maybe
    <3> QED BY <3>1, <3>2
  <2> QED BY <1>2, <2>1
<1>7. remote \in [Path -> Maybe(Id)]
  BY <1>2, <1>4, <1>5 DEF Maybe
<1>8. base \in [Path -> Maybe(Record)]
  <2>1. ASSUME NEW p \in Path PROVE base[p] \in Maybe(Record)
    <3>1. CASE p \in synced
      <4>1. base[p] = [hash |-> local[p], uuid |-> name[p]]
        BY <1>5, <3>1
      <4>2. local[p] \in Content /\ name[p] \in Id
        BY <1>3, <1>4, <3>1
      <4> QED BY <4>1, <4>2 DEF Maybe, Record
    <3>2. CASE p \notin synced
      BY <1>5, <3>2 DEF Maybe
    <3> QED BY <3>1, <3>2
  <2> QED BY <1>2, <2>1
<1>9. review = [p \in Path |-> None] /\ op = NoOp /\ recovery = {}
  BY DEF Init
<1>10. op \in Op /\ op.kind = "none" /\ op.step = "idle" /\ op.remote = None
  BY <1>9 DEF NoOp, Op, Kinds, Steps, Maybe
<1>11. TypeOK
  <2>1. review \in [Path -> Maybe(Review)]
    BY <1>9 DEF Maybe
  <2>2. spent \in [edits : 0 .. MaxEdits, renames : 0 .. MaxRenames,
                   acts : 0 .. MaxActs, faults : 0 .. MaxFaults]
    BY BoundsAssumption DEF Init
  <2> QED BY <1>6, <1>7, <1>8, <1>9, <1>10, <2>1, <2>2 DEF Init, TypeOK
<1>12. RecordsAreKept
  BY <1>9 DEF RecordsAreKept
<1>13. ASSUME NEW p \in Path
       PROVE  /\ Exists(remote[p]) /\ (Known(remote[p]) => object[remote[p]].path = p)
              /\ Known(base[p]) => /\ Known(object[base[p].uuid]) /\ base[p].uuid = name[p]
                                  /\ base[p].hash = object[name[p]].content
  <2>1. CASE p \in synced
    <3>1. remote[p] = name[p] /\ base[p] = [hash |-> local[p], uuid |-> name[p]]
      BY <1>5, <2>1
    <3>2. object[name[p]] = [content |-> local[p], path |-> p] /\ Known(object[name[p]])
      BY <1>4, <2>1
    <3>3. base[p].uuid = name[p] /\ base[p].hash = local[p]
      BY <3>1
    <3>4. object[name[p]].path = p /\ object[name[p]].content = local[p]
      BY <3>2
    <3> QED BY <3>1, <3>2, <3>3, <3>4
  <2>2. CASE p \notin synced
    <3>1. remote[p] = None /\ base[p] = None
      BY <1>5, <2>2
    <3> QED BY <3>1
  <2> QED BY <2>1, <2>2
<1>14. RefsExist
  BY <1>9, <1>13 DEF RefsExist
<1>15. RemoteIsOfItsPath /\ HistoryIsHonest
  <2>1. \A p \in Path : Known(base[p]) => base[p].uuid # None
    BY UnknownAssumption, <1>8 DEF Record, Maybe
  <2> QED BY <1>13, <2>1 DEF RemoteIsOfItsPath, HistoryIsHonest
<1>16. OpIsSound
  BY <1>10 DEF IInv, OpIsSound
<1> QED BY <1>11, <1>12, <1>13, <1>14, <1>15, <1>16 DEF StoresAreSound
-----------------------------------------------------------------------------
(* Every step preserves the invariant *)

LEMMA QuietStep ==
  ASSUME IInv, UNCHANGED <<disks, stores, shown, spent>>, op' \in Op /\ OpIsSound'
  PROVE  IInv'
BY QuietIsSound, QuietType DEF IInv

LEMMA ActStep ==
  ASSUME IInv, UNCHANGED <<disks, stores>>, Act, op' \in Op /\ OpIsSound' /\ shown' \in BOOLEAN
  PROVE  IInv'
<1>1. StoresAreSound'
  BY QuietIsSound DEF IInv
<1>2. TypeOK'
  BY SpentIsBounded DEF TypeOK, disks, stores, IInv
<1> QED BY <1>1, <1>2 DEF IInv

LEMMA ApplyStepSound ==
  ASSUME IInv, NEW p \in Originals, ApplyStep(p)
  PROVE  IInv'
<1>1. CASE ResumeCheck(p)
  BY <1>1, ResumeCheckSound, QuietStep DEF ResumeCheck
<1>2. CASE ApplyRead(p)
  BY <1>2, ApplyReadSound, QuietStep DEF ApplyRead
<1>3. CASE VerifyCopies(p)
  BY <1>3, VerifyCopiesSound, QuietStep DEF VerifyCopies
<1>4. CASE Approve(p)
  BY <1>4, ApproveSound DEF IInv
<1>5. CASE RemoteGate(p)
  BY <1>5, RemoteGateSound, QuietStep DEF RemoteGate
<1>6. CASE RemoveProbe(p)
  BY <1>6, RemoveProbeSound, QuietStep DEF RemoveProbe
<1>7. CASE RemoveTrash(p)
  BY <1>7, RemoveTrashSound DEF IInv
<1>8. CASE ApplyPrecheck(p)
  BY <1>8, ApplyPrecheckSound, QuietStep DEF ApplyPrecheck
<1>9. CASE ApplyPrecommit(p)
  BY <1>9, ApplyPrecommitSound, QuietStep DEF ApplyPrecommit
<1>10. CASE BeforeCommit(p)
  BY <1>10, BeforeCommitSound, QuietStep DEF BeforeCommit
<1>11. CASE ApplyCommit(p)
  BY <1>11, ApplyCommitSound DEF IInv
<1>12. CASE ReadBack(p)
  BY <1>12, ReadBackSound DEF IInv
<1>13. CASE LocalGate(p)
  BY <1>13, LocalGateSound, QuietStep DEF LocalGate
<1>14. CASE LocalWrite(p)
  BY <1>14, LocalWriteSound DEF IInv
<1>15. CASE Verify(p)
  BY <1>15, VerifySound DEF IInv
<1>16. CASE RecordResult(p)
  BY <1>16, RecordResultSound DEF IInv
<1>17. CASE CleanVerify(p)
  BY <1>17, CleanVerifySound, QuietStep DEF CleanVerify
<1>18. CASE CleanRemote(p)
  BY <1>18, CleanRemoteSound, QuietStep DEF CleanRemote
<1>19. CASE CleanRemove(p)
  BY <1>19, CleanRemoveSound DEF IInv
<1>20. CASE CleanLocal(p)
  BY <1>20, CleanLocalSound, QuietStep DEF CleanLocal
<1>21. CASE CleanTrash(p)
  BY <1>21, CleanTrashSound DEF IInv
<1>22. CASE CleanForget(p)
  BY <1>22, CleanForgetSound DEF IInv
<1>23. CASE CleanEnd(p)
  BY <1>23, CleanEndSound, QuietStep DEF CleanEnd
<1>24. CASE Resolve(p)
  BY <1>24, ResolveSound DEF IInv
<1> QED
  BY <1>1, <1>2, <1>3, <1>4, <1>5, <1>6, <1>7, <1>8, <1>9, <1>10, <1>11, <1>12, <1>13, <1>14,
     <1>15, <1>16, <1>17, <1>18, <1>19, <1>20, <1>21, <1>22, <1>23, <1>24 DEF ApplyStep

LEMMA ProceedSound ==
  ASSUME IInv, Proceed
  PROVE  IInv'
<1>1. ASSUME NEW p \in Originals, ReviewStep(p)
      PROVE  IInv'
  <2>1. CASE CaptureRead(p)
    BY <2>1, CaptureReadSound, QuietStep DEF CaptureRead
  <2>2. CASE Publish(p)
    BY <2>2, PublishSound DEF IInv
  <2>3. CASE Collect(p)
    BY <2>3, CollectSound DEF IInv
  <2>4. CASE ApplyStep(p)
    BY <2>4, ApplyStepSound
  <2> QED BY <1>1, <2>1, <2>2, <2>3, <2>4 DEF ReviewStep
<1>2. CASE ForceStep
  <2>1. CASE ForceLook
    BY <2>1, ForceLookSound, QuietStep DEF ForceLook
  <2>2. CASE ForceRead
    BY <2>2, ForceReadSound, QuietStep DEF ForceRead
  <2>3. CASE ForceStat
    BY <2>3, ForceStatSound, QuietStep DEF ForceStat
  <2>4. CASE ForceCommit
    BY <2>4, ForceCommitSound DEF IInv
  <2>5. CASE ForceRecord
    BY <2>5, ForceRecordSound DEF IInv
  <2> QED BY <1>2, <2>1, <2>2, <2>3, <2>4, <2>5 DEF ForceStep
<1>3. CASE RestoreStep
  <2>1. CASE RestoreRead
    BY <2>1, RestoreReadSound, QuietStep DEF RestoreRead
  <2>2. CASE RestorePreserve
    BY <2>2, RestorePreserveSound DEF IInv
  <2>3. CASE RestoreRecheck
    BY <2>3, RestoreRecheckSound, QuietStep DEF RestoreRecheck
  <2>4. CASE RestoreBefore
    BY <2>4, RestoreBeforeSound, QuietStep DEF RestoreBefore
  <2>5. CASE RestoreAfter
    BY <2>5, RestoreAfterSound, QuietStep DEF RestoreAfter
  <2>6. CASE RestoreReplace
    BY <2>6, RestoreReplaceSound DEF IInv
  <2>7. CASE RestoreLookup
    BY <2>7, RestoreLookupSound, QuietStep DEF RestoreLookup
  <2>8. CASE RestoreSwap
    BY <2>8, RestoreSwapSound DEF IInv
  <2>9. CASE UndeleteLook
    BY <2>9, UndeleteLookSound, QuietStep DEF UndeleteLook
  <2>10. CASE UndeleteCheck
    BY <2>10, UndeleteCheckSound, QuietStep DEF UndeleteCheck
  <2>11. CASE UndeleteRevive
    BY <2>11, UndeleteReviveSound DEF IInv
  <2> QED BY <1>3, <2>1, <2>2, <2>3, <2>4, <2>5, <2>6, <2>7, <2>8, <2>9, <2>10, <2>11 DEF RestoreStep
<1> QED BY <1>1, <1>2, <1>3 DEF Proceed

LEMMA StartSound ==
  ASSUME IInv, NEW p \in Originals,
         \/ StartConflict(p) \/ StartResume(p) \/ OpenReview(p)
         \/ StartForce(p) \/ StartRestore(p) \/ StartUndelete(p)
         \/ \E bytes \in Maybe(Content) : StartApply(p, bytes)
  PROVE  IInv'
<1> USE DEF TypeOK
<1>1. CASE StartConflict(p)
  BY <1>1, StartConflictSound, QuietStep DEF StartConflict
<1>2. CASE StartResume(p)
  BY <1>2, StartResumeSound, QuietStep DEF StartResume
<1>3. CASE OpenReview(p)
  BY <1>3, OpenReviewSound, ActStep DEF OpenReview
<1>4. CASE StartForce(p)
  BY <1>4, StartForceSound, ActStep DEF StartForce, IInv
<1>5. CASE StartRestore(p)
  BY <1>5, StartRestoreSound, ActStep DEF StartRestore, IInv
<1>6. CASE StartUndelete(p)
  BY <1>6, StartUndeleteSound, ActStep DEF StartUndelete, IInv
<1>7. ASSUME NEW bytes \in Maybe(Content), StartApply(p, bytes)
      PROVE  IInv'
  BY <1>7, StartApplySound, ActStep DEF StartApply
<1> QED BY <1>1, <1>2, <1>3, <1>4, <1>5, <1>6, <1>7

LEMMA NextIsSound ==
  ASSUME IInv, [Next]_vars
  PROVE  IInv'
<1>1. CASE Proceed
  BY <1>1, ProceedSound
<1>2. ASSUME NEW p \in Originals,
             \/ StartConflict(p) \/ StartResume(p) \/ OpenReview(p)
             \/ StartForce(p) \/ StartRestore(p) \/ StartUndelete(p)
             \/ \E bytes \in Maybe(Content) : StartApply(p, bytes)
      PROVE  IInv'
  BY <1>2, StartSound
<1>3. ASSUME NEW p \in Path, UserEdits(p)
      PROVE  IInv'
  BY <1>3, UserEditsSound DEF IInv
<1>4. ASSUME NEW p \in Path, OtherDevice(p)
      PROVE  IInv'
  BY <1>4, OtherDeviceSound DEF IInv
<1>5. ASSUME NEW p \in Path, NEW q \in Path, UserRenames(p, q)
      PROVE  IInv'
  BY <1>5, UserRenamesSound DEF IInv
<1>6. CASE Interrupt
  BY <1>6, InterruptSound DEF IInv
<1>7. CASE UNCHANGED vars
  <2>1. UNCHANGED <<disks, stores, shown, spent, op>>
    BY <1>7 DEF vars, disks, stores
  <2>2. op' \in Op
    BY <2>1 DEF TypeOK, IInv
  <2>3. OpIsSound /\ UNCHANGED <<op, local, remote, object, base, review, recovery>>
    BY <2>1 DEF disks, stores, IInv
  <2>4. OpIsSound'
    BY ONLY <2>3 DEF OpIsSound
  <2> QED BY <2>1, <2>2, <2>4, QuietStep
<1> QED BY <1>1, <1>2, <1>3, <1>4, <1>5, <1>6, <1>7 DEF Next

(* Whatever the user, other devices and failures do in between. *)
THEOREM Invariance == Spec => []IInv
<1>1. Init => IInv
  BY InitIsSound DEF IInv
<1>2. IInv /\ [Next]_vars => IInv'
  BY NextIsSound
<1> QED BY <1>1, <1>2, PTL DEF Spec

(* The records of the operations stay what they are declared as, for any    *)
(* number of files and objects (src/sync/conflict-store.ts:17-43).          *)
THEOREM TypesAreRight == Spec => []TypeOK
BY Invariance, PTL DEF IInv

(* The history never names an object that was not uploaded, or the digest   *)
(* of other bytes: neither a review nor a forced upload nor a version that  *)
(* is restored makes it lie (conflict-apply.ts:154-177,                     *)
(* force-upload.ts:77-90).                                                  *)
THEOREM HistoryStaysHonest == Spec => []HistoryIsHonest
<1>1. IInv => HistoryIsHonest
  BY DEF StoresAreSound, IInv
<1> QED BY <1>1, Invariance, PTL
=============================================================================
