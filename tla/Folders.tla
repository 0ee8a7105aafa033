------------------------------- MODULE Folders -------------------------------
(***************************************************************************)
(* The folders of the mirror: the three-way folder plan of a full pass     *)
(* (src/src/sync/dir-planner.ts), the creation of folders before the file  *)
(* transfers and the pruning of empty ones after them                      *)
(* (src/src/sync/directory-apply.ts), and the folder history that is       *)
(* written last (src/src/sync/apply-pass.ts).  A user and another device   *)
(* create and delete folders and files meanwhile.                          *)
(*                                                                         *)
(* A folder holds at most one file, whose content never changes: files     *)
(* matter here for what they make of folders.                              *)
(***************************************************************************)
EXTENDS Integers, FiniteSets

CONSTANTS Dirs,        \* the folders
          Parent,      \* the enclosing folder of each, NoDir for the outermost
          NoDir,
          Directions,  \* of a pass
          MaxActs,     \* bound: acts of the user and the other device
          MaxOneWay,   \* bound: push-only and pull-only passes
          MaxFaults    \* bound: failed requests

ASSUME FoldersAssumption ==
  /\ NoDir \notin Dirs /\ Parent \in [Dirs -> Dirs \union {NoDir}]
  /\ "both" \in Directions /\ Directions \subseteq {"both", "push", "pull"}
  /\ MaxActs \in Nat /\ MaxOneWay \in Nat /\ MaxFaults \in Nat

VARIABLES local, remote,  \* folders and files of the two sides
          baseline,       \* folder history
          synced,         \* folders whose file is in the file history
          pass,           \* the running pass
          held,           \* a refused plan keeps automatic passes back
          unmade,         \* history: recorded folders the user deleted on a side
          acts, oneWay, faults

counters == <<acts, oneWay, faults>>
foldersVars == <<local, remote, baseline, synced, pass, held, unmade, counters>>

Sides == {"local", "remote"}
EmptyTree == [dirs |-> {}, files |-> {}]
WholeTree == [dirs |-> Dirs, files |-> {}]

(* A folder and the folders around it; a folder and all beneath it.         *)
Above == [f \in Dirs |-> {g \in Dirs : \A S \in SUBSET Dirs :
            f \in S /\ (\A d \in S : Parent[d] \in S \union {NoDir}) => g \in S}]
Beneath(f) == {g \in Dirs : f \in Above[g]}

WithFolder(tree, f) == [tree EXCEPT !.dirs = @ \union Above[f]]
WithFile(tree, f) == [WithFolder(tree, f) EXCEPT !.files = @ \union {f}]
Without(tree, f) == [dirs |-> tree.dirs \ Beneath(f), files |-> tree.files \ Beneath(f)]
IsEmpty(tree, f) == f \notin tree.files /\ tree.dirs \intersect Beneath(f) \subseteq {f}

(* "stale" are the folders another device has trashed since the pass read   *)
(* the drive: the pass, or a path the SDK keeps, still has their identities. *)
Idle == [phase |-> "idle", dir |-> "both", cached |-> FALSE, attended |-> FALSE, stale |-> {},
         local |-> EmptyTree, remote |-> EmptyTree, read |-> {},
         creates |-> {}, files |-> {}, prunes |-> {}, cur |-> NoDir,
         applied |-> {}, present |-> {}]

FoldersInit ==
  /\ local \in {EmptyTree, WholeTree} /\ remote = local /\ baseline = local.dirs /\ synced = {}
  /\ pass = Idle /\ held = FALSE /\ unmade = [s \in Sides |-> {}]
  /\ acts = 0 /\ oneWay = 0 /\ faults = 0

-----------------------------------------------------------------------------
(* The user (side "local") and another device (side "remote"). *)

(* A folder that is made anew, or gets a file, on either side is wanted. *)
Remade(f) == [s \in Sides |-> unmade[s] \ Above[f]]

Place(side, tree) ==
  IF side = "local" THEN local' = tree /\ UNCHANGED remote ELSE remote' = tree /\ UNCHANGED local

At(side) == IF side = "local" THEN local ELSE remote

(* History: what comes to a folder after pruning has looked at its content. *)
Placed(side, f) ==
  IF pass.cur # NoDir /\ pass.cur.side = side THEN [pass EXCEPT !.cur.late = @ \union {f}] ELSE pass

Act == acts < MaxActs /\ acts' = acts + 1 /\ UNCHANGED <<oneWay, faults>>

MakeFolder(side, f) ==
  /\ Act /\ f \notin At(side).dirs
  /\ Place(side, WithFolder(At(side), f))
  /\ unmade' = Remade(f)
  /\ pass' = Placed(side, f)
  /\ UNCHANGED <<baseline, synced, held>>

MakeFile(side, f) ==
  /\ Act /\ f \notin At(side).files
  /\ Place(side, WithFile(At(side), f))
  /\ unmade' = Remade(f)
  /\ pass' = Placed(side, f)
  /\ UNCHANGED <<baseline, synced, held>>

(* A folder of the drive that the plugin is about to trash, or whose        *)
(* identity it has read, is lost to it: a later one of its name is another. *)
Bereft(f) ==
  CASE pass.phase \in {"scan", "confirm", "create", "files"} /\ "remote" \in pass.read ->
         [pass EXCEPT !.stale = @ \union (Beneath(f) \intersect remote.dirs)]
    [] /\ pass.cur # NoDir /\ pass.cur.side = "remote"
       /\ pass.cur.dir \in Beneath(f) /\ pass.cur.step \in {"list", "trash"} ->
         [pass EXCEPT !.cur.lost = TRUE]
    [] OTHER -> pass

(* A folder is deleted with all it holds. *)
DeleteFolder(side, f) ==
  /\ Act /\ f \in At(side).dirs
  /\ Place(side, Without(At(side), f))
  /\ unmade' = [unmade EXCEPT ![side] = @ \union (Beneath(f) \intersect baseline
                                                  \intersect local.dirs \intersect remote.dirs)]
  /\ pass' = IF side = "remote" THEN Bereft(f) ELSE pass
  /\ UNCHANGED <<baseline, synced, held>>

DeleteFile(side, f) ==
  /\ Act /\ f \in At(side).files
  /\ Place(side, [At(side) EXCEPT !.files = @ \ {f}])
  /\ UNCHANGED <<baseline, synced, pass, held, unmade>>

-----------------------------------------------------------------------------
(* Reading and planning. *)

(* The user starts a pass: it reads the drive anew, its questions are       *)
(* answered, and a refusal before it no longer holds anything back.         *)
StartPass(dir) ==
  /\ pass.phase = "idle"
  /\ IF dir = "both" THEN UNCHANGED oneWay ELSE oneWay < MaxOneWay /\ oneWay' = oneWay + 1
  /\ pass' = [Idle EXCEPT !.phase = "scan", !.dir = dir, !.attended = TRUE]
  /\ held' = FALSE
  /\ UNCHANGED <<local, remote, baseline, synced, unmade, acts, faults>>

(* The timer starts one, unless a refused plan waits for the user.  The     *)
(* tree of the drive is read anew, or kept from the last pass because no    *)
(* event was reported: it is then what the drive holds as this pass begins. *)
AutomaticPass(cached) ==
  /\ pass.phase = "idle" /\ ~held
  /\ pass' = [Idle EXCEPT !.phase = "scan", !.cached = cached,
                          !.remote = IF cached THEN remote ELSE EmptyTree,
                          !.read = IF cached THEN {"remote"} ELSE {}]
  /\ UNCHANGED <<local, remote, baseline, synced, held, unmade, counters>>

ScanRemote ==
  /\ pass.phase = "scan" /\ "remote" \notin pass.read
  /\ pass' = [pass EXCEPT !.remote = remote, !.read = @ \union {"remote"}]
  /\ UNCHANGED <<local, remote, baseline, synced, held, unmade, counters>>

MutToCreate(l, r) ==
  {f \in l \ r : f \notin baseline /\ pass.dir # "pull"}
    \union {f \in l \ r : f \in baseline /\ pass.dir = "push"}
    \union {f \in r \ l : pass.dir = "pull" /\ ~pass.cached}

(* What is local, remote and in the folder history decides, as for files.   *)
ToCreate(l, r) ==
  {f \in l \ r : f \notin baseline /\ pass.dir # "pull"}
    \union {f \in l \ r : f \in baseline /\ pass.dir = "push"}
    \union {f \in r \ l : f \in baseline /\ pass.dir = "pull" /\ ~pass.cached}
    \union {f \in r \ l : f \notin baseline /\ pass.dir # "push" /\ ~pass.cached}

ToPrune(l, r) ==
  {f \in l \ r : f \in baseline /\ pass.dir # "push" /\ ~pass.cached}
    \union {f \in r \ l : f \in baseline /\ pass.dir # "pull"}

Transferred(l, r) ==
  {f \in l \ r : f \notin synced => pass.dir # "pull"}
    \union {f \in r \ l : f \notin synced => pass.dir # "push"}

(* A file known to both histories and missing on one side was deleted there. *)
Deletes(f, l) == f \in synced /\ IF f \in l THEN pass.dir # "push" ELSE pass.dir # "pull"

(* A plan that deletes files or folders of the vault is asked about; one    *)
(* that deletes or restores files may be, when they are many.               *)
Questions(files, prunes) ==
  IF \/ prunes \intersect local.dirs # {}
     \/ \E f \in files \intersect local.files : Deletes(f, local.files)
  THEN {TRUE}
  ELSE IF files \intersect synced # {} THEN BOOLEAN ELSE {FALSE}

(* The vault is what it was when it was read, or the pass is given up.      *)
Plan ==
  /\ pass.phase = "scan" /\ "remote" \in pass.read
  /\ LET files == Transferred(local.files, pass.remote.files)
         prunes == ToPrune(local.dirs, pass.remote.dirs) IN
     \E asks \in Questions(files, prunes) :
       pass' = [pass EXCEPT
         !.phase = IF asks THEN "confirm" ELSE "create", !.attended = @ /\ asks, !.local = local,
         !.creates = ToCreate(local.dirs, pass.remote.dirs), !.prunes = prunes, !.files = files]
  /\ UNCHANGED <<local, remote, baseline, synced, held, unmade, counters>>

(* The user may agree to the plan of a pass of his own, or not; a plan that *)
(* nobody attends is declined at once.  After a refusal automatic passes    *)
(* wait for the user.                                                       *)
Confirm ==
  /\ pass.phase = "confirm" /\ pass.attended
  /\ pass' = [pass EXCEPT !.phase = "create", !.attended = FALSE]
  /\ UNCHANGED <<local, remote, baseline, synced, held, unmade, counters>>

Refused == pass' = Idle /\ held' = TRUE /\ UNCHANGED <<local, remote, baseline, synced, unmade, acts, oneWay>>

Decline ==
  /\ pass.phase = "confirm" /\ pass.attended
  /\ faults < MaxFaults /\ faults' = faults + 1
  /\ Refused

Refuse == pass.phase = "confirm" /\ ~pass.attended /\ Refused /\ UNCHANGED faults

-----------------------------------------------------------------------------
(* Applying: folders are created, parents first; files are transferred, and *)
(* an upload or a download makes the folders it needs.                      *)

Lacking(f) == IF f \in pass.local.dirs THEN "remote" ELSE "local"

NextCreate(f) == pass.phase = "create" /\ f \in pass.creates /\ pass.creates \intersect Above[f] = {f}

(* A parent seen to have gone from the drive makes the pass forget all the  *)
(* identities it has read.                                                  *)
Fresh(f) == IF Parent[f] \in pass.stale THEN {} ELSE pass.stale \ {f}

Create(f) ==
  /\ NextCreate(f) /\ Place(Lacking(f), WithFolder(At(Lacking(f)), f))
  /\ pass' = [pass EXCEPT !.creates = @ \ {f}, !.applied = @ \union {f},
                          !.stale = IF Lacking(f) = "remote" THEN Fresh(f) ELSE @]
  /\ UNCHANGED <<baseline, synced, held, unmade, counters>>

(* A folder is made by its parent's identity: in the trash, if the parent   *)
(* is there and a cached path or this pass vouches for it.                  *)
CreateAstray(f) ==
  /\ NextCreate(f) /\ Lacking(f) = "remote" /\ Parent[f] \in pass.stale
  /\ pass' = [pass EXCEPT !.creates = @ \ {f}, !.applied = @ \union {f}, !.stale = @ \union {f}]
  /\ UNCHANGED <<local, remote, baseline, synced, held, unmade, counters>>

(* Files that are equal on both sides, or gone from both, are recorded as such. *)
StartTransfers ==
  /\ pass.phase = "create" /\ pass.creates = {}
  /\ pass' = [pass EXCEPT !.phase = "files"]
  /\ synced' = (synced \intersect (pass.local.files \union pass.remote.files))
                 \union (pass.local.files \intersect pass.remote.files)
  /\ UNCHANGED <<local, remote, baseline, held, unmade, counters>>

LocalUnmoved(f) == f \in local.files <=> f \in pass.local.files
FileUnmoved(f) == LocalUnmoved(f) /\ (f \in remote.files <=> f \in pass.remote.files)

Transfer(f) ==
  /\ pass.phase = "files" /\ f \in pass.files /\ FileUnmoved(f)
  /\ LET deletes == Deletes(f, pass.local.files)
         side == IF deletes <=> f \in pass.local.files THEN "local" ELSE "remote" IN
     /\ Place(side, IF deletes THEN [At(side) EXCEPT !.files = @ \ {f}] ELSE WithFile(At(side), f))
     /\ synced' = IF deletes THEN synced \ {f} ELSE synced \union {f}
  /\ pass' = [pass EXCEPT !.files = @ \ {f}]
  /\ UNCHANGED <<baseline, held, unmade, counters>>

(* An upload goes to the folder's identity as the pass has it: into the     *)
(* trash, if the folder is there.  It is recorded all the same.             *)
UploadAstray(f) ==
  /\ pass.phase = "files" /\ f \in pass.files \intersect pass.stale
  /\ f \in pass.local.files /\ ~Deletes(f, pass.local.files) /\ LocalUnmoved(f)
  /\ synced' = synced \union {f}
  /\ pass' = [pass EXCEPT !.files = @ \ {f}]
  /\ UNCHANGED <<local, remote, baseline, held, unmade, counters>>

StartPrunes ==
  /\ pass.phase = "files" /\ pass.files = {}
  /\ pass' = [pass EXCEPT !.phase = "prune", !.stale = {}]
  /\ UNCHANGED <<local, remote, baseline, synced, held, unmade, counters>>

-----------------------------------------------------------------------------
(* Pruning, children first.  Each folder is looked at again on both sides,  *)
(* one request after another, before it is trashed.                         *)

CurrentStep(step) == pass.cur # NoDir /\ pass.cur.step = step
Continue(step) == pass' = [pass EXCEPT !.cur.step = step]
Looked(step) == pass' = [pass EXCEPT !.cur.step = step, !.cur.late = {}]
Skip == pass' = [pass EXCEPT !.cur = NoDir]
Present == pass' = [pass EXCEPT !.cur = NoDir, !.present = @ \union {pass.cur.dir}]
Applied == [pass EXCEPT !.cur = NoDir, !.applied = @ \union {pass.cur.dir}]

Pick(f) ==
  /\ pass.phase = "prune" /\ pass.cur = NoDir /\ f \in pass.prunes
  /\ pass.prunes \intersect Beneath(f) = {f}
  /\ pass' = [pass EXCEPT !.prunes = @ \ {f},
                          !.cur = [dir |-> f, lost |-> FALSE, late |-> {},
                                   side |-> IF f \in pass.local.dirs THEN "local" ELSE "remote",
                                   step |-> "look"]]
  /\ UNCHANGED <<local, remote, baseline, synced, held, unmade, counters>>

LookLocal ==
  /\ CurrentStep("look") /\ pass.cur.side = "local"
  /\ CASE pass.cur.dir \notin local.dirs -> Continue("gone")
       [] pass.cur.dir \in local.dirs /\ ~IsEmpty(local, pass.cur.dir) -> Skip
       [] OTHER -> Looked("stat")
  /\ UNCHANGED <<local, remote, baseline, synced, held, unmade, counters>>

StatRemote ==
  /\ CurrentStep("stat")
  /\ IF pass.cur.dir \in remote.dirs THEN Present ELSE Continue("trash")
  /\ UNCHANGED <<local, remote, baseline, synced, held, unmade, counters>>

(* The folder is already gone from the vault: is it gone from the drive?    *)
StatGone ==
  /\ CurrentStep("gone")
  /\ IF pass.cur.dir \in remote.dirs THEN Skip ELSE pass' = Applied
  /\ UNCHANGED <<local, remote, baseline, synced, held, unmade, counters>>

LookRemote ==
  /\ CurrentStep("look") /\ pass.cur.side = "remote"
  /\ Continue(IF pass.cur.dir \in local.dirs THEN "again" ELSE "find")
  /\ UNCHANGED <<local, remote, baseline, synced, held, unmade, counters>>

StatAgain ==
  /\ CurrentStep("again")
  /\ IF pass.cur.dir \in remote.dirs THEN Present ELSE Skip
  /\ UNCHANGED <<local, remote, baseline, synced, held, unmade, counters>>

FindRemote ==
  /\ CurrentStep("find")
  /\ IF pass.cur.dir \in remote.dirs THEN Continue("list") ELSE pass' = Applied
  /\ UNCHANGED <<local, remote, baseline, synced, held, unmade, counters>>

MutListRemote ==
  /\ CurrentStep("list") /\ Looked("trash")
  /\ UNCHANGED <<local, remote, baseline, synced, held, unmade, counters>>

(* What the trashed folder of a lost identity holds is not known.           *)
ListRemote ==
  /\ CurrentStep("list")
  /\ \/ (pass.cur.lost \/ IsEmpty(remote, pass.cur.dir)) /\ Looked("trash")
     \/ (pass.cur.lost \/ ~IsEmpty(remote, pass.cur.dir)) /\ Skip
  /\ UNCHANGED <<local, remote, baseline, synced, held, unmade, counters>>

Trash ==
  /\ CurrentStep("trash")
  /\ IF pass.cur.lost THEN UNCHANGED <<local, remote>>
     ELSE Place(pass.cur.side, Without(At(pass.cur.side), pass.cur.dir))
  /\ pass' = Applied
  /\ UNCHANGED <<baseline, synced, held, unmade, counters>>

-----------------------------------------------------------------------------
(* The end of a pass. *)

Deleted == {f \in pass.applied : f \in ToPrune(pass.local.dirs, pass.remote.dirs)}

MutNextBaseline ==
  ((pass.local.dirs \intersect pass.remote.dirs) \ Deleted)
    \union (pass.applied \ Deleted) \union pass.present

(* A folder stays recorded until its deletion is known to be complete; one  *)
(* the pass found on neither side is forgotten.                             *)
NextBaseline ==
  ((pass.local.dirs \intersect pass.remote.dirs)
    \union (baseline \intersect (pass.local.dirs \union pass.remote.dirs))
    \union pass.applied \union pass.present) \ Deleted

Finish ==
  /\ pass.phase = "prune" /\ pass.prunes = {} /\ pass.cur = NoDir
  /\ baseline' = NextBaseline
  /\ pass' = Idle
  /\ unmade' = [s \in Sides |-> (unmade[s] \intersect (pass.local.dirs \union pass.remote.dirs)) \ Deleted]
  /\ UNCHANGED <<local, remote, synced, held, counters>>

(* A file edited meanwhile is left for a later run while the pass goes on.  *)
FileDeferred(f) ==
  /\ pass.phase = "files" /\ f \in pass.files /\ ~LocalUnmoved(f)
  /\ pass' = [pass EXCEPT !.files = @ \ {f}]
  /\ UNCHANGED <<local, remote, baseline, synced, held, unmade, counters>>

(* A file that moved fails the pass, as a failed request does: what was     *)
(* done stays, and the folder history is not written.                       *)
FileRefused ==
  /\ pass.phase = "files" /\ \E f \in pass.files : ~FileUnmoved(f)
  /\ pass' = Idle
  /\ UNCHANGED <<local, remote, baseline, synced, held, unmade, counters>>

RequestFails ==
  /\ pass.phase # "idle" /\ faults < MaxFaults
  /\ faults' = faults + 1
  /\ pass' = Idle
  /\ UNCHANGED <<local, remote, baseline, synced, held, unmade, acts, oneWay>>

Environment == \E side \in Sides, f \in Dirs :
  MakeFolder(side, f) \/ MakeFile(side, f) \/ DeleteFolder(side, f) \/ DeleteFile(side, f)

Prune == LookLocal \/ StatRemote \/ StatGone \/ LookRemote \/ StatAgain
           \/ FindRemote \/ ListRemote \/ Trash

Proceed == ScanRemote \/ Plan \/ Refuse \/ StartTransfers \/ StartPrunes \/ Prune \/ Finish \/ FileRefused
             \/ \E f \in Dirs : \/ Create(f) \/ CreateAstray(f) \/ Transfer(f) \/ UploadAstray(f)
                               \/ FileDeferred(f) \/ Pick(f)

User == Confirm \/ Decline \/ \E dir \in Directions : StartPass(dir)

FoldersNext == \/ Environment \/ User
        \/ \E cached \in BOOLEAN : AutomaticPass(cached)
        \/ Proceed \/ RequestFails

FoldersSpec == FoldersInit /\ [][FoldersNext]_foldersVars

(* A pass that has begun goes on, up to a question, and the interval keeps  *)
(* starting passes while no refusal holds them back: what is kept of the    *)
(* drive's tree expires.  Nothing is assumed of the user.                   *)
FoldersFairSpec == FoldersSpec /\ WF_foldersVars(Proceed) /\ SF_foldersVars(AutomaticPass(FALSE))

-----------------------------------------------------------------------------
(* What pruning takes to the trash along with a folder came to it after the *)
(* look at the folder's content: on the drive between two requests, in the  *)
(* vault while the drive was asked (directory-apply.ts:86, :72).            *)
PruneTakesOnlyLateComers ==
  [][Trash => \/ pass.cur.lost
              \/ At(pass.cur.side).files \intersect Beneath(pass.cur.dir) \subseteq pass.cur.late]_foldersVars

(* A recorded folder that was deleted on one side while both had it is not  *)
(* created again there by a two-way pass, however often its pruning on the  *)
(* other side is put off or fails, unless somebody makes it, or a file in   *)
(* it, anew (dir-planner.ts:139).                                           *)
DeletionIsNotUndone ==
  [][\A f \in Dirs, side \in Sides :
       (Create(f) /\ pass.dir = "both" /\ side = IF f \in pass.local.dirs THEN "remote" ELSE "local")
         => f \notin unmade[side] \/ f \in At(side).dirs]_foldersVars

(* Once nobody changes anything, the two sides come to hold the same        *)
(* folders, unless a plan waits for the user: he is being asked, or it was  *)
(* refused, as every plan of an automatic pass is that deletes in the vault *)
(* (coordinator.ts:511-529, :568-581).                                      *)
AwaitsUser == held \/ (pass.phase = "confirm" /\ pass.attended)

FoldersConverge == <>[](AwaitsUser \/ local.dirs = remote.dirs)
=============================================================================
