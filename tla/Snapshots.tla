------------------------------ MODULE Snapshots ------------------------------
(***************************************************************************)
(* What a pass of the sync engine keeps for the next one: the tree of the  *)
(* drive with the watermark of its event probe, and the inventory of the   *)
(* vault (src/src/sync-engine.ts).  A pass that is given the edited paths  *)
(* may plan those alone from the kept inventories, as long as the drive    *)
(* reports no event since the tree was read.                               *)
(*                                                                         *)
(* Contents are numbers, 0 for a missing file; every edit makes a new one. *)
(* MirrorSync has the steps of one transfer and the edits no event         *)
(* reports; here a transfer is one step and its patch of the inventories   *)
(* another.                                                                *)
(***************************************************************************)
EXTENDS Integers, FiniteSets

CONSTANTS Paths,       \* the synced files
          None,
          Directions,  \* of a pass that a user asks for
          MaxVersion,  \* bound: edits on either side, and transfers need none
          MaxTime,     \* bound: the clock of the device
          Second,      \* clock ticks per second: events carry whole seconds
          Lifetime,    \* ticks for which an inventory may be used again
          Start,       \* the time at which the device's clock begins
          Leads,       \* of the drive's clock on the device's, either way
          MaxFaults    \* bound: failed probes and transfers, cancels, restarts

ASSUME SnapshotsAssumption ==
  /\ None \notin Paths
  /\ Second \in Nat \ {0} /\ Lifetime \in Nat
  /\ Start \in Nat /\ Leads \subseteq {l \in Int : Start + l >= 0}
  /\ MaxVersion \in Nat \ {0} /\ MaxTime \in Nat /\ MaxFaults \in Nat
  /\ Directions \subseteq {"both", "push", "pull"}

VARIABLES local, remote,   \* content of each path on the two sides
          base,            \* content last synced
          conflicts,       \* paths with a recorded conflict
          now, lead,       \* the clock of the device, and the drive's lead on it
          lastEvent,       \* the second of the drive's latest event
          hints,           \* edited paths the coordinator waits to sync
          confirm,         \* a cancelled plan holds automatic runs back
          cache, snap,     \* the kept tree of the drive and inventory of the vault
          pass,            \* the running pass
          left,            \* history: paths the latest full plan left by its direction
          made, faults     \* bounds: contents made, faults so far

sides == <<local, remote, base, conflicts>>
clock == <<now, lead>>
bounds == <<made, faults>>
vars == <<sides, clock, lastEvent, hints, confirm, cache, snap, pass, left, bounds>>

Content == 0 .. MaxVersion
Trees == [Paths -> Content]
Operations == {"push", "pull", "record", "conflict"}
Kinds == {"manual", "check", "auto"}

Idle == [phase |-> "idle", kind |-> "auto", dir |-> "both", again |-> FALSE,
         hints |-> {}, seen |-> {}, cacheValid |-> FALSE, snapValid |-> FALSE,
         narrow |-> FALSE, reuse |-> FALSE, clean |-> TRUE, mark |-> 0,
         local |-> None, walkAt |-> None, tree |-> None,
         jobs |-> {}, wrote |-> None, applied |-> FALSE,
         overlooked |-> {}, late |-> {}]   \* history of a narrow pass

Larger(a, b) == IF a >= b THEN a ELSE b

Init ==
  /\ base = [p \in Paths |-> 1] /\ local = base /\ remote = base /\ conflicts = {}
  /\ now = Start /\ lead \in Leads /\ lastEvent = 0
  /\ hints = {} /\ confirm = FALSE /\ cache = None /\ snap = None
  /\ pass = Idle /\ left = {} /\ made = 1 /\ faults = 0

-----------------------------------------------------------------------------
(* The user, the other devices and time. *)

(* An event carries the second of the drive's clock; whatever the plugin    *)
(* dates, it dates by the device's.                                         *)
ServerSecond == (now + lead) \div Second

Fault == faults < MaxFaults /\ faults' = faults + 1

Tick == /\ now < MaxTime /\ now' = now + 1
        /\ UNCHANGED <<sides, lead, lastEvent, hints, confirm, cache, snap, pass, left, bounds>>

(* An edit of the vault reaches the coordinator, as a path to sync, and the *)
(* engine, whose scan it invalidates.                                       *)
EditLocal(p, deletes) ==
  /\ made < MaxVersion /\ made' = made + 1
  /\ local' = [local EXCEPT ![p] = IF deletes THEN 0 ELSE made']
  /\ hints' = hints \union {p}
  /\ pass' = IF pass.phase = "idle" THEN pass
             ELSE [pass EXCEPT !.clean = pass.phase # "scan", !.seen = @ \ {p}]
  /\ UNCHANGED <<remote, base, conflicts, clock, lastEvent, confirm, cache, snap, left, faults>>

EditRemote(p, deletes) ==
  /\ made < MaxVersion /\ made' = made + 1
  /\ remote' = [remote EXCEPT ![p] = IF deletes THEN 0 ELSE made']
  /\ lastEvent' = ServerSecond
  /\ pass' = IF pass.narrow THEN [pass EXCEPT !.late = @ \union {p}] ELSE pass
  /\ UNCHANGED <<local, base, conflicts, clock, hints, confirm, cache, snap, left, faults>>

-----------------------------------------------------------------------------
(* A pass begins: what is kept is judged by its age, the drive is asked for *)
(* its events, and the two decide how much is read.                         *)

Refreshes == pass.kind # "auto"

IsFresh(kept) == kept # None /\ now - kept.fetched < Lifetime

StartPass(kind, dir) ==
  /\ pass.phase = "idle"
  /\ kind = "manual" \/ (~confirm /\ dir = "both")
  /\ confirm' = (kind # "manual" /\ confirm)
  /\ pass' = [Idle EXCEPT !.phase = "probe", !.kind = kind, !.dir = dir,
                          !.hints = IF kind = "auto" THEN hints ELSE {}, !.seen = hints,
                          !.cacheValid = IsFresh(cache), !.snapValid = IsFresh(snap), !.mark = now]
  /\ UNCHANGED <<sides, clock, lastEvent, hints, cache, snap, left, bounds>>

(* The drive reports an event of the watermark's second or a later one. *)
Watermark == IF cache = None THEN 0 ELSE cache.mark
Reported(mark) == lastEvent >= mark \div Second
NewWatermark(mark) == IF Reported(mark) THEN Larger(mark, lastEvent * Second) ELSE mark

(* Not so for a device whose clock is ahead of the drive's: the changes     *)
(* since its walk began may bear an earlier second than the walk.           *)
Overlooks(kept) == lead < 0 /\ lastEvent < kept.walked \div Second

Unreported == IF Overlooks(cache) THEN {p \in Paths : cache.tree[p] # remote[p]} ELSE {}

NarrowAllowed(unchanged) ==
  ~Refreshes /\ ~pass.again /\ pass.snapValid /\ pass.cacheValid /\ unchanged /\ pass.hints # {}

BeginScan(unchanged, mark) ==
  pass' = [pass EXCEPT !.phase = "scan", !.cacheValid = FALSE, !.snapValid = FALSE,
                       !.mark = IF unchanged /\ pass.cacheValid THEN 0 ELSE mark,
                       !.overlooked = IF NarrowAllowed(unchanged) THEN Unreported ELSE {},
                       !.reuse = unchanged /\ pass.cacheValid,
                       !.narrow = NarrowAllowed(unchanged),
                       !.tree = IF unchanged /\ pass.cacheValid THEN cache.tree ELSE None]

Probe ==
  /\ pass.phase = "probe"
  /\ IF Refreshes THEN BeginScan(FALSE, pass.mark)
     ELSE BeginScan(~Reported(Watermark), NewWatermark(Watermark))
  /\ UNCHANGED <<sides, clock, lastEvent, hints, confirm, cache, snap, left, bounds>>

ProbeFails ==
  /\ pass.phase = "probe" /\ ~Refreshes /\ Fault
  /\ BeginScan(FALSE, pass.mark)
  /\ UNCHANGED <<sides, clock, lastEvent, hints, confirm, cache, snap, left, made>>

-----------------------------------------------------------------------------
(* Reading the two sides. *)

ReadLocal ==
  /\ pass.phase = "scan" /\ pass.local = None /\ pass.clean
  /\ pass' = [pass EXCEPT !.local = local]
  /\ UNCHANGED <<sides, clock, lastEvent, hints, confirm, cache, snap, left, bounds>>

StartWalk ==
  /\ pass.phase = "scan" /\ ~pass.reuse /\ pass.walkAt = None
  /\ pass' = [pass EXCEPT !.walkAt = now]
  /\ UNCHANGED <<sides, clock, lastEvent, hints, confirm, cache, snap, left, bounds>>

Walk ==
  /\ pass.phase = "scan" /\ pass.walkAt # None /\ pass.tree = None
  /\ pass' = [pass EXCEPT !.tree = remote]
  /\ UNCHANGED <<sides, clock, lastEvent, hints, confirm, cache, snap, left, bounds>>

ScanRead == pass.phase = "scan" /\ pass.local # None /\ pass.tree # None

-----------------------------------------------------------------------------
(* Planning, and what is kept of a full scan. *)

Scope == IF pass.narrow THEN pass.hints \union conflicts ELSE Paths

(* What a path needs (planner.ts decides it by sizes, times and digests).   *)
(* Both sides changed are a dispute, which a pass of one direction settles  *)
(* for its own side unless one of them is deleted; it also brings back what *)
(* the side it writes has lost.                                             *)
Wanted(p) ==
  LET l == pass.local[p]  r == pass.tree[p]  b == base[p]
      changed == b \notin {l, r}
      deleted == b # 0 /\ 0 \in {l, r}
  IN  IF p \in conflicts THEN "conflict"
      ELSE IF l = r THEN IF b = l THEN "none" ELSE "record"
      ELSE IF changed /\ (deleted \/ pass.dir = "both") THEN "conflict"
      ELSE IF pass.dir # "both" /\ (changed \/ deleted) THEN pass.dir
      ELSE IF r = b THEN "push" ELSE "pull"

Allowed(p) == \/ Wanted(p) \in {"record", "conflict"}
              \/ Wanted(p) = "push" /\ pass.dir # "pull"
              \/ Wanted(p) = "pull" /\ pass.dir # "push"

Jobs == {p \in Scope : Wanted(p) # "none" /\ Allowed(p)}

LeftOut == {p \in Paths : Wanted(p) # "none" /\ ~Allowed(p)}

MutWalkMark(mark, walkAt) == Larger(mark, now)

(* A kept tree is dated before its walk began: what changes on the drive    *)
(* while the walk is under way is reported to the next probe.               *)
WalkMark(mark, walkAt) == Larger(mark, walkAt)

Publish ==
  IF pass.narrow THEN UNCHANGED <<cache, snap, left>>
  ELSE /\ cache' = IF pass.reuse THEN cache
                   ELSE [tree |-> pass.tree, fetched |-> now,
                         mark |-> WalkMark(pass.mark, pass.walkAt), walked |-> pass.walkAt]
       /\ snap' = [tree |-> pass.local, fetched |-> now]
       /\ left' = LeftOut

(* A narrow scan checks for edits once it has read the vault, a full scan   *)
(* again after the equality reads.                                          *)
Plan ==
  /\ ScanRead /\ (pass.narrow \/ pass.clean)
  /\ Publish
  /\ pass' = [pass EXCEPT !.phase = "apply", !.jobs = Jobs,
                          !.clean = TRUE, !.mark = 0, !.walkAt = None]
  /\ UNCHANGED <<sides, clock, lastEvent, hints, confirm, bounds>>

(* A plan that must be confirmed is declined: nothing is written and only a *)
(* run the user asks for may follow.                                        *)
Decline ==
  /\ pass.phase = "apply" /\ pass.jobs # {} /\ ~pass.applied /\ pass.wrote = None /\ Fault
  /\ confirm' = TRUE /\ pass' = Idle
  /\ UNCHANGED <<sides, clock, lastEvent, hints, cache, snap, left, made>>

-----------------------------------------------------------------------------
(* Applying. *)

Unmoved(p) == local[p] = pass.local[p] /\ remote[p] = pass.tree[p]

Commit(p, patched) ==
  pass' = [pass EXCEPT !.jobs = @ \ {p}, !.applied = @ \/ patched,
                       !.wrote = IF patched THEN p ELSE None]

CanExecute(p) == pass.phase = "apply" /\ pass.wrote = None /\ p \in pass.jobs

Push(p) ==
  /\ CanExecute(p) /\ Wanted(p) = "push" /\ Unmoved(p)
  /\ remote' = [remote EXCEPT ![p] = local[p]]
  /\ base' = [base EXCEPT ![p] = local[p]]
  /\ lastEvent' = ServerSecond
  /\ Commit(p, TRUE)
  /\ UNCHANGED <<local, conflicts, clock, hints, confirm, cache, snap, left, bounds>>

Pull(p) ==
  /\ CanExecute(p) /\ Wanted(p) = "pull" /\ Unmoved(p)
  /\ local' = [local EXCEPT ![p] = remote[p]]
  /\ base' = [base EXCEPT ![p] = remote[p]]
  /\ Commit(p, TRUE)
  /\ UNCHANGED <<remote, conflicts, clock, lastEvent, hints, confirm, cache, snap, left, bounds>>

(* The history alone is out of date: the equal contents are recorded. *)
RecordEqual(p) ==
  /\ CanExecute(p) /\ Wanted(p) = "record" /\ Unmoved(p)
  /\ base' = [base EXCEPT ![p] = pass.local[p]]
  /\ Commit(p, FALSE)
  /\ UNCHANGED <<local, remote, conflicts, clock, lastEvent, hints, confirm, cache, snap, left, bounds>>

(* Both sides are read again and recorded.  A conflict that is new must be  *)
(* as it was planned.                                                       *)
CaptureConflict(p) ==
  /\ CanExecute(p) /\ Wanted(p) = "conflict" /\ (p \in conflicts \/ Unmoved(p))
  /\ conflicts' = conflicts \union {p} /\ Commit(p, FALSE)
  /\ UNCHANGED <<local, remote, base, clock, lastEvent, hints, confirm, cache, snap, left, bounds>>

(* The conflict ends with one of its sides, with a new content, or with none. *)
Settle(p, result) ==
  /\ IF result \in {0, local[p], remote[p]} THEN UNCHANGED made
     ELSE made < MaxVersion /\ made' = made + 1 /\ result = made'
  /\ local' = [local EXCEPT ![p] = result] /\ remote' = [remote EXCEPT ![p] = result]
  /\ base' = [base EXCEPT ![p] = result] /\ conflicts' = conflicts \ {p}
  /\ lastEvent' = IF remote[p] = result THEN lastEvent ELSE ServerSecond
  /\ UNCHANGED <<clock, confirm, left, faults>>

(* The pass ends it itself, whatever its direction: by carrying on what was *)
(* approved and interrupted, or by an automatic merge of two files.         *)
SettleConflict(p, result) ==
  /\ CanExecute(p) /\ Wanted(p) = "conflict"
  /\ p \in conflicts \/ (Unmoved(p) /\ 0 \notin {local[p], remote[p], result})
  /\ Settle(p, result) /\ Commit(p, TRUE)
  /\ UNCHANGED <<hints, cache, snap>>

Patched(kept, p) ==
  IF kept = None THEN None ELSE [kept EXCEPT !.tree[p] = base[p]]

PatchSnapshots ==
  /\ pass.phase = "apply" /\ pass.wrote # None
  /\ cache' = Patched(cache, pass.wrote) /\ snap' = Patched(snap, pass.wrote)
  /\ pass' = [pass EXCEPT !.wrote = None]
  /\ UNCHANGED <<sides, clock, lastEvent, hints, confirm, left, bounds>>

Finish ==
  /\ pass.phase = "apply" /\ pass.jobs = {} /\ pass.wrote = None
  /\ cache' = IF pass.applied /\ pass.kind # "auto" THEN None ELSE cache
  /\ hints' = IF pass.dir = "pull" THEN hints ELSE hints \ pass.seen
  /\ pass' = Idle
  /\ UNCHANGED <<sides, clock, lastEvent, confirm, snap, left, bounds>>

-----------------------------------------------------------------------------
(* Failures. *)

ScanOutdated == /\ pass.phase = "scan" /\ ~pass.clean
                /\ pass.local = None \/ (~pass.narrow /\ pass.tree # None)
TransferRefused == \E p \in Paths \ conflicts : CanExecute(p) /\ ~Unmoved(p)

MutDropKept == UNCHANGED <<cache, snap>>

(* A failed pass drops what it keeps, and starts anew at most once. *)
DropKept == cache' = None /\ snap' = None

Retry ==
  IF pass.again THEN pass' = Idle
  ELSE \/ pass' = Idle
       \/ pass' = [Idle EXCEPT !.phase = "probe", !.kind = pass.kind, !.dir = pass.dir,
                               !.again = TRUE, !.hints = pass.hints, !.seen = pass.seen, !.mark = now]

Fail ==
  /\ ScanOutdated \/ TransferRefused
  /\ DropKept /\ Retry
  /\ UNCHANGED <<sides, clock, lastEvent, hints, confirm, left, bounds>>

RequestFails ==
  /\ pass.phase \in {"scan", "apply"} /\ Fault
  /\ DropKept /\ pass' = Idle
  /\ UNCHANGED <<sides, clock, lastEvent, hints, confirm, left, made>>

(* The application is closed: edits that follow are not seen as they happen. *)
Restart ==
  /\ Fault /\ DropKept
  /\ pass' = Idle /\ hints' = {} /\ confirm' = FALSE /\ left' = {}
  /\ UNCHANGED <<sides, clock, lastEvent, made>>

(* The user settles a conflict between passes: nothing that was kept stays. *)
Resolve(p, result) ==
  /\ pass.phase = "idle" /\ p \in conflicts
  /\ Settle(p, result) /\ DropKept
  /\ hints' = hints \ {p} /\ UNCHANGED pass

Execute(p) == Push(p) \/ Pull(p) \/ RecordEqual(p) \/ CaptureConflict(p)

Next ==
  \/ Tick
  \/ \E p \in Paths, deletes \in BOOLEAN : EditLocal(p, deletes) \/ EditRemote(p, deletes)
  \/ \E kind \in Kinds, dir \in Directions : StartPass(kind, dir)
  \/ Probe \/ ProbeFails \/ ReadLocal \/ StartWalk \/ Walk \/ Plan \/ Decline
  \/ \E p \in Paths : Execute(p) \/ \E result \in Content : SettleConflict(p, result) \/ Resolve(p, result)
  \/ PatchSnapshots \/ Finish \/ Fail \/ RequestFails \/ Restart

Spec == Init /\ [][Next]_vars

-----------------------------------------------------------------------------
(* The kept tree of the drive may be out of date only where the next event  *)
(* probe says so: wherever it differs from the drive, the probe at its      *)
(* watermark reports an event.  The one exception is a device whose clock   *)
(* is ahead: it overlooks changes that the drive dates before the second in *)
(* which the device began to walk (sync-engine.ts:633, fs-remote.ts:507).   *)
StaleCacheIsReported ==
  (cache # None /\ cache.tree # remote) => Reported(cache.mark) \/ Overlooks(cache)

(* A narrow plan leaves out no path that needs syncing, except one edited   *)
(* since the pass began (it is a hint of the next run), one changed on the  *)
(* drive after the probe, one that the latest full plan had to leave        *)
(* because of its direction, and one whose change the probe could not tell  *)
(* because the device's clock is ahead (sync-engine.ts:430,                 *)
(* scan-policy.ts:35).                                                      *)
NarrowMissesNothing ==
  (pass.phase = "apply" /\ pass.narrow) =>
    \A p \in Paths \ Scope :
      /\ local[p] # base[p] => p \in hints \union left
      /\ remote[p] # base[p] => p \in left \union pass.late \union pass.overlooked
=============================================================================
