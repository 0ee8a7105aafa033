# Verification of obsidian-filen-sync

A TLA+ development kept beside the Obsidian plugin that mirrors a vault with a
folder of the Filen drive. It models the plugin's own decisions and the order in
which it reads and writes, checks small instances with TLC, and proves some of
the results for every instance with TLAPS. Paths below are relative to the
repository; `src/sync/executor.ts` is the plugin's source file of that name.

## 1. The system

| Component | State it keeps | Operations | Talks to |
|---|---|---|---|
| Planner (`sync/planner.ts`) | none | `planSync`: one operation per path from three optional facts | called by the engine |
| Equality evidence (`sync/equality-hashes.ts`) | none | compares pairs of equal size, by Filen's SHA-512 or by download | hash cache, remote |
| Sync engine (`sync-engine.ts`) | cached local and remote inventories, hash cache, invalidation epoch | `sync`, `invalidateLocal`, `previewPlan`, `close` | scanner, remote, planner, apply pass |
| Apply pass, executor (`sync/apply-pass.ts`, `sync/executor.ts`, `sync/pool.ts`) | what is in flight | upload, download, delete, capture conflict, accept equality, forget | vault, remote, database |
| Local scanner, hash cache (`sync/local-scanner.ts`, `sync/local-hash-cache.ts`) | fingerprints with a five-minute deadline, a generation | scan, read, invalidate, prune | vault |
| Filen remote (`fs-remote.ts`) | SDK client with its path cache, mutation session, directory identities | walk, read, guarded write, guarded delete, folders, events, versions | Filen |
| Coordinator (`sync/coordinator.ts`) | running, previewing, pending paths with revisions, retry and back-off timers, conflict session | `runSync`, `requestAutoSync`, events, timers | engine, user interface |
| Conflict store, application, cleanup (`sync/conflict-*.ts`) | conflict records with approval and progress | capture, apply, resume, clean up copies | database, both sides |
| Folders (`sync/dir-planner.ts`, `sync/directory-apply.ts`) | synced-folder set | plan, create, prune | both sides |
| Pools, transfers (`sync/byte-bounded-pool.ts`, `sync/chunk-transfers.ts`) | bytes in flight, the drive's write lock | run bounded, upload or download chunks | Filen |
| Forced upload (`sync/force-upload.ts`) | none of its own | check, consent, upload, record | Filen, database |
| Version history, deleted files (`file-version-modal.ts`, `ui/deleted-files-modal.ts`) | what the window shows | restore a revision, restore a deleted file | vault, Filen, recovery copies |
| Kept inventories (`sync-engine.ts`, `sync/scan-policy.ts`) | tree of the drive with an event watermark, inventory of the vault | probe, walk, narrow or full scan, patch, drop | remote events |
| Database, recovery (`db.ts`, `sync/recovery*.ts`, `merge-baseline-budget.ts`) | history, conflicts, recovery copies, merge texts | get, set, delete, prune | IndexedDB |
| Plugin (`main.ts`) | current target, engine, coordinator | start, stop, change of target, commands, forced upload | everything |

Vault events reach the coordinator, which invalidates the engine's hash and
epoch and asks for a run; the coordinator runs one pass at a time; a pass scans
both sides, plans, asks for confirmation and applies; an automatic run that would
have to ask refuses, and automatic runs are then held until the user starts one.
Conflicts are recorded by passes and resolved by the user between them, except
that a pass merges what it can when it is set to (`executor.ts:195`) and finishes
an approved result that was interrupted (`:100`), in whatever direction it runs.

The behaviours that are hard to test are those of `PROJECT.json`'s `hazards`:
everything the code reads before an `await` and uses after it (a vault file, an
object of the drive, a cached hash), crashes between the write of a file and the
write of its history, a failing transfer beside a running one, the SDK's stale
path cache, and requests that arrive while something else runs.

What makes each part correct: the planner must overwrite only what was synced
and rest only when nothing is left to do; the history must be true; no pass may
destroy unsynced content on either side; a recorded conflict moves its path to
nothing but the result approved for it; a direction otherwise writes one side
only; and once everybody is quiet the sides must become equal, or the user be
asked. For the coordinator: one run at a time, no request lost, retries
bounded. For a conflict's resolution: what was approved is what both sides end
with, across restarts, or the record stays.

## 2. Modules

| Module | Models |
|---|---|
| `SyncPlanner` | `planner.ts` and `equality-hashes.ts` as operators on optional facts |
| `PlannerCases` | one decision for every history of a path, against a declarative three-way rule |
| `MirrorSync` | passes of the engine and conflict sessions over one vault and one Filen folder, with the user, other devices, an unnoticed edit, faults and crashes |
| `Snapshots` | what the engine keeps between passes, narrow and full scans, the drive's event probe |
| `Folders` | plan, creation, pruning and history of folders |
| `BytePool`, `ChunkTransfer` | the hashing pool, and uploads and downloads in chunks |
| `RecoveryIndex` | the cache of recovery lookups beside writes of this and other windows |
| `Coordinator` | which operation may run when, what asks for automatic runs, and the edits that wait for one |
| `SyncTarget` | binding of history, client and engine to the account and folder of the settings |
| `ConflictStore` | the state of a note on both sides, its history, and the capture of its conflicts |
| `ConflictApply`, `ForceUpload`, `Restore` | the ways a user has a note written: a reviewed or automatic result, a forced upload, a restored revision or deleted file |
| `UserWrites` | those three composed over `ConflictStore`, with edits, renames, other devices, failures and restarts |
| `Resolution` | the abstract specification of a conflict, which `UserWrites` implements |
| `MCMirrorSync`, `MCCoordinator`, `MCUserWrites`, `MCSnapshots`, `MCSyncTarget` | contents, paths, symmetries, initial states and the refinement mapping for TLC |
| `MCComponents` | the components that share no state, side by side for one run |
| `MirrorSyncProofs`, `MirrorSafetyProofs`, `CoordinatorProofs`, `UserWritesProofs`, `UserWritesSafetyProofs`, `SnapshotsProofs`, `SyncTargetProofs`, `ComponentsProofs` | the theorems of section 5 |

The modules meet where the code calls or shares:

- A run of `Coordinator` is a pass of `MirrorSync`. `MirrorSync` may start a pass
  whenever none is in progress and no refused plan holds automatic ones, which is
  more than the coordinator allows, so that what it shows to be safe is so under
  every schedule; `Coordinator` lets a pass end in every way the engine can end it.
- `UserWrites` lets one operation write at a time, which is what
  `Coordinator!OneOperation` shows and `CoordinatorProofs` proves. It has the
  clean-up of copies, forced uploads and restorations, and sessions alone;
  `MirrorSync` has the same application of a result (`ApplyRead` ...
  `DropConflict`) where a pass or a session comes to it, beside the other paths'
  transfers and for passes of each direction.
- `Snapshots` says which paths a narrow pass may leave out; `MirrorSync` says
  what a pass does with those it takes, `Folders` what it does with folders.
- `SyncTarget` says on which history and client all of them work.
- `ConflictStore`, `ConflictApply`, `ForceUpload` and `Restore` share their
  variables and are composed by `EXTENDS`.

### How `MirrorSync` corresponds to the code

`local` is the vault, `remote` and `object` are the drive: a path names an
identity, an identity an immutable uploaded object. `base` and `conflict` are
the two stores that survive a restart. `hashes` is `LocalHashCache`; `phase`,
`pass`, `localScan`, `remoteScan` and `job` are the local variables of a pass
and die with it.

An action is a stretch of the code between two awaits that matter: a check and
the read it needs, or one write. An upload is `UploadRead` (stat and read),
`UploadRecheck`, `UploadPrecheck` (`fileExists`), `UploadCommit`,
`UploadRecord` (`setFile`), `UploadFinish`; a download `DownloadRead`,
`DownloadVerify`, `DownloadArm` (the last look at the local file),
`DownloadWrite`, `DownloadRecord`; and so on, as the comments of the module say.
`raced` marks a job whose last check was overtaken by a change, which is how the
properties separate the window between a check and its write from a missing
check. `consent` says how the question a plan may raise is answered: `attended`
when the user started the pass, so that it may be confirmed or declined; `none`
for an automatic pass, which refuses (`coordinator.ts:511-529`); `held` after a
refusal, until the user starts a pass (`:487`, `:568-581`). A conflict's job goes
the same steps in a pass and, in `phase` "review", in a session that runs alone:
capture (`CaptureRead`, `CaptureCheck`, `CaptureRecord`), then approval, drive,
vault, history and the end of the record. It gets past the capture when it finds
an approval (`ResumeApproval`), when it merges (`Merges`; `Mergeable` are the
notes and selected settings files), or when the user chose the result
(`StartReview`). The order of a plan is left open: the pool may start any transfer next,
and everything else runs alone, which includes the order the code chooses.

Abstractions, all of data: a digest is the content it was computed from, so
SHA-256 and SHA-512 never collide; a file is its content and modification time;
creation times and Filen's version numbers are left out; an applied result is
given the time `Now`, which no file is ahead of; the bytes of a merge are any;
the thresholds of the bulk guard are replaced by "a plan that destroys something
may need confirmation", while one that deletes in the vault always does; a scan of all files is one step, because the invalidation epoch
discards a scan during which an event arrived.

External behaviour is modelled from how the plugin uses it. `Lookup` is the
SDK's `pathToItemUUID`, whose directory cache the plugin resets only between
mutation sessions (`fs-remote.ts:99-113`, `:159-162`; `:491` says which reads
avoid it): it may return the identity scanned earlier until the file is gone.
`fileExists` and directory listings are answered by Filen itself. `SilentEdit` is
a rewrite that keeps size and modification time and raises no event, the reason
for the cache's deadline (`local-hash-cache.ts:23`).

Automatic passes may follow one another without limit. The coordinator holds
them back after the fourth in a row that met changes, each of which had planned
twice (`coordinator.ts`, `isReplanRetryHeld`). That takes eight disturbances,
more than the bounds of the runs here allow, so the hold is in `Coordinator`
only. "Restore sync" (`main.ts:967`) ends holds at the user's will and is left
out.

### How `Coordinator` corresponds to the code

`co` is one record of flags: the fields of `SyncCoordinator` and those of the
plugin it consults through its options (`main.ts`); the comments of `Flags` give
each field's name in the source. `pending` and `changes` are `pendingPaths` and
`changeRevision`. `run`, `session` and `plan` are the local variables of
`runSync`, of a conflict session (`refreshConflict`, `resolveConflict`) and of
`generatePreview`; each of them moves in stages that end where the code awaits
something that lasts. `engine`, `outdated` and `renew` say what `main.ts` keeps
of the sync engine and whether its replacement is put off. `latest` is no state
of the program: it records what became of the last edit of each file.

Synchronous code is one step, whatever it calls: the end of a run grants the
first waiting conflict, drops an invalidated engine and arms the timer of a
queued request, all in `RunSucceeds` or its failing siblings.

Abstractions. Time is an armed `timer` that may fire and `cooling`, which says
that the earliest permitted moment has not come; no duration is compared. The
causes of a failed run are reduced to the five the code treats differently. The
adapter takes every request but a GET that is given up for a mutation that may
still take effect (`obsidian-axios-adapter.ts:113`, `:145-151`), a listing too:
so a run may end `uncertain` in any stage, and a preview also, whose request
(`listing`) keeps later preparations out until it settles but writes nothing. A
run that the interval or a queued request starts may be narrow when hints are
pending, because the code decides that from the hints alone. `Echo` is the event
that the plugin's own write raises in the vault. Left out: folder events (they
ask for a full scan as `full` does), changes of account, status texts and
notices, and `queueResolvedChange`.

### How the conflict modules correspond to the code

`local`, `remote`, `object` and `base` are as in `MirrorSync`, without times and
sizes: these paths compare digests. `review` is the stored conflict record of a
path with the snapshots, approval and progress of `conflict-store.ts`;
`recovery` the contents of which a recovery copy exists; `shown` whether the
review on the screen is of the recorded revision. `op` is the operation under
way: its `step` names the await it has reached, its other fields are the local
variables it carries on. An approval is stored before anything is written, then
each progress flag before the next side (`ConflictApply`); `StartResume` is what
a later pass does with an approval it finds. The clean-up of conflict copies
named after the note follows in the same operation, and the record goes last.
What bytes a merge yields is left open: `StartApply` may approve any content or
a deletion. `ForceUpload` reads the path of its file again for the history, as
the code does. `Restore` reads, preserves, compares and writes as the two
windows do. The code lets a restoration run beside everything else. What anybody
may write meanwhile, an earlier upload that comes back included, is among the
edits of `UserWrites`, so that one operation at a time is enough.

A pair read of both sides is one step: a change of one side between the two
reads commutes with the read of the other. `raced` names the sides that moved
after the last look the code takes at them.

`Resolution` has three variables: the state of a conflict, what was approved,
and the content the history names. `MCUserWrites` maps the stored record and the
history to them; `ImplementsResolution` says that every step of `UserWrites`,
restarts included, is a step of `Resolution` or none of its.

### How `Snapshots` corresponds to the code

`cache` and `snap` are the engine's kept trees, with the date and the watermark
they are kept under; `pass` the local variables of `sync` from the event probe
to the last patch; `hints` and `confirm` what the coordinator passes in. Contents
are numbers and every edit makes a new one, so that equal numbers mean an
undisturbed file. `lastEvent` is the second of the latest event on the drive, and
`lead` how far the drive's clock is ahead of the device's: below zero for a
device that is fast, whose `Date.now()` becomes a watermark
(`sync-engine.ts:266`, `:626`, `:633`) later than the drive's events.
`Overlooks` is the case in which a change is thereby missed (section 4). A transfer is one
step and the patch of the trees another; the steps within a transfer are those
of `MirrorSync`. It is assumed that the events endpoint includes the second it
is asked for, and that neither clock jumps; fast polling is on; hints of folders count as none, and the plan of a preview is
left out.

### How `SyncTarget` corresponds to the code

`chosen` is the target of the settings, `db`, `client` and `engine` the fields
`db`, `remoteFs` and the coordinator's engine, `prep` the one preparation that
all callers share, with the generation it began in. Each of the five `Callers`
(runs, conflict sessions, the preview, dialogs, the forced upload) is at a
`phase`, has an `answer` of the preparation to act on, and `holds` the history
and client it works with. `Quiet` says that promise continuations run before the
next event. A conflict session goes on only if the history open after its
preparation is the one its review was opened on (`coordinator.ts:208-210`). The settings tab changes the field first, saves, and then calls
`refreshSyncTarget` (`settings.ts:350-356`): `edited` is the time between, for
which no property speaks (section 4). A target root that is replaced on the
drive is left out, as are more than one preview window at a time and dialogs
opened in that gap.

### How the smaller modules correspond to the code

`Folders`: a folder holds at most one file, which is what pruning asks. A pass
scans, plans, creates, transfers, prunes step by step (`LookLocal` ... `Trash`
are the requests around one folder) and records the folders last. The questions
of a plan, their refusal and `held` are as in `MirrorSync`. `stale` are folders
that another device trashed while the pass still has their identities:
`CreateAstray` and `UploadAstray` then make folder or file in the trash.

`BytePool`: `StartLarge` and `StartSmall` are the two schedulers of
`runByteBounded`; `inFlight` counts accounted bytes. `ChunkTransfer`: a fixed
number of workers takes chunks in order; an upload becomes a file by one final
request sent under the SDK's lock. `made` is set where the drive makes the file,
not where the answer arrives: the answer may be lost. Encryption is left out.

`RecoveryIndex`: one `InvalidateTarget` before and one after every write of this
window; writes of other windows are announced to nobody. Which key makes room is
left open.

`PlannerCases`: `Init` is every combination of local, remote and synced facts a
path can have, `Decide` asks `planSync`.

## 3. Runs

| Run | Question | Bounds | Deadlock |
|---|---|---|---|
| `mirror_both` | are both sides safe, whatever passes and sessions follow one another? | one note that may be merged, two interchangeable contents of one size, two times, passes of all three directions, 2 edits, 1 silent edit, 1 fault; 1.8 million states | checked |
| `mirror_pool` | do parallel transfers interfere? | two symmetric notes without digests, two workers, 2 edits, 1 fault; 1.4 million states | checked |
| `mirror_converges` | does everything settle, or ask? | one path, one time, automatic and two-way passes, 2 edits, 1 silent edit, 1 fault | checked |
| `coordinator` | do runs, sessions, previews and forced uploads exclude one another, is every edit kept, is any wake-up lost? | two files, two waiting conflicts, every command; 2 edits, 2 commands, 2 faults, one re-plan | off |
| `coordinator_serves` | is every edit synchronized and every waiting conflict served? | one file, two waiting conflicts; 1 edit, 3 commands, 1 fault; without forced uploads, focus, settings and unload | off |
| `user_writes` | does any way of writing a note destroy what nobody agreed to lose? is every approval carried out? | a note and a conflict copy, two contents, six identities; 2 edits, 1 rename, 2 acts, 1 fault or restart | off |
| `snapshots` | does a narrow pass miss anything? | two symmetric files, 3 edits, a clock from 2 to 4 in ticks of half a second, a drive two ticks behind, on time or a tick ahead, 1 fault | off |
| `target` | does anything work on two targets at once? | two targets, five callers, two drops of the client | off |
| `components` | are planner, folders, recovery lookups, hashing pool and chunk transfers right? | below | off |
| `coordinator_preview` | finding: a preview that is over still blocks runs | violated | off |
| `force_rename` | finding: a history entry for a path nothing was uploaded to | violated | off |
| `target_readonly` | finding: a run whose history cannot be written | violated | off |

Deadlock checking is off where the system may stop: the user's acts, edits and
the clock are bounded and nothing need be under way, a planner's case is decided
once, a pool and a transfer end, the user may pause or unload the plugin.

**Mirror.** Two edits are enough for every pair of changes that race (one per
side, or two on one side), a silent edit adds the stale hash, a fault the
restart. Two contents of one size make every comparison of digests decisive;
`mirror_pool` has two of different sizes and no digests, so that equality must be
established by download. Identities are recycled once nothing refers to them
(`Referenced`), so a small `Uuid` is no bound on the number of uploads: six for
one path are all that can be referred to at once. A fault may be a crash between
the two writes of an approved result, which a later pass, of either direction,
then resumes.

**Coordinator.** Two commands put a second operation into every window of a
first one, and two waiting conflicts fill the queue behind a session. Two edits
separate a path's revisions, two faults a failed retry from a failed run.
`MaxReplans` is 1 where the code has 3: the properties tell only "below the
limit" from "at the limit". Three commands let a review be opened, a conflict
requested and one more thing happen to them, or two conflicts be requested, so
that one session hands over to the next. Forced uploads, which do lose a wake-up
(section 4), focus, settings and unloading are absent from `coordinator_serves`
to keep it small.

**User writes.** Two edits put a change of either side, or one of each, into any
two windows of an operation. Two acts let an approval be followed by a forced
upload or a restoration, or the reverse. The two contents are interchangeable,
and TLC's symmetry cannot be used with liveness, so `NoteIsA` keeps one of each
two initial states that differ only in their names. The conflict copy is needed
for the clean-up; six identities suffice for the objects the bounds allow.

**Snapshots.** A second of two ticks lets an edit fall before or after a probe
within one second, and a drive that is ahead shift it; a device that is a whole
second fast overlooks events; three edits let both
sides move and one move again. A lifetime of two ticks lets a kept tree expire.

**Target.** Two drops of the client let a first target return (A, B, A), which
is what a stale preparation needs to be mistaken for a current one.

**Components.** The five share no state: a behaviour is one of a single
component while the others rest, so that the state spaces add. The planner has
three contents, two of one size, and two times: every pattern of equality. The
folders are one within another, with three acts, one one-way pass, one fault.
The recovery cache has two keys and room for one, two own writes and a foreign
one, a lifetime within the clock. The pool has four jobs of sizes that are
empty, small, just within the budget, beyond it and large. Two transfers of up
to three chunks, with two workers each, compete for the lock.

**Fairness.** `mirror_converges` assumes weak fairness of the engine: the interval
timer starts automatic two-way passes while nothing holds them, and every request
ends, by its answer or its timeout. It assumes no act of the user: neither a pass
nor the confirmation of one, so that what it shows is that the sides become equal
or the plugin awaits the user, being refused or asking (`AwaitsUser`). It further
assumes strong fairness of `ExpireHash` (a
cached hash reaches its five-minute deadline however many passes run meanwhile).
Without `ExpireHash` a file rewritten silently is never seen again: that is the
run's mutant. `coordinator_serves` assumes weak fairness of the steps of a run, a
session, a preview's computation and a forced upload (each awaits requests that
end), of `Refreshes` (the saving of the settings ends), and of the clock: an
armed timer fires, the interval ticks, a waiting time passes (`Cool`). It
assumes nothing of the user, who may leave a window open or automatic runs
paused, of the network, or of a request that was given up (`Settles`); its two
properties say so. `user_writes` assumes that what is under way goes on
(`Proceed`) and that passes keep meeting an approval they find (`StartResume`, by
the interval); faults and edits are bounded. In `components`, a folder pass goes
on (`Proceed`) up to a question, automatic two-way passes that read the drive
anew keep coming while no refusal holds them (strong fairness: the interval
starts them and a kept tree expires, but a pass may be under way when it does),
and a pool's jobs end; of the user nothing is assumed, and `FoldersConverge` says
"or awaits the user" too.

Every property of a passing run has a mutant in `PROJECT.json`: a plausible bug,
written beside the definition it replaces (`Mut...`), that TLC finds.

## 4. Findings

`coordinator_preview`: `generatePreview` sets `isPreviewActive`
(`coordinator.ts:405`) after the window has awaited its target and does not ask
whether the window is still open. If it was closed meanwhile, nothing clears the
flag again: every run is refused with "Preview in progress." and every conflict
waits until a preview is opened and closed once more.

`force_rename`: a forced upload uploads to the path its file had when it began
and afterwards reads `file.path` again for the history (`force-upload.ts:79`). A
note renamed meanwhile is recorded under its new name with an object at the old
one; the next two-way pass takes the new path for one that was deleted on the
drive.

`target_readonly`: `prepareSyncTarget` hands whoever asks the preparation that is
under way, read-only or not (`main.ts:573`). A run that begins while the
deleted-files window prepares a new target transfers files and then cannot
record them.

Seen while modelling, not stated as runs:

- `pullRemote` awaits between its last check of the local file
  (`executor.ts:402-418`) and `writeBinary` (`:421`). An edit in between is
  overwritten and no recovery copy is kept, although the comment above the check
  (`:400-401`) promises to leave both originals untouched. `LocalWriteIsSafe`
  shows that this window is the only way.
- The same check takes a missing local file as free to write (`:403`). A synced
  file that the user deletes after the plan, while another device changed it, is
  recreated; by the planner's rule it should have been reviewed.
- A restoration compares the file with what it preserved only once
  (`file-version-modal.ts:509-513`). `replaceRevision` (`:517-526`) compares two later
  reads with one another, so an edit made before the first of them is
  overwritten and not preserved, although the window says that the current
  content will be saved in local recovery (`:487`). `OriginalsAreKept` therefore
  counts what changes after that comparison as put there too late.
- A run takes the queued request and its timer over when it begins
  (`coordinator.ts:480-486`). A successful pull keeps the edited files pending
  (`:589-592`) but schedules nothing; a manual run that fails does not return
  the request either. Without the interval they wait for the next edit or focus.
- A forced upload swallows a timer that fires meanwhile: `requestAutoSync` drops
  the request because `canAutoSync` is false, and the end of `forceSyncFile`
  (`main.ts:903-907`) only invalidates the engine. `NoLostWakeup` shows that
  nothing else leaves a queued request without a timer.
- A device whose clock is ahead of the drive's by a second or more misses remote
  changes: the watermark of a tree is the device's `Date.now()`
  (`sync-engine.ts:266`, `:626`, `:633`), and the drive is asked for events from
  its second on (`fs-remote.ts:507-512`), while the events of the time since bear
  earlier seconds. Until the kept tree expires, narrow and kept-tree passes do
  not see them. `docs/remotely-save-research.md:207` asks for a watermark that
  overlaps. `StaleCacheIsReported` and `NarrowMissesNothing` except what is so
  overlooked, and show that nothing else is missed.
- A folder that another device trashes during a pass swallows what the pass puts
  into it: uploads and new folders go to the identity that was scanned
  (`fs-remote.ts:287-296`, `:427-445`), which is then in the trash, and are
  recorded as synced. The next pass finds them missing on the drive and plans to
  delete the vault's copies, which it asks about first.
- `resolveConflict` drops the pending entry of its path whatever its revision,
  so an edit made after the result was written is a hint no longer (`late` in
  `latest`). The engine is dropped with it, and the next run reads everything.
- "Apply preview", although a full two-way run, does not end the need for
  reconciliation.
- Between a change of the folder in the settings tab and `refreshSyncTarget`,
  which follows the saving, a client that is made anew (a password typed in that
  moment drops the old one) is of the new target while the history is of the old
  one. A run, a dialog or a forced upload that begins in that moment works with
  the two; the properties of `SyncTarget` exempt it by `edited`.

## 5. Proofs

All theorems hold for every value of the constants that satisfies the modules'
named `ASSUME`s, which TLC evaluates on every run.

`MirrorSyncProofs` begins with the planner: it is total (`PlanSyncType`), and
lemmas say what each of its answers entails. It proves `TypeCorrect` (`Spec => []TypeOK`) and
`HistoryIsHonest` (`Spec => []BaselineHonest`). The second is not inductive: a
history is written from what a job holds, so the inductive invariant `IInv` adds
that whatever is named was uploaded (`ReferencesExist`), that an undisturbed
scan found only files that are there (`ScanSound`), and that a job's bytes and
identity still belong together (`JobsSound`). The key facts are that an upload
takes an identity nobody refers to, so nothing that is referred to changes
(`UploadedFacts`, `UploadKeeps`), and that equality evidence names the content
of the scanned object (`EvidenceIsTrue`). All steps of the apply pass go through
one frame lemma, `ApplyStep`.

`MirrorSafetyProofs` proves what passes and sessions write:
`LocalWritesAreSafe`, `RemoteWritesAreSafe`, `RemoteDeletionsAreKnown`,
`OnlyApprovedMoves` and `DirectionsAreRespected`. They follow from `SafeInv`, which
says what a job may rely on at each of its steps: every scanned file with a
history has been hashed (`Hashed`), an operation is one the planner gives for
this pass's inventories, direction and conflicts (`PlanKept`), a job whose
last check nothing overtook still faces what it checked (`CheckKept`), and a
conflict's job has established what its step says of the record, of the sides it
read and of the history (`ResultKept`). That every step of the system is one
job's, of its own path, or leaves vault, drive and conflicts alone is
`SyncStep`.

`CoordinatorProofs` proves `EditsAreKept` (`Spec => []NoEditForgotten`),
`OperationsExclude` (`Spec => []OneOperation`), `StartsAreAllowed`
(`Spec => RunsStartWhenAllowed`) and `NoWakeupIsLost` (`Spec => NoLostWakeup`). That no edit is forgotten rests on revisions:
`EditInv` says that no entry and no run's snapshot is ahead of the counter, so
that a new edit's revision differs from every one a run remembers; that a narrow
run's hints are the entries of its snapshot; and that, when a run applies its
plan, an edit that still waits at the snapshot's revision is one the run has
seen. An entry that a run removes is therefore never one it missed. Exclusion
rests on `FlowInv`: a run or a session holds `isSyncing`, never both, and neither
gets past its preparation while a forced upload is in progress or a request is
unsettled. The ends of runs and sessions, which hand over to the next conflict,
share the frame lemma `HandsOver`, and `RequestOutcome` says what any request
for an automatic run can lead to. For the last, every operation on the flags
either keeps a request awake (`Awake`: timed, or held back by something) or is the
end of a forced upload (`WakeUps`, `OnlyForceOverlooks`).

`UserWritesProofs` proves `TypesAreRight` (`Spec => []TypeOK`) and
`HistoryStaysHonest` (`Spec => []HistoryIsHonest`) of everything a user may do to
a note. Neither is inductive. `IInv` adds what each kind of operation may rely on
at each of its steps (`OpIsSound`): that its review is still there and in which state, that the
version it carries was uploaded and, before it is recorded, holds the bytes it
carries, that either side is still what it last looked at unless `raced`, and
that the content to be replaced has its recovery copy. An upload takes an identity nobody refers to, so
that nothing a record names changes. `UserWritesSafetyProofs` proves from the
same invariant the action properties `OriginalsStayKept` and
`RemoteWritesStayAgreed`: of the plugin's actions only three write the vault and
six the drive (`Writers`), and `OpIsSound` says what was checked before each
unless `raced`. It
also proves the step simulation of `Resolution` (`ResolutionIsImplemented`). That
theorem assumes `[][RenameAvoidsReviews]_vars`: a forced upload refuses a path
in review, but a file that is renamed onto such a path while it is uploaded
moves that path's history (`force-upload.ts:77-90`, the finding of
`force_rename` once more), which `Resolution` does not allow. In the run the only
path to rename to is the copy, which is never in review itself.

`SnapshotsProofs` proves `StaleCachesAreReported` and `NarrowPlansMissNothing`
for any paths, clocks, leads and lifetimes. The invariant `SnapInv` was checked
with TLC in the run's instance first. Its parts: no event is of a second to come,
and no watermark is, of the drive's clock or of the device's where that is ahead
(`MarksAreDated`), so that, if the drive is not behind, an event of now is
reported at every watermark there is, and what is kept, and what a walk has just
read, is reported wherever it differs from the drive (`TreesAreReported`); if it
is behind, a tree's watermark is not later than its walk (`WalksAreLater`), so
that what is missed is what `Overlooks` excepts; what is kept is
complete, in that a path it shows to need syncing is a hint, in conflict, left by
the last full plan or a job under way (`KeptIsComplete`), unless a plan was
declined or a pass the user asked for has not read anew yet (`Trusted`); and a
path outside a narrow pass has been left alone since its probe (`Untouched`).
That a finished pass may forget the hints it began with is `SeenIsDone`.

`SyncTargetProofs` proves `HistoryFollowsTheSettings`, `EnginesAgree`,
`VerifiedWorkIsCurrent` and `ForcedUploadsAreRecorded`, the four properties of
the run `target`, for any targets and any number of changes. `Binding` says that
client, history and every preparation that is still current are of the settings'
target, unless these are being edited: a refresh outdates every preparation by
the generation it began in. `Forcing` adds that nobody prepares while a forced
upload is past its own preparation, so that its history cannot be replaced by
another, only closed. `WritesAreVerified` shows that no other way leads to a
write than a verification.

`ComponentsProofs` holds what is proved of the smaller components, each of its
own specification; `OutcomesStayFinal` and `BudgetStaysKept` are of
`ComponentsSpec`, under which they stand side by side.

- Recovery: a kept lookup misses no record of this window (`OwnWritesAreFound`)
  and misses others' only for its lifetime (`LookupsAreFresh`). The first rests
  on `OwnInv`: no lookup of a target is kept while a write to it is under way,
  and a scan that read before a write began or ended carries an older revision,
  so that it is not kept. The second rests on `DatedInv`: whatever a lookup or
  scan misses was stored since the scan began.
- Planner: `PlannerAgrees`, `PlannerSpares` and `PlannerLeavesEqual` hold of
  every case of any contents, sizes and times, where TLC takes three contents
  and two times. The lemmas say what the checks of `planSync` entail of the
  contents when the facts at hand are evident.
- Outcomes of pool and transfers: `OutcomesStayFinal`. `PoolInv` says that until a job fails
  the small jobs before the next one are under way or have ended, `ChunkInv` that
  until a request fails every chunk begun is under way or has landed, and that
  only the transfer that asks for its file holds the lock.
- Budget of the pool: `BudgetStaysKept`. The bytes in flight are a fold over the set of running
  jobs. The library's induction over finite sets takes an operator, so the lemmas
  on `Total` take the smallest set that would lack a property instead
  (`SmallestSet`, from the well-foundedness of strict inclusion) and find a smaller
  one: the fold's function exists, is unique, and a job more adds its bytes
  whatever the order (`TotalAdds`). `BudgetInv` adds that the small jobs under way
  come before the next one, so that none is started twice.
- Folders: `PruningSpares` and `DeletionsStand`, for any forest of folders. `SoundCursor`
  says that a folder whose content was looked at holds no files but those that
  came since, `UnmadeAreRecorded` that a folder whose deletion is meant is in the
  history and that a two-way pass creates none that is.

Model-checked only:

- liveness (`Converges`, `EditsAreSynced`, `ConflictsAreServed`,
  `ApprovalsSettle`, `FoldersConverge`, `PoolEnds`), which is beyond the prover.

## 6. Not modelled, and the plan

Not modelled: user interface, diagnostics and formatting (no decision of the
sync depends on them), path rules (pure string predicates), login and secrets,
encryption, the content of merges and the budget of merge texts. Settings files
outside the vault's index follow the same steps with extra reads and are not
distinguished. The comparison of two preview plans, the thresholds of the bulk
guard and the lists the dialogs show are data that no property here tells apart.

Partly modelled, with the reason in each component's note of `PROJECT.json`:
what is missing is formatting, input and output with Obsidian or the SDK, or
wording, with two exceptions that could be added: results of a merge that the
user edits and queues (`coordinator.ts`, `queueResolvedChange`), and folder
events among the hints.

Every invariant and action property of a passing run is stated by a theorem;
what is left to TLC is listed at the end of section 5.

Further composition: `SyncTarget` with `Coordinator` would replace the free
choice of when a run asks for its target; both are at the size TLC can finish,
so it would need smaller instances of each.
