----------------------------- MODULE Coordinator -----------------------------
(***************************************************************************)
(* What may run when: the requests for automatic synchronization, the runs,*)
(* the conflict sessions, previews and forced uploads that exclude one     *)
(* another, and the edits that wait for a run (sync/coordinator.ts and the *)
(* commands of main.ts that drive it).                                     *)
(*                                                                         *)
(* Waiting times are abstracted: a timer may fire once it is armed, and    *)
(* "cooling" says that the earliest time for an automatic run (minimum     *)
(* gap, back-off, pause in typing) lies in the future.                     *)
(***************************************************************************)
EXTENDS Naturals, Sequences

CONSTANTS Path,         \* the files of the vault
          Waiter,       \* requests to review or apply a conflict
          None,
          Direction,    \* the directions the user chooses from
          Commands,     \* the commands the user gives
          SyncOnSave,   \* settings: "Sync on file save"
          IntervalOn,   \* settings: "Background sync interval" is not 0
          MaxReplans,   \* retries after the sides moved during a run (3)
          MaxEdits,     \* bounds: edits of the user,
          MaxActs,      \*   commands,
          MaxFaults     \*   runs that fail or need confirmation

Modes == {"both", "push", "pull"}

Names == {"sync", "focus", "network", "pause", "settings", "review", "preview", "force", "unload"}

ASSUME ConstantsAssumption ==
  /\ Direction \subseteq Modes /\ Commands \subseteq Names
  /\ SyncOnSave \in BOOLEAN /\ IntervalOn \in BOOLEAN
  /\ MaxReplans \in Nat /\ MaxEdits \in Nat /\ MaxActs \in Nat /\ MaxFaults \in Nat
  /\ None \notin Waiter

VARIABLES
  co,        \* the coordinator's flags, and those of main.ts it consults
  replans,   \* autoSyncReplanRetryCount
  pending,   \* pendingPaths: the revision of a path's last change, 0 if none
  changes,   \* changeRevision
  run,       \* the run in progress
  waiting,   \* conflictWaiters
  session,   \* the conflict session in progress
  plan,      \* the preview being computed
  engine,    \* syncEngine: none, with or without cached inventories
  outdated,  \* the engine was built before the settings last changed
  renew,     \* invalidateAfterRun
  latest,    \* the last edit of each file: seen by a successful run, or not
  spent      \* edits, commands and faults so far

flows == <<run, waiting, session, plan>>
caches == <<engine, outdated, renew>>
vars == <<co, replans, pending, changes, run, waiting, session, plan, engine, outdated, renew, latest, spent>>

Flags == [ queued : BOOLEAN,    \* pendingAutoSync
           full : BOOLEAN,      \* pendingAutoSyncRequiresFullScan
           timer : BOOLEAN,     \* debounceTimer
           cooling : BOOLEAN,   \* nextAutoSyncAllowedAt, lastEditAt
           opening : BOOLEAN,   \* openingCheckPending
           held : BOOLEAN,      \* isReplanRetryHeld
           confirm : BOOLEAN,   \* confirmationRequired
           syncing : BOOLEAN,   \* isSyncing
           preview : BOOLEAN,   \* isPreviewActive
           modal : BOOLEAN,     \* the preview's window is open
           review : BOOLEAN,    \* conflictReviewActive
           closed : BOOLEAN,
           paused : BOOLEAN,    \* settings.syncPaused
           online : BOOLEAN,    \* navigator.onLine
           force : BOOLEAN,     \* forceSyncInProgress
           reconcile : BOOLEAN, \* settings.reconciliationNeeded
           unsettled : BOOLEAN, \* a request given up may still take effect
           listing : BOOLEAN,   \* a preview's request, given up, is still under way
           refresh : BOOLEAN ]  \* refreshAutoSync follows the saving of settings

Run == [ auto : BOOLEAN, direction : Modes, full : BOOLEAN, hints : SUBSET Path,
         start : [Path -> Nat], stage : {"prepare", "scan", "apply"}, narrow : BOOLEAN,
         retried : BOOLEAN, disturbed : BOOLEAN, seen : SUBSET Path ]

Known(v) == v # None

TypeOK ==
  /\ co \in Flags
  /\ replans \in 0..MaxReplans
  /\ pending \in [Path -> Nat] /\ changes \in Nat
  /\ Known(run) => run \in Run
  /\ waiting \in Seq(Waiter)
  /\ Known(session) => session \in [who : Waiter, working : BOOLEAN]
  /\ plan \in {"none", "preparing", "planning"}
  /\ engine \in {"none", "cold", "warm"} /\ outdated \in BOOLEAN /\ renew \in BOOLEAN
  /\ latest \in [Path -> {"seen", "waiting", "late"}]
  /\ spent \in [edits : 0..MaxEdits, acts : 0..MaxActs, faults : 0..MaxFaults]

-----------------------------------------------------------------------------
(* Requests and timers: operators on the flags.                             *)

Hinted(pend) == {p \in Path : pend[p] # 0}

CanAutoSync(c) == ~c.force /\ ~c.reconcile

(* Without the confirmation that is still owed.                             *)
MutPermitted(c) == ~c.held /\ ~c.paused /\ CanAutoSync(c) /\ c.online

Permitted(c) ==
  ~c.held /\ ~c.paused /\ ~c.confirm /\ CanAutoSync(c) /\ c.online

(* A request that is not a GET was given up before its answer came          *)
(* (obsidian-axios-adapter.ts): it may still take effect.                   *)
Uncertain(c) == [c EXCEPT !.reconcile = TRUE, !.unsettled = TRUE]

Busy(c) == c.syncing \/ c.preview \/ c.review

ScheduleQueued(c) ==
  IF c.held \/ ~c.queued \/ c.paused \/ ~CanAutoSync(c) \/ c.confirm \/ Busy(c) \/ c.closed
  THEN c
  ELSE [c EXCEPT !.timer = TRUE]

Schedule(c, full) ==
  IF c.held THEN c
  ELSE ScheduleQueued([c EXCEPT !.queued = TRUE, !.full = @ \/ full])

(* What a vault event asks for, once it is recorded.                        *)
VaultEvent(c) ==
  IF ~SyncOnSave \/ c.paused \/ c.held THEN c ELSE Schedule(c, FALSE)

ScheduleOpening(c, recover) ==
  IF c.syncing \/ (c.queued /\ ~recover) THEN c
  ELSE IF ~Permitted(c) THEN [c EXCEPT !.opening = FALSE]
  ELSE ScheduleQueued([c EXCEPT !.opening = TRUE, !.queued = TRUE])

Teardown(c) == [c EXCEPT !.timer = FALSE, !.opening = FALSE, !.queued = FALSE]

Refresh(c, pend) ==
  LET t == Teardown(c) IN
  IF Hinted(pend) # {} /\ ~t.paused /\ SyncOnSave THEN Schedule(t, FALSE) ELSE t

(* startNextConflict reserves the coordinator for the first waiter ...      *)
Grants(c, queue) == ~c.closed /\ ~c.syncing /\ ~c.preview /\ queue # <<>>

Reserved(c, queue) == [c EXCEPT !.syncing = @ \/ Grants(c, queue)]

(* ... and wakes it; a session that has just ended leaves room for it.      *)
Wake(c, queue, current) ==
  IF Grants(c, queue)
  THEN session' = [who |-> Head(queue), working |-> FALSE] /\ waiting' = Tail(queue)
  ELSE session' = current /\ waiting' = queue

(* The end of a run or of a session: the next conflict goes first, then a   *)
(* queued run is scheduled.                                                 *)
Released(c) == ScheduleQueued(Reserved([c EXCEPT !.syncing = FALSE], waiting))

Release(c) ==
  /\ co' = Released(c)
  /\ Wake([c EXCEPT !.syncing = FALSE], waiting, None)

-----------------------------------------------------------------------------
FirstFlags ==
  [ queued |-> FALSE, full |-> FALSE, timer |-> FALSE, cooling |-> FALSE, opening |-> FALSE,
    held |-> FALSE, confirm |-> FALSE, syncing |-> FALSE, preview |-> FALSE, modal |-> FALSE,
    review |-> FALSE, closed |-> FALSE, paused |-> FALSE, online |-> TRUE, force |-> FALSE,
    reconcile |-> FALSE, unsettled |-> FALSE, listing |-> FALSE, refresh |-> FALSE ]

(* The workspace is ready; setupAutoSync has scheduled the opening check.   *)
Init ==
  /\ co = ScheduleOpening(FirstFlags, FALSE)
  /\ replans = 0
  /\ pending = [p \in Path |-> 0] /\ changes = 0
  /\ run = None /\ waiting = <<>> /\ session = None /\ plan = "none"
  /\ engine = "none" /\ outdated = FALSE /\ renew = FALSE
  /\ latest = [p \in Path |-> "seen"]
  /\ spent = [edits |-> 0, acts |-> 0, faults |-> 0]

Spend(what) == spent' = [spent EXCEPT ![what] = @ + 1]

CanSpend(name) == name \in Commands /\ spent.acts < MaxActs /\ ~co.closed

-----------------------------------------------------------------------------
(* Vault events.                                                            *)

Recorded(p) ==
  /\ changes' = changes + 1
  /\ pending' = [pending EXCEPT ![p] = changes + 1]
  /\ co' = VaultEvent([co EXCEPT !.cooling = TRUE])

Edit(p) ==
  /\ spent.edits < MaxEdits /\ ~co.closed
  /\ Recorded(p)
  /\ latest' = [latest EXCEPT ![p] = "waiting"]
  /\ run' = IF Known(run) THEN [run EXCEPT !.disturbed = TRUE, !.seen = @ \ {p}] ELSE run
  /\ Spend("edits")
  /\ UNCHANGED <<replans, waiting, session, plan, caches>>

(* The plugin's own write of a file raises an event as well.                *)
Echo(p) ==
  /\ spent.faults < MaxFaults /\ ~co.closed
  /\ \/ Known(run) /\ run.stage = "apply"
     \/ Known(session) /\ session.working
  /\ Recorded(p)
  /\ Spend("faults")
  /\ UNCHANGED <<flows, replans, caches, latest>>

-----------------------------------------------------------------------------
(* Starting a run.                                                          *)

StartRun(c, auto, full, direction) ==
  /\ co' = [c EXCEPT !.queued = FALSE, !.full = FALSE, !.timer = FALSE, !.cooling = TRUE,
                     !.opening = FALSE, !.syncing = TRUE, !.confirm = @ /\ auto]
  /\ run' = [ auto |-> auto, direction |-> direction, full |-> full,
              hints |-> IF auto /\ ~full THEN Hinted(pending) ELSE {},
              start |-> pending, stage |-> "prepare", narrow |-> FALSE,
              retried |-> FALSE, disturbed |-> FALSE, seen |-> {} ]
  /\ UNCHANGED <<waiting, session, plan>>

RequestAutoSync(c, full) ==
  LET t == [c EXCEPT !.full = @ \/ full] IN
  \/ /\ ~Permitted(t)
     /\ co' = IF t.opening THEN [t EXCEPT !.opening = FALSE, !.queued = FALSE] ELSE t
     /\ UNCHANGED flows
  \/ /\ Permitted(t) /\ Busy(t)
     /\ co' = [t EXCEPT !.queued = TRUE]
     /\ UNCHANGED flows
  \/ /\ Permitted(t) /\ ~Busy(t) /\ t.cooling
     /\ co' = Schedule(t, full)
     /\ UNCHANGED flows
  \/ /\ Permitted(t) /\ ~Busy(t) /\ ~t.cooling
     /\ StartRun(t, TRUE, t.full, "both")

TimerFires ==
  /\ co.timer
  /\ RequestAutoSync([co EXCEPT !.timer = FALSE], co.full)
  /\ UNCHANGED <<replans, pending, changes, caches, latest, spent>>

(* Only when edits are pending.                                             *)
MutIntervalTick ==
  /\ IntervalOn /\ ~co.closed /\ ~co.paused /\ Hinted(pending) # {}
  /\ RequestAutoSync(co, FALSE)
  /\ UNCHANGED <<replans, pending, changes, caches, latest, spent>>

(* The interval is set up again whenever the settings or the pause change.  *)
IntervalTick ==
  /\ IntervalOn /\ ~co.closed /\ ~co.paused
  /\ RequestAutoSync(co, FALSE)
  /\ UNCHANGED <<replans, pending, changes, caches, latest, spent>>

Cool ==
  /\ co.cooling
  /\ co' = [co EXCEPT !.cooling = FALSE]
  /\ UNCHANGED <<flows, replans, pending, changes, caches, latest, spent>>

(* "Sync now", push and pull; elsewhere they answer "Sync already in        *)
(* progress" or "Preview in progress".                                      *)
ManualRun(direction) ==
  /\ CanSpend("sync") /\ ~co.syncing /\ ~co.preview
  /\ direction # "both" => ~co.reconcile
  /\ StartRun(co, FALSE, TRUE, direction)
  /\ Spend("acts")
  /\ UNCHANGED <<replans, pending, changes, caches, latest>>

-----------------------------------------------------------------------------
(* The stages of a run.                                                     *)

(* invalidateEngine: put off while a run or a session is in progress.       *)
InvalidateEngine ==
  IF co.syncing
  THEN renew' = TRUE /\ outdated' = (engine # "none") /\ UNCHANGED engine
  ELSE engine' = "none" /\ outdated' = FALSE /\ UNCHANGED renew

NewEngine == engine' = IF engine = "none" THEN "cold" ELSE engine

(* prepareSyncTarget refuses during a forced upload, while a request given  *)
(* up is under way, and after the plugin is unloaded.                       *)
Prepared == ~co.force /\ ~co.unsettled /\ ~co.listing /\ ~co.closed

(* Without main.ts's check for a forced upload.                             *)
MutRunPrepares ==
  /\ Known(run) /\ run.stage = "prepare" /\ ~co.unsettled /\ ~co.listing /\ ~co.closed
  /\ run' = [run EXCEPT !.stage = "scan", !.disturbed = FALSE]
  /\ NewEngine
  /\ UNCHANGED <<co, replans, pending, changes, waiting, session, plan, outdated, renew, latest, spent>>

(* The target is verified and the engine decides whether the hints and its  *)
(* cached inventories will do; expiry and remote events may decide          *)
(* otherwise.                                                               *)
RunPrepares ==
  /\ Known(run) /\ run.stage = "prepare" /\ Prepared
  /\ \E narrow \in BOOLEAN :
       /\ narrow => run.auto /\ ~run.full /\ run.hints # {} /\ engine = "warm"
       /\ run' = [run EXCEPT !.stage = "scan", !.narrow = narrow, !.disturbed = FALSE]
  /\ NewEngine
  /\ UNCHANGED <<co, replans, pending, changes, waiting, session, plan, outdated, renew, latest, spent>>

(* A scan no event disturbed sees its files as they are.                    *)
RunScans ==
  /\ Known(run) /\ run.stage = "scan" /\ ~run.disturbed
  /\ run' = [run EXCEPT !.stage = "apply", !.seen = IF run.narrow THEN run.hints ELSE Path]
  /\ engine' = IF co.closed THEN engine ELSE "warm"
  /\ UNCHANGED <<co, replans, pending, changes, waiting, session, plan, outdated, renew, latest, spent>>

(* Something moved under the plan: the engine drops its caches and tries    *)
(* once more, in full.                                                      *)
RunRetries ==
  /\ Known(run) /\ ~run.retried
  /\ \/ run.stage = "scan" /\ run.disturbed /\ UNCHANGED spent
     \/ run.stage # "prepare" /\ spent.faults < MaxFaults /\ Spend("faults")
  /\ run' = [run EXCEPT !.stage = "scan", !.retried = TRUE, !.disturbed = FALSE,
                        !.narrow = FALSE, !.seen = {}]
  /\ engine' = IF co.closed THEN engine ELSE "cold"
  /\ UNCHANGED <<co, replans, pending, changes, waiting, session, plan, outdated, renew, latest>>

(* The finally block: a deferred invalidation, the next conflict session,   *)
(* the queued run.                                                          *)
EndRun(c, kept) ==
  /\ run' = None
  /\ engine' = IF renew \/ co.closed THEN "none" ELSE kept
  /\ outdated' = (outdated /\ ~renew)
  /\ renew' = FALSE
  /\ Wake([c EXCEPT !.syncing = FALSE], waiting, None)

(* Every path that was pending at the start is dropped, newer revision or   *)
(* not.                                                                     *)
MutRunSucceeds ==
  /\ Known(run) /\ run.stage = "apply"
  /\ co' = Released([co EXCEPT !.held = FALSE])
  /\ replans' = 0
  /\ pending' = [p \in Path |-> IF run.start[p] # 0 THEN 0 ELSE pending[p]]
  /\ latest' = [p \in Path |-> IF p \in run.seen THEN "seen" ELSE latest[p]]
  /\ EndRun(co, engine)
  /\ UNCHANGED <<changes, plan, spent>>

(* Edits made since the run began keep a newer revision and stay pending. A *)
(* command's run also ends the need for reconciliation (main.ts), which a   *)
(* one-way run may meet if a preview's request is given up in the meantime. *)
RunSucceeds ==
  /\ Known(run) /\ run.stage = "apply"
  /\ LET reconciled == co.reconcile /\ ~run.auto
         c == Released([co EXCEPT !.held = FALSE])
     IN co' = [c EXCEPT !.reconcile = @ /\ ~reconciled, !.refresh = @ \/ reconciled]
  /\ replans' = 0
  /\ IF run.direction = "pull" THEN UNCHANGED <<pending, latest>>
     ELSE /\ pending' = [p \in Path |-> IF pending[p] = run.start[p] THEN 0 ELSE pending[p]]
          /\ latest' = [p \in Path |-> IF p \in run.seen THEN "seen" ELSE latest[p]]
  /\ \E kept \in {"cold", "warm"} : EndRun(co, kept)
  /\ UNCHANGED <<changes, plan, spent>>

(* A bulk change or a deletion is not confirmed; silent runs cannot ask.    *)
RunIsCancelled ==
  /\ Known(run) /\ run.stage = "apply" /\ spent.faults < MaxFaults
  /\ co' = Released([co EXCEPT !.confirm = TRUE])
  /\ replans' = IF run.auto THEN 0 ELSE replans
  /\ EndRun(co, engine)
  /\ Spend("faults")
  /\ UNCHANGED <<pending, changes, plan, latest>>

AfterFailure(c, kind) ==
  CASE kind = "edit" /\ run.auto ->
         [c EXCEPT !.queued = TRUE, !.full = TRUE, !.cooling = TRUE]
    [] kind = "replan" /\ run.auto /\ replans < MaxReplans ->
         [c EXCEPT !.queued = TRUE, !.full = TRUE, !.cooling = TRUE]
    [] kind = "replan" /\ run.auto /\ replans = MaxReplans ->
         [c EXCEPT !.held = TRUE]
    [] kind = "transient" /\ run.auto ->
         [c EXCEPT !.queued = TRUE, !.cooling = TRUE]
    [] kind = "uncertain" ->
         Uncertain(c)
    [] OTHER -> c

(* The retry counter is not held at its limit.                              *)
MutFailRun(kind) ==
  /\ LET c == AfterFailure(co, kind)
     IN co' = Released(c) /\ EndRun(c, IF run.stage = "prepare" THEN engine ELSE "cold")
  /\ replans' = IF kind = "replan" /\ run.auto THEN replans + 1 ELSE replans
  /\ UNCHANGED <<pending, changes, plan, latest>>

FailRun(kind) ==
  /\ LET c == AfterFailure(co, kind)
     IN co' = Released(c) /\ EndRun(c, IF run.stage = "prepare" THEN engine ELSE "cold")
  /\ replans' = IF kind = "replan" /\ run.auto /\ replans < MaxReplans THEN replans + 1 ELSE replans
  /\ UNCHANGED <<pending, changes, plan, latest>>

(* The user typed on while the plan was carried out, or while it was made.  *)
RunMeetsEdit ==
  /\ Known(run) /\ run.disturbed
  /\ \/ run.stage = "apply" /\ FailRun("edit")
     \/ run.stage = "scan" /\ run.retried /\ FailRun("replan")
  /\ UNCHANGED spent

(* Filen's side moved twice, the network failed, the outcome of a request   *)
(* is unknown, or something else went wrong. The adapter counts every POST, *)
(* a listing's too; a preparation that is refused has sent none.            *)
RunFails(kind) ==
  /\ Known(run) /\ spent.faults < MaxFaults
  /\ kind = "replan" => run.stage # "prepare" /\ run.retried
  /\ kind = "uncertain" => ~co.force /\ ~co.unsettled
  /\ FailRun(kind)
  /\ Spend("faults")

RunIsRefused ==
  /\ Known(run) /\ run.stage = "prepare" /\ ~Prepared
  /\ FailRun("other")
  /\ UNCHANGED spent

RunSteps ==
  \/ RunPrepares \/ RunScans \/ RunRetries \/ RunSucceeds \/ RunIsCancelled
  \/ RunMeetsEdit \/ RunIsRefused
  \/ \E kind \in {"replan", "transient", "uncertain", "other"} : RunFails(kind)

-----------------------------------------------------------------------------
(* Conflict review: sessions wait for a run or a preview to end.            *)

(* The queued request is not picked up.                                     *)
MutCloseReview ==
  /\ co.review
  /\ co' = [co EXCEPT !.review = FALSE]
  /\ UNCHANGED <<flows, caches, replans, pending, changes, latest, spent>>

OpenReview ==
  /\ CanSpend("review") /\ ~co.review
  /\ co' = [co EXCEPT !.review = TRUE]
  /\ Spend("acts")
  /\ UNCHANGED <<flows, caches, replans, pending, changes, latest>>

CloseReview ==
  /\ co.review
  /\ co' = ScheduleQueued([co EXCEPT !.review = FALSE])
  /\ UNCHANGED <<flows, caches, replans, pending, changes, latest, spent>>

Waits(w) == \E i \in DOMAIN waiting : waiting[i] = w

(* refreshConflict, resolveConflict: called by the resolver's window.       *)
RequestConflict(w) ==
  /\ CanSpend("review") /\ co.review
  /\ ~Waits(w) /\ (Known(session) => session.who # w)
  /\ co' = Reserved(co, Append(waiting, w))
  /\ Wake(co, Append(waiting, w), session)
  /\ Spend("acts")
  /\ UNCHANGED <<caches, run, plan, replans, pending, changes, latest>>

SessionBegins ==
  /\ Known(session) /\ ~session.working /\ Prepared
  /\ session' = [session EXCEPT !.working = TRUE]
  /\ UNCHANGED <<caches, co, run, waiting, plan, replans, pending, changes, latest, spent>>

(* A resolved path is no longer pending, even if it was edited since the    *)
(* result was written: such an edit is late. The engine is dropped, so the  *)
(* next pass reads everything.                                              *)
SessionEnds ==
  /\ Known(session)
  /\ \/ Release(co) /\ UNCHANGED <<pending, latest, spent>>
     \/ \E p \in Path :
          /\ session.working
          /\ pending' = [pending EXCEPT ![p] = 0]
          /\ latest' = [latest EXCEPT ![p] = IF @ = "waiting" THEN "late" ELSE @]
          /\ Release(co) /\ UNCHANGED spent
     \/ /\ ~co.force /\ ~co.unsettled /\ spent.faults < MaxFaults
        /\ Release(Uncertain(co)) /\ Spend("faults") /\ UNCHANGED <<pending, latest>>
  /\ engine' = "none" /\ outdated' = FALSE
  /\ UNCHANGED <<run, plan, replans, changes, renew>>

-----------------------------------------------------------------------------
(* The preview's window and the computation of its plan, which runs on when *)
(* the window is closed.                                                    *)

OpenPreview ==
  /\ CanSpend("preview") /\ ~co.syncing /\ ~co.modal /\ plan = "none"
  /\ co' = [co EXCEPT !.modal = TRUE, !.preview = TRUE]
  /\ plan' = "preparing"
  /\ Spend("acts")
  /\ UNCHANGED <<caches, run, waiting, session, replans, pending, changes, latest>>

PreviewAgain ==
  /\ CanSpend("preview") /\ co.modal /\ plan = "none"
  /\ plan' = "preparing"
  /\ Spend("acts")
  /\ UNCHANGED <<caches, co, run, waiting, session, replans, pending, changes, latest>>

(* generatePreview, once the target is known.                               *)
PreviewPlans ==
  /\ plan = "preparing" /\ ~co.syncing /\ ~co.closed
  /\ co' = [co EXCEPT !.preview = TRUE]
  /\ plan' = "planning"
  /\ NewEngine
  /\ UNCHANGED <<run, waiting, session, outdated, renew, replans, pending, changes, latest, spent>>

(* With a plan, a failure, or a listing whose answer it no longer awaits.   *)
PreviewEnds ==
  /\ plan # "none"
  /\ plan' = "none"
  /\ \/ UNCHANGED <<co, spent>>
     \/ /\ spent.faults < MaxFaults /\ Spend("faults")
        /\ co' = [co EXCEPT !.reconcile = TRUE, !.listing = TRUE]
  /\ UNCHANGED <<caches, run, waiting, session, replans, pending, changes, latest>>

(* The first waiting conflict is not woken.                                 *)
MutClosePreview ==
  /\ co.modal
  /\ co' = Refresh([co EXCEPT !.modal = FALSE, !.preview = FALSE], pending)
  /\ UNCHANGED <<flows, caches, replans, pending, changes, latest, spent>>

ClosePreview ==
  /\ co.modal
  /\ LET c == [co EXCEPT !.modal = FALSE, !.preview = FALSE]
         r == Refresh(Reserved(c, waiting), pending)
     IN /\ co' = ScheduleQueued([r EXCEPT !.queued = @ \/ co.queued])
        /\ Wake(c, waiting, session)
  /\ UNCHANGED <<caches, run, plan, replans, pending, changes, latest, spent>>

-----------------------------------------------------------------------------
(* The rest of the plugin.                                                  *)

Others == <<flows, caches, replans, pending, changes, latest>>

(* The window gets the focus or becomes visible: a check, unless one is     *)
(* under way or a recent run left nothing to do.                            *)
Focus ==
  /\ CanSpend("focus") /\ ~co.paused /\ ~co.held /\ ~co.queued /\ ~co.syncing
  /\ co' = ScheduleOpening(co, FALSE)
  /\ Spend("acts")
  /\ UNCHANGED Others

GoOffline ==
  /\ CanSpend("network") /\ co.online
  /\ co' = [co EXCEPT !.online = FALSE]
  /\ Spend("acts")
  /\ UNCHANGED Others

GoOnline ==
  /\ ~co.online /\ ~co.closed
  /\ LET c == [co EXCEPT !.online = TRUE]
     IN co' = IF c.paused \/ c.held THEN c ELSE ScheduleOpening(c, TRUE)
  /\ UNCHANGED <<Others, spent>>

TogglePause ==
  /\ CanSpend("pause") /\ ~co.refresh
  /\ co' = [co EXCEPT !.paused = ~@, !.refresh = TRUE]
  /\ Spend("acts")
  /\ UNCHANGED Others

(* refreshAutoSync, after the settings are saved.                           *)
Refreshes ==
  /\ co.refresh
  /\ co' = Refresh([co EXCEPT !.refresh = FALSE], pending)
  /\ UNCHANGED <<Others, spent>>

ChangeSettings ==
  /\ CanSpend("settings")
  /\ InvalidateEngine
  /\ Spend("acts")
  /\ UNCHANGED <<flows, co, replans, pending, changes, latest>>

(* forceSyncFile: the upload bypasses the coordinator.                      *)
ForceStarts ==
  /\ CanSpend("force") /\ ~co.syncing /\ ~co.force /\ ~co.reconcile /\ ~co.paused /\ co.online
  /\ co' = [co EXCEPT !.force = TRUE, !.cooling = TRUE]
  /\ Spend("acts")
  /\ UNCHANGED Others

ForceEnds ==
  /\ co.force
  /\ LET c == [co EXCEPT !.force = FALSE]
     IN \/ co' = c /\ UNCHANGED spent
        \/ spent.faults < MaxFaults /\ co' = Uncertain(c) /\ Spend("faults")
  /\ InvalidateEngine
  /\ UNCHANGED <<flows, replans, pending, changes, latest>>

Settles ==
  /\ \/ co.unsettled /\ co' = [co EXCEPT !.unsettled = FALSE]
     \/ co.listing /\ co' = [co EXCEPT !.listing = FALSE]
  /\ UNCHANGED <<Others, spent>>

(* onunload; the windows are closed first.                                  *)
Unload ==
  /\ CanSpend("unload") /\ ~co.modal /\ ~co.review
  /\ co' = [Teardown(co) EXCEPT !.closed = TRUE]
  /\ waiting' = <<>>
  /\ engine' = "none" /\ outdated' = FALSE
  /\ Spend("acts")
  /\ UNCHANGED <<run, session, plan, renew, replans, pending, changes, latest>>

-----------------------------------------------------------------------------
Work ==
  RunSteps \/ SessionBegins \/ SessionEnds \/ PreviewPlans \/ PreviewEnds \/ ForceEnds
  \/ Refreshes \/ Settles

User ==
  \/ \E p \in Path : Edit(p) \/ Echo(p)
  \/ \E d \in Direction : ManualRun(d)
  \/ \E w \in Waiter : RequestConflict(w)
  \/ OpenReview \/ CloseReview \/ OpenPreview \/ PreviewAgain \/ ClosePreview
  \/ Focus \/ GoOffline \/ GoOnline \/ TogglePause \/ ChangeSettings \/ ForceStarts \/ Unload

Next == Work \/ User \/ TimerFires \/ IntervalTick \/ Cool

Spec == Init /\ [][Next]_vars

(* Requests end, by an answer or a timeout; timers fire; waiting times      *)
(* pass. Nothing is assumed of the user or of the network.                  *)
Fairness ==
  /\ WF_vars(RunSteps) /\ WF_vars(SessionBegins \/ SessionEnds)
  /\ WF_vars(PreviewPlans \/ PreviewEnds) /\ WF_vars(ForceEnds) /\ WF_vars(Refreshes)
  /\ WF_vars(TimerFires) /\ WF_vars(IntervalTick) /\ WF_vars(Cool)

FairSpec == Spec /\ Fairness

-----------------------------------------------------------------------------
(* One operation at a time writes: a run that has passed its preparation, a *)
(* conflict session at work, a forced upload, which only main.ts knows, or  *)
(* a request an earlier operation gave up and that may still take effect.   *)
OneOperation ==
  LET running == Known(run) /\ run.stage # "prepare"
      resolving == Known(session) /\ session.working
  IN /\ ~(running /\ resolving)
     /\ co.force \/ co.unsettled => ~running /\ ~resolving
     /\ ~(co.force /\ co.unsettled)

(* No edit is forgotten: until a successful run that may push has seen it,  *)
(* its file stays a hint for the next run, although runs that began before  *)
(* the edit end, fail or are cancelled, in every direction.                 *)
NoEditForgotten == \A p \in Path : latest[p] = "waiting" => pending[p] # 0

(* Nothing keeps an automatic run from starting.                            *)
Able ==
  /\ ~co.closed /\ ~co.syncing /\ ~co.preview /\ ~co.review
  /\ ~co.held /\ ~co.confirm /\ ~co.paused /\ ~co.force /\ ~co.reconcile /\ co.online

(* An automatic run starts only when nothing holds it back, whichever       *)
(* trigger asked for it and however long ago; and no run starts with an     *)
(* engine built before the settings last changed.                           *)
RunsStartWhenAllowed ==
  [][~Known(run) /\ Known(run') => ~outdated /\ (run'.auto => Able)]_vars

(* A request is queued, nothing keeps it from running, and no timer will    *)
(* ask for it.                                                              *)
Overlooked == co.queued /\ Able /\ ~co.refresh /\ ~co.timer

(* Only the end of a forced upload, which schedules nothing (main.ts:902),  *)
(* overlooks a queued request: however runs, reviews, previews, pauses and  *)
(* losses of the network follow one another, whatever else stops holding it *)
(* back arms its timer.                                                     *)
NoLostWakeup ==
  ~Overlooked /\ [][Overlooked' => Overlooked \/ (co.force /\ ~co'.force)]_vars

(* No automatic run can start, or its preparation is refused.               *)
Blocked == ~co.syncing /\ (~Able \/ co.unsettled \/ co.listing)

(* Unless automatic runs are blocked again and again, every edit is seen by *)
(* a successful run.                                                        *)
EditsAreSynced ==
  \A p \in Path : []<>Blocked \/ (latest[p] # "seen" ~> latest[p] = "seen")

(* "Reviewing or applying a conflict waits for any active sync or preview   *)
(* to finish, without requiring another click."                             *)
ConflictsAreServed == \A w \in Waiter : []<>co.preview \/ (Waits(w) ~> ~Waits(w))

(* Runs are refused with "Preview in progress." only during a preview.      *)
PreviewIsInProgress == co.preview => co.modal \/ plan # "none"
============================================================================
