-------------------------- MODULE CoordinatorProofs --------------------------
(***************************************************************************)
(* Proofs about the coordinator, for any files, waiters, settings and      *)
(* bounds: no edit is forgotten, one operation writes at a time, runs start*)
(* only when they are allowed to, no wake-up is lost but at the end of a   *)
(* forced upload, and every variable keeps its type.                       *)
(***************************************************************************)
EXTENDS Coordinator, TLAPS

-----------------------------------------------------------------------------
(* The flags. A timer that is armed belongs to a coordinator still open.    *)

Quiet(c) == c.closed => ~c.timer

FlagsInv == co \in Flags /\ Quiet(co)

(* What scheduling leaves alone. *)
KeepsMost(c, d) ==
  /\ d \in Flags /\ Quiet(d)
  /\ d.syncing = c.syncing /\ d.force = c.force /\ d.closed = c.closed /\ d.preview = c.preview

Keeps(c, d) == KeepsMost(c, d) /\ d.reconcile = c.reconcile /\ d.unsettled = c.unsettled

LEMMA ScheduleQueuedKeeps ==
  ASSUME NEW c \in Flags, Quiet(c) PROVE Keeps(c, ScheduleQueued(c))
<1>1. CASE ScheduleQueued(c) = c
  BY <1>1 DEF Keeps, KeepsMost
<1>2. CASE ScheduleQueued(c) # c
  <2>1. ~c.closed /\ ScheduleQueued(c) = [c EXCEPT !.timer = TRUE]
    BY <1>2 DEF ScheduleQueued
  <2> QED BY <2>1 DEF Keeps, KeepsMost, Quiet, Flags
<1> QED BY <1>1, <1>2

LEMMA ScheduleKeeps ==
  ASSUME NEW c \in Flags, Quiet(c), NEW full \in BOOLEAN PROVE Keeps(c, Schedule(c, full))
<1> DEFINE d == [c EXCEPT !.queued = TRUE, !.full = @ \/ full]
<1>1. Keeps(c, d)
  BY DEF Keeps, KeepsMost, Quiet, Flags
<1>2. Keeps(d, ScheduleQueued(d))
  BY <1>1, ScheduleQueuedKeeps DEF Keeps, KeepsMost
<1>3. Schedule(c, full) = c \/ Schedule(c, full) = ScheduleQueued(d)
  BY DEF Schedule
<1> QED BY <1>1, <1>2, <1>3 DEF Keeps, KeepsMost

LEMMA VaultEventKeeps ==
  ASSUME NEW c \in Flags, Quiet(c) PROVE Keeps(c, VaultEvent(c))
<1>1. Keeps(c, Schedule(c, FALSE))
  BY ScheduleKeeps
<1> QED BY <1>1 DEF VaultEvent, Keeps, KeepsMost

LEMMA ScheduleOpeningKeeps ==
  ASSUME NEW c \in Flags, Quiet(c), NEW recover \in BOOLEAN
  PROVE Keeps(c, ScheduleOpening(c, recover))
<1> DEFINE d == [c EXCEPT !.opening = TRUE, !.queued = TRUE]
           e == [c EXCEPT !.opening = FALSE]
<1>1. Keeps(c, d) /\ Keeps(c, e)
  BY DEF Keeps, KeepsMost, Quiet, Flags
<1>2. Keeps(d, ScheduleQueued(d))
  BY <1>1, ScheduleQueuedKeeps DEF Keeps, KeepsMost
<1>3. ScheduleOpening(c, recover) \in {c, e, ScheduleQueued(d)}
  BY DEF ScheduleOpening
<1>4. Keeps(c, c)
  BY DEF Keeps, KeepsMost
<1> QED BY <1>1, <1>2, <1>3, <1>4 DEF Keeps, KeepsMost

LEMMA RefreshKeeps ==
  ASSUME NEW c \in Flags, NEW pend PROVE Keeps(c, Refresh(c, pend))
<1> DEFINE t == Teardown(c)
<1>1. Keeps(c, t)
  BY DEF Teardown, Keeps, KeepsMost, Quiet, Flags
<1>2. Keeps(t, Schedule(t, FALSE))
  BY <1>1, ScheduleKeeps DEF Keeps, KeepsMost
<1>3. Refresh(c, pend) \in {t, Schedule(t, FALSE)}
  BY DEF Refresh
<1> QED BY <1>1, <1>2, <1>3 DEF Keeps, KeepsMost

(* Only a conflict session keeps the coordinator busy after a release.      *)
LEMMA ReleasedKeeps ==
  ASSUME NEW c \in Flags, Quiet(c)
  PROVE /\ Released(c) \in Flags /\ Quiet(Released(c))
        /\ Released(c).syncing = Grants([c EXCEPT !.syncing = FALSE], waiting)
        /\ Released(c).force = c.force /\ Released(c).closed = c.closed
        /\ Released(c).reconcile = c.reconcile /\ Released(c).unsettled = c.unsettled
<1> DEFINE d == [c EXCEPT !.syncing = FALSE]
           r == Reserved(d, waiting)
<1>1. /\ d \in Flags /\ ~d.syncing /\ d.force = c.force /\ d.closed = c.closed /\ Quiet(d)
      /\ d.reconcile = c.reconcile /\ d.unsettled = c.unsettled
  BY DEF Flags, Quiet
<1>2. Grants(d, waiting) \in BOOLEAN
  BY DEF Grants
<1> HIDE DEF d
<1>3. /\ r \in Flags /\ Quiet(r) /\ r.force = d.force /\ r.closed = d.closed
      /\ r.syncing = Grants(d, waiting)
      /\ r.reconcile = d.reconcile /\ r.unsettled = d.unsettled
  BY <1>1, <1>2 DEF Reserved, Flags, Quiet
<1> HIDE DEF r
<1>4. Keeps(r, ScheduleQueued(r))
  BY <1>3, ScheduleQueuedKeeps
<1>5. Released(c) = ScheduleQueued(r)
  BY DEF Released, r, d
<1> QED BY <1>1, <1>3, <1>4, <1>5 DEF Keeps, KeepsMost, d

LEMMA FlagMoves ==
  /\ \A h \in Flags : [h EXCEPT !.opening = FALSE] \in Flags
  /\ \A h \in Flags : [h EXCEPT !.syncing = TRUE] \in Flags
  /\ \A h \in Flags, b \in BOOLEAN : [h EXCEPT !.confirm = b] \in Flags
<1>1. ASSUME NEW h \in Flags PROVE [h EXCEPT !.opening = FALSE] \in Flags
  BY DEF Flags
<1>2. ASSUME NEW h \in Flags PROVE [h EXCEPT !.syncing = TRUE] \in Flags
  BY DEF Flags
<1>3. ASSUME NEW h \in Flags, NEW b \in BOOLEAN PROVE [h EXCEPT !.confirm = b] \in Flags
  BY DEF Flags
<1> QED BY <1>1, <1>2, <1>3

(* A started run makes the coordinator busy.                                *)
LEMMA StartRunFlags ==
  ASSUME NEW c \in Flags, Quiet(c), NEW auto \in BOOLEAN, NEW full, NEW d,
         StartRun(c, auto, full, d)
  PROVE /\ co' \in Flags /\ Quiet(co') /\ co'.syncing /\ co'.force = c.force
        /\ co'.closed = c.closed /\ co'.reconcile = c.reconcile /\ co'.unsettled = c.unsettled
<1> DEFINE confirm == c.confirm /\ auto
           half == [c EXCEPT !.queued = FALSE, !.full = FALSE, !.timer = FALSE, !.cooling = TRUE]
<1>1. co' = [c EXCEPT !.queued = FALSE, !.full = FALSE, !.timer = FALSE, !.cooling = TRUE,
                      !.opening = FALSE, !.syncing = TRUE, !.confirm = confirm]
  BY DEF StartRun
<1>2. confirm \in BOOLEAN
  BY DEF Flags
<1> HIDE DEF confirm
<1>3. co' \in Flags
  <2>1. half \in Flags
    BY DEF Flags
  <2>2. co' = [[[half EXCEPT !.opening = FALSE] EXCEPT !.syncing = TRUE] EXCEPT !.confirm = confirm]
    BY <1>1
  <2> HIDE DEF half
  <2> QED BY ONLY <1>2, <2>1, <2>2, FlagMoves, Zenon
<1>4. /\ co'.syncing /\ co'.force = c.force /\ co'.closed = c.closed /\ ~co'.timer
      /\ co'.reconcile = c.reconcile /\ co'.unsettled = c.unsettled
  BY <1>1 DEF Flags
<1> QED BY <1>3, <1>4 DEF Quiet

(* A request for an automatic run only moves flags, or starts the run.      *)
LEMMA RequestOutcome ==
  ASSUME NEW c \in Flags, Quiet(c), NEW full \in BOOLEAN, RequestAutoSync(c, full)
  PROVE \/ UNCHANGED flows /\ Keeps(c, co')
        \/ \E t \in Flags :
             /\ Keeps(c, t) /\ Permitted(t) /\ ~Busy(t)
             /\ t = [c EXCEPT !.full = @ \/ full]
             /\ StartRun(t, TRUE, t.full, "both")
<1> DEFINE t == [c EXCEPT !.full = @ \/ full]
<1>1. Keeps(c, t)
  BY DEF Keeps, KeepsMost, Quiet, Flags
<1>2. ASSUME NEW u \in Flags, Quiet(u)
      PROVE /\ Keeps(u, [u EXCEPT !.opening = FALSE, !.queued = FALSE])
            /\ Keeps(u, [u EXCEPT !.queued = TRUE])
  <2> HIDE DEF t
  <2>1. Keeps(u, [u EXCEPT !.opening = FALSE, !.queued = FALSE])
    BY <1>2 DEF Keeps, KeepsMost, Quiet, Flags
  <2>2. Keeps(u, [u EXCEPT !.queued = TRUE])
    BY <1>2 DEF Keeps, KeepsMost, Quiet, Flags
  <2> QED BY <2>1, <2>2
<1>3. Keeps(t, Schedule(t, full))
  BY <1>1, ScheduleKeeps DEF Keeps, KeepsMost
<1>4. \/ UNCHANGED flows /\ co' \in {t, [t EXCEPT !.opening = FALSE, !.queued = FALSE],
                                     [t EXCEPT !.queued = TRUE], Schedule(t, full)}
      \/ Permitted(t) /\ ~Busy(t) /\ StartRun(t, TRUE, t.full, "both")
  BY DEF RequestAutoSync
<1>5. t \in Flags
  BY <1>1 DEF Keeps, KeepsMost
<1> HIDE DEF t
<1>6. CASE UNCHANGED flows /\ co' \in {t, [t EXCEPT !.opening = FALSE, !.queued = FALSE],
                                       [t EXCEPT !.queued = TRUE], Schedule(t, full)}
  <2>1. PICK e \in {t, [t EXCEPT !.opening = FALSE, !.queued = FALSE],
                    [t EXCEPT !.queued = TRUE], Schedule(t, full)} : co' = e
    BY <1>6
  <2>2. t \in Flags /\ Quiet(t) /\ Keeps(t, t)
    BY <1>1 DEF Keeps, KeepsMost
  <2>3. Keeps(t, e)
    BY <1>2, <1>3, <2>2
  <2>4. Keeps(c, e)
    BY <1>1, <2>3 DEF Keeps, KeepsMost
  <2> QED BY <1>6, <2>1, <2>4
<1>7. CASE Permitted(t) /\ ~Busy(t) /\ StartRun(t, TRUE, t.full, "both")
  BY <1>1, <1>5, <1>7 DEF t
<1> QED BY <1>4, <1>6, <1>7

(* The flags after a failure.                                               *)
LEMMA FailureKeeps ==
  ASSUME NEW c \in Flags, Quiet(c), NEW kind
  PROVE /\ KeepsMost(c, AfterFailure(c, kind))
        /\ \/ Keeps(c, AfterFailure(c, kind))
           \/ kind = "uncertain" /\ AfterFailure(c, kind).reconcile
<1> DEFINE A == [c EXCEPT !.queued = TRUE, !.full = TRUE, !.cooling = TRUE]
           B == [c EXCEPT !.queued = TRUE, !.cooling = TRUE]
           H == [c EXCEPT !.held = TRUE]
<1>1. Keeps(c, A) /\ Keeps(c, B) /\ Keeps(c, H) /\ Keeps(c, c)
  <2>1. Keeps(c, A)
    BY DEF Keeps, KeepsMost, Quiet, Flags
  <2>2. Keeps(c, B)
    BY DEF Keeps, KeepsMost, Quiet, Flags
  <2>3. Keeps(c, H)
    BY DEF Keeps, KeepsMost, Quiet, Flags
  <2>4. Keeps(c, c)
    BY DEF Keeps, KeepsMost
  <2> QED BY <2>1, <2>2, <2>3, <2>4
<1>2. KeepsMost(c, Uncertain(c)) /\ Uncertain(c).reconcile
  BY DEF KeepsMost, Quiet, Flags, Uncertain
<1>3. \/ AfterFailure(c, kind) \in {A, B, H, c}
      \/ kind = "uncertain" /\ AfterFailure(c, kind) = Uncertain(c)
  BY DEF AfterFailure
<1> HIDE DEF A, B, H
<1> QED BY <1>1, <1>2, <1>3 DEF Keeps

(* What the end of a run or of a session does: the first waiting conflict   *)
(* session, if any can start, has the coordinator reserved.                 *)
Free == ~co.closed /\ ~co.preview /\ waiting # <<>>

HandsOver ==
  /\ co' \in Flags /\ Quiet(co') /\ co'.force = co.force /\ co'.closed = co.closed
  /\ co'.unsettled => co'.reconcile /\ ~co'.force
  /\ IF Free THEN co'.syncing /\ session' = [who |-> Head(waiting), working |-> FALSE]
             ELSE session' = None

LEMMA ReleaseHandsOver ==
  ASSUME FlagsInv, NEW c, KeepsMost(co, c), co'.unsettled => co'.reconcile /\ ~co'.force,
         co' \in Flags, co'.syncing = Released(c).syncing, co'.timer = Released(c).timer,
         co'.force = Released(c).force, co'.closed = Released(c).closed,
         NEW d, d.closed = co.closed, d.preview = co.preview, ~d.syncing,
         Wake(d, waiting, None)
  PROVE HandsOver
<1>1. c \in Flags /\ Quiet(c) /\ c.preview = co.preview /\ c.closed = co.closed /\ c.force = co.force
  BY DEF Keeps, KeepsMost
<1>2. /\ Released(c) \in Flags /\ Quiet(Released(c))
      /\ Released(c).syncing = Grants([c EXCEPT !.syncing = FALSE], waiting)
      /\ Released(c).force = c.force /\ Released(c).closed = c.closed
  BY <1>1, ReleasedKeeps
<1>3. Grants([c EXCEPT !.syncing = FALSE], waiting) = Free
  BY <1>1 DEF Grants, Free, Flags
<1>4. Grants(d, waiting) = Free
  BY DEF Grants, Free
<1>5. Quiet(co')
  BY <1>2 DEF Quiet
<1> QED BY <1>1, <1>2, <1>3, <1>4, <1>5 DEF HandsOver, Wake

-----------------------------------------------------------------------------
(* Who is at work. A run or a session keeps the coordinator busy, never     *)
(* both; while a forced upload or an unsettled request is about neither gets*)
(* past its preparation, and an unsettled request demands reconciliation; an*)
(* engine is outdated only while something is at work whose end discards it.*)
FlowInv ==
  /\ Known(run) \/ Known(session) => co.syncing
  /\ ~(Known(run) /\ Known(session))
  /\ co.force \/ co.unsettled => /\ ~(Known(run) /\ run.stage # "prepare")
                                 /\ ~(Known(session) /\ session.working)
  /\ co.unsettled => co.reconcile /\ ~co.force
  /\ outdated => co.syncing /\ renew

ControlInv == FlagsInv /\ FlowInv

LEMMA ControlInit == Init => ControlInv
<1> SUFFICES ASSUME Init PROVE ControlInv
  OBVIOUS
<1>1. FirstFlags \in Flags /\ Quiet(FirstFlags) /\ ~FirstFlags.force /\ ~FirstFlags.unsettled
  BY DEF FirstFlags, Flags, Quiet
<1>2. Keeps(FirstFlags, ScheduleOpening(FirstFlags, FALSE))
  BY <1>1, ScheduleOpeningKeeps
<1> QED BY <1>1, <1>2 DEF Init, ControlInv, FlagsInv, FlowInv, Keeps, KeepsMost, Known

LEMMA ControlKeeps ==
  ASSUME ControlInv, Keeps(co, co'), UNCHANGED <<run, session, outdated, renew>>
  PROVE ControlInv'
  BY DEF ControlInv, FlagsInv, FlowInv, Keeps, KeepsMost, Known

LEMMA ControlStart ==
  ASSUME ControlInv, NEW c, Keeps(co, c), ~c.syncing, NEW auto \in BOOLEAN, NEW full, NEW d,
         StartRun(c, auto, full, d), UNCHANGED <<outdated, renew>>
  PROVE ControlInv'
<1>1. c \in Flags /\ Quiet(c) /\ ~co.syncing
  BY DEF Keeps, KeepsMost
<1>2. /\ co' \in Flags /\ Quiet(co') /\ co'.syncing
      /\ co'.force = co.force /\ co'.reconcile = co.reconcile /\ co'.unsettled = co.unsettled
  BY <1>1, StartRunFlags DEF Keeps, KeepsMost
<1>3. session' = session /\ ~Known(session) /\ ~outdated /\ run'.stage = "prepare"
  BY <1>1 DEF StartRun, ControlInv, FlowInv
<1> QED BY <1>2, <1>3 DEF ControlInv, FlagsInv, FlowInv, Known

LEMMA ControlRequest ==
  ASSUME ControlInv, NEW c, Keeps(co, c), NEW full \in BOOLEAN, RequestAutoSync(c, full),
         UNCHANGED <<outdated, renew>>
  PROVE ControlInv'
<1>1. c \in Flags /\ Quiet(c)
  BY DEF Keeps, KeepsMost
<1>2. CASE UNCHANGED flows /\ Keeps(c, co')
  <2>1. Keeps(co, co')
    BY <1>2 DEF Keeps, KeepsMost
  <2> QED BY <1>2, <2>1, ControlKeeps DEF flows
<1>3. CASE \E t \in Flags : /\ Keeps(c, t) /\ Permitted(t) /\ ~Busy(t)
                            /\ t = [c EXCEPT !.full = @ \/ full]
                            /\ StartRun(t, TRUE, t.full, "both")
  <2>1. PICK t \in Flags : Keeps(c, t) /\ ~Busy(t) /\ StartRun(t, TRUE, t.full, "both")
    BY <1>3
  <2>2. Keeps(co, t) /\ ~t.syncing
    BY <2>1 DEF Keeps, KeepsMost, Busy
  <2> QED BY <2>1, <2>2, ControlStart
<1> QED BY <1>1, <1>2, <1>3, RequestOutcome

LEMMA ControlHandsOver ==
  ASSUME ControlInv, HandsOver, run' = None, outdated' => outdated /\ ~renew
  PROVE ControlInv'
  BY DEF ControlInv, FlagsInv, FlowInv, HandsOver, Known

-----------------------------------------------------------------------------
(* Why no edit is forgotten. Revisions only grow, so an edit made during a  *)
(* run differs from the revision the run started with; and a run that is    *)
(* about to write has seen every file whose revision is still that one.     *)

EditTypes ==
  /\ pending \in [Path -> Nat] /\ changes \in Nat
  /\ latest \in [Path -> {"seen", "waiting", "late"}]
  /\ Known(run) => run \in Run

RevisionsGrow ==
  \A p \in Path : pending[p] <= changes /\ (Known(run) => run.start[p] <= changes)

HintsCover ==
  Known(run) =>
    /\ run.auto /\ ~run.full => run.hints = Hinted(run.start)
    /\ run.narrow => run.auto /\ ~run.full

SeenCovers ==
  Known(run) /\ run.stage = "apply" =>
    \A p \in Path : latest[p] = "waiting" /\ pending[p] = run.start[p] => p \in run.seen

EditInv == EditTypes /\ RevisionsGrow /\ HintsCover /\ SeenCovers /\ NoEditForgotten

editVars == <<run, pending, changes, latest>>

(* Nothing is pending when the plugin loads.                                *)
LEMMA EditInit == Init => EditInv
  BY DEF Init, EditInv, EditTypes, RevisionsGrow, HintsCover, SeenCovers, NoEditForgotten, Known

LEMMA EditStutter == EditInv /\ UNCHANGED editVars => EditInv'
  BY DEF EditInv, EditTypes, RevisionsGrow, HintsCover, SeenCovers, NoEditForgotten, editVars, Known, Hinted

(* An edit or an echo gives its file a revision no run has started with.    *)
LEMMA EditEdit ==
  ASSUME EditInv, NEW p \in Path, Edit(p) PROVE EditInv'
<1> USE DEF EditInv, EditTypes, Known
<1>1. /\ changes' = changes + 1 /\ pending' = [pending EXCEPT ![p] = changes + 1]
      /\ latest' = [latest EXCEPT ![p] = "waiting"]
      /\ run' = IF run # None THEN [run EXCEPT !.disturbed = TRUE, !.seen = @ \ {p}] ELSE run
  BY DEF Edit, Recorded
<1>2. run # None => /\ run' \in Run /\ run'.start = run.start /\ run'.hints = run.hints
                    /\ run'.auto = run.auto /\ run'.full = run.full /\ run'.narrow = run.narrow
                    /\ run'.stage = run.stage /\ run'.seen = run.seen \ {p}
  BY <1>1 DEF Run
<1>3. run = None => run' = None
  BY <1>1
<1>4. EditTypes'
  BY <1>1, <1>2, <1>3
<1>5. RevisionsGrow'
  BY <1>1, <1>2, <1>3 DEF RevisionsGrow, Run
<1>6. HintsCover'
  BY <1>2, <1>3 DEF HintsCover, Hinted
<1>7. SeenCovers'
  BY <1>1, <1>2, <1>3 DEF SeenCovers, RevisionsGrow, Run
<1>8. NoEditForgotten'
  BY <1>1 DEF NoEditForgotten
<1> QED BY <1>4, <1>5, <1>6, <1>7, <1>8

LEMMA EditEcho ==
  ASSUME EditInv, NEW p \in Path, Echo(p) PROVE EditInv'
<1> USE DEF EditInv, EditTypes, Known
<1>1. /\ changes' = changes + 1 /\ pending' = [pending EXCEPT ![p] = changes + 1]
      /\ latest' = latest /\ run' = run
  BY DEF Echo, Recorded, flows
<1>2. EditTypes' /\ HintsCover' /\ NoEditForgotten'
  BY <1>1 DEF HintsCover, Hinted, NoEditForgotten
<1>3. RevisionsGrow' /\ SeenCovers'
  BY <1>1 DEF RevisionsGrow, SeenCovers, Run
<1> QED BY <1>2, <1>3

(* A run begins with the revisions of the moment, and hints for them all.   *)
LEMMA EditStart ==
  ASSUME EditInv, NEW c, NEW auto \in BOOLEAN, NEW full \in BOOLEAN, NEW d \in Modes,
         StartRun(c, auto, full, d), UNCHANGED <<pending, changes, latest>>
  PROVE EditInv'
<1> USE DEF EditInv, EditTypes, Known
<1>1. run' = [ auto |-> auto, direction |-> d, full |-> full,
               hints |-> IF auto /\ ~full THEN Hinted(pending) ELSE {},
               start |-> pending, stage |-> "prepare", narrow |-> FALSE,
               retried |-> FALSE, disturbed |-> FALSE, seen |-> {} ]
  BY DEF StartRun
<1>2. run' \in Run
  BY <1>1 DEF Run, Hinted
<1>3. EditTypes' /\ RevisionsGrow' /\ NoEditForgotten'
  BY <1>1, <1>2 DEF RevisionsGrow, NoEditForgotten
<1>4. HintsCover' /\ SeenCovers'
  BY <1>1 DEF HintsCover, SeenCovers
<1> QED BY <1>3, <1>4

-----------------------------------------------------------------------------
(* The steps, one lemma each where both invariants are at stake.            *)

IInv == ControlInv /\ EditInv

LEMMA StepEdit ==
  ASSUME IInv, NEW p \in Path, Edit(p) PROVE IInv'
<1>1. EditInv'
  BY EditEdit DEF IInv
<1>2. co' = VaultEvent([co EXCEPT !.cooling = TRUE]) /\ UNCHANGED <<session, outdated, renew>>
      /\ run' = IF run # None THEN [run EXCEPT !.disturbed = TRUE, !.seen = @ \ {p}] ELSE run
  BY DEF Edit, Recorded, caches, Known
<1>3. Keeps(co, [co EXCEPT !.cooling = TRUE])
  BY DEF IInv, ControlInv, FlagsInv, Keeps, KeepsMost, Quiet, Flags
<1>4. Keeps(co, co')
  BY <1>2, <1>3, VaultEventKeeps DEF Keeps, KeepsMost
<1>5. run # None => run'.stage = run.stage
  BY <1>2 DEF IInv, EditInv, EditTypes, Known, Run
<1>6. ControlInv'
  BY <1>2, <1>4, <1>5 DEF IInv, ControlInv, FlagsInv, FlowInv, Keeps, KeepsMost, Known
<1> QED BY <1>1, <1>6 DEF IInv

LEMMA StepEcho ==
  ASSUME IInv, NEW p \in Path, Echo(p) PROVE IInv'
<1>1. EditInv'
  BY EditEcho DEF IInv
<1>2. co' = VaultEvent([co EXCEPT !.cooling = TRUE]) /\ UNCHANGED <<run, session, outdated, renew>>
  BY DEF Echo, Recorded, caches, flows
<1>3. Keeps(co, [co EXCEPT !.cooling = TRUE])
  BY DEF IInv, ControlInv, FlagsInv, Keeps, KeepsMost, Quiet, Flags
<1>4. Keeps(co, co')
  BY <1>2, <1>3, VaultEventKeeps DEF Keeps, KeepsMost
<1> QED BY <1>1, <1>2, <1>4, ControlKeeps DEF IInv

LEMMA StepRequest ==
  ASSUME IInv, NEW c, Keeps(co, c), NEW full \in BOOLEAN, RequestAutoSync(c, full),
         UNCHANGED <<pending, changes, latest, outdated, renew>>
  PROVE IInv'
<1>1. ControlInv'
  BY ControlRequest DEF IInv
<1>2. c \in Flags /\ Quiet(c)
  BY DEF Keeps, KeepsMost
<1>3. CASE UNCHANGED flows
  BY <1>1, <1>3, EditStutter DEF IInv, flows, editVars
<1>4. CASE \E t \in Flags : /\ Keeps(c, t) /\ Permitted(t) /\ ~Busy(t)
                            /\ t = [c EXCEPT !.full = @ \/ full]
                            /\ StartRun(t, TRUE, t.full, "both")
  <2>1. PICK t \in Flags : StartRun(t, TRUE, t.full, "both")
    BY <1>4
  <2>2. t.full \in BOOLEAN /\ "both" \in Modes
    BY DEF Flags, Modes
  <2>3. EditInv'
    BY <2>1, <2>2, EditStart DEF IInv
  <2> QED BY <1>1, <2>3 DEF IInv
<1> QED BY <1>2, <1>3, <1>4, RequestOutcome

LEMMA StepTimer == IInv /\ TimerFires => IInv'
<1> SUFFICES ASSUME IInv, TimerFires PROVE IInv'
  OBVIOUS
<1> DEFINE c == [co EXCEPT !.timer = FALSE]
           full == co.full
<1>1. Keeps(co, c) /\ full \in BOOLEAN
  BY DEF IInv, ControlInv, FlagsInv, Keeps, KeepsMost, Quiet, Flags
<1>2. RequestAutoSync(c, full) /\ UNCHANGED <<pending, changes, latest, outdated, renew>>
  BY DEF TimerFires, caches
<1> HIDE DEF c, full
<1> QED BY <1>1, <1>2, StepRequest

LEMMA StepInterval == IInv /\ IntervalTick => IInv'
<1> SUFFICES ASSUME IInv, IntervalTick PROVE IInv'
  OBVIOUS
<1>1. Keeps(co, co)
  BY DEF IInv, ControlInv, FlagsInv, Keeps, KeepsMost
<1> QED BY <1>1, StepRequest DEF IntervalTick, caches

LEMMA StepManualRun ==
  ASSUME IInv, NEW d \in Direction, ManualRun(d) PROVE IInv'
<1>1. Keeps(co, co) /\ d \in Modes
  BY ConstantsAssumption DEF IInv, ControlInv, FlagsInv, Keeps, KeepsMost
<1>2. StartRun(co, FALSE, TRUE, d) /\ ~co.syncing /\ UNCHANGED <<pending, changes, latest, outdated, renew>>
  BY DEF ManualRun, caches
<1>3. EditInv'
  BY <1>1, <1>2, EditStart DEF IInv
<1>4. ControlInv'
  BY <1>1, <1>2, ControlStart DEF IInv
<1> QED BY <1>3, <1>4 DEF IInv

(* The stages of a run.                                                     *)
LEMMA StepRunPrepares == IInv /\ RunPrepares => IInv'
<1> SUFFICES ASSUME IInv, RunPrepares PROVE IInv'
  OBVIOUS
<1> USE DEF IInv, EditInv, EditTypes, Known
<1>1. /\ run # None /\ run \in Run /\ ~co.force /\ ~co.unsettled
      /\ UNCHANGED <<co, session, outdated, renew, pending, changes, latest>>
  BY DEF RunPrepares, Prepared
<1>2. PICK narrow \in BOOLEAN :
        /\ narrow => run.auto /\ ~run.full
        /\ run' = [run EXCEPT !.stage = "scan", !.narrow = narrow, !.disturbed = FALSE]
  BY DEF RunPrepares
<1>3. /\ run' \in Run /\ run'.stage = "scan" /\ run'.start = run.start /\ run'.hints = run.hints
      /\ run'.auto = run.auto /\ run'.full = run.full /\ run'.narrow = narrow
  BY <1>1, <1>2 DEF Run
<1>4. ControlInv'
  BY <1>1 DEF ControlInv, FlagsInv, FlowInv
<1>5. EditInv'
  BY <1>1, <1>2, <1>3 DEF RevisionsGrow, HintsCover, SeenCovers, NoEditForgotten, Hinted
<1> QED BY <1>4, <1>5

LEMMA StepRunScans == IInv /\ RunScans => IInv'
<1> SUFFICES ASSUME IInv, RunScans PROVE IInv'
  OBVIOUS
<1> USE DEF IInv, EditInv, EditTypes, Known
<1> DEFINE seen == IF run.narrow THEN run.hints ELSE Path
<1>1. /\ run # None /\ run \in Run /\ run.stage = "scan"
      /\ run' = [run EXCEPT !.stage = "apply", !.seen = seen]
      /\ UNCHANGED <<co, session, outdated, renew, pending, changes, latest>>
  BY DEF RunScans
<1>2. seen \subseteq Path
  BY <1>1 DEF Run
<1>3. \A p \in Path : latest[p] = "waiting" /\ pending[p] = run.start[p] => p \in seen
  BY <1>1 DEF HintsCover, Hinted, NoEditForgotten
<1> HIDE DEF seen
<1>4. /\ run' \in Run /\ run'.stage = "apply" /\ run'.start = run.start /\ run'.hints = run.hints
      /\ run'.auto = run.auto /\ run'.full = run.full /\ run'.narrow = run.narrow /\ run'.seen = seen
  BY <1>1, <1>2 DEF Run
<1>5. ControlInv'
  BY <1>1, <1>4 DEF ControlInv, FlagsInv, FlowInv
<1>6. EditInv'
  BY <1>1, <1>3, <1>4 DEF RevisionsGrow, HintsCover, SeenCovers, NoEditForgotten, Hinted
<1> QED BY <1>5, <1>6

LEMMA StepRunRetries == IInv /\ RunRetries => IInv'
<1> SUFFICES ASSUME IInv, RunRetries PROVE IInv'
  OBVIOUS
<1> USE DEF IInv, EditInv, EditTypes, Known
<1>1. /\ run # None /\ run \in Run /\ run.stage # "prepare"
      /\ run' = [run EXCEPT !.stage = "scan", !.retried = TRUE, !.disturbed = FALSE,
                            !.narrow = FALSE, !.seen = {}]
      /\ UNCHANGED <<co, session, outdated, renew, pending, changes, latest>>
  BY DEF RunRetries
<1>2. /\ run' \in Run /\ run'.stage = "scan" /\ run'.start = run.start /\ run'.hints = run.hints
      /\ run'.auto = run.auto /\ run'.full = run.full /\ ~run'.narrow
  BY <1>1 DEF Run
<1>3. ControlInv'
  BY <1>1, <1>2 DEF ControlInv, FlagsInv, FlowInv
<1>4. EditInv'
  BY <1>1, <1>2 DEF RevisionsGrow, HintsCover, SeenCovers, NoEditForgotten, Hinted
<1> QED BY <1>3, <1>4

(* A run that fails or is cancelled leaves every edit pending.              *)
LEMMA EditAfterRun ==
  ASSUME EditInv, run' = None, UNCHANGED <<pending, changes, latest>> PROVE EditInv'
  BY DEF EditInv, EditTypes, RevisionsGrow, HintsCover, SeenCovers, NoEditForgotten, Known

LEMMA StepRunSucceeds == IInv /\ RunSucceeds => IInv'
<1> SUFFICES ASSUME IInv, RunSucceeds PROVE IInv'
  OBVIOUS
<1> DEFINE c == [co EXCEPT !.held = FALSE]
           r == Released(c)
           reconciled == co.reconcile /\ ~run.auto
           reconcile == r.reconcile /\ ~reconciled
           refresh == r.refresh \/ reconciled
           d == [co EXCEPT !.syncing = FALSE]
<1>1. /\ run # None /\ run \in Run /\ run.stage = "apply" /\ run' = None /\ changes' = changes
      /\ co' = [r EXCEPT !.reconcile = reconcile, !.refresh = refresh]
      /\ outdated' = (outdated /\ ~renew) /\ Wake(d, waiting, None)
      /\ IF run.direction = "pull" THEN UNCHANGED <<pending, latest>>
         ELSE /\ pending' = [p \in Path |-> IF pending[p] = run.start[p] THEN 0 ELSE pending[p]]
              /\ latest' = [p \in Path |-> IF p \in run.seen THEN "seen" ELSE latest[p]]
  BY DEF RunSucceeds, EndRun, IInv, EditInv, EditTypes, Known
<1>2. Keeps(co, c) /\ c \in Flags /\ Quiet(c)
  BY DEF IInv, ControlInv, FlagsInv, Keeps, KeepsMost, Quiet, Flags
<1>3. d.closed = co.closed /\ d.preview = co.preview /\ ~d.syncing
  BY DEF IInv, ControlInv, FlagsInv, Flags
<1>4. reconcile \in BOOLEAN /\ refresh \in BOOLEAN
  OBVIOUS
<1> HIDE DEF c, reconciled, reconcile, refresh, d
<1>5. r \in Flags
  BY <1>2, ReleasedKeeps
<1>6. ~r.unsettled
  <2>1. ~c.unsettled
    BY <1>1 DEF c, IInv, ControlInv, FlagsInv, FlowInv, Flags, Known
  <2> QED BY <1>2, <2>1, ReleasedKeeps
<1> HIDE DEF r
<1>7. /\ co' \in Flags /\ ~co'.unsettled /\ co'.syncing = r.syncing /\ co'.timer = r.timer
      /\ co'.force = r.force /\ co'.closed = r.closed
  <2>1. co' \in Flags
    <3>1. \A d1, d2 \in BOOLEAN : [r EXCEPT !.reconcile = d1, !.refresh = d2] \in Flags
      BY <1>5 DEF Flags
    <3>2. co' = [r EXCEPT !.reconcile = reconcile, !.refresh = refresh]
      BY <1>1
    <3> QED BY ONLY <1>4, <3>1, <3>2, Zenon
  <2>2. /\ co'.unsettled = r.unsettled /\ co'.syncing = r.syncing /\ co'.timer = r.timer
        /\ co'.force = r.force /\ co'.closed = r.closed
    BY <1>1, <1>5 DEF Flags
  <2> QED BY <1>6, <2>1, <2>2
<1>8. HandsOver
  BY <1>1, <1>2, <1>3, <1>7, ReleaseHandsOver DEF r, IInv, ControlInv, Keeps
<1>9. ControlInv'
  BY <1>1, <1>8, ControlHandsOver DEF IInv
<1>10. EditInv'
  <2>1. EditTypes' /\ RevisionsGrow'
    BY <1>1 DEF IInv, EditInv, EditTypes, RevisionsGrow, Known
  <2>2. HintsCover' /\ SeenCovers'
    BY <1>1 DEF HintsCover, SeenCovers, Known
  <2>3. NoEditForgotten'
    BY <1>1 DEF IInv, EditInv, EditTypes, SeenCovers, NoEditForgotten, Known
  <2> QED BY <2>1, <2>2, <2>3 DEF EditInv
<1> QED BY <1>9, <1>10 DEF IInv

(* A run that ends otherwise.                                               *)
LEMMA StepRunEnds ==
  ASSUME IInv, NEW c, KeepsMost(co, c), c.unsettled => c.reconcile /\ ~c.force, co' = Released(c),
         run' = None, outdated' = (outdated /\ ~renew),
         NEW d, d.closed = co.closed, d.preview = co.preview, ~d.syncing,
         Wake(d, waiting, None),
         UNCHANGED <<pending, changes, latest>>
  PROVE IInv'
<1>1. /\ Released(c) \in Flags /\ Released(c).force = c.force
      /\ Released(c).reconcile = c.reconcile /\ Released(c).unsettled = c.unsettled
  BY ReleasedKeeps DEF KeepsMost
<1>2. HandsOver
  BY <1>1, ReleaseHandsOver DEF IInv, ControlInv
<1>3. ControlInv'
  BY <1>2, ControlHandsOver DEF IInv
<1> QED BY <1>3, EditAfterRun DEF IInv

LEMMA StepRunIsCancelled == IInv /\ RunIsCancelled => IInv'
<1> SUFFICES ASSUME IInv, RunIsCancelled PROVE IInv'
  OBVIOUS
<1> DEFINE c == [co EXCEPT !.confirm = TRUE]
           d == [co EXCEPT !.syncing = FALSE]
<1>1. KeepsMost(co, c) /\ (c.unsettled => c.reconcile /\ ~c.force)
  BY DEF IInv, ControlInv, FlagsInv, FlowInv, KeepsMost, Quiet, Flags
<1>2. /\ co' = Released(c) /\ run' = None /\ outdated' = (outdated /\ ~renew)
      /\ Wake(d, waiting, None) /\ UNCHANGED <<pending, changes, latest>>
  BY DEF RunIsCancelled, EndRun
<1>3. d.closed = co.closed /\ d.preview = co.preview /\ ~d.syncing
  BY DEF IInv, ControlInv, FlagsInv, Flags
<1> HIDE DEF c, d
<1> QED BY <1>1, <1>2, <1>3, StepRunEnds

LEMMA StepFailRun ==
  ASSUME IInv, NEW kind, Known(run), kind = "uncertain" => ~co.force, FailRun(kind)
  PROVE IInv'
<1> DEFINE c == AfterFailure(co, kind)
           d == [c EXCEPT !.syncing = FALSE]
<1>1. KeepsMost(co, c) /\ (Keeps(co, c) \/ (kind = "uncertain" /\ c.reconcile))
  BY FailureKeeps DEF IInv, ControlInv, FlagsInv
<1>2. /\ co' = Released(c) /\ run' = None /\ outdated' = (outdated /\ ~renew)
      /\ Wake(d, waiting, None) /\ UNCHANGED <<pending, changes, latest>>
  BY DEF FailRun, EndRun
<1> HIDE DEF c
<1>3. c.unsettled => c.reconcile /\ ~c.force
  BY <1>1 DEF IInv, ControlInv, FlowInv, Keeps, KeepsMost
<1>4. d.closed = co.closed /\ d.preview = co.preview /\ ~d.syncing
  BY <1>1 DEF KeepsMost, Flags
<1> HIDE DEF d
<1> QED BY <1>1, <1>2, <1>3, <1>4, StepRunEnds

LEMMA StepRun == IInv /\ RunSteps => IInv'
<1>1. IInv /\ RunMeetsEdit => IInv'
  BY StepFailRun DEF RunMeetsEdit
<1>2. ASSUME IInv, NEW kind, RunFails(kind) PROVE IInv'
  BY <1>2, StepFailRun DEF RunFails
<1>3. IInv /\ RunIsRefused => IInv'
  BY StepFailRun DEF RunIsRefused
<1> QED BY <1>1, <1>2, <1>3, StepRunPrepares, StepRunScans, StepRunRetries, StepRunSucceeds,
           StepRunIsCancelled DEF RunSteps

(* Conflict sessions. *)
LEMMA StepRequestConflict ==
  ASSUME IInv, NEW w \in Waiter, RequestConflict(w) PROVE IInv'
<1> DEFINE q == Append(waiting, w)
           g == Grants(co, q)
           s == co.syncing \/ g
<1>1. /\ co' = [co EXCEPT !.syncing = s]
      /\ g => session' = [who |-> Head(q), working |-> FALSE]
      /\ ~g => session' = session
      /\ UNCHANGED <<run, outdated, renew, pending, changes, latest>>
  BY DEF RequestConflict, Reserved, Wake, caches
<1>2. g => ~co.syncing
  BY DEF Grants
<1>3. s \in BOOLEAN
  OBVIOUS
<1>4. s <=> co.syncing \/ g
  OBVIOUS
<1> HIDE DEF q, g, s
<1>5. co' \in Flags /\ co'.syncing = s /\ co'.force = co.force /\ Quiet(co')
  BY <1>1, <1>3 DEF IInv, ControlInv, FlagsInv, Flags, Quiet
<1>6. FlowInv'
  <2>1. CASE g
    BY <1>1, <1>2, <1>4, <1>5, <2>1 DEF IInv, ControlInv, FlowInv, Known
  <2>2. CASE ~g
    BY <1>1, <1>4, <1>5, <2>2 DEF IInv, ControlInv, FlowInv, Known
  <2> QED BY <2>1, <2>2
<1>7. EditInv'
  BY <1>1, EditStutter DEF IInv, editVars
<1> QED BY <1>5, <1>6, <1>7 DEF IInv, ControlInv, FlagsInv

LEMMA StepSessionBegins == IInv /\ SessionBegins => IInv'
<1> SUFFICES ASSUME IInv, SessionBegins PROVE IInv'
  OBVIOUS
<1>1. ControlInv'
  BY DEF SessionBegins, Prepared, caches, IInv, ControlInv, FlagsInv, FlowInv, Known
<1>2. EditInv'
  BY EditStutter DEF SessionBegins, IInv, editVars
<1> QED BY <1>1, <1>2 DEF IInv

LEMMA StepSessionEnds == IInv /\ SessionEnds => IInv'
<1> SUFFICES ASSUME IInv, SessionEnds PROVE IInv'
  OBVIOUS
<1>1. run = None /\ run' = None /\ changes' = changes /\ outdated' = FALSE
  BY DEF SessionEnds, IInv, ControlInv, FlowInv, Known
<1>2. PICK c : Release(c) /\ (c = co \/ (c = Uncertain(co) /\ ~co.force))
  BY DEF SessionEnds
<1>3. KeepsMost(co, c) /\ (c.unsettled => c.reconcile /\ ~c.force)
  <2>1. CASE c = co
    BY <2>1 DEF IInv, ControlInv, FlagsInv, FlowInv, KeepsMost
  <2>2. CASE c = Uncertain(co) /\ ~co.force
    BY <2>2 DEF Uncertain, IInv, ControlInv, FlagsInv, KeepsMost, Flags, Quiet
  <2> QED BY <1>2, <2>1, <2>2
<1> DEFINE d == [c EXCEPT !.syncing = FALSE]
<1>4. co' = Released(c) /\ Wake(d, waiting, None)
  BY <1>2 DEF Release
<1>5. d.closed = co.closed /\ d.preview = co.preview /\ ~d.syncing
  BY <1>3 DEF KeepsMost, Flags
<1> HIDE DEF d
<1>6. /\ Released(c) \in Flags /\ Released(c).force = c.force
      /\ Released(c).reconcile = c.reconcile /\ Released(c).unsettled = c.unsettled
  BY <1>3, ReleasedKeeps DEF KeepsMost
<1>7. HandsOver
  BY <1>3, <1>4, <1>5, <1>6, ReleaseHandsOver DEF IInv, ControlInv
<1>8. ControlInv'
  BY <1>1, <1>7, ControlHandsOver DEF IInv
<1>9. EditInv'
  <2>1. CASE UNCHANGED <<pending, latest>>
    BY <1>1, <2>1, EditAfterRun DEF IInv
  <2>2. CASE \E p \in Path : /\ pending' = [pending EXCEPT ![p] = 0]
                             /\ latest' = [latest EXCEPT ![p] = IF @ = "waiting" THEN "late" ELSE @]
    BY <1>1, <2>2 DEF IInv, EditInv, EditTypes, RevisionsGrow, HintsCover, SeenCovers, NoEditForgotten, Known
  <2> QED BY <2>1, <2>2 DEF SessionEnds
<1> QED BY <1>8, <1>9 DEF IInv

(* Steps that move flags only.                                              *)
LEMMA StepFlags ==
  ASSUME IInv, NEW c, co' = c, c \in Flags, Quiet(c), c.syncing = co.syncing,
         c.force = co.force, c.unsettled => co.unsettled, co.reconcile => c.reconcile,
         UNCHANGED <<run, session, outdated, renew, pending, changes, latest>>
  PROVE IInv'
<1>1. ControlInv'
  BY DEF IInv, ControlInv, FlagsInv, FlowInv, Known
<1>2. EditInv'
  BY EditStutter DEF IInv, editVars
<1> QED BY <1>1, <1>2 DEF IInv

LEMMA StepOpenReview == IInv /\ OpenReview => IInv'
<1> SUFFICES ASSUME IInv, OpenReview PROVE IInv'
  OBVIOUS
<1> DEFINE c == [co EXCEPT !.review = TRUE]
<1>1. /\ c \in Flags /\ Quiet(c) /\ c.syncing = co.syncing /\ c.force = co.force
      /\ c.unsettled = co.unsettled /\ c.reconcile = co.reconcile
  BY DEF IInv, ControlInv, FlagsInv, Flags, Quiet
<1> QED BY <1>1, StepFlags DEF OpenReview, flows, caches

LEMMA StepCloseReview == IInv /\ CloseReview => IInv'
<1> SUFFICES ASSUME IInv, CloseReview PROVE IInv'
  OBVIOUS
<1> DEFINE c == [co EXCEPT !.review = FALSE]
<1>1. /\ c \in Flags /\ Quiet(c) /\ c.syncing = co.syncing /\ c.force = co.force
      /\ c.unsettled = co.unsettled /\ c.reconcile = co.reconcile
  BY DEF IInv, ControlInv, FlagsInv, Flags, Quiet
<1>2. co' = ScheduleQueued(c) /\ UNCHANGED <<run, session, outdated, renew, pending, changes, latest>>
  BY DEF CloseReview, flows, caches
<1> HIDE DEF c
<1> QED BY <1>1, <1>2, StepFlags, ScheduleQueuedKeeps DEF Keeps, KeepsMost

(* Previews. *)
LEMMA StepPreview == IInv /\ (OpenPreview \/ PreviewAgain \/ PreviewPlans \/ PreviewEnds) => IInv'
<1> SUFFICES ASSUME IInv, OpenPreview \/ PreviewAgain \/ PreviewPlans \/ PreviewEnds PROVE IInv'
  OBVIOUS
<1> DEFINE a == [co EXCEPT !.modal = TRUE, !.preview = TRUE]
           b == [co EXCEPT !.preview = TRUE]
           g == [co EXCEPT !.reconcile = TRUE, !.listing = TRUE]
<1>1. /\ UNCHANGED <<run, session, outdated, renew, pending, changes, latest>>
      /\ co' = a \/ co' = b \/ co' = g \/ co' = co
  BY DEF OpenPreview, PreviewAgain, PreviewPlans, PreviewEnds, caches
<1>2. /\ a \in Flags /\ Quiet(a) /\ a.syncing = co.syncing /\ a.force = co.force
      /\ a.unsettled = co.unsettled /\ a.reconcile = co.reconcile
  BY DEF IInv, ControlInv, FlagsInv, Flags, Quiet
<1>3. /\ b \in Flags /\ Quiet(b) /\ b.syncing = co.syncing /\ b.force = co.force
      /\ b.unsettled = co.unsettled /\ b.reconcile = co.reconcile
  BY DEF IInv, ControlInv, FlagsInv, Flags, Quiet
<1>4. /\ g \in Flags /\ Quiet(g) /\ g.syncing = co.syncing /\ g.force = co.force
      /\ g.unsettled = co.unsettled /\ g.reconcile
  BY DEF IInv, ControlInv, FlagsInv, Flags, Quiet
<1>5. co \in Flags /\ Quiet(co)
  BY DEF IInv, ControlInv, FlagsInv
<1> HIDE DEF a, b, g
<1> QED BY <1>1, <1>2, <1>3, <1>4, <1>5, StepFlags

LEMMA StepClosePreview == IInv /\ ClosePreview => IInv'
<1> SUFFICES ASSUME IInv, ClosePreview PROVE IInv'
  OBVIOUS
<1> DEFINE c == [co EXCEPT !.modal = FALSE, !.preview = FALSE]
           g == Grants(c, waiting)
           s == c.syncing \/ g
           b == [c EXCEPT !.syncing = s]
           r == Refresh(b, pending)
           q == r.queued \/ co.queued
           e == [r EXCEPT !.queued = q]
<1>1. /\ co' = ScheduleQueued(e)
      /\ g => session' = [who |-> Head(waiting), working |-> FALSE]
      /\ ~g => session' = session
      /\ UNCHANGED <<run, outdated, renew, pending, changes, latest>>
  BY DEF ClosePreview, Reserved, Wake, caches
<1>2. /\ c \in Flags /\ c.syncing = co.syncing /\ c.force = co.force
      /\ c.unsettled = co.unsettled /\ c.reconcile = co.reconcile
  BY DEF IInv, ControlInv, FlagsInv, Flags
<1>3. (g => ~c.syncing) /\ s \in BOOLEAN /\ (s <=> c.syncing \/ g)
  BY DEF Grants
<1>4. /\ b \in Flags /\ b.syncing = s /\ b.force = co.force
      /\ b.unsettled = co.unsettled /\ b.reconcile = co.reconcile
  <2> HIDE DEF c, s
  <2> QED BY <1>2, <1>3 DEF Flags
<1> HIDE DEF b
<1>5. Keeps(b, r)
  BY <1>4, RefreshKeeps
<1>6. q \in BOOLEAN
  OBVIOUS
<1> HIDE DEF r, q
<1>7. /\ e \in Flags /\ Quiet(e) /\ e.syncing = b.syncing /\ e.force = b.force
      /\ e.unsettled = b.unsettled /\ e.reconcile = b.reconcile
  BY <1>5, <1>6 DEF Keeps, KeepsMost, Flags, Quiet
<1> HIDE DEF c, g, s, e
<1>8. /\ co' \in Flags /\ Quiet(co') /\ co'.syncing = s /\ co'.force = co.force
      /\ co'.unsettled = co.unsettled /\ co'.reconcile = co.reconcile
  BY <1>1, <1>4, <1>7, ScheduleQueuedKeeps DEF Keeps, KeepsMost
<1>9. FlowInv'
  <2>1. CASE g
    BY <1>1, <1>2, <1>3, <1>8, <2>1 DEF IInv, ControlInv, FlowInv, Known
  <2>2. CASE ~g
    BY <1>1, <1>2, <1>3, <1>8, <2>2 DEF IInv, ControlInv, FlowInv, Known
  <2> QED BY <2>1, <2>2
<1>10. EditInv'
  BY <1>1, EditStutter DEF IInv, editVars
<1> QED BY <1>8, <1>9, <1>10 DEF IInv, ControlInv, FlagsInv

(* The rest of the plugin. *)
LEMMA StepFocus == IInv /\ Focus => IInv'
<1> SUFFICES ASSUME IInv, Focus PROVE IInv'
  OBVIOUS
<1>1. Keeps(co, co')
  BY ScheduleOpeningKeeps DEF Focus, IInv, ControlInv, FlagsInv
<1> QED BY <1>1, StepFlags DEF Focus, Others, flows, caches, Keeps, KeepsMost

LEMMA StepNetwork == IInv /\ (GoOffline \/ GoOnline) => IInv'
<1> SUFFICES ASSUME IInv, GoOffline \/ GoOnline PROVE IInv'
  OBVIOUS
<1> DEFINE a == [co EXCEPT !.online = FALSE]
           b == [co EXCEPT !.online = TRUE]
<1>1. Keeps(co, a) /\ Keeps(co, b)
  <2>1. Keeps(co, a)
    BY DEF IInv, ControlInv, FlagsInv, Keeps, KeepsMost, Flags, Quiet
  <2>2. Keeps(co, b)
    BY DEF IInv, ControlInv, FlagsInv, Keeps, KeepsMost, Flags, Quiet
  <2> QED BY <2>1, <2>2
<1>2. co' \in {a, b, ScheduleOpening(b, TRUE)}
  BY DEF GoOffline, GoOnline
<1>3. UNCHANGED <<run, session, outdated, renew, pending, changes, latest>>
  BY DEF GoOffline, GoOnline, Others, flows, caches
<1> HIDE DEF a, b
<1>4. Keeps(b, ScheduleOpening(b, TRUE))
  BY <1>1, ScheduleOpeningKeeps DEF Keeps, KeepsMost
<1> QED BY <1>1, <1>2, <1>3, <1>4, StepFlags DEF Keeps, KeepsMost

LEMMA StepPause == IInv /\ (TogglePause \/ Refreshes) => IInv'
<1> SUFFICES ASSUME IInv, TogglePause \/ Refreshes PROVE IInv'
  OBVIOUS
<1> DEFINE paused == ~co.paused
           a == [co EXCEPT !.paused = paused, !.refresh = TRUE]
           b == [co EXCEPT !.refresh = FALSE]
<1>1. Keeps(co, a) /\ Keeps(co, b)
  <2>1. Keeps(co, a)
    BY DEF IInv, ControlInv, FlagsInv, Keeps, KeepsMost, Flags, Quiet
  <2>2. Keeps(co, b)
    BY DEF IInv, ControlInv, FlagsInv, Keeps, KeepsMost, Flags, Quiet
  <2> QED BY <2>1, <2>2
<1>2. co' = a \/ co' = Refresh(b, pending)
  BY DEF TogglePause, Refreshes
<1>3. UNCHANGED <<run, session, outdated, renew, pending, changes, latest>>
  BY DEF TogglePause, Refreshes, Others, flows, caches
<1> HIDE DEF a, b
<1>4. Keeps(b, Refresh(b, pending))
  BY <1>1, RefreshKeeps DEF Keeps, KeepsMost
<1> QED BY <1>1, <1>2, <1>3, <1>4, StepFlags DEF Keeps, KeepsMost

(* The settings change, or an upload ends: the engine goes, now or later.   *)
LEMMA StepInvalidate ==
  ASSUME IInv, NEW c, co' = c, c \in Flags, Quiet(c), c.syncing = co.syncing,
         c.force \/ c.unsettled => co.force \/ co.unsettled, c.unsettled => c.reconcile /\ ~c.force,
         InvalidateEngine, UNCHANGED <<run, session, pending, changes, latest>>
  PROVE IInv'
<1>1. ControlInv'
  BY DEF InvalidateEngine, IInv, ControlInv, FlagsInv, FlowInv, Known
<1>2. EditInv'
  BY EditStutter DEF IInv, editVars
<1> QED BY <1>1, <1>2 DEF IInv

LEMMA StepSettings == IInv /\ ChangeSettings => IInv'
  BY StepInvalidate DEF ChangeSettings, flows, IInv, ControlInv, FlagsInv, FlowInv

LEMMA StepForceEnds == IInv /\ ForceEnds => IInv'
<1> SUFFICES ASSUME IInv, ForceEnds PROVE IInv'
  OBVIOUS
<1> DEFINE c == [co EXCEPT !.force = FALSE]
<1>1. /\ c \in Flags /\ Quiet(c) /\ c.syncing = co.syncing /\ ~c.force /\ co.force
      /\ ~c.unsettled
  BY DEF ForceEnds, IInv, ControlInv, FlagsInv, FlowInv, Flags, Quiet
<1>2. co' \in {c, Uncertain(c)} /\ InvalidateEngine /\ UNCHANGED <<run, session, pending, changes, latest>>
  BY DEF ForceEnds, flows
<1> HIDE DEF c
<1>3. /\ Uncertain(c) \in Flags /\ Quiet(Uncertain(c)) /\ Uncertain(c).syncing = c.syncing
      /\ ~Uncertain(c).force /\ Uncertain(c).reconcile
  BY <1>1 DEF Uncertain, Flags, Quiet
<1> QED BY <1>1, <1>2, <1>3, StepInvalidate

LEMMA StepSettles == IInv /\ Settles => IInv'
<1> SUFFICES ASSUME IInv, Settles PROVE IInv'
  OBVIOUS
<1> DEFINE c == [co EXCEPT !.unsettled = FALSE]
           d == [co EXCEPT !.listing = FALSE]
<1>1. /\ c \in Flags /\ Quiet(c) /\ c.syncing = co.syncing /\ c.force = co.force
      /\ ~c.unsettled /\ c.reconcile = co.reconcile
  BY DEF IInv, ControlInv, FlagsInv, Flags, Quiet
<1>2. /\ d \in Flags /\ Quiet(d) /\ d.syncing = co.syncing /\ d.force = co.force
      /\ d.unsettled = co.unsettled /\ d.reconcile = co.reconcile
  BY DEF IInv, ControlInv, FlagsInv, Flags, Quiet
<1>3. co' \in {c, d} /\ UNCHANGED <<run, session, outdated, renew, pending, changes, latest>>
  BY DEF Settles, Others, flows, caches
<1> HIDE DEF c, d
<1> QED BY <1>1, <1>2, <1>3, StepFlags

LEMMA StepForceStarts == IInv /\ ForceStarts => IInv'
<1> SUFFICES ASSUME IInv, ForceStarts PROVE IInv'
  OBVIOUS
<1>1. /\ ~co.syncing /\ ~co.reconcile /\ co' = [co EXCEPT !.force = TRUE, !.cooling = TRUE]
      /\ UNCHANGED <<run, session, outdated, renew, pending, changes, latest>>
  BY DEF ForceStarts, Others, flows, caches
<1>2. co' \in Flags /\ Quiet(co') /\ co'.syncing = co.syncing /\ co'.unsettled = co.unsettled
  BY <1>1 DEF IInv, ControlInv, FlagsInv, Flags, Quiet
<1>3. ControlInv'
  BY <1>1, <1>2 DEF IInv, ControlInv, FlagsInv, FlowInv, Known
<1>4. EditInv'
  BY <1>1, EditStutter DEF IInv, editVars
<1> QED BY <1>3, <1>4 DEF IInv

LEMMA StepUnload == IInv /\ Unload => IInv'
<1> SUFFICES ASSUME IInv, Unload PROVE IInv'
  OBVIOUS
<1>1. /\ co' = [Teardown(co) EXCEPT !.closed = TRUE] /\ outdated' = FALSE
      /\ UNCHANGED <<run, session, pending, changes, latest>>
  BY DEF Unload
<1>2. /\ co' \in Flags /\ Quiet(co') /\ co'.syncing = co.syncing /\ co'.force = co.force
      /\ co'.unsettled = co.unsettled /\ co'.reconcile = co.reconcile
  BY <1>1 DEF Teardown, IInv, ControlInv, FlagsInv, Flags, Quiet
<1>3. ControlInv'
  BY <1>1, <1>2 DEF IInv, ControlInv, FlagsInv, FlowInv, Known
<1>4. EditInv'
  BY <1>1, EditStutter DEF IInv, editVars
<1> QED BY <1>3, <1>4 DEF IInv

LEMMA StepCool == IInv /\ Cool => IInv'
<1> SUFFICES ASSUME IInv, Cool PROVE IInv'
  OBVIOUS
<1> DEFINE c == [co EXCEPT !.cooling = FALSE]
<1>1. /\ c \in Flags /\ Quiet(c) /\ c.syncing = co.syncing /\ c.force = co.force
      /\ c.unsettled = co.unsettled /\ c.reconcile = co.reconcile
  BY DEF IInv, ControlInv, FlagsInv, Flags, Quiet
<1> QED BY <1>1, StepFlags DEF Cool, flows, caches

LEMMA Step == IInv /\ [Next]_vars => IInv'
<1> SUFFICES ASSUME IInv, [Next]_vars PROVE IInv'
  OBVIOUS
<1>1. CASE Work
  BY <1>1, StepRun, StepSessionBegins, StepSessionEnds, StepPreview, StepForceEnds, StepPause,
     StepSettles DEF Work
<1>2. CASE User
  BY <1>2, StepEdit, StepEcho, StepManualRun, StepRequestConflict, StepOpenReview, StepCloseReview,
     StepPreview, StepClosePreview, StepFocus, StepNetwork, StepPause, StepSettings,
     StepForceStarts, StepUnload DEF User
<1>3. CASE TimerFires \/ IntervalTick \/ Cool
  BY <1>3, StepTimer, StepInterval, StepCool
<1>4. CASE UNCHANGED vars
  BY <1>4, StepFlags DEF vars, IInv, ControlInv, FlagsInv
<1> QED BY <1>1, <1>2, <1>3, <1>4 DEF Next

LEMMA Invariant == Spec => []IInv
  BY ControlInit, EditInit, Step, PTL DEF Spec, IInv

-----------------------------------------------------------------------------
(* Whatever runs begin, end, fail or are cancelled around an edit, its file *)
(* stays a hint until a run that may push has seen the edit.                *)
THEOREM EditsAreKept == Spec => []NoEditForgotten
<1>1. IInv => NoEditForgotten
  BY DEF IInv, EditInv
<1> QED BY <1>1, Invariant, PTL

(* Runs, conflict sessions and forced uploads exclude one another.          *)
THEOREM OperationsExclude == Spec => []OneOperation
<1>1. IInv => OneOperation
  BY DEF IInv, ControlInv, FlowInv, OneOperation
<1> QED BY <1>1, Invariant, PTL

(* Of the steps, only a timer, the interval and a command start a run.      *)
Started == ~Known(run) /\ Known(run')

Allowed == ~outdated /\ (run'.auto => Able)

LEMMA RequestIsAllowed ==
  ASSUME IInv, Started, ~co.closed, NEW c, Keeps(co, c),
         c.held = co.held, c.paused = co.paused, c.confirm = co.confirm, c.reconcile = co.reconcile,
         c.online = co.online, c.review = co.review,
         NEW full \in BOOLEAN, RequestAutoSync(c, full)
  PROVE Allowed
<1>1. c \in Flags /\ Quiet(c)
  BY DEF Keeps, KeepsMost
<1>2. ~UNCHANGED flows
  BY DEF Started, flows
<1>3. PICK t \in Flags : /\ Keeps(c, t) /\ Permitted(t) /\ ~Busy(t)
                        /\ t = [c EXCEPT !.full = @ \/ full]
  BY <1>1, <1>2, RequestOutcome
<1>4. /\ t.held = c.held /\ t.paused = c.paused /\ t.confirm = c.confirm /\ t.online = c.online
      /\ t.reconcile = c.reconcile /\ t.review = c.review /\ t.force = c.force
      /\ t.syncing = c.syncing /\ t.preview = c.preview
  BY <1>1, <1>3 DEF Flags
<1>5. Able
  BY <1>3, <1>4 DEF Able, Permitted, CanAutoSync, Busy, Keeps, KeepsMost
<1>6. ~outdated
  BY <1>5 DEF Able, IInv, ControlInv, FlowInv
<1> QED BY <1>5, <1>6 DEF Allowed

LEMMA StartsAllowed == IInv /\ [Next]_vars /\ Started => Allowed
<1> SUFFICES ASSUME IInv, [Next]_vars, Started PROVE Allowed
  OBVIOUS
<1>1. CASE TimerFires
  <2> DEFINE c == [co EXCEPT !.timer = FALSE]
             full == co.full
  <2>1. /\ Keeps(co, c) /\ full \in BOOLEAN /\ ~co.closed
        /\ c.held = co.held /\ c.paused = co.paused /\ c.confirm = co.confirm
        /\ c.reconcile = co.reconcile /\ c.online = co.online /\ c.review = co.review
    BY <1>1 DEF TimerFires, IInv, ControlInv, FlagsInv, Keeps, KeepsMost, Quiet, Flags
  <2>2. RequestAutoSync(c, full)
    BY <1>1 DEF TimerFires
  <2> HIDE DEF c, full
  <2> QED BY <2>1, <2>2, RequestIsAllowed
<1>2. CASE IntervalTick
  <2>1. Keeps(co, co) /\ ~co.closed /\ RequestAutoSync(co, FALSE)
    BY <1>2 DEF IntervalTick, IInv, ControlInv, FlagsInv, Keeps, KeepsMost
  <2> QED BY <2>1, RequestIsAllowed
<1>3. ASSUME NEW d \in Direction, ManualRun(d) PROVE Allowed
  <2>1. ~co.syncing /\ ~run'.auto
    BY <1>3 DEF ManualRun, StartRun
  <2> QED BY <2>1 DEF Allowed, IInv, ControlInv, FlowInv
<1>4. CASE Work
  <2>1. RunSteps => Known(run)
    BY DEF RunSteps, RunPrepares, RunScans, RunRetries, RunSucceeds, RunIsCancelled, RunMeetsEdit,
           RunIsRefused, RunFails
  <2>2. SessionBegins \/ SessionEnds \/ PreviewPlans \/ PreviewEnds \/ ForceEnds \/ Refreshes \/ Settles
        => run' = run
    BY DEF SessionBegins, SessionEnds, PreviewPlans, PreviewEnds, ForceEnds, Refreshes, Settles, Others, flows
  <2> QED BY <1>4, <2>1, <2>2 DEF Work, Started
<1>5. CASE User /\ ~\E d \in Direction : ManualRun(d)
  <2>1. ASSUME NEW p \in Path, Edit(p) \/ Echo(p) PROVE Known(run') => Known(run)
    BY <2>1 DEF Edit, Echo, flows, Known
  <2>2. ASSUME NEW w \in Waiter, RequestConflict(w) PROVE run' = run
    BY <2>2 DEF RequestConflict
  <2>3. OpenReview \/ CloseReview \/ OpenPreview \/ PreviewAgain \/ ClosePreview => run' = run
    BY DEF OpenReview, CloseReview, OpenPreview, PreviewAgain, ClosePreview, flows
  <2>4. Focus \/ GoOffline \/ GoOnline \/ TogglePause \/ ChangeSettings \/ ForceStarts \/ Unload
        => run' = run
    BY DEF Focus, GoOffline, GoOnline, TogglePause, ChangeSettings, ForceStarts, Unload, Others, flows
  <2> QED BY <1>5, <2>1, <2>2, <2>3, <2>4 DEF User, Started
<1>6. CASE Cool \/ UNCHANGED vars
  BY <1>6 DEF Cool, flows, vars, Started
<1> QED BY <1>1, <1>2, <1>3, <1>4, <1>5, <1>6 DEF Next, User

(* A run starts only when nothing holds it back, and never with an engine   *)
(* built before the settings last changed.                                  *)
THEOREM StartsAreAllowed == Spec => RunsStartWhenAllowed
<1>1. IInv /\ [Next]_vars => (~Known(run) /\ Known(run') => ~outdated /\ (run'.auto => Able))
  BY StartsAllowed DEF Started, Allowed
<1> QED BY <1>1, Invariant, PTL DEF Spec, RunsStartWhenAllowed

-----------------------------------------------------------------------------
(* No wake-up is lost: scheduling arms the timer of a queued request unless *)
(* something holds it back, and whatever ends that schedules again.         *)

AbleWith(c) ==
  /\ ~c.closed /\ ~c.syncing /\ ~c.preview /\ ~c.review
  /\ ~c.held /\ ~c.confirm /\ ~c.paused /\ ~c.force /\ ~c.reconcile /\ c.online

Awake(c) == c.queued /\ AbleWith(c) /\ ~c.refresh => c.timer

LEMMA ScheduleQueuedWakes == ASSUME NEW c \in Flags PROVE Awake(ScheduleQueued(c))
<1>1. CASE ScheduleQueued(c) = c
  <2>1. CASE c.held \/ ~c.queued \/ c.paused \/ ~CanAutoSync(c) \/ c.confirm \/ Busy(c) \/ c.closed
    BY <1>1, <2>1 DEF Awake, AbleWith, CanAutoSync, Busy
  <2>2. CASE c = [c EXCEPT !.timer = TRUE]
    <3>1. c.timer
      BY <2>2 DEF Flags
    <3> QED BY <1>1, <3>1 DEF Awake
  <2> QED BY <1>1, <2>1, <2>2 DEF ScheduleQueued
<1>2. CASE ScheduleQueued(c) = [c EXCEPT !.timer = TRUE]
  BY <1>2 DEF Awake, Flags
<1> QED BY <1>1, <1>2 DEF ScheduleQueued

LEMMA ScheduleWakes == ASSUME NEW c \in Flags, NEW full \in BOOLEAN PROVE Awake(Schedule(c, full))
<1> DEFINE d == [c EXCEPT !.queued = TRUE, !.full = @ \/ full]
<1>1. d \in Flags
  BY DEF Flags
<1>2. Awake(ScheduleQueued(d))
  BY <1>1, ScheduleQueuedWakes
<1>3. c.held => Awake(c)
  BY DEF Awake, AbleWith
<1> QED BY <1>2, <1>3 DEF Schedule

LEMMA VaultEventWakes == ASSUME NEW c \in Flags, Awake(c) PROVE Awake(VaultEvent(c))
<1>1. Awake(Schedule(c, FALSE))
  BY ScheduleWakes
<1> QED BY <1>1 DEF VaultEvent

(* Only a check that recovers a connection also wakes what was queued.      *)
LEMMA ScheduleOpeningWakes ==
  ASSUME NEW c \in Flags, NEW recover \in BOOLEAN, recover \/ Awake(c)
  PROVE Awake(ScheduleOpening(c, recover))
<1> DEFINE d == [c EXCEPT !.opening = TRUE, !.queued = TRUE]
           e == [c EXCEPT !.opening = FALSE]
<1>1. d \in Flags
  BY DEF Flags
<1>2. Awake(ScheduleQueued(d))
  BY <1>1, ScheduleQueuedWakes
<1>3. CASE c.syncing \/ (c.queued /\ ~recover)
  <2>1. ScheduleOpening(c, recover) = c
    BY <1>3 DEF ScheduleOpening
  <2>2. Awake(c)
    BY <1>3 DEF Awake, AbleWith
  <2> QED BY <2>1, <2>2
<1>4. CASE ~(c.syncing \/ (c.queued /\ ~recover)) /\ ~Permitted(c)
  <2>1. ScheduleOpening(c, recover) = e
    BY <1>4 DEF ScheduleOpening
  <2>2. ~AbleWith(e)
    BY <1>4 DEF AbleWith, Permitted, CanAutoSync, Flags
  <2> QED BY <2>1, <2>2 DEF Awake
<1>5. CASE ~(c.syncing \/ (c.queued /\ ~recover)) /\ Permitted(c)
  BY <1>2, <1>5 DEF ScheduleOpening
<1> QED BY <1>3, <1>4, <1>5

LEMMA RefreshWakes == ASSUME NEW c \in Flags, NEW pend PROVE Awake(Refresh(c, pend))
<1> DEFINE t == Teardown(c)
<1>1. t \in Flags /\ ~t.queued
  BY DEF Teardown, Flags
<1>2. Awake(Schedule(t, FALSE))
  BY <1>1, ScheduleWakes
<1>3. Refresh(c, pend) \in {t, Schedule(t, FALSE)}
  BY DEF Refresh
<1> QED BY <1>1, <1>2, <1>3 DEF Awake

LEMMA ReleasedWakes == ASSUME NEW c \in Flags PROVE Awake(Released(c))
<1> DEFINE d == [c EXCEPT !.syncing = FALSE]
           g == Grants(d, waiting)
           r == Reserved(d, waiting)
<1>1. d \in Flags /\ g \in BOOLEAN
  BY DEF Flags, Grants
<1> HIDE DEF d, g
<1>2. r \in Flags
  BY <1>1 DEF Reserved, Flags, g
<1> QED BY <1>2, ScheduleQueuedWakes DEF Released, d

(* What every step does but those of a forced upload.                       *)
Woken == Awake(co') /\ co'.force = co.force

(* A request answered in any way leaves nothing queued and asleep.          *)
LEMMA RequestWakes ==
  ASSUME NEW c \in Flags, Quiet(c), c.force = co.force, NEW full \in BOOLEAN, RequestAutoSync(c, full)
  PROVE Woken
<1> DEFINE t == [c EXCEPT !.full = @ \/ full]
<1>1. t \in Flags /\ Quiet(t) /\ t.force = co.force
  BY DEF Flags, Quiet
<1>2. Awake(Schedule(t, full)) /\ Keeps(t, Schedule(t, full))
  BY <1>1, ScheduleWakes, ScheduleKeeps
<1>3. \/ ~Permitted(t) /\ co' \in {t, [t EXCEPT !.opening = FALSE, !.queued = FALSE]}
      \/ Busy(t) /\ co' = [t EXCEPT !.queued = TRUE]
      \/ co' = Schedule(t, full)
      \/ StartRun(t, TRUE, t.full, "both")
  BY DEF RequestAutoSync
<1> HIDE DEF t
<1>4. CASE ~Permitted(t) /\ co' \in {t, [t EXCEPT !.opening = FALSE, !.queued = FALSE]}
  BY <1>1, <1>4 DEF Woken, Awake, AbleWith, Permitted, CanAutoSync, Flags
<1>5. CASE Busy(t) /\ co' = [t EXCEPT !.queued = TRUE]
  BY <1>1, <1>5 DEF Woken, Awake, AbleWith, Busy, Flags
<1>6. CASE StartRun(t, TRUE, t.full, "both")
  BY <1>1, <1>6 DEF StartRun, Woken, Awake, Flags
<1>7. CASE co' = Schedule(t, full)
  BY <1>1, <1>2, <1>7 DEF Woken, Keeps, KeepsMost
<1> QED BY <1>3, <1>4, <1>5, <1>6, <1>7

(* The end of a run, of whatever kind.                                      *)
LEMMA RunStepsWake == ASSUME IInv, Awake(co), RunSteps PROVE Woken
<1> USE DEF IInv, ControlInv, FlagsInv
<1> DEFINE End(c) == Quiet(c) /\ c.force = co.force /\ co' = Released(c)
<1>1. co' = co \/ RunSucceeds \/ \E c \in Flags : End(c)
  <2>1. RunPrepares \/ RunScans \/ RunRetries => co' = co
    BY DEF RunPrepares, RunScans, RunRetries
  <2>2. RunIsCancelled => \E c \in Flags : End(c)
    <3> DEFINE c == [co EXCEPT !.confirm = TRUE]
    <3>1. c \in Flags /\ Quiet(c) /\ c.force = co.force
      BY DEF Flags, Quiet
    <3>2. RunIsCancelled => co' = Released(c)
      BY DEF RunIsCancelled
    <3> QED BY <3>1, <3>2
  <2>3. ASSUME NEW kind, FailRun(kind) PROVE \E c \in Flags : End(c)
    <3>1. /\ AfterFailure(co, kind) \in Flags /\ Quiet(AfterFailure(co, kind))
          /\ AfterFailure(co, kind).force = co.force
      BY FailureKeeps DEF KeepsMost
    <3>2. co' = Released(AfterFailure(co, kind))
      BY <2>3 DEF FailRun
    <3> QED BY <3>1, <3>2
  <2>4. RunMeetsEdit \/ RunIsRefused => \E c \in Flags : End(c)
    BY <2>3 DEF RunMeetsEdit, RunIsRefused
  <2>5. ASSUME NEW kind, RunFails(kind) PROVE \E c \in Flags : End(c)
    BY <2>3, <2>5 DEF RunFails
  <2> QED BY <2>1, <2>2, <2>4, <2>5 DEF RunSteps
<1>2. CASE RunSucceeds
  <2> DEFINE c == [co EXCEPT !.held = FALSE]
             r == Released(c)
             reconciled == co.reconcile /\ ~run.auto
             reconcile == r.reconcile /\ ~reconciled
             refresh == r.refresh \/ reconciled
  <2>1. c \in Flags /\ Quiet(c) /\ c.force = co.force
    BY DEF Flags, Quiet
  <2>2. co' = [r EXCEPT !.reconcile = reconcile, !.refresh = refresh]
    BY <1>2 DEF RunSucceeds
  <2>3. reconcile \in BOOLEAN /\ refresh \in BOOLEAN /\ (refresh \/ (~r.refresh /\ reconcile = r.reconcile))
    <3>1. r \in Flags
      BY <2>1, ReleasedKeeps
    <3> HIDE DEF r
    <3> QED BY <3>1 DEF Flags
  <2> HIDE DEF c, reconciled, reconcile, refresh
  <2>4. r \in Flags /\ Awake(r) /\ r.force = co.force
    BY <2>1, ReleasedKeeps, ReleasedWakes
  <2> HIDE DEF r
  <2>5. /\ co'.reconcile = reconcile /\ co'.refresh = refresh
        /\ co'.queued = r.queued /\ co'.timer = r.timer /\ co'.closed = r.closed /\ co'.syncing = r.syncing
        /\ co'.preview = r.preview /\ co'.review = r.review /\ co'.held = r.held /\ co'.confirm = r.confirm
        /\ co'.paused = r.paused /\ co'.force = r.force /\ co'.online = r.online
    BY <2>2, <2>4 DEF Flags
  <2> QED BY <2>3, <2>4, <2>5 DEF Woken, Awake, AbleWith, Flags
<1>3. ASSUME NEW c \in Flags, End(c) PROVE Woken
  BY <1>3, ReleasedWakes, ReleasedKeeps DEF Woken
<1> QED BY <1>1, <1>2, <1>3 DEF Woken

LEMMA SessionsWake ==
  ASSUME IInv, Awake(co), SessionBegins \/ SessionEnds \/ \E w \in Waiter : RequestConflict(w)
  PROVE Woken
<1> USE DEF IInv, ControlInv, FlagsInv
<1>1. CASE SessionBegins
  BY <1>1 DEF SessionBegins, Woken
<1>2. CASE SessionEnds
  <2>1. Uncertain(co) \in Flags /\ Quiet(Uncertain(co)) /\ Uncertain(co).force = co.force
    BY DEF Uncertain, Flags, Quiet
  <2>2. co' = Released(co) \/ co' = Released(Uncertain(co))
    BY <1>2 DEF SessionEnds, Release
  <2> QED BY <2>1, <2>2, ReleasedWakes, ReleasedKeeps DEF Woken
<1>3. ASSUME NEW w \in Waiter, RequestConflict(w) PROVE Woken
  <2> DEFINE g == Grants(co, Append(waiting, w))
             s == co.syncing \/ g
  <2>1. co' = [co EXCEPT !.syncing = s] /\ (s => s = TRUE) /\ (~s => ~co.syncing)
    BY <1>3 DEF RequestConflict, Reserved
  <2> HIDE DEF g, s
  <2>2. CASE s
    BY <2>1, <2>2 DEF Woken, Awake, AbleWith, Flags
  <2>3. CASE ~s
    BY <2>1, <2>3 DEF Woken, Awake, AbleWith, Flags
  <2> QED BY <2>2, <2>3
<1> QED BY <1>1, <1>2, <1>3

LEMMA WindowsWake ==
  ASSUME IInv, Awake(co),
         \/ OpenReview \/ CloseReview \/ OpenPreview \/ PreviewAgain \/ PreviewPlans
         \/ PreviewEnds \/ ClosePreview
  PROVE Woken
<1> USE DEF IInv, ControlInv, FlagsInv
<1>1. CASE OpenReview
  BY <1>1 DEF OpenReview, Woken, Awake, AbleWith, Flags
<1>2. CASE CloseReview
  <2> DEFINE c == [co EXCEPT !.review = FALSE]
  <2>1. c \in Flags /\ Quiet(c) /\ c.force = co.force
    BY DEF Flags, Quiet
  <2>2. co' = ScheduleQueued(c)
    BY <1>2 DEF CloseReview
  <2> HIDE DEF c
  <2> QED BY <2>1, <2>2, ScheduleQueuedWakes, ScheduleQueuedKeeps DEF Woken, Keeps, KeepsMost
<1>3. CASE OpenPreview \/ PreviewPlans
  <2>1. co' = [co EXCEPT !.modal = TRUE, !.preview = TRUE] \/ co' = [co EXCEPT !.preview = TRUE]
    BY <1>3 DEF OpenPreview, PreviewPlans
  <2> QED BY <2>1 DEF Woken, Awake, AbleWith, Flags
<1>4. CASE PreviewAgain \/ PreviewEnds
  <2>1. co' = co \/ co' = [co EXCEPT !.reconcile = TRUE, !.listing = TRUE]
    BY <1>4 DEF PreviewAgain, PreviewEnds
  <2> QED BY <2>1 DEF Woken, Awake, AbleWith, Flags
<1>5. CASE ClosePreview
  <2> DEFINE c == [co EXCEPT !.modal = FALSE, !.preview = FALSE]
             g == Grants(c, waiting)
             s == c.syncing \/ g
             b == [c EXCEPT !.syncing = s]
             r == Refresh(b, pending)
             q == r.queued \/ co.queued
             e == [r EXCEPT !.queued = q]
  <2>1. co' = ScheduleQueued(e)
    BY <1>5 DEF ClosePreview, Reserved
  <2>2. c \in Flags /\ Quiet(c) /\ c.force = co.force /\ s \in BOOLEAN /\ q \in BOOLEAN
    BY DEF Flags, Quiet
  <2>3. b \in Flags /\ b.force = co.force
    <3> HIDE DEF c, s
    <3> QED BY <2>2 DEF Flags
  <2> HIDE DEF b
  <2>4. r \in Flags /\ Quiet(r) /\ r.force = co.force
    BY <2>3, RefreshKeeps DEF Keeps, KeepsMost
  <2> HIDE DEF r, q
  <2>5. e \in Flags /\ Quiet(e) /\ e.force = co.force
    BY <2>2, <2>4 DEF Flags, Quiet
  <2> HIDE DEF e
  <2> QED BY <2>1, <2>5, ScheduleQueuedWakes, ScheduleQueuedKeeps DEF Woken, Keeps, KeepsMost
<1> QED BY <1>1, <1>2, <1>3, <1>4, <1>5

LEMMA RestWakes ==
  ASSUME IInv, Awake(co),
         Focus \/ GoOffline \/ GoOnline \/ TogglePause \/ Refreshes \/ ChangeSettings
         \/ Settles \/ Unload \/ Cool \/ UNCHANGED vars
  PROVE Woken
<1> USE DEF IInv, ControlInv, FlagsInv
<1>1. CASE Focus
  BY <1>1, ScheduleOpeningWakes, ScheduleOpeningKeeps DEF Focus, Woken, Keeps, KeepsMost
<1>2. CASE GoOffline
  BY <1>2 DEF GoOffline, Woken, Awake, AbleWith, Flags
<1>3. CASE GoOnline
  <2> DEFINE c == [co EXCEPT !.online = TRUE]
  <2>1. c \in Flags /\ Quiet(c) /\ c.force = co.force
    BY DEF Flags, Quiet
  <2>2. co' = IF c.paused \/ c.held THEN c ELSE ScheduleOpening(c, TRUE)
    BY <1>3 DEF GoOnline
  <2> HIDE DEF c
  <2>3. Awake(ScheduleOpening(c, TRUE)) /\ ScheduleOpening(c, TRUE).force = c.force
    BY <2>1, ScheduleOpeningWakes, ScheduleOpeningKeeps DEF Keeps, KeepsMost
  <2>4. c.paused \/ c.held => Awake(c)
    BY DEF Awake, AbleWith
  <2> QED BY <2>1, <2>2, <2>3, <2>4 DEF Woken
<1>4. CASE TogglePause
  BY <1>4 DEF TogglePause, Woken, Awake, Flags
<1>5. CASE Refreshes
  <2> DEFINE c == [co EXCEPT !.refresh = FALSE]
  <2>1. c \in Flags /\ c.force = co.force
    BY DEF Flags
  <2>2. co' = Refresh(c, pending)
    BY <1>5 DEF Refreshes
  <2> HIDE DEF c
  <2> QED BY <2>1, <2>2, RefreshWakes, RefreshKeeps DEF Woken, Keeps, KeepsMost
<1>6. CASE Settles \/ Cool
  <2>1. co' \in {[co EXCEPT !.unsettled = FALSE], [co EXCEPT !.listing = FALSE], [co EXCEPT !.cooling = FALSE]}
    BY <1>6 DEF Settles, Cool
  <2> QED BY <2>1 DEF Woken, Awake, AbleWith, Flags
<1>7. CASE Unload
  BY <1>7 DEF Unload, Teardown, Woken, Awake, AbleWith, Flags
<1>8. CASE ChangeSettings \/ UNCHANGED vars
  BY <1>8 DEF ChangeSettings, vars, Woken
<1> QED BY <1>1, <1>2, <1>3, <1>4, <1>5, <1>6, <1>7, <1>8

(* Every step but the end of a forced upload.                               *)
LEMMA WakeUps ==
  ASSUME IInv, Awake(co), [Next]_vars, ~ForceEnds
  PROVE Awake(co') /\ (ForceStarts \/ co'.force = co.force)
<1>0. co \in Flags /\ Quiet(co)
  BY DEF IInv, ControlInv, FlagsInv
<1>1. ASSUME NEW p \in Path, Edit(p) \/ Echo(p) PROVE Woken
  <2> DEFINE c == [co EXCEPT !.cooling = TRUE]
  <2>1. c \in Flags /\ Quiet(c) /\ c.force = co.force /\ Awake(c)
    BY <1>0 DEF Flags, Quiet, Awake, AbleWith
  <2>2. co' = VaultEvent(c)
    BY <1>1 DEF Edit, Echo, Recorded
  <2> HIDE DEF c
  <2> QED BY <2>1, <2>2, VaultEventWakes, VaultEventKeeps DEF Woken, Keeps, KeepsMost
<1>2. ASSUME NEW d \in Direction, ManualRun(d) PROVE Woken
  BY <1>0, <1>2 DEF ManualRun, StartRun, Woken, Awake, Flags
<1>3. CASE TimerFires
  <2> DEFINE c == [co EXCEPT !.timer = FALSE]
             full == co.full
  <2>1. c \in Flags /\ Quiet(c) /\ c.force = co.force /\ full \in BOOLEAN
    BY <1>0 DEF Flags, Quiet
  <2>2. RequestAutoSync(c, full)
    BY <1>3 DEF TimerFires
  <2> HIDE DEF c, full
  <2> QED BY <2>1, <2>2, RequestWakes DEF Woken
<1>4. CASE IntervalTick
  BY <1>0, <1>4, RequestWakes DEF IntervalTick, Woken
<1>5. CASE Work
  BY <1>5, RunStepsWake, SessionsWake, WindowsWake, RestWakes DEF Work, Woken
<1>6. CASE ForceStarts
  BY <1>0, <1>6 DEF ForceStarts, Awake, AbleWith, Flags
<1>7. CASE User
  BY <1>1, <1>2, <1>6, <1>7, SessionsWake, WindowsWake, RestWakes DEF User, Woken
<1>8. CASE Cool \/ UNCHANGED vars
  BY <1>8, RestWakes DEF Woken
<1> QED BY <1>3, <1>4, <1>5, <1>7, <1>8 DEF Next, Woken

(* Awake is a queued request that is not overlooked.                        *)
LEMMA AwakeIsNoticed == Awake(co) <=> ~Overlooked
  BY DEF Awake, AbleWith, Overlooked, Able

(* A step that overlooks a request is the end of a forced upload.           *)
LEMMA OnlyForceOverlooks ==
  IInv /\ [Next]_vars => (Overlooked' => Overlooked \/ (co.force /\ ~co'.force))
<1> SUFFICES ASSUME IInv, [Next]_vars, Overlooked', ~Overlooked PROVE co.force /\ ~co'.force
  OBVIOUS
<1>1. Awake(co)
  BY AwakeIsNoticed
<1>2. ~Awake(co')
  BY DEF Awake, AbleWith, Overlooked, Able
<1>3. ForceEnds
  BY <1>1, <1>2, WakeUps
<1>4. ~co'.force
  BY DEF Overlooked, Able
<1> QED BY <1>3, <1>4 DEF ForceEnds

(* Only the end of a forced upload overlooks a queued request that nothing  *)
(* keeps from running; whatever else happens arms its timer.                *)
THEOREM NoWakeupIsLost == Spec => NoLostWakeup
<1>1. Init => ~Overlooked
  <2> SUFFICES ASSUME Init PROVE ~Overlooked
    OBVIOUS
  <2>1. FirstFlags \in Flags /\ Awake(FirstFlags)
    BY DEF FirstFlags, Flags, Awake
  <2>2. co = ScheduleOpening(FirstFlags, FALSE)
    BY DEF Init
  <2>3. Awake(co)
    BY <2>1, <2>2, ScheduleOpeningWakes
  <2> QED BY <2>3, AwakeIsNoticed
<1> QED BY <1>1, OnlyForceOverlooks, Invariant, PTL DEF Spec, NoLostWakeup

-----------------------------------------------------------------------------
(* Type correctness: what the invariant above leaves out.                   *)

Spent == [edits : 0..MaxEdits, acts : 0..MaxActs, faults : 0..MaxFaults]

Session == [who : Waiter, working : BOOLEAN]

QueueTypes == waiting \in Seq(Waiter) /\ (Known(session) => session \in Session)

EngineTypes == engine \in {"none", "cold", "warm"} /\ outdated \in BOOLEAN /\ renew \in BOOLEAN

RestTypes ==
  /\ replans \in 0..MaxReplans
  /\ QueueTypes
  /\ plan \in {"none", "preparing", "planning"}
  /\ EngineTypes
  /\ spent \in Spent

LEMMA SpendTypes ==
  ASSUME spent \in Spent
  PROVE /\ Spend("edits") /\ spent.edits < MaxEdits => spent' \in Spent
        /\ Spend("acts") /\ spent.acts < MaxActs => spent' \in Spent
        /\ Spend("faults") /\ spent.faults < MaxFaults => spent' \in Spent
<1> USE ConstantsAssumption
<1>1. ASSUME Spend("edits"), spent.edits < MaxEdits PROVE spent' \in Spent
  <2>1. MaxEdits \in Nat /\ spent.edits \in 0..MaxEdits
    BY DEF Spent
  <2>2. spent.edits + 1 \in 0..MaxEdits
    BY <1>1, <2>1
  <2>3. spent' = [spent EXCEPT !.edits = spent.edits + 1]
    BY <1>1 DEF Spend, Spent
  <2> QED BY <2>2, <2>3 DEF Spent
<1>2. ASSUME Spend("acts"), spent.acts < MaxActs PROVE spent' \in Spent
  <2>1. MaxActs \in Nat /\ spent.acts \in 0..MaxActs
    BY DEF Spent
  <2>2. spent.acts + 1 \in 0..MaxActs
    BY <1>2, <2>1
  <2>3. spent' = [spent EXCEPT !.acts = spent.acts + 1]
    BY <1>2 DEF Spend, Spent
  <2> QED BY <2>2, <2>3 DEF Spent
<1>3. ASSUME Spend("faults"), spent.faults < MaxFaults PROVE spent' \in Spent
  <2>1. MaxFaults \in Nat /\ spent.faults \in 0..MaxFaults
    BY DEF Spent
  <2>2. spent.faults + 1 \in 0..MaxFaults
    BY <1>3, <2>1
  <2>3. spent' = [spent EXCEPT !.faults = spent.faults + 1]
    BY <1>3 DEF Spend, Spent
  <2> QED BY <2>2, <2>3 DEF Spent
<1> QED BY <1>1, <1>2, <1>3

(* The first waiter, if any, is given the session.                          *)
LEMMA WakeTypes ==
  ASSUME NEW c, NEW queue \in Seq(Waiter), NEW current, Known(current) => current \in Session,
         Wake(c, queue, current)
  PROVE QueueTypes'
<1>1. CASE Grants(c, queue)
  <2>1. queue # <<>> /\ Head(queue) \in Waiter /\ Tail(queue) \in Seq(Waiter)
    BY <1>1 DEF Grants
  <2>2. session' = [who |-> Head(queue), working |-> FALSE] /\ waiting' = Tail(queue)
    BY <1>1 DEF Wake
  <2>3. session' \in Session
    BY <2>1, <2>2 DEF Session
  <2> QED BY <2>1, <2>2, <2>3 DEF QueueTypes
<1>2. CASE ~Grants(c, queue)
  BY <1>2 DEF Wake, QueueTypes
<1> QED BY <1>1, <1>2

LEMMA EndTypes ==
  ASSUME RestTypes, NEW c, NEW kept \in {"none", "cold", "warm"}, EndRun(c, kept)
  PROVE QueueTypes' /\ EngineTypes'
<1>1. EngineTypes'
  BY DEF EndRun, RestTypes, EngineTypes
<1>2. QueueTypes'
  BY WakeTypes DEF EndRun, RestTypes, QueueTypes, Known
<1> QED BY <1>1, <1>2

LEMMA RequestTypes ==
  ASSUME RestTypes, NEW c, NEW full, RequestAutoSync(c, full),
         UNCHANGED <<replans, engine, outdated, renew, spent>>
  PROVE RestTypes'
<1>1. UNCHANGED <<waiting, session, plan>>
  BY DEF RequestAutoSync, StartRun, flows
<1> QED BY <1>1 DEF RestTypes, QueueTypes, EngineTypes, Known

LEMMA FailTypes ==
  ASSUME RestTypes, NEW kind, FailRun(kind), spent' \in Spent
  PROVE RestTypes'
<1>1. replans' \in 0..MaxReplans /\ plan' = plan
  BY ConstantsAssumption DEF FailRun, RestTypes
<1> DEFINE c == AfterFailure(co, kind)
           kept == IF run.stage = "prepare" THEN engine ELSE "cold"
<1>2. kept \in {"none", "cold", "warm"} /\ EndRun(c, kept)
  BY DEF FailRun, RestTypes, EngineTypes
<1> HIDE DEF c, kept
<1>3. QueueTypes' /\ EngineTypes'
  BY <1>2, EndTypes
<1> QED BY <1>1, <1>3 DEF RestTypes

LEMMA RunTypes == RestTypes /\ RunSteps => RestTypes'
<1> SUFFICES ASSUME RestTypes, RunSteps PROVE RestTypes'
  OBVIOUS
<1>0. spent \in Spent
  BY DEF RestTypes
<1>1. CASE RunPrepares \/ RunScans
  BY <1>1 DEF RunPrepares, RunScans, NewEngine, RestTypes, QueueTypes, EngineTypes, Known
<1>2. CASE RunRetries
  <2>1. spent' \in Spent
    BY <1>0, <1>2, SpendTypes DEF RunRetries
  <2> QED BY <1>2, <2>1 DEF RunRetries, RestTypes, QueueTypes, EngineTypes, Known
<1>3. CASE RunSucceeds
  <2>1. PICK kept \in {"cold", "warm"} : EndRun(co, kept)
    BY <1>3 DEF RunSucceeds
  <2>2. QueueTypes' /\ EngineTypes'
    BY <2>1, EndTypes
  <2> QED BY <1>3, <2>2, ConstantsAssumption DEF RunSucceeds, RestTypes
<1>4. CASE RunIsCancelled
  <2>1. spent' \in Spent
    BY <1>0, <1>4, SpendTypes DEF RunIsCancelled
  <2>2. QueueTypes' /\ EngineTypes'
    BY <1>4, EndTypes DEF RunIsCancelled, RestTypes, EngineTypes
  <2> QED BY <1>4, <2>1, <2>2, ConstantsAssumption DEF RunIsCancelled, RestTypes
<1>5. CASE RunMeetsEdit \/ RunIsRefused
  BY <1>0, <1>5, FailTypes DEF RunMeetsEdit, RunIsRefused
<1>6. ASSUME NEW kind, RunFails(kind) PROVE RestTypes'
  <2>1. spent' \in Spent /\ FailRun(kind)
    BY <1>0, <1>6, SpendTypes DEF RunFails
  <2> QED BY <2>1, FailTypes
<1> QED BY <1>1, <1>2, <1>3, <1>4, <1>5, <1>6 DEF RunSteps

LEMMA SessionTypes ==
  RestTypes /\ (SessionBegins \/ SessionEnds \/ \E w \in Waiter : RequestConflict(w)) => RestTypes'
<1> SUFFICES ASSUME RestTypes, SessionBegins \/ SessionEnds \/ \E w \in Waiter : RequestConflict(w)
             PROVE RestTypes'
  OBVIOUS
<1>0. spent \in Spent
  BY DEF RestTypes
<1>1. CASE SessionBegins
  BY <1>1 DEF SessionBegins, caches, RestTypes, QueueTypes, EngineTypes, Session, Known
<1>2. CASE SessionEnds
  <2>1. PICK c : Release(c)
    BY <1>2 DEF SessionEnds
  <2>2. QueueTypes'
    BY <2>1, WakeTypes DEF Release, RestTypes, QueueTypes, Known
  <2>3. spent' \in Spent
    BY <1>0, <1>2, SpendTypes DEF SessionEnds
  <2>4. engine' = "none" /\ outdated' = FALSE /\ UNCHANGED <<plan, replans, renew>>
    BY <1>2 DEF SessionEnds
  <2> QED BY <2>2, <2>3, <2>4 DEF RestTypes, EngineTypes
<1>3. ASSUME NEW w \in Waiter, RequestConflict(w) PROVE RestTypes'
  <2>1. spent' \in Spent
    BY <1>0, <1>3, SpendTypes DEF RequestConflict, CanSpend
  <2>2. Append(waiting, w) \in Seq(Waiter) /\ Wake(co, Append(waiting, w), session)
    BY <1>3 DEF RequestConflict, RestTypes, QueueTypes
  <2>3. QueueTypes'
    BY <2>2, WakeTypes DEF RestTypes, QueueTypes
  <2> QED BY <1>3, <2>1, <2>3 DEF RequestConflict, caches, RestTypes, EngineTypes
<1> QED BY <1>1, <1>2, <1>3

LEMMA WindowTypes ==
  RestTypes /\ (\/ OpenReview \/ CloseReview \/ OpenPreview \/ PreviewAgain \/ PreviewPlans
                \/ PreviewEnds \/ ClosePreview)
  => RestTypes'
<1> SUFFICES ASSUME RestTypes,
                    \/ OpenReview \/ CloseReview \/ OpenPreview \/ PreviewAgain \/ PreviewPlans
                    \/ PreviewEnds \/ ClosePreview
             PROVE RestTypes'
  OBVIOUS
<1>1. spent' \in Spent
  BY SpendTypes DEF RestTypes, OpenReview, CloseReview, OpenPreview, PreviewAgain, PreviewPlans,
                    PreviewEnds, ClosePreview, CanSpend
<1>2. QueueTypes'
  <2>1. CASE ClosePreview
    BY <2>1, WakeTypes DEF ClosePreview, RestTypes, QueueTypes
  <2>2. CASE ~ClosePreview
    BY <2>2 DEF OpenReview, CloseReview, OpenPreview, PreviewAgain, PreviewPlans, PreviewEnds, flows,
                RestTypes, QueueTypes, Known
  <2> QED BY <2>1, <2>2
<1>3. /\ engine' \in {engine, "cold"} /\ UNCHANGED <<outdated, renew, replans>>
      /\ plan' \in {plan, "none", "preparing", "planning"}
  BY DEF OpenReview, CloseReview, OpenPreview, PreviewAgain, PreviewPlans, PreviewEnds, ClosePreview,
         NewEngine, caches, flows
<1> QED BY <1>1, <1>2, <1>3 DEF RestTypes, EngineTypes

LEMMA OtherTypes ==
  RestTypes /\ (\/ Focus \/ GoOffline \/ GoOnline \/ TogglePause \/ Refreshes \/ ChangeSettings
                \/ ForceStarts \/ ForceEnds \/ Settles \/ Unload \/ Cool \/ UNCHANGED vars)
  => RestTypes'
<1> SUFFICES ASSUME RestTypes,
                    \/ Focus \/ GoOffline \/ GoOnline \/ TogglePause \/ Refreshes \/ ChangeSettings
                    \/ ForceStarts \/ ForceEnds \/ Settles \/ Unload \/ Cool \/ UNCHANGED vars
             PROVE RestTypes'
  OBVIOUS
<1>1. spent' \in Spent
  BY SpendTypes DEF RestTypes, Focus, GoOffline, GoOnline, TogglePause, Refreshes, ChangeSettings,
                    ForceStarts, ForceEnds, Settles, Unload, Cool, vars, CanSpend
<1>2. /\ UNCHANGED <<replans, session, plan>>
      /\ waiting' \in {waiting, <<>>}
      /\ engine' \in {engine, "none"} /\ outdated' \in {outdated, TRUE, FALSE} /\ renew' \in {renew, TRUE}
  BY DEF Focus, GoOffline, GoOnline, TogglePause, Refreshes, ChangeSettings, ForceStarts, ForceEnds,
         Settles, Unload, Cool, vars, InvalidateEngine, Others, flows, caches
<1>3. <<>> \in Seq(Waiter)
  OBVIOUS
<1> QED BY <1>1, <1>2, <1>3 DEF RestTypes, QueueTypes, EngineTypes, Known

LEMMA StepTypes == RestTypes /\ [Next]_vars => RestTypes'
<1> SUFFICES ASSUME RestTypes, [Next]_vars PROVE RestTypes'
  OBVIOUS
<1>0. spent \in Spent
  BY DEF RestTypes
<1>1. ASSUME NEW p \in Path, Edit(p) \/ Echo(p) PROVE RestTypes'
  <2>1. spent' \in Spent
    BY <1>0, <1>1, SpendTypes DEF Edit, Echo
  <2> QED BY <1>1, <2>1 DEF Edit, Echo, flows, caches, RestTypes, QueueTypes, EngineTypes, Known
<1>2. ASSUME NEW d \in Direction, ManualRun(d) PROVE RestTypes'
  <2>1. spent' \in Spent
    BY <1>0, <1>2, SpendTypes DEF ManualRun, CanSpend
  <2> QED BY <1>2, <2>1 DEF ManualRun, StartRun, caches, RestTypes, QueueTypes, EngineTypes, Known
<1>3. CASE TimerFires \/ IntervalTick
  BY <1>3, RequestTypes DEF TimerFires, IntervalTick, caches
<1> QED BY <1>1, <1>2, <1>3, RunTypes, SessionTypes, WindowTypes, OtherTypes DEF Next, Work, User

(* Every variable keeps its type, and every counter its bound.              *)
THEOREM TypesAreRight == Spec => []TypeOK
<1>1. Init => RestTypes
  <2>1. <<>> \in Seq(Waiter)
    OBVIOUS
  <2>2. /\ 0 \in 0..MaxReplans
        /\ [edits |-> 0, acts |-> 0, faults |-> 0] \in Spent
    BY ConstantsAssumption DEF Spent
  <2>3. Init => QueueTypes
    BY <2>1 DEF Init, QueueTypes, Known
  <2> QED BY <2>2, <2>3 DEF Init, RestTypes, EngineTypes
<1>2. IInv /\ RestTypes => TypeOK
  BY DEF IInv, ControlInv, FlagsInv, EditInv, EditTypes, RestTypes, QueueTypes, EngineTypes, Spent,
         Session, TypeOK
<1> QED BY <1>1, <1>2, StepTypes, Invariant, PTL DEF Spec
============================================================================
