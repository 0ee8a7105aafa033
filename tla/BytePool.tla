------------------------------ MODULE BytePool ------------------------------
(***************************************************************************)
(* The pool that hashes files with a bound on workers and on bytes in      *)
(* flight (src/src/sync/byte-bounded-pool.ts).  Large jobs go first and    *)
(* one by one; the others start in order whenever there is room, and a job *)
(* that alone exceeds the budget runs alone.  The first failure stops      *)
(* scheduling, and the run is rejected once what is under way has ended.   *)
(***************************************************************************)
EXTENDS Integers, FiniteSets, FiniteSetsExt

CONSTANTS Jobs,        \* the jobs are 1 .. Jobs, in their order
          JobSizes,
          MaxWorkers,
          MaxBytes,    \* the budget of bytes in flight
          LargeAt,     \* size from which a job is large
          Factor       \* bytes accounted per byte read

ASSUME PoolAssumption ==
  /\ Jobs \in Nat /\ JobSizes \subseteq Nat /\ MaxWorkers \in Nat \ {0}
  /\ MaxBytes \in Nat /\ LargeAt \in Nat /\ Factor \in Nat \ {0}

VARIABLES size,      \* the size of each job
          next,      \* the jobs before it have been started, of the kind now run
          running,   \* jobs under way
          inFlight,  \* bytes accounted for them
          ended,     \* jobs that ended well
          failed,    \* some job failed
          outcome    \* of the run

poolVars == <<size, next, running, inFlight, ended, failed, outcome>>

Large == {i \in 1 .. Jobs : size[i] >= LargeAt}
Small == (1 .. Jobs) \ Large

Accounted(i) == IF size[i] * Factor = 0 THEN 1 ELSE size[i] * Factor

PoolInit ==
  /\ size \in [1 .. Jobs -> JobSizes]
  /\ next = 1 /\ running = {} /\ inFlight = 0 /\ ended = {} /\ failed = FALSE
  /\ outcome = "running"

(* Large jobs, one after the other; a failure ends the run at once.         *)
LargeLeft == Large \ (ended \union running)

StartLarge ==
  /\ outcome = "running" /\ ~failed /\ running = {} /\ LargeLeft # {}
  /\ running' = {Min(LargeLeft)} /\ inFlight' = Accounted(Min(LargeLeft))
  /\ UNCHANGED <<size, next, ended, failed, outcome>>

(* The next of the small jobs, in their order. *)
SmallLeft == {i \in Small : i >= next}

MutHasRoom(i) == inFlight <= MaxBytes

HasRoom(i) == inFlight + Accounted(i) <= MaxBytes

MutOversizedAlone(i) == FALSE

OversizedAlone(i) == Accounted(i) > MaxBytes /\ inFlight = 0

CanSchedule ==
  /\ outcome = "running" /\ ~failed /\ Large \subseteq ended /\ SmallLeft # {}
  /\ Cardinality(running) < MaxWorkers
  /\ HasRoom(Min(SmallLeft)) \/ OversizedAlone(Min(SmallLeft))

Schedule ==
  /\ CanSchedule
  /\ LET i == Min(SmallLeft) IN
     /\ next' = i + 1
     /\ running' = running \union {i} /\ inFlight' = inFlight + Accounted(i)
  /\ UNCHANGED <<size, ended, failed, outcome>>

(* A job ends only when the pool has started all it could: starting them is *)
(* one uninterrupted piece of the program.                                  *)
EndJob(i, fails) ==
  /\ i \in running /\ ~CanSchedule
  /\ running' = running \ {i}
  /\ inFlight' = IF inFlight >= Accounted(i) THEN inFlight - Accounted(i) ELSE 0
  /\ ended' = IF fails THEN ended ELSE ended \union {i}
  /\ failed' = (failed \/ fails)
  /\ UNCHANGED <<size, next, outcome>>

(* The run ends when nothing is under way and nothing is left to start.     *)
MayFinish == running = {} /\ (failed \/ (Large \subseteq ended /\ SmallLeft = {}))

FinishRun ==
  /\ outcome = "running" /\ MayFinish
  /\ outcome' = IF failed THEN "rejected" ELSE "resolved"
  /\ UNCHANGED <<size, next, running, inFlight, ended, failed>>

PoolNext == StartLarge \/ Schedule \/ FinishRun \/ \E i \in 1 .. Jobs, fails \in BOOLEAN : EndJob(i, fails)

(* Every job ends, well or not, and the pool goes on when it can.           *)
PoolFairness == WF_poolVars(PoolNext)

PoolSpec == PoolInit /\ [][PoolNext]_poolVars /\ PoolFairness

-----------------------------------------------------------------------------
(* The bytes in flight are those of the jobs under way; they stay within    *)
(* the budget, and the workers within their number, unless one job alone    *)
(* exceeds it (byte-bounded-pool.ts:105).                                   *)
BudgetIsKept ==
  /\ inFlight = MapThenSumSet(Accounted, running)
  /\ Cardinality(running) <= MaxWorkers
  /\ inFlight <= MaxBytes \/ Cardinality(running) = 1

(* A run that resolves has ended every job well, and a run is over only     *)
(* when nothing is under way: no incomplete result is taken as evidence     *)
(* (byte-bounded-pool.ts:92).                                               *)
OutcomeIsFinal ==
  /\ outcome # "running" => running = {}
  /\ outcome = "resolved" => ended = 1 .. Jobs

(* Every run ends: no job waits for room that never comes.                  *)
PoolEnds == <>(outcome # "running")
=============================================================================
