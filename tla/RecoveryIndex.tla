---------------------------- MODULE RecoveryIndex ----------------------------
(***************************************************************************)
(* The cache of recovery lookups that all open histories of this window    *)
(* share (src/src/sync/recovery-index.ts).  A lookup scans the store, step *)
(* by step with the writes of this window and those of other windows,      *)
(* which nothing announces.                                                *)
(***************************************************************************)
EXTENDS Integers, FiniteSets

CONSTANTS Targets, Paths,  \* a key of the cache is a target and a path
          Readers,
          OwnWrites,       \* the recovery records this window adds
          ForeignWrites,   \* those other windows add
          Unread,          \* a scan that has not read the store yet
          MaxPaths,        \* keys the cache may hold
          Lifetime,        \* age at which a lookup is no longer used
          MaxClock         \* bound: the clock

ASSUME RecoveryAssumption ==
  /\ Lifetime \in Nat /\ MaxClock \in Nat /\ MaxPaths \in Nat
  /\ OwnWrites \intersect ForeignWrites = {} /\ IsFiniteSet(OwnWrites)

VARIABLES store,     \* the records committed for each key
          when,      \* history: when each record was committed
          lookups,   \* the keys the cache holds, with their records and date
          writing,   \* writes under way: target, path and how far they are
          revision,  \* counts invalidations
          readers,   \* lookups under way
          clock

recoveryVars == <<store, when, lookups, writing, revision, readers, clock>>

Records == OwnWrites \union ForeignWrites
Keys == Targets \X Paths

(* How far a write has come. *)
NotBegun == [step |-> "new"]
Ended == [step |-> "done"]
Under(step, key) == [step |-> step, key |-> key]

Resting == [step |-> "rest"]

RecoveryInit ==
  /\ store = [k \in Keys |-> {}] /\ when = [r \in Records |-> 0]
  /\ lookups = [k \in {} |-> 0]
  /\ writing = [r \in OwnWrites |-> NotBegun]
  /\ revision = 0 /\ readers = [x \in Readers |-> Resting] /\ clock = 0

Pass == clock < MaxClock /\ clock' = clock + 1
        /\ UNCHANGED <<store, when, lookups, writing, revision, readers>>

IsRecent(at) == clock - at < Lifetime

Committed == UNION {store[k] : k \in Keys}

-----------------------------------------------------------------------------
(* Writes of this window: the target's lookups are dropped before and after *)
(* the record is stored, also when the write commits and then fails.        *)

Writers(target) ==
  {r \in OwnWrites : writing[r].step \in {"begun", "stored"} /\ writing[r].key[1] = target}

Holding(keys) == [k \in keys |-> lookups[k]]

InvalidateTarget(target) ==
  /\ revision' = revision + 1
  /\ lookups' = Holding({k \in DOMAIN lookups : k[1] # target})

BeginWrite(r, k) ==
  /\ writing[r] = NotBegun
  /\ InvalidateTarget(k[1])
  /\ writing' = [writing EXCEPT ![r] = Under("begun", k)]
  /\ UNCHANGED <<store, when, readers, clock>>

CommitWrite(r) ==
  /\ writing[r].step = "begun"
  /\ store' = [store EXCEPT ![writing[r].key] = @ \union {r}]
  /\ when' = [when EXCEPT ![r] = clock]
  /\ writing' = [writing EXCEPT ![r] = Under("stored", writing[r].key)]
  /\ UNCHANGED <<lookups, revision, readers, clock>>

(* The write returns, or fails before it stored anything.                   *)
EndWrite(r) ==
  /\ writing[r].step \in {"begun", "stored"}
  /\ InvalidateTarget(writing[r].key[1])
  /\ writing' = [writing EXCEPT ![r] = Ended]
  /\ UNCHANGED <<store, when, readers, clock>>

ForeignWrite(r, k) ==
  /\ r \notin Committed
  /\ store' = [store EXCEPT ![k] = @ \union {r}]
  /\ when' = [when EXCEPT ![r] = clock]
  /\ UNCHANGED <<lookups, writing, revision, readers, clock>>

-----------------------------------------------------------------------------
(* Lookups. *)

IsHit(k) == k \in DOMAIN lookups /\ IsRecent(lookups[k].at)

(* A lookup that is not served from the cache starts a scan.                *)
StartScan(x, k) ==
  /\ readers[x] = Resting /\ ~IsHit(k)
  /\ lookups' = Holding(DOMAIN lookups \ {k})
  /\ readers' = [readers EXCEPT ![x] =
       [step |-> "scan", key |-> k, revision |-> revision, at |-> clock, records |-> Unread]]
  /\ UNCHANGED <<store, when, writing, revision, clock>>

ReadStore(x) ==
  /\ readers[x].step = "scan" /\ readers[x].records = Unread
  /\ readers' = [readers EXCEPT ![x].records = store[readers[x].key]]
  /\ UNCHANGED <<store, when, lookups, writing, revision, clock>>

MutMayKeep(x) ==
  readers[x].revision = revision /\ IsRecent(readers[x].at)

(* What was scanned is kept unless a write came between or is under way.    *)
MayKeep(x) ==
  /\ readers[x].revision = revision
  /\ Writers(readers[x].key[1]) = {}
  /\ IsRecent(readers[x].at)

MutDated(x) == clock

(* A kept lookup ages from the start of its scan. *)
Dated(x) == readers[x].at

(* The oldest key makes room; which one that is does not matter here.       *)
Keep(x) ==
  LET k == readers[x].key IN
  \E evicted \in SUBSET (DOMAIN lookups \ {k}) :
    LET keys == (DOMAIN lookups \ evicted) \union {k} IN
    /\ Cardinality(keys) <= MaxPaths
    /\ evicted = {} \/ Cardinality(DOMAIN lookups \union {k}) > MaxPaths
    /\ lookups' = [q \in keys |-> IF q = k THEN [records |-> readers[x].records, at |-> Dated(x)]
                                  ELSE lookups[q]]

(* A history too long to keep is handed out all the same.                   *)
EndScan(x) ==
  /\ readers[x].step = "scan" /\ readers[x].records # Unread
  /\ (MayKeep(x) /\ Keep(x)) \/ UNCHANGED lookups
  /\ readers' = [readers EXCEPT ![x] = Resting]
  /\ UNCHANGED <<store, when, writing, revision, clock>>

RecoveryNext ==
  \/ Pass
  \/ \E k \in Keys : \/ \E r \in OwnWrites : BeginWrite(r, k)
                     \/ \E r \in ForeignWrites : ForeignWrite(r, k)
                     \/ \E x \in Readers : StartScan(x, k)
  \/ \E r \in OwnWrites : CommitWrite(r) \/ EndWrite(r)
  \/ \E x \in Readers : ReadStore(x) \/ EndScan(x)

RecoverySpec == RecoveryInit /\ [][RecoveryNext]_recoveryVars

-----------------------------------------------------------------------------
(* A kept lookup holds every record this window has stored for its key: no  *)
(* lookup of the recovery copies misses one made here, at whatever moment   *)
(* it falls between a write and a scan (recovery-index.ts:41, :70).         *)
LookupsKnowOwnWrites ==
  \A k \in DOMAIN lookups : store[k] \intersect OwnWrites \subseteq lookups[k].records

(* A lookup that may still be used misses of other windows only what they   *)
(* stored within its lifetime: a slow scan does not extend it               *)
(* (recovery-index.ts:5, :64).                                              *)
StalenessIsBounded ==
  \A k \in DOMAIN lookups :
    IsRecent(lookups[k].at) =>
      \A r \in store[k] : when[r] <= clock - Lifetime => r \in lookups[k].records
=============================================================================
