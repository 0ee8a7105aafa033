-------------------------- MODULE ComponentsProofs --------------------------
(***************************************************************************)
(* Proofs about the components of MCComponents, for any values of their    *)
(* constants: the lookups of recovery copies, the planner on every case,   *)
(* the pools of hashing jobs and of chunks, and the folders.               *)
(***************************************************************************)
EXTENDS MCComponents, FiniteSetTheorems, NaturalsInduction, WellFoundedInduction, TLAPS

(* The cache of recovery lookups: no kept lookup misses a record of this    *)
(* window, and what it misses of others is younger than its lifetime.       *)

WriteStates == {NotBegun, Ended} \union [step : {"begun", "stored"}, key : Keys]

Scans == [step : {"scan"}, key : Keys, revision : Nat, at : Nat,
          records : {Unread} \union SUBSET Records]

RecoveryTypeOK ==
  /\ store \in [Keys -> SUBSET Records]
  /\ when \in [Records -> Nat]
  /\ writing \in [OwnWrites -> WriteStates]
  /\ readers \in [Readers -> {Resting} \union Scans]
  /\ revision \in Nat /\ clock \in Nat
  /\ DOMAIN lookups \subseteq Keys
  /\ \A k \in DOMAIN lookups : lookups[k].at \in Nat

(* While a write is under way its target has no lookups. *)
NoneDuringWrites == \A k \in DOMAIN lookups : Writers(k[1]) = {}

(* What a scan has read holds all that this window has stored, unless a     *)
(* write began or ended since: then it is not kept.                         *)
HasRead(x) == readers[x].step = "scan" /\ readers[x].records # Unread

ScansKnowOwnWrites ==
  \A x \in Readers :
    /\ readers[x].step = "scan" => readers[x].revision <= revision
    /\ HasRead(x) /\ readers[x].revision = revision /\ Writers(readers[x].key[1]) = {} =>
         store[readers[x].key] \intersect OwnWrites \subseteq readers[x].records

OwnInv == RecoveryTypeOK /\ LookupsKnowOwnWrites /\ NoneDuringWrites /\ ScansKnowOwnWrites

(* Whatever a lookup or a scan misses was stored since its date. *)
MissesSince(k, records, at) ==
  at <= clock /\ \A r \in store[k] : r \in records \/ at <= when[r]

LookupsAreDated ==
  \A k \in DOMAIN lookups : MissesSince(k, lookups[k].records, lookups[k].at)

ScansAreDated ==
  \A x \in Readers :
    readers[x].step = "scan" =>
      /\ readers[x].at <= clock
      /\ HasRead(x) => MissesSince(readers[x].key, readers[x].records, readers[x].at)

DatedInv == RecoveryTypeOK /\ LookupsAreDated /\ ScansAreDated

-----------------------------------------------------------------------------
(* The type invariant *)

(* A scan is distinguished by its step. *)
LEMMA ScanHasType ==
  ASSUME RecoveryTypeOK, NEW x \in Readers, readers[x].step = "scan"
  PROVE  readers[x] \in Scans
BY DEF RecoveryTypeOK, Resting, Scans

LEMMA WriterHasKey ==
  ASSUME RecoveryTypeOK, NEW r \in OwnWrites, writing[r].step \in {"begun", "stored"}
  PROVE  writing[r].key \in Keys
BY DEF RecoveryTypeOK, WriteStates, NotBegun, Ended

(* Dropping a target's lookups leaves the others as they are. *)
LEMMA InvalidateLeaves ==
  ASSUME NEW target, InvalidateTarget(target)
  PROVE  /\ revision' = revision + 1
         /\ DOMAIN lookups' = {k \in DOMAIN lookups : k[1] # target}
         /\ \A k \in DOMAIN lookups' : lookups'[k] = lookups[k]
BY DEF InvalidateTarget, Holding

(* What a scan may leave in the cache. *)
LEMMA EndScanLeaves ==
  ASSUME NEW x \in Readers, EndScan(x)
  PROVE  \A k \in DOMAIN lookups' :
           \/ k \in DOMAIN lookups /\ lookups'[k] = lookups[k]
           \/ /\ MayKeep(x) /\ k = readers[x].key
              /\ lookups'[k].records = readers[x].records /\ lookups'[k].at = readers[x].at
<1>1. CASE UNCHANGED lookups
  BY <1>1
<1>2. CASE MayKeep(x) /\ Keep(x)
  <2> DEFINE q == readers[x].key
             keys(evicted) == (DOMAIN lookups \ evicted) \union {q}
             kept(evicted) == [k \in keys(evicted) |->
               IF k = q THEN [records |-> readers[x].records, at |-> readers[x].at] ELSE lookups[k]]
  <2>1. PICK evicted \in SUBSET (DOMAIN lookups \ {q}) : lookups' = kept(evicted)
    BY <1>2 DEF Keep, Dated
  <2>2. DOMAIN lookups' = keys(evicted)
    BY <2>1
  <2>3. ASSUME NEW k \in DOMAIN lookups', k # q
        PROVE k \in DOMAIN lookups /\ lookups'[k] = lookups[k]
    BY <2>1, <2>2, <2>3
  <2>4. q \in DOMAIN lookups' => lookups'[q] = [records |-> readers[x].records, at |-> readers[x].at]
    BY <2>1, <2>2
  <2> QED BY <1>2, <2>3, <2>4
<1> QED BY <1>1, <1>2 DEF EndScan

LEMMA RecoveryTyped == RecoverySpec => []RecoveryTypeOK
<1> USE DEF RecoveryTypeOK
<1>1. RecoveryInit => RecoveryTypeOK
  BY DEF RecoveryInit, WriteStates
<1>2. ASSUME RecoveryTypeOK, [RecoveryNext]_recoveryVars PROVE RecoveryTypeOK'
  <2>1. CASE Pass
    BY <1>2, <2>1 DEF Pass, RecoveryAssumption
  <2>2. ASSUME NEW k \in Keys, NEW r \in OwnWrites, BeginWrite(r, k) PROVE RecoveryTypeOK'
    <3>1. writing' \in [OwnWrites -> WriteStates]
      BY <1>2, <2>2 DEF BeginWrite, WriteStates, Under
    <3>2. /\ revision' = revision + 1
          /\ DOMAIN lookups' = {q \in DOMAIN lookups : q[1] # k[1]}
          /\ \A q \in DOMAIN lookups' : lookups'[q] = lookups[q]
      BY <2>2, InvalidateLeaves DEF BeginWrite
    <3>3. revision' \in Nat /\ DOMAIN lookups' \subseteq Keys
          /\ \A q \in DOMAIN lookups' : lookups'[q].at \in Nat
      BY <1>2, <3>2
    <3> QED BY <1>2, <2>2, <3>1, <3>3 DEF BeginWrite
  <2>3. ASSUME NEW k \in Keys, NEW r \in ForeignWrites, ForeignWrite(r, k) PROVE RecoveryTypeOK'
    <3>1. store' \in [Keys -> SUBSET Records]
      BY <1>2, <2>3 DEF ForeignWrite, Records
    <3> QED BY <1>2, <2>3, <3>1 DEF ForeignWrite
  <2>4. ASSUME NEW k \in Keys, NEW x \in Readers, StartScan(x, k) PROVE RecoveryTypeOK'
    <3>1. readers' \in [Readers -> {Resting} \union Scans]
      BY <1>2, <2>4 DEF StartScan, Scans
    <3> QED BY <1>2, <2>4, <3>1 DEF StartScan, Holding
  <2>5. ASSUME NEW r \in OwnWrites, CommitWrite(r) PROVE RecoveryTypeOK'
    <3>1. writing[r].key \in Keys
      BY <1>2, <2>5, WriterHasKey DEF CommitWrite
    <3>2. store' \in [Keys -> SUBSET Records]
      BY <1>2, <2>5, <3>1 DEF CommitWrite, Records
    <3>3. writing' \in [OwnWrites -> WriteStates]
      BY <1>2, <2>5, <3>1 DEF CommitWrite, WriteStates, Under
    <3> QED BY <1>2, <2>5, <3>2, <3>3 DEF CommitWrite
  <2>6. ASSUME NEW r \in OwnWrites, EndWrite(r) PROVE RecoveryTypeOK'
    <3>1. writing' \in [OwnWrites -> WriteStates]
      BY <1>2, <2>6 DEF EndWrite, WriteStates
    <3>2. /\ revision' = revision + 1
          /\ DOMAIN lookups' = {q \in DOMAIN lookups : q[1] # writing[r].key[1]}
          /\ \A q \in DOMAIN lookups' : lookups'[q] = lookups[q]
      BY <2>6, InvalidateLeaves DEF EndWrite
    <3>3. revision' \in Nat /\ DOMAIN lookups' \subseteq Keys
          /\ \A q \in DOMAIN lookups' : lookups'[q].at \in Nat
      BY <1>2, <3>2
    <3> QED BY <1>2, <2>6, <3>1, <3>3 DEF EndWrite
  <2>7. ASSUME NEW x \in Readers, ReadStore(x) PROVE RecoveryTypeOK'
    <3>1. readers[x] \in Scans /\ store[readers[x].key] \in SUBSET Records
      BY <1>2, <2>7, ScanHasType DEF ReadStore, Scans
    <3>2. [readers[x] EXCEPT !.records = store[readers[x].key]] \in Scans
      BY <3>1 DEF Scans
    <3>3. readers' \in [Readers -> {Resting} \union Scans]
      BY <1>2, <2>7, <3>2 DEF ReadStore
    <3> QED BY <1>2, <2>7, <3>3 DEF ReadStore
  <2>8. ASSUME NEW x \in Readers, EndScan(x) PROVE RecoveryTypeOK'
    <3>1. readers[x] \in Scans
      BY <1>2, <2>8, ScanHasType DEF EndScan
    <3>2. DOMAIN lookups' \subseteq Keys /\ \A k \in DOMAIN lookups' : lookups'[k].at \in Nat
      BY <1>2, <2>8, <3>1, EndScanLeaves DEF Scans
    <3> QED BY <1>2, <2>8, <3>2 DEF EndScan
  <2>9. CASE UNCHANGED recoveryVars
    BY <1>2, <2>9 DEF recoveryVars
  <2> QED BY <1>2, <2>1, <2>2, <2>3, <2>4, <2>5, <2>6, <2>7, <2>8, <2>9 DEF RecoveryNext
<1> QED BY <1>1, <1>2, PTL DEF RecoverySpec
-----------------------------------------------------------------------------
(* No record of this window is missed *)

LEMMA OwnInvHolds == RecoverySpec => []OwnInv
<1> USE DEF OwnInv
<1>1. RecoveryInit /\ RecoveryTypeOK => OwnInv
  BY DEF RecoveryInit, LookupsKnowOwnWrites, NoneDuringWrites, ScansKnowOwnWrites, HasRead, Resting
<1>2. ASSUME OwnInv, RecoveryTypeOK', [RecoveryNext]_recoveryVars PROVE OwnInv'
  <2>1. CASE Pass \/ UNCHANGED recoveryVars
    BY <1>2, <2>1 DEF Pass, recoveryVars, LookupsKnowOwnWrites, NoneDuringWrites, Writers,
       ScansKnowOwnWrites, HasRead
  <2>2. ASSUME NEW k \in Keys, NEW r \in OwnWrites, BeginWrite(r, k) PROVE OwnInv'
    <3>1. /\ revision' = revision + 1 /\ store' = store /\ readers' = readers
          /\ DOMAIN lookups' = {q \in DOMAIN lookups : q[1] # k[1]}
          /\ \A q \in DOMAIN lookups' : lookups'[q] = lookups[q]
      BY <2>2, InvalidateLeaves DEF BeginWrite
    <3>2. \A target : target # k[1] => Writers(target)' = Writers(target)
      BY <1>2, <2>2 DEF BeginWrite, Writers, RecoveryTypeOK, Under, NotBegun
    <3>3. LookupsKnowOwnWrites'
      BY <1>2, <3>1 DEF LookupsKnowOwnWrites
    <3>4. NoneDuringWrites'
      BY <1>2, <3>1, <3>2 DEF NoneDuringWrites
    <3>5. ScansKnowOwnWrites'
      <4>1. ASSUME NEW x \in Readers, readers[x].step = "scan"
            PROVE readers[x].revision < revision'
        BY <1>2, <3>1, <4>1, ScanHasType DEF ScansKnowOwnWrites, RecoveryTypeOK, Scans
      <4> QED BY <1>2, <3>1, <4>1, ScanHasType DEF ScansKnowOwnWrites, RecoveryTypeOK, HasRead, Scans
    <3> QED BY <1>2, <3>3, <3>4, <3>5
  <2>3. ASSUME NEW k \in Keys, NEW r \in ForeignWrites, ForeignWrite(r, k) PROVE OwnInv'
    <3>1. \A q \in Keys : store'[q] \intersect OwnWrites = store[q] \intersect OwnWrites
      BY <1>2, <2>3, RecoveryAssumption DEF ForeignWrite, RecoveryTypeOK
    <3>2. LookupsKnowOwnWrites' /\ NoneDuringWrites'
      BY <1>2, <2>3, <3>1 DEF ForeignWrite, LookupsKnowOwnWrites, NoneDuringWrites, Writers,
         RecoveryTypeOK
    <3>3. ScansKnowOwnWrites'
      BY <1>2, <2>3, <3>1, ScanHasType DEF ForeignWrite, ScansKnowOwnWrites, HasRead, Writers, Scans
    <3> QED BY <1>2, <3>2, <3>3
  <2>4. ASSUME NEW k \in Keys, NEW x \in Readers, StartScan(x, k) PROVE OwnInv'
    <3>1. LookupsKnowOwnWrites' /\ NoneDuringWrites'
      BY <1>2, <2>4 DEF StartScan, LookupsKnowOwnWrites, NoneDuringWrites, Writers, Holding
    <3>2. ASSUME NEW y \in Readers
          PROVE readers'[y] = readers[y] \/ (readers'[y].revision = revision /\ ~HasRead(y)')
      <4>1. CASE y = x
        <5>1. readers'[x] = [step |-> "scan", key |-> k, revision |-> revision, at |-> clock,
                             records |-> Unread]
          <6>1. x \in DOMAIN readers
            BY <1>2 DEF RecoveryTypeOK
          <6> QED BY <2>4, <6>1 DEF StartScan
        <5> QED BY <4>1, <5>1 DEF HasRead
      <4>2. CASE y # x
        BY <1>2, <2>4, <4>2 DEF StartScan, RecoveryTypeOK
      <4> QED BY <4>1, <4>2
    <3>3. ScansKnowOwnWrites'
      BY <1>2, <2>4, <3>2 DEF StartScan, ScansKnowOwnWrites, HasRead, Writers, RecoveryTypeOK
    <3> QED BY <1>2, <3>1, <3>3
  <2>5. ASSUME NEW r \in OwnWrites, CommitWrite(r) PROVE OwnInv'
    <3> DEFINE q == writing[r].key
    <3>1. r \in Writers(q[1]) /\ q \in Keys
      BY <1>2, <2>5, WriterHasKey DEF CommitWrite, Writers
    <3>2. \A target : Writers(target)' = Writers(target)
      BY <1>2, <2>5 DEF CommitWrite, Writers, RecoveryTypeOK, Under
    <3>3. \A k \in Keys : k[1] # q[1] => store'[k] = store[k]
      BY <1>2, <2>5 DEF CommitWrite, RecoveryTypeOK
    <3>4. lookups' = lookups /\ readers' = readers /\ revision' = revision
      BY <2>5 DEF CommitWrite
    <3> HIDE DEF q
    <3>5. LookupsKnowOwnWrites' /\ NoneDuringWrites'
      BY <1>2, <3>1, <3>2, <3>3, <3>4 DEF LookupsKnowOwnWrites, NoneDuringWrites, RecoveryTypeOK
    <3>6. ScansKnowOwnWrites'
      BY <1>2, <3>1, <3>2, <3>3, <3>4, ScanHasType DEF ScansKnowOwnWrites, HasRead, Scans
    <3> QED BY <1>2, <3>5, <3>6
  <2>6. ASSUME NEW r \in OwnWrites, EndWrite(r) PROVE OwnInv'
    <3> DEFINE q == writing[r].key
    <3>1. /\ revision' = revision + 1 /\ store' = store /\ readers' = readers
          /\ DOMAIN lookups' = {k \in DOMAIN lookups : k[1] # q[1]}
          /\ \A k \in DOMAIN lookups' : lookups'[k] = lookups[k]
      BY <2>6, InvalidateLeaves DEF EndWrite
    <3>2. \A target : Writers(target)' \subseteq Writers(target)
      BY <1>2, <2>6 DEF EndWrite, Writers, RecoveryTypeOK, Ended
    <3> HIDE DEF q
    <3>3. LookupsKnowOwnWrites'
      BY <1>2, <3>1 DEF LookupsKnowOwnWrites
    <3>4. NoneDuringWrites'
      <4>1. \A k \in DOMAIN lookups' : Writers(k[1]) = {}
        BY <1>2, <3>1 DEF NoneDuringWrites
      <4> QED BY <4>1, <3>2 DEF NoneDuringWrites
    <3>5. ScansKnowOwnWrites'
      <4>1. ASSUME NEW x \in Readers, readers[x].step = "scan"
            PROVE readers[x].revision < revision'
        BY <1>2, <3>1, <4>1, ScanHasType DEF ScansKnowOwnWrites, RecoveryTypeOK, Scans
      <4> QED BY <1>2, <3>1, <4>1, ScanHasType DEF ScansKnowOwnWrites, RecoveryTypeOK, HasRead, Scans
    <3> QED BY <1>2, <3>3, <3>4, <3>5
  <2>7. ASSUME NEW x \in Readers, ReadStore(x) PROVE OwnInv'
    <3>1. LookupsKnowOwnWrites' /\ NoneDuringWrites'
      BY <1>2, <2>7 DEF ReadStore, LookupsKnowOwnWrites, NoneDuringWrites, Writers
    <3>2. ASSUME NEW y \in Readers
          PROVE \/ readers'[y] = readers[y]
                \/ /\ readers'[y].step = readers[y].step /\ readers'[y].key = readers[y].key
                   /\ readers'[y].revision = readers[y].revision
                   /\ readers'[y].records = store[readers[y].key]
      <4>1. CASE y = x
        <5>1. readers[x] \in Scans
          BY <1>2, <2>7, ScanHasType DEF ReadStore
        <5>2. readers'[x] = [readers[x] EXCEPT !.records = store[readers[x].key]]
          BY <1>2, <2>7 DEF ReadStore, RecoveryTypeOK
        <5> QED BY <4>1, <5>1, <5>2 DEF Scans
      <4>2. CASE y # x
        BY <1>2, <2>7, <4>2 DEF ReadStore, RecoveryTypeOK
      <4> QED BY <4>1, <4>2
    <3>3. store' = store /\ revision' = revision /\ \A target : Writers(target)' = Writers(target)
      BY <2>7 DEF ReadStore, Writers
    <3>4. ScansKnowOwnWrites'
      BY <1>2, <3>2, <3>3 DEF ScansKnowOwnWrites, HasRead
    <3> QED BY <1>2, <3>1, <3>4
  <2>8. ASSUME NEW x \in Readers, EndScan(x) PROVE OwnInv'
    <3>1. store' = store /\ revision' = revision /\ HasRead(x)
          /\ \A target : Writers(target)' = Writers(target)
      BY <2>8 DEF EndScan, Writers, HasRead
    <3>2. \A k \in DOMAIN lookups' :
            \/ k \in DOMAIN lookups /\ lookups'[k] = lookups[k]
            \/ /\ MayKeep(x) /\ k = readers[x].key /\ lookups'[k].records = readers[x].records
      BY <2>8, EndScanLeaves
    <3>3. MayKeep(x) => /\ Writers(readers[x].key[1]) = {}
                        /\ store[readers[x].key] \intersect OwnWrites \subseteq readers[x].records
      BY <1>2, <3>1 DEF MayKeep, ScansKnowOwnWrites
    <3>4. LookupsKnowOwnWrites' /\ NoneDuringWrites'
      BY <1>2, <3>1, <3>2, <3>3 DEF LookupsKnowOwnWrites, NoneDuringWrites
    <3>5. \A y \in Readers : readers'[y] = readers[y] \/ readers'[y] = Resting
      BY <1>2, <2>8 DEF EndScan, RecoveryTypeOK
    <3>6. ScansKnowOwnWrites'
      BY <1>2, <3>1, <3>5 DEF ScansKnowOwnWrites, HasRead, Resting
    <3> QED BY <1>2, <3>4, <3>6
  <2> QED BY <1>2, <2>1, <2>2, <2>3, <2>4, <2>5, <2>6, <2>7, <2>8 DEF RecoveryNext
<1>3. RecoverySpec => []RecoveryTypeOK
  BY RecoveryTyped
<1> QED BY <1>1, <1>2, <1>3, PTL DEF RecoverySpec

(* A lookup kept in the cache holds every record of this window, however    *)
(* scans and writes interleave (recovery-index.ts:41, :70).                 *)
THEOREM OwnWritesAreFound == RecoverySpec => []LookupsKnowOwnWrites
<1>1. OwnInv => LookupsKnowOwnWrites
  BY DEF OwnInv
<1> QED BY <1>1, OwnInvHolds, PTL
-----------------------------------------------------------------------------
(* What is missed is young *)

LEMMA DatedInvHolds == RecoverySpec => []DatedInv
<1> USE DEF DatedInv
<1>1. RecoveryInit /\ RecoveryTypeOK => DatedInv
  BY DEF RecoveryInit, LookupsAreDated, ScansAreDated, Resting
<1>2. ASSUME DatedInv, RecoveryTypeOK', [RecoveryNext]_recoveryVars PROVE DatedInv'
  <2>1. CASE Pass \/ UNCHANGED recoveryVars
    <3>1. clock \in Nat /\ clock' \in Nat /\ clock <= clock'
      BY <1>2, <2>1 DEF Pass, recoveryVars, RecoveryTypeOK
    <3>2. store' = store /\ when' = when /\ lookups' = lookups /\ readers' = readers
      BY <2>1 DEF Pass, recoveryVars
    <3>3. LookupsAreDated'
      BY <1>2, <3>1, <3>2 DEF LookupsAreDated, MissesSince, RecoveryTypeOK
    <3>4. ScansAreDated'
      BY <1>2, <3>1, <3>2, ScanHasType DEF ScansAreDated, MissesSince, HasRead, RecoveryTypeOK, Scans
    <3> QED BY <1>2, <3>3, <3>4
  <2>2. ASSUME NEW k \in Keys, NEW r \in OwnWrites, BeginWrite(r, k) PROVE DatedInv'
    <3>1. /\ store' = store /\ when' = when /\ readers' = readers /\ clock' = clock
          /\ \A q \in DOMAIN lookups' : q \in DOMAIN lookups /\ lookups'[q] = lookups[q]
      BY <2>2, InvalidateLeaves DEF BeginWrite
    <3> QED BY <1>2, <3>1 DEF LookupsAreDated, ScansAreDated, MissesSince, HasRead
  <2>3. ASSUME NEW k \in Keys, NEW r \in Records, store' = [store EXCEPT ![k] = @ \union {r}],
               when' = [when EXCEPT ![r] = clock],
               lookups' = lookups, readers' = readers, clock' = clock
        PROVE DatedInv'
    <3>1. \A q \in Keys : store'[q] \subseteq store[q] \union {r}
      BY <1>2, <2>3 DEF RecoveryTypeOK
    <3>2. when'[r] = clock /\ \A s \in Records \ {r} : when'[s] = when[s]
      BY <1>2, <2>3 DEF RecoveryTypeOK
    <3>3. ASSUME NEW q \in Keys, NEW records, NEW at, MissesSince(q, records, at)
          PROVE MissesSince(q, records, at)'
      BY <1>2, <2>3, <3>1, <3>2, <3>3 DEF MissesSince, RecoveryTypeOK
    <3>4. LookupsAreDated'
      BY <1>2, <2>3, <3>3 DEF LookupsAreDated, RecoveryTypeOK
    <3>5. ScansAreDated'
      BY <1>2, <2>3, <3>3, ScanHasType DEF ScansAreDated, HasRead, Scans
    <3> QED BY <1>2, <3>4, <3>5
  <2>4. ASSUME NEW k \in Keys, NEW x \in Readers, StartScan(x, k) PROVE DatedInv'
    <3>1. /\ store' = store /\ when' = when /\ clock' = clock
          /\ \A q \in DOMAIN lookups' : q \in DOMAIN lookups /\ lookups'[q] = lookups[q]
      BY <2>4 DEF StartScan, Holding
    <3>2. ASSUME NEW y \in Readers
          PROVE readers'[y] = readers[y] \/ (readers'[y].at = clock /\ ~HasRead(y)')
      <4>1. CASE y = x
        <5>1. readers'[x] = [step |-> "scan", key |-> k, revision |-> revision, at |-> clock,
                             records |-> Unread]
          <6>1. x \in DOMAIN readers
            BY <1>2 DEF RecoveryTypeOK
          <6> QED BY <2>4, <6>1 DEF StartScan
        <5> QED BY <4>1, <5>1 DEF HasRead
      <4>2. CASE y # x
        BY <1>2, <2>4, <4>2 DEF StartScan, RecoveryTypeOK
      <4> QED BY <4>1, <4>2
    <3>3. LookupsAreDated'
      BY <1>2, <3>1 DEF LookupsAreDated, MissesSince
    <3>4. ScansAreDated'
      BY <1>2, <3>1, <3>2 DEF ScansAreDated, MissesSince, HasRead, RecoveryTypeOK
    <3> QED BY <1>2, <3>3, <3>4
  <2>5. ASSUME NEW r \in OwnWrites, CommitWrite(r) PROVE DatedInv'
    <3>1. writing[r].key \in Keys /\ r \in Records
      BY <1>2, <2>5, WriterHasKey DEF CommitWrite, Records
    <3> QED BY <2>3, <2>5, <3>1 DEF CommitWrite
  <2>6. ASSUME NEW k \in Keys, NEW r \in ForeignWrites, ForeignWrite(r, k) PROVE DatedInv'
    BY <2>3, <2>6 DEF ForeignWrite, Records
  <2>7. ASSUME NEW r \in OwnWrites, EndWrite(r) PROVE DatedInv'
    <3>1. /\ store' = store /\ when' = when /\ readers' = readers /\ clock' = clock
          /\ \A q \in DOMAIN lookups' : q \in DOMAIN lookups /\ lookups'[q] = lookups[q]
      BY <2>7, InvalidateLeaves DEF EndWrite
    <3> QED BY <1>2, <3>1 DEF LookupsAreDated, ScansAreDated, MissesSince, HasRead
  <2>8. ASSUME NEW x \in Readers, ReadStore(x) PROVE DatedInv'
    <3>1. store' = store /\ when' = when /\ lookups' = lookups /\ clock' = clock
      BY <2>8 DEF ReadStore
    <3>2. ASSUME NEW y \in Readers
          PROVE \/ readers'[y] = readers[y]
                \/ /\ readers'[y].step = readers[y].step /\ readers'[y].key = readers[y].key
                   /\ readers'[y].at = readers[y].at
                   /\ readers'[y].records = store[readers[y].key]
      <4>1. CASE y = x
        <5>1. readers[x] \in Scans
          BY <1>2, <2>8, ScanHasType DEF ReadStore
        <5>2. readers'[x] = [readers[x] EXCEPT !.records = store[readers[x].key]]
          BY <1>2, <2>8 DEF ReadStore, RecoveryTypeOK
        <5> QED BY <4>1, <5>1, <5>2 DEF Scans
      <4>2. CASE y # x
        BY <1>2, <2>8, <4>2 DEF ReadStore, RecoveryTypeOK
      <4> QED BY <4>1, <4>2
    <3>3. LookupsAreDated'
      BY <1>2, <3>1 DEF LookupsAreDated, MissesSince
    <3>4. ScansAreDated'
      BY <1>2, <3>1, <3>2 DEF ScansAreDated, MissesSince, HasRead
    <3> QED BY <1>2, <3>3, <3>4
  <2>9. ASSUME NEW x \in Readers, EndScan(x) PROVE DatedInv'
    <3>1. store' = store /\ when' = when /\ clock' = clock /\ HasRead(x)
      BY <2>9 DEF EndScan, HasRead
    <3>2. MissesSince(readers[x].key, readers[x].records, readers[x].at)
      BY <1>2, <3>1 DEF ScansAreDated, HasRead
    <3>3. \A k \in DOMAIN lookups' :
            \/ k \in DOMAIN lookups /\ lookups'[k] = lookups[k]
            \/ /\ k = readers[x].key
               /\ lookups'[k].records = readers[x].records /\ lookups'[k].at = readers[x].at
      BY <2>9, EndScanLeaves
    <3>4. LookupsAreDated'
      BY <1>2, <3>1, <3>2, <3>3 DEF LookupsAreDated, MissesSince
    <3>5. \A y \in Readers : readers'[y] = readers[y] \/ readers'[y] = Resting
      BY <1>2, <2>9 DEF EndScan, RecoveryTypeOK
    <3>6. ScansAreDated'
      BY <1>2, <3>1, <3>5 DEF ScansAreDated, MissesSince, HasRead, Resting
    <3> QED BY <1>2, <3>4, <3>6
  <2> QED BY <1>2, <2>1, <2>2, <2>4, <2>5, <2>6, <2>7, <2>8, <2>9 DEF RecoveryNext
<1>3. RecoverySpec => []RecoveryTypeOK
  BY RecoveryTyped
<1> QED BY <1>1, <1>2, <1>3, PTL DEF RecoverySpec

(* A lookup that may still be used misses only records that other windows   *)
(* stored within its lifetime (recovery-index.ts:5, :64).                   *)
THEOREM LookupsAreFresh == RecoverySpec => []StalenessIsBounded
<1>1. DatedInv => StalenessIsBounded
  <2> SUFFICES ASSUME DatedInv, NEW k \in DOMAIN lookups, IsRecent(lookups[k].at),
                      NEW r \in store[k], when[r] <= clock - Lifetime
               PROVE  r \in lookups[k].records
    BY DEF StalenessIsBounded
  <2>1. clock \in Nat /\ Lifetime \in Nat /\ lookups[k].at \in Nat /\ when[r] \in Nat
    BY RecoveryAssumption DEF DatedInv, RecoveryTypeOK
  <2>2. r \in lookups[k].records \/ lookups[k].at <= when[r]
    BY DEF DatedInv, LookupsAreDated, MissesSince
  <2> QED BY <2>1, <2>2 DEF IsRecent
<1> QED BY <1>1, DatedInvHolds, PTL

-----------------------------------------------------------------------------
(* The planner's decision on a case, from the evidence the scans give it.   *)

SeenLocal(k)  == LocalInfo(k.local, k.local.hashed \/ Compares(k))
SeenHash(k)   == IF Compares(k)
                 THEN EqualityHash(k.local.content, RemoteInfo(k.remote, None), k.remote.content)
                 ELSE None
SeenRemote(k) == RemoteInfo(k.remote, SeenHash(k))

(* None is no file, whatever the record of a file.                          *)
LEMMA CaseFacts ==
  ASSUME NEW k \in Cases
  PROVE  /\ k.local = None \/ k.local \in LocalCase
         /\ k.remote = None \/ k.remote \in RemoteCase
         /\ k.base = None \/ k.base \in BaseCase
         /\ k.direction \in SyncDirections
         /\ LocalCredible(k.local, k.base) /\ RemoteCredible(k.remote, k.base)
  BY DEF Cases

(* What the scan says of the local file.                                    *)
LEMMA LocalEvidence ==
  ASSUME NEW k \in Cases, Known(k.local), Known(k.base)
  PROVE  /\ ~IsLocalChanged(SeenLocal(k), BaseRecord(k.base)) => k.local.content = k.base.content
         /\ k.local.hashed \/ Compares(k) =>
              (IsLocalChanged(SeenLocal(k), BaseRecord(k.base)) <=> k.local.content # k.base.content)
<1> DEFINE l == k.local
           old == k.base
           h == l.hashed \/ Compares(k)
<1>1. l \in LocalCase /\ old \in BaseCase /\ LocalCredible(l, old)
  BY CaseFacts DEF Known
<1>2. BaseRecord(old) = [size |-> SizeOf[old.content], hash |-> old.content, mtime |-> old.mtime,
                       remoteUuid |-> "synced", remoteHash |-> Digest(old), remoteMtime |-> old.remoteMtime]
  BY DEF BaseRecord
<1>3. SeenLocal(k) = LocalInfo(l, h)
  BY DEF SeenLocal
<1>4. l.content \in Content /\ old.content \in Content /\ l.content # None /\ old.content # None
  BY <1>1, ContentAssumption DEF LocalCase, BaseCase
<1>5. ~h => ~l.hashed
  OBVIOUS
<1> HIDE DEF l, old, h
<1>6. IsLocalChanged(SeenLocal(k), BaseRecord(old)) <=>
        \/ SizeOf[l.content] # SizeOf[old.content]
        \/ h /\ l.content # old.content
        \/ ~(h /\ l.content = old.content) /\ l.mtime # old.mtime
  BY <1>2, <1>3, <1>4 DEF IsLocalChanged, LocalInfo, Differ, Same, Known
<1>7. ~h /\ l.content # old.content => l.mtime # old.mtime \/ SizeOf[l.content] # SizeOf[old.content]
  <2>1. l # None /\ old # None
    BY DEF Known, l, old
  <2> QED BY <1>1, <1>5, <2>1 DEF LocalCredible, Known
<1> QED BY <1>6, <1>7 DEF l, old, h

(* The remote hash, where there is one, is that of the remote bytes; with   *)
(* no history a remote file is compared whenever the sizes agree.           *)
LEMMA HashFacts ==
  ASSUME NEW k \in Cases, Known(k.remote)
  PROVE  /\ SeenHash(k) \in {None, k.remote.content}
         /\ SeenRemote(k) = [uuid |-> IF k.remote.same THEN "synced" ELSE "other",
                             size |-> SizeOf[k.remote.content], mtime |-> k.remote.mtime,
                             remoteHash |-> Digest(k.remote), hash |-> SeenHash(k)]
         /\ Digest(k.remote) \in {None, k.remote.content}
         /\ k.remote.content \in Content /\ k.remote.content # None
         /\ Compares(k) /\ (k.remote.digest => k.remote.content = k.local.content) =>
              SeenHash(k) = k.remote.content
<1>1. k.remote \in RemoteCase
  BY CaseFacts DEF Known
<1>2. k.remote.content \in Content /\ k.remote.content # None
  BY <1>1, ContentAssumption DEF RemoteCase
<1>3. RemoteInfo(k.remote, None).remoteHash = Digest(k.remote)
  BY DEF RemoteInfo
<1>4. Digest(k.remote) \in {None, k.remote.content} /\ (k.remote.digest <=> Digest(k.remote) # None)
  BY <1>2 DEF Digest
<1>5. SeenHash(k) \in {None, k.remote.content}
  BY <1>3, <1>4 DEF SeenHash, EqualityHash, Known
<1>6. Compares(k) /\ (k.remote.digest => k.remote.content = k.local.content) =>
              SeenHash(k) = k.remote.content
  BY <1>3, <1>4 DEF SeenHash, EqualityHash, Known
<1> QED BY <1>2, <1>4, <1>5, <1>6 DEF SeenRemote, RemoteInfo

(* What the scan says of the remote file.                                   *)
RemoteEvident(k) ==
  \/ k.remote.same
  \/ k.remote.digest /\ k.base.digest
  \/ Compares(k) /\ (k.remote.digest => k.remote.content = k.local.content)

LEMMA RemoteEvidence ==
  ASSUME NEW k \in Cases, Known(k.remote), Known(k.base)
  PROVE  /\ ~IsRemoteChanged(SeenRemote(k), BaseRecord(k.base)) => k.remote.content = k.base.content
         /\ RemoteEvident(k) =>
              (IsRemoteChanged(SeenRemote(k), BaseRecord(k.base)) <=> k.remote.content # k.base.content)
         /\ k.local # None /\ k.remote.content = k.local.content /\ k.remote.content # k.base.content
              /\ RemoteEvident(k) => Compares(k)
<1> DEFINE r == k.remote
           old == k.base
           h == SeenHash(k)
           info == SeenRemote(k)
           prev == BaseRecord(old)
<1>1. r \in RemoteCase /\ old \in BaseCase /\ RemoteCredible(r, old)
  BY CaseFacts DEF Known
<1>2. prev = [size |-> SizeOf[old.content], hash |-> old.content, mtime |-> old.mtime,
              remoteUuid |-> "synced", remoteHash |-> Digest(old), remoteMtime |-> old.remoteMtime]
  BY DEF BaseRecord
<1>3. /\ info = [uuid |-> IF r.same THEN "synced" ELSE "other", size |-> SizeOf[r.content],
                 mtime |-> r.mtime, remoteHash |-> Digest(r), hash |-> h]
      /\ h \in {None, r.content} /\ r.content # None
  BY HashFacts
<1>4. old.content # None /\ "synced" # None /\ "other" # None
  BY <1>1, ContentAssumption DEF BaseCase
<1>5. /\ Digest(r) = IF r.digest THEN r.content ELSE None
      /\ Digest(old) = IF old.digest THEN old.content ELSE None
  BY DEF Digest
<1>6. BaseRemoteMtime(prev) = BaseRemoteMtime(old)
  BY <1>2 DEF BaseRemoteMtime
<1>7. r.same => r.content = old.content /\ r.digest = old.digest /\ r.mtime = BaseRemoteMtime(old)
  BY <1>1 DEF RemoteCredible
<1>8. /\ Compares(k) <=> /\ Known(k.local) /\ SizeOf[k.local.content] = SizeOf[r.content]
                         /\ ~r.same \/ Digest(r) # Digest(old) \/ r.mtime # BaseRemoteMtime(old)
  <2>1. /\ RemoteInfo(r, None).uuid = (IF r.same THEN "synced" ELSE "other")
        /\ RemoteInfo(r, None).remoteHash = Digest(r)
        /\ RemoteInfo(r, None).mtime = r.mtime /\ RemoteInfo(r, None).size = SizeOf[r.content]
    BY DEF RemoteInfo
  <2>2. LocalInfo(k.local, k.local.hashed).size = SizeOf[k.local.content]
    BY DEF LocalInfo
  <2>3. Known(k.local) => Known(LocalInfo(k.local, k.local.hashed))
    <3>1. Known(k.local) => k.local \in LocalCase
      BY CaseFacts DEF Known
    <3> QED BY <3>1, EntryAssumption DEF LocalCase
  <2>4. Known(RemoteInfo(r, None)) /\ Known(prev)
    BY <1>1, EntryAssumption
  <2>5. Known(r)
    OBVIOUS
  <2> HIDE DEF r, old
  <2>6. Compares(k) <=> Known(k.local) /\ NeedsEquality(LocalInfo(k.local, k.local.hashed), RemoteInfo(r, None), prev)
    BY <2>5 DEF Compares, r, old
  <2> HIDE DEF prev
  <2> QED BY <1>2, <1>6, <2>1, <2>2, <2>3, <2>4, <2>6 DEF NeedsEquality
<1>9. RemoteEvident(k) <=> \/ r.same
                           \/ r.digest /\ old.digest
                           \/ Compares(k) /\ (r.digest => r.content = k.local.content)
  BY DEF RemoteEvident
<1>10. Compares(k) /\ (r.digest => r.content = k.local.content) => h = r.content
  BY HashFacts
<1>11. Compares(k) \/ h = None
  BY DEF SeenHash
<1> HIDE DEF r, old, h, info, prev
<1>12. IsRemoteChanged(info, prev) <=>
         IF h # None THEN h # old.content
         ELSE /\ ~(SizeOf[r.content] = SizeOf[old.content] /\ Digest(r) # None /\ Digest(r) = Digest(old))
              /\ \/ ~r.same
                 \/ Digest(r) # None /\ Digest(old) # None /\ Digest(r) # Digest(old)
                 \/ SizeOf[r.content] # SizeOf[old.content]
                 \/ r.mtime # BaseRemoteMtime(old)
  BY <1>2, <1>3, <1>4, <1>6 DEF IsRemoteChanged, Same, Differ, Known
<1>13. ~IsRemoteChanged(info, prev) => r.content = old.content
  BY <1>3, <1>4, <1>5, <1>7, <1>12
<1>14. RemoteEvident(k) => (IsRemoteChanged(info, prev) <=> r.content # old.content)
  BY <1>3, <1>4, <1>5, <1>7, <1>9, <1>10, <1>11, <1>12
<1>15. k.local # None /\ r.content = k.local.content /\ r.content # old.content /\ RemoteEvident(k) => Compares(k)
  BY <1>7, <1>8, <1>9 DEF Known
<1> QED BY <1>13, <1>14, <1>15 DEF r, old, info, prev

(* What the scan says of two files that are both there.                     *)
LEMMA PairEvidence ==
  ASSUME NEW k \in Cases, Known(k.local), Known(k.remote)
  PROVE  /\ VerifiedIdentical(SeenLocal(k), SeenRemote(k)) => k.local.content = k.remote.content
         /\ Compares(k) /\ k.local.content = k.remote.content =>
              VerifiedIdentical(SeenLocal(k), SeenRemote(k))
         /\ UnchangedByHash(SeenLocal(k), SeenRemote(k), BaseRecord(k.base)) =>
              /\ Known(k.base)
              /\ k.local.content = k.base.content /\ k.remote.content = k.base.content
         /\ ~Known(k.base) /\ k.local.content = k.remote.content => Compares(k)
<1> DEFINE l == k.local
           r == k.remote
           old == k.base
           h == SeenHash(k)
           hashed == l.hashed \/ Compares(k)
           seen == SeenLocal(k)
           info == SeenRemote(k)
           prev == BaseRecord(old)
<1>1. /\ l \in LocalCase /\ r \in RemoteCase /\ RemoteCredible(r, old) /\ l.content # None
      /\ (Known(old) => old \in BaseCase /\ old.content # None)
  BY CaseFacts, ContentAssumption DEF Known, LocalCase, BaseCase
<1>2. /\ info = [uuid |-> IF r.same THEN "synced" ELSE "other", size |-> SizeOf[r.content],
                 mtime |-> r.mtime, remoteHash |-> Digest(r), hash |-> h]
      /\ h \in {None, r.content} /\ r.content # None
      /\ Compares(k) /\ (r.digest => r.content = l.content) => h = r.content
  BY HashFacts
<1>3. seen = [size |-> SizeOf[l.content], mtime |-> l.mtime, hash |-> IF hashed THEN l.content ELSE None]
  BY DEF SeenLocal, LocalInfo
<1>4. Compares(k) => hashed
  OBVIOUS
<1>5. Known(seen) /\ Known(info)
  <2>1. hashed \in BOOLEAN
    BY <1>1 DEF LocalCase
  <2>2. Known(LocalInfo(l, hashed))
    BY <1>1, <2>1, EntryAssumption
  <2>3. h \in Content \cup {None}
    BY HashFacts
  <2>4. Known(RemoteInfo(r, h))
    BY <1>1, <2>3, EntryAssumption
  <2> QED BY <2>2, <2>4 DEF SeenLocal, SeenRemote
<1>6. ~Known(old) /\ l.content = r.content => Compares(k)
  <2>1. LocalInfo(l, l.hashed).size = SizeOf[l.content] /\ RemoteInfo(r, None).size = SizeOf[r.content]
    BY DEF LocalInfo, RemoteInfo
  <2>2. Known(LocalInfo(l, l.hashed)) /\ Known(RemoteInfo(r, None))
    BY <1>1, EntryAssumption DEF LocalCase
  <2>3. ~Known(old) => ~Known(prev)
    BY DEF BaseRecord, Known
  <2> QED BY <2>1, <2>2, <2>3 DEF Compares, NeedsEquality
<1>7. Known(old) => /\ prev.size = SizeOf[old.content] /\ prev.hash = old.content /\ prev.remoteUuid = "synced"
  BY DEF BaseRecord
<1>8. ~Known(old) => ~Known(prev)
  BY DEF BaseRecord, Known
<1>9. r.same => r.content = old.content
  BY <1>1 DEF RemoteCredible, Known
<1>10. "synced" # None /\ "other" # None
  BY ContentAssumption
<1> HIDE DEF l, r, old, h, hashed, seen, info, prev
<1>11. VerifiedIdentical(seen, info) => l.content = r.content
  BY <1>1, <1>2, <1>3 DEF VerifiedIdentical, Same, Known
<1>12. Compares(k) /\ l.content = r.content => VerifiedIdentical(seen, info)
  BY <1>1, <1>2, <1>3, <1>4, <1>5 DEF VerifiedIdentical, Same, Known
<1>13. UnchangedByHash(seen, info, prev) => Known(old) /\ l.content = old.content /\ r.content = old.content
  <2> SUFFICES ASSUME UnchangedByHash(seen, info, prev)
               PROVE Known(old) /\ l.content = old.content /\ r.content = old.content
    OBVIOUS
  <2>1. Known(old)
    BY <1>8 DEF UnchangedByHash
  <2>2. l.content = old.content
    BY <1>3, <1>7, <2>1 DEF UnchangedByHash, Same, Known
  <2>3. r.same
    BY <1>2, <1>7, <1>10, <2>1 DEF UnchangedByHash, Differ, Known
  <2> QED BY <1>9, <2>1, <2>2, <2>3
<1> QED BY <1>6, <1>11, <1>12, <1>13 DEF l, r, old, seen, info, prev

-----------------------------------------------------------------------------
(* What is right for a case.                                                *)
Right(k, op) ==
  /\ FullyEvident(k) => op = Reference(k)
  /\ k.direction = "both" =>
       /\ op \in {"upload", "delete-remote"} => Held(k.remote) = Held(k.base)
       /\ op \in {"download", "delete-local"} => Held(k.local) = Held(k.base)
       /\ op = "noop" => Held(k.local) = Held(k.remote)

(* The contents of a case: None is no content.                              *)
LEMMA HeldFacts ==
  ASSUME NEW k \in Cases
  PROVE  /\ Known(k.local) <=> Known(Held(k.local))
         /\ Known(k.remote) <=> Known(Held(k.remote))
         /\ Known(k.base) <=> Known(Held(k.base))
         /\ Known(k.local) => Held(k.local) = k.local.content
         /\ Known(k.remote) => Held(k.remote) = k.remote.content
         /\ Known(k.base) => Held(k.base) = k.base.content
  BY CaseFacts, ContentAssumption DEF Held, Known, LocalCase, RemoteCase, BaseCase

(* The entries and the record the planner is given.                         *)
LEMMA Given ==
  ASSUME NEW k \in Cases
  PROVE  /\ Known(k.local) => Known(SeenLocal(k))
         /\ Known(k.remote) => Known(SeenRemote(k))
         /\ Known(k.base) <=> Known(BaseRecord(k.base))
<1>1. ASSUME Known(k.local) PROVE Known(SeenLocal(k))
  <2>1. k.local \in LocalCase /\ (k.local.hashed \/ Compares(k)) \in BOOLEAN
    BY <1>1, CaseFacts DEF Known, LocalCase
  <2> QED BY <2>1, EntryAssumption DEF SeenLocal
<1>2. ASSUME Known(k.remote) PROVE Known(SeenRemote(k))
  <2>1. k.remote \in RemoteCase /\ SeenHash(k) \in Content \cup {None}
    BY <1>2, CaseFacts, HashFacts DEF Known
  <2> QED BY <2>1, EntryAssumption DEF SeenRemote
<1>3. Known(k.base) => Known(BaseRecord(k.base))
  BY CaseFacts, EntryAssumption DEF Known
<1>4. ~Known(k.base) => ~Known(BaseRecord(k.base))
  BY DEF BaseRecord, Known
<1> QED BY <1>1, <1>2, <1>3, <1>4

(* What the planner answers, path by path.                                  *)
LEMMA PlannedFor ==
  ASSUME NEW k \in Cases
  PROVE  Planned(k) =
           CASE ~Known(k.local) /\ ~Known(k.remote) -> "noop"
             [] Known(k.local) /\ ~Known(k.remote) -> LocalOnly(SeenLocal(k), BaseRecord(k.base), k.direction)
             [] ~Known(k.local) /\ Known(k.remote) -> RemoteOnly(SeenRemote(k), BaseRecord(k.base), k.direction)
             [] Known(k.local) /\ Known(k.remote) ->
                  BothSides(SeenLocal(k), SeenRemote(k), BaseRecord(k.base), k.direction)
<1>1. Planned(k) = PlanPath(IF ~Known(k.local) THEN None ELSE SeenLocal(k),
                            IF ~Known(k.remote) THEN None ELSE SeenRemote(k),
                            BaseRecord(k.base), k.direction)
  BY DEF Planned, PlanSync, SeenLocal, SeenRemote, SeenHash
<1>2. ~Known(None)
  BY DEF Known
<1> QED BY <1>1, <1>2, Given DEF PlanPath

(* The decision is right where the file is on neither side, on one, on both.*)
LEMMA NeitherIsRight ==
  ASSUME NEW k \in Cases, ~Known(k.local), ~Known(k.remote)
  PROVE  Right(k, Planned(k))
<1>1. Planned(k) = "noop" /\ Held(k.local) = None /\ Held(k.remote) = None
  BY PlannedFor DEF Held
<1>2. k.direction \in SyncDirections
  BY CaseFacts
<1> QED BY <1>1, <1>2 DEF Right, Reference, TwoWay, Override, SyncDirections

LEMMA LocalOnlyIsRight ==
  ASSUME NEW k \in Cases, Known(k.local), ~Known(k.remote)
  PROVE  Right(k, Planned(k))
<1> DEFINE changed == IsLocalChanged(SeenLocal(k), BaseRecord(k.base))
<1>1. /\ Held(k.remote) = None /\ Held(k.local) # None /\ (Known(k.base) <=> Held(k.base) # None)
      /\ k.direction \in SyncDirections
  BY HeldFacts, CaseFacts DEF Known, Held
<1>2. Known(k.base) =>
        /\ ~changed => Held(k.local) = Held(k.base)
        /\ FullyEvident(k) => (changed <=> Held(k.local) # Held(k.base))
  BY LocalEvidence, HeldFacts DEF FullyEvident
<1>3. Planned(k) =
        IF ~Known(k.base) THEN [both |-> "upload", push |-> "upload", pull |-> "noop"][k.direction]
        ELSE IF changed THEN "conflict"
        ELSE [both |-> "delete-local", push |-> "upload", pull |-> "delete-local"][k.direction]
  BY PlannedFor, Given DEF LocalOnly
<1> HIDE DEF changed
<1>4. Reference(k) =
        LET op == TwoWay(Held(k.local), None, Held(k.base)) IN
        [both |-> op,
         push |-> Override(k, op, "upload", "delete-local", "download"),
         pull |-> Override(k, op, "download", "delete-remote", "upload")][k.direction]
  BY <1>1 DEF Reference
<1>5. TwoWay(Held(k.local), None, Held(k.base)) =
        IF ~Known(k.base) THEN "upload"
        ELSE IF Held(k.local) = Held(k.base) THEN "delete-local" ELSE "conflict"
  BY <1>1 DEF TwoWay, Known
<1>6. FullyEvident(k) => Planned(k) = Reference(k)
  BY <1>1, <1>2, <1>3, <1>4, <1>5 DEF Override, SyncDirections
<1>7. k.direction = "both" =>
        /\ Planned(k) \in {"upload", "delete-remote"} => Held(k.remote) = Held(k.base)
        /\ Planned(k) \in {"download", "delete-local"} => Held(k.local) = Held(k.base)
        /\ Planned(k) # "noop"
  BY <1>1, <1>2, <1>3
<1> QED BY <1>6, <1>7 DEF Right

LEMMA RemoteOnlyIsRight ==
  ASSUME NEW k \in Cases, ~Known(k.local), Known(k.remote)
  PROVE  Right(k, Planned(k))
<1> DEFINE changed == IsRemoteChanged(SeenRemote(k), BaseRecord(k.base))
<1>1. /\ Held(k.local) = None /\ Held(k.remote) # None /\ (Known(k.base) <=> Held(k.base) # None)
      /\ k.direction \in SyncDirections
  BY HeldFacts, CaseFacts DEF Known, Held
<1>2. Known(k.base) =>
        /\ ~changed => Held(k.remote) = Held(k.base)
        /\ FullyEvident(k) => (changed <=> Held(k.remote) # Held(k.base))
  BY RemoteEvidence, HeldFacts DEF FullyEvident, RemoteEvident
<1>3. Planned(k) =
        IF ~Known(k.base) THEN [both |-> "download", push |-> "noop", pull |-> "download"][k.direction]
        ELSE IF changed THEN "conflict"
        ELSE [both |-> "delete-remote", push |-> "delete-remote", pull |-> "download"][k.direction]
  BY PlannedFor, Given DEF RemoteOnly
<1> HIDE DEF changed
<1>4. Reference(k) =
        LET op == TwoWay(None, Held(k.remote), Held(k.base)) IN
        [both |-> op,
         push |-> Override(k, op, "upload", "delete-local", "download"),
         pull |-> Override(k, op, "download", "delete-remote", "upload")][k.direction]
  BY <1>1 DEF Reference
<1>5. TwoWay(None, Held(k.remote), Held(k.base)) =
        IF ~Known(k.base) THEN "download"
        ELSE IF Held(k.remote) = Held(k.base) THEN "delete-remote" ELSE "conflict"
  BY <1>1 DEF TwoWay, Known
<1>6. FullyEvident(k) => Planned(k) = Reference(k)
  BY <1>1, <1>2, <1>3, <1>4, <1>5 DEF Override, SyncDirections
<1>7. k.direction = "both" =>
        /\ Planned(k) \in {"upload", "delete-remote"} => Held(k.remote) = Held(k.base)
        /\ Planned(k) \in {"download", "delete-local"} => Held(k.local) = Held(k.base)
        /\ Planned(k) # "noop"
  BY <1>1, <1>2, <1>3
<1> QED BY <1>6, <1>7 DEF Right

LEMMA BothSidesAreRight ==
  ASSUME NEW k \in Cases, Known(k.local), Known(k.remote)
  PROVE  Right(k, Planned(k))
<1> DEFINE l == Held(k.local)
           r == Held(k.remote)
           old == Held(k.base)
           seen == SeenLocal(k)
           info == SeenRemote(k)
           prev == BaseRecord(k.base)
           lc == IsLocalChanged(seen, prev)
           rc == IsRemoteChanged(info, prev)
           idle == VerifiedIdentical(seen, info) \/ UnchangedByHash(seen, info, prev)
<1>1. /\ l # None /\ r # None /\ (Known(k.base) <=> old # None)
      /\ k.direction \in SyncDirections
  BY HeldFacts, CaseFacts DEF Known
<1>2. /\ idle => l = r
      /\ Compares(k) /\ l = r => idle
      /\ ~Known(k.base) /\ l = r => idle
  BY PairEvidence, HeldFacts
<1>3. Known(k.base) =>
        /\ ~lc => l = old
        /\ FullyEvident(k) => (lc <=> l # old)
        /\ ~rc => r = old
        /\ FullyEvident(k) => (rc <=> r # old)
        /\ FullyEvident(k) /\ l = r /\ r # old => Compares(k)
  <2> SUFFICES ASSUME Known(k.base)
               PROVE  /\ ~lc => l = old
                      /\ FullyEvident(k) => (lc <=> l # old)
                      /\ ~rc => r = old
                      /\ FullyEvident(k) => (rc <=> r # old)
                      /\ FullyEvident(k) /\ l = r /\ r # old => Compares(k)
    OBVIOUS
  <2>1. FullyEvident(k) => (k.local.hashed \/ Compares(k)) /\ RemoteEvident(k)
    BY DEF FullyEvident, RemoteEvident
  <2>2. k.local # None /\ l = k.local.content /\ r = k.remote.content /\ old = k.base.content
    BY HeldFacts DEF Known
  <2>3. (~lc => l = old) /\ (FullyEvident(k) => (lc <=> l # old))
    <3> HIDE DEF l, old
    <3> QED BY <2>1, <2>2, LocalEvidence
  <2>4. /\ ~rc => r = old
        /\ FullyEvident(k) => (rc <=> r # old)
        /\ FullyEvident(k) /\ l = r /\ r # old => Compares(k)
    <3> HIDE DEF l, r, old
    <3> QED BY <2>1, <2>2, RemoteEvidence
  <2> QED BY <2>3, <2>4
<1>4. Planned(k) =
        IF idle THEN "noop"
        ELSE IF ~Known(k.base) THEN Clash[k.direction]
        ELSE CASE ~lc /\ ~rc -> "noop"
               [] lc /\ ~rc  -> [both |-> "upload", push |-> "upload", pull |-> "noop"][k.direction]
               [] ~lc /\ rc  -> [both |-> "download", push |-> "noop", pull |-> "download"][k.direction]
               [] lc /\ rc   -> Clash[k.direction]
  <2>1. Planned(k) = BothSides(seen, info, prev, k.direction) /\ (Known(k.base) <=> Known(prev))
    BY PlannedFor, Given
  <2>2. UnchangedByHash(seen, info, prev) => Known(prev)
    BY DEF UnchangedByHash
  <2> HIDE DEF seen, info, prev
  <2>3. CASE idle
    BY <2>1, <2>2, <2>3 DEF BothSides
  <2>4. CASE ~idle /\ ~Known(k.base)
    BY <2>1, <2>4 DEF BothSides
  <2>5. CASE ~idle /\ Known(k.base)
    <3>1. ~VerifiedIdentical(seen, info) /\ ~UnchangedByHash(seen, info, prev) /\ Known(prev)
      BY <2>1, <2>5
    <3> HIDE DEF idle
    <3>2. BothSides(seen, info, prev, k.direction) =
            CASE ~lc /\ ~rc -> "noop"
              [] lc /\ ~rc  -> [both |-> "upload", push |-> "upload", pull |-> "noop"][k.direction]
              [] ~lc /\ rc  -> [both |-> "download", push |-> "noop", pull |-> "download"][k.direction]
              [] lc /\ rc   -> Clash[k.direction]
      BY <3>1 DEF BothSides
    <3> QED BY <2>1, <2>5, <3>2
  <2> QED BY <2>3, <2>4, <2>5
<1>5. Reference(k) =
        LET op == TwoWay(l, r, old) IN
        [both |-> op,
         push |-> Override(k, op, "upload", "delete-local", "download"),
         pull |-> Override(k, op, "download", "delete-remote", "upload")][k.direction]
  BY DEF Reference
<1> HIDE DEF l, r, old, seen, info, prev, lc, rc, idle
<1>6. TwoWay(l, r, old) =
        IF l = r THEN "noop" ELSE IF r = old THEN "upload" ELSE IF l = old THEN "download" ELSE "conflict"
  BY <1>1 DEF TwoWay, Known
<1>7. FullyEvident(k) => Planned(k) = Reference(k)
  BY <1>1, <1>2, <1>3, <1>4, <1>5, <1>6 DEF Override, SyncDirections, Clash
<1>8. k.direction = "both" =>
        /\ Planned(k) \in {"upload", "delete-remote"} => r = old
        /\ Planned(k) \in {"download", "delete-local"} => l = old
        /\ Planned(k) = "noop" => l = r
  BY <1>1, <1>2, <1>3, <1>4 DEF Clash
<1> QED BY <1>7, <1>8 DEF Right, l, r, old

LEMMA DecisionsAreRight == ASSUME NEW k \in Cases PROVE Right(k, Planned(k))
  BY NeitherIsRight, LocalOnlyIsRight, RemoteOnlyIsRight, BothSidesAreRight

CaseInv == case \in Cases /\ decision \in {None, Planned(case)}

LEMMA CaseInvHolds == Spec => []CaseInv
<1>1. Init => CaseInv
  BY DEF Init, CaseInv
<1>2. CaseInv /\ [Decide]_vars => CaseInv'
  BY DEF Decide, CaseInv, vars
<1> QED BY <1>1, <1>2, PTL DEF Spec

(* Whatever the contents, their sizes and times: the operation planned is   *)
(* the one that the true contents call for (sync-planner.ts:41).            *)
THEOREM PlannerAgrees == Spec => []AgreesWithReference
<1>1. CaseInv => AgreesWithReference
  BY DecisionsAreRight DEF CaseInv, Right, AgreesWithReference
<1> QED BY <1>1, CaseInvHolds, PTL

(* A two-way pass overwrites or deletes a file only if it is still the one  *)
(* that was synced last (sync-planner.ts:55).                               *)
THEOREM PlannerSpares == Spec => []OverwritesOnlySynced
<1>1. CaseInv => OverwritesOnlySynced
  BY DecisionsAreRight DEF CaseInv, Right, OverwritesOnlySynced
<1> QED BY <1>1, CaseInvHolds, PTL

(* A two-way pass leaves a path alone only if the two sides are equal.      *)
THEOREM PlannerLeavesEqual == Spec => []RestsOnlyWhenEqual
<1>1. "noop" # None
  BY ContentAssumption DEF Operations
<1>2. CaseInv => RestsOnlyWhenEqual
  BY <1>1, DecisionsAreRight DEF CaseInv, Right, RestsOnlyWhenEqual
<1> QED BY <1>2, CaseInvHolds, PTL

-----------------------------------------------------------------------------
(* The smallest of a set of numbers.                                        *)
LEMMA MinOfNaturals ==
  ASSUME NEW S \in SUBSET Nat, S # {}
  PROVE  Min(S) \in S /\ \A y \in S : Min(S) <= y
<1>1. IsWellFoundedOn(OpToRel(<, Nat), Nat)
  BY NatLessThanWellFounded
<1>2. PICK x \in S : \A y \in S : ~(<<y, x>> \in OpToRel(<, Nat))
  BY <1>1, WFMin
<1>3. \A y \in S : x <= y
  <2> TAKE y \in S
  <2>1. x \in Nat /\ y \in Nat
    OBVIOUS
  <2>2. ~(y < x)
    BY <1>2, <2>1 DEF OpToRel
  <2> QED BY <2>1, <2>2
<1> QED BY <1>2, <1>3 DEF Min

-----------------------------------------------------------------------------
(* The pool. Until a job fails, the small jobs before the next one are under*)
(* way or have ended well.                                                  *)

PoolInv ==
  /\ next \in Nat /\ running \subseteq 1 .. Jobs /\ ended \subseteq 1 .. Jobs
  /\ outcome \in {"running", "resolved", "rejected"}
  /\ ~failed => \A i \in Small : i < next => i \in running \union ended
  /\ OutcomeIsFinal

LEMMA PoolStarts == PoolInit \/ PoolRests => PoolInv
  BY PoolAssumption DEF PoolInit, PoolRests, PoolInv, OutcomeIsFinal, Small, Large

LEMMA PoolStep == PoolInv /\ [PoolNext]_poolVars => PoolInv'
<1> SUFFICES ASSUME PoolInv, [PoolNext]_poolVars PROVE PoolInv'
  OBVIOUS
<1>0. Jobs \in Nat /\ Small \subseteq Nat /\ Large \subseteq 1 .. Jobs /\ Small \subseteq 1 .. Jobs
  BY PoolAssumption DEF Small, Large
<1>1. CASE StartLarge
  <2>0. 1 .. Jobs \in SUBSET Nat
    OBVIOUS
  <2>1. LargeLeft \in SUBSET Nat /\ LargeLeft # {} /\ LargeLeft \subseteq 1 .. Jobs
    <3>1. LargeLeft \subseteq Large
      BY DEF LargeLeft
    <3>2. LargeLeft # {}
      BY <1>1 DEF StartLarge
    <3> QED BY <1>0, <2>0, <3>1, <3>2
  <2>2. Min(LargeLeft) \in 1 .. Jobs
    BY <2>1, MinOfNaturals
  <2>3. /\ outcome = "running" /\ running = {} /\ running' = {Min(LargeLeft)}
        /\ UNCHANGED <<size, next, ended, failed, outcome>>
    BY <1>1 DEF StartLarge
  <2>4. Small' = Small
    BY <2>3 DEF Small, Large
  <2> QED BY <2>2, <2>3, <2>4 DEF PoolInv, OutcomeIsFinal
<1>2. CASE Schedule
  <2> DEFINE i == Min(SmallLeft)
  <2>1. SmallLeft \in SUBSET Nat /\ SmallLeft # {} /\ SmallLeft \subseteq Small
    BY <1>0, <1>2 DEF Schedule, CanSchedule, SmallLeft
  <2>2. i \in SmallLeft /\ i \in 1 .. Jobs /\ i \in Nat /\ \A j \in SmallLeft : i <= j
    BY <1>0, <2>1, MinOfNaturals
  <2>3. /\ outcome = "running" /\ running' = running \union {i} /\ next' = i + 1
        /\ UNCHANGED <<size, ended, failed, outcome>>
    BY <1>2 DEF Schedule, CanSchedule
  <2>4. Small' = Small
    BY <2>3 DEF Small, Large
  <2> HIDE DEF i
  <2>5. ASSUME ~failed, NEW j \in Small, j < i + 1 PROVE j \in running' \union ended
    <3>1. CASE j < next
      BY <2>3, <2>5, <3>1 DEF PoolInv
    <3>2. CASE ~(j < next)
      <4>1. j \in SmallLeft /\ j \in Nat
        BY <1>0, <3>2 DEF SmallLeft, PoolInv
      <4>2. j = i
        BY <2>2, <2>5, <4>1
      <4> QED BY <2>3, <4>2
    <3> QED BY <3>1, <3>2
  <2> QED BY <2>2, <2>3, <2>4, <2>5 DEF PoolInv, OutcomeIsFinal
<1>3. CASE FinishRun
  <2>1. /\ outcome = "running" /\ running = {} /\ UNCHANGED <<size, next, running, ended, failed>>
        /\ outcome' = IF failed THEN "rejected" ELSE "resolved"
        /\ failed \/ (Large \subseteq ended /\ SmallLeft = {})
    BY <1>3 DEF FinishRun, MayFinish
  <2>2. Small' = Small
    BY <2>1 DEF Small, Large
  <2>3. ~failed => ended = 1 .. Jobs
    <3> SUFFICES ASSUME ~failed, NEW j \in 1 .. Jobs PROVE j \in ended
      BY DEF PoolInv
    <3>1. CASE j \in Large
      BY <2>1, <3>1
    <3>2. CASE j \in Small
      <4>1. j \notin SmallLeft /\ j \in Nat
        BY <1>0, <2>1, <3>2
      <4>2. j < next
        BY <3>2, <4>1 DEF SmallLeft, PoolInv
      <4> QED BY <2>1, <3>2, <4>2 DEF PoolInv
    <3> QED BY <3>1, <3>2 DEF Small
  <2> QED BY <2>1, <2>2, <2>3 DEF PoolInv, OutcomeIsFinal
<1>4. ASSUME NEW i \in 1 .. Jobs, NEW fails \in BOOLEAN, EndJob(i, fails) PROVE PoolInv'
  <2>1. /\ i \in running /\ running' = running \ {i} /\ failed' = (failed \/ fails)
        /\ ended' = IF fails THEN ended ELSE ended \union {i}
        /\ UNCHANGED <<size, next, outcome>>
    BY <1>4 DEF EndJob
  <2>2. outcome = "running"
    BY <2>1 DEF PoolInv, OutcomeIsFinal
  <2>3. Small' = Small
    BY <2>1 DEF Small, Large
  <2> QED BY <2>1, <2>2, <2>3 DEF PoolInv, OutcomeIsFinal
<1>5. CASE UNCHANGED poolVars
  <2>1. Small' = Small
    BY <1>5 DEF poolVars, Small, Large
  <2> QED BY <1>5, <2>1 DEF poolVars, PoolInv, OutcomeIsFinal
<1> QED BY <1>1, <1>2, <1>3, <1>4, <1>5 DEF PoolNext

-----------------------------------------------------------------------------
(* The bytes of a set of jobs, as the fold of BytePool adds them up.  The    *)
(* fold takes a function that satisfies its recursion; SumsExist says there *)
(* is one, SumsAgree that all of them agree, and so TotalAdds that a job    *)
(* more adds its bytes whatever the order of the fold.  Each argues from a  *)
(* smallest set that would lack the property.                               *)
Weight(z, i) == IF z[i] * Factor = 0 THEN 1 ELSE z[i] * Factor
Chosen(s) == CHOOSE x \in s : TRUE

IsSum(z, g, S) ==
  g = [s \in SUBSET S |-> IF s = {} THEN 0 ELSE Weight(z, Chosen(s)) + g[s \ {Chosen(s)}]]

Total(z, S) == (CHOOSE g : IsSum(z, g, S))[S]

LEMMA FoldIsTotal ==
  ASSUME NEW S
  PROVE  MapThenSumSet(Accounted, S) = Total(size, S)
BY DEF MapThenSumSet, MapThenFoldSet, Accounted, Weight, Chosen, IsSum, Total

LEMMA ChosenFacts ==
  ASSUME NEW s, s # {}
  PROVE  Chosen(s) \in s /\ s \ {Chosen(s)} \subseteq s /\ s \ {Chosen(s)} # s
<1>1. Chosen(s) \in s
  BY DEF Chosen
<1> QED BY <1>1

(* Of the sets that lack a property, one has no smaller one.                *)
LEMMA SmallestSet ==
  ASSUME NEW D, IsFiniteSet(D), NEW Bad \in SUBSET SUBSET D, Bad # {}
  PROVE  \E s \in Bad : \A t \in Bad : t \subseteq s => t = s
<1>1. IsWellFoundedOn(StrictSubsetOrdering(D), FiniteSubsetsOf(D))
  BY FS_StrictSubsetOrderingWellFounded
<1>2. Bad \subseteq FiniteSubsetsOf(D)
  BY FS_Subset DEF FiniteSubsetsOf
<1>3. PICK s \in Bad : \A t \in Bad : ~(<<t, s>> \in StrictSubsetOrdering(D))
  BY <1>1, <1>2, WFMin
<1>4. ASSUME NEW t \in Bad, t \subseteq s PROVE t = s
  BY <1>3, <1>4 DEF StrictSubsetOrdering
<1> QED BY <1>3, <1>4

LEMMA SumValues ==
  ASSUME NEW z, NEW g, NEW S, IsSum(z, g, S), NEW s \in SUBSET S
  PROVE  /\ s = {} => g[s] = 0
         /\ s # {} => g[s] = Weight(z, Chosen(s)) + g[s \ {Chosen(s)}]
<1> DEFINE value(t) == IF t = {} THEN 0 ELSE Weight(z, Chosen(t)) + g[t \ {Chosen(t)}]
<1>1. g = [t \in SUBSET S |-> value(t)]
  BY DEF IsSum
<1>2. g[s] = value(s)
  <2> HIDE DEF value
  <2> QED BY <1>1
<1> QED BY <1>2

LEMMA SumsAgree ==
  ASSUME NEW z, NEW T, IsFiniteSet(T), NEW S \in SUBSET T, NEW g, NEW h, IsSum(z, g, S), IsSum(z, h, T)
  PROVE  g[S] = h[S]
<1> DEFINE Bad == {s \in SUBSET S : g[s] # h[s]}
<1> SUFFICES ASSUME Bad # {} PROVE FALSE
  <2>1. S \in SUBSET S
    OBVIOUS
  <2> QED BY <2>1
<1>1. Bad \in SUBSET SUBSET T
  OBVIOUS
<1>2. PICK s \in Bad : \A t \in Bad : t \subseteq s => t = s
  <2> HIDE DEF Bad
  <2> QED BY <1>1, SmallestSet
<1>3. s \in SUBSET S /\ s \in SUBSET T /\ g[s] # h[s]
  BY <1>2
<1>4. CASE s = {}
  BY <1>3, <1>4, SumValues
<1>5. CASE s # {}
  <2> DEFINE rest == s \ {Chosen(s)}
  <2>1. rest \in SUBSET S /\ rest \subseteq s /\ rest # s
    BY <1>3, <1>5, ChosenFacts
  <2>2. g[rest] = h[rest]
    BY <1>2, <2>1
  <2>3. g[s] = Weight(z, Chosen(s)) + g[rest] /\ h[s] = Weight(z, Chosen(s)) + h[rest]
    BY <1>3, <1>5, SumValues
  <2> QED BY <1>3, <2>2, <2>3
<1> QED BY <1>4, <1>5

LEMMA TotalUnfolds ==
  ASSUME NEW z, NEW S, IsFiniteSet(S), \E g : IsSum(z, g, S),
         S # {} => \E g : IsSum(z, g, S \ {Chosen(S)})
  PROVE  Total(z, S) = IF S = {} THEN 0 ELSE Weight(z, Chosen(S)) + Total(z, S \ {Chosen(S)})
<1> DEFINE g == CHOOSE g : IsSum(z, g, S)
<1>1. IsSum(z, g, S) /\ Total(z, S) = g[S]
  BY DEF Total
<1> HIDE DEF g
<1>2. CASE S = {}
  BY <1>1, <1>2, SumValues
<1>3. CASE S # {}
  <2> DEFINE rest == S \ {Chosen(S)}
             h == CHOOSE h : IsSum(z, h, rest)
  <2>1. IsSum(z, h, rest) /\ Total(z, rest) = h[rest]
    BY <1>3 DEF Total
  <2>2. rest \in SUBSET S
    OBVIOUS
  <2>3. g[S] = Weight(z, Chosen(S)) + g[rest]
    BY <1>1, <1>3, SumValues
  <2> HIDE DEF h, rest
  <2>4. h[rest] = g[rest]
    <3>1. IsFiniteSet(S) /\ rest \in SUBSET S /\ IsSum(z, h, rest) /\ IsSum(z, g, S)
      BY <1>1, <2>1, <2>2
    <3> QED BY ONLY <3>1, SumsAgree
  <2>5. Total(z, S) = Weight(z, Chosen(S)) + Total(z, rest)
    BY <1>1, <2>1, <2>3, <2>4
  <2> QED BY <1>3, <2>5 DEF rest
<1> QED BY <1>2, <1>3

LEMMA SumsExist ==
  ASSUME NEW z, NEW D, IsFiniteSet(D)
  PROVE  \A S \in SUBSET D : \E g : IsSum(z, g, S)
<1> DEFINE Bad == {S \in SUBSET D : ~ \E g : IsSum(z, g, S)}
<1> SUFFICES ASSUME Bad # {} PROVE FALSE
  OBVIOUS
<1>1. Bad \in SUBSET SUBSET D
  OBVIOUS
<1>2. PICK S \in Bad : \A t \in Bad : t \subseteq S => t = S
  <2> HIDE DEF Bad
  <2> QED BY <1>1, SmallestSet
<1>3. S \in SUBSET D /\ ~ \E g : IsSum(z, g, S)
  BY <1>2
<1>4. ASSUME NEW t \in SUBSET S, t # S PROVE \E g : IsSum(z, g, t)
  BY <1>2, <1>3, <1>4
<1>5. ASSUME NEW t \in SUBSET S, t # S
      PROVE  Total(z, t) = IF t = {} THEN 0 ELSE Weight(z, Chosen(t)) + Total(z, t \ {Chosen(t)})
  <2>1. IsFiniteSet(t)
    BY <1>3, <1>5, FS_Subset
  <2>2. t # {} => \E g : IsSum(z, g, t \ {Chosen(t)})
    <3> SUFFICES ASSUME t # {} PROVE \E g : IsSum(z, g, t \ {Chosen(t)})
      OBVIOUS
    <3>1. t \ {Chosen(t)} \in SUBSET S /\ t \ {Chosen(t)} # S
      BY <1>5, ChosenFacts
    <3> HIDE DEF Bad
    <3> QED BY <1>4, <3>1
  <2>3. \E g : IsSum(z, g, t)
    BY <1>4, <1>5
  <2> QED BY <2>1, <2>2, <2>3, TotalUnfolds
<1> DEFINE value(s) == IF s = {} THEN 0 ELSE Weight(z, Chosen(s)) + Total(z, s \ {Chosen(s)})
           g == [s \in SUBSET S |-> value(s)]
<1>6. ASSUME NEW s \in SUBSET S, s # {} PROVE g[s \ {Chosen(s)}] = Total(z, s \ {Chosen(s)})
  <2> DEFINE rest == s \ {Chosen(s)}
  <2>1. rest \in SUBSET S /\ rest # S
    BY <1>6, ChosenFacts
  <2> HIDE DEF rest
  <2>2. g[rest] = value(rest)
    <3> HIDE DEF value
    <3> QED BY <2>1
  <2>3. Total(z, rest) = value(rest)
    BY <1>5, <2>1
  <2> QED BY <2>2, <2>3 DEF rest
<1>7. g = [s \in SUBSET S |-> IF s = {} THEN 0 ELSE Weight(z, Chosen(s)) + g[s \ {Chosen(s)}]]
  <2> DEFINE again(s) == IF s = {} THEN 0 ELSE Weight(z, Chosen(s)) + g[s \ {Chosen(s)}]
  <2>1. \A s \in SUBSET S : value(s) = again(s)
    <3> TAKE s \in SUBSET S
    <3>1. CASE s = {}
      BY <3>1
    <3>2. CASE s # {}
      <4>1. g[s \ {Chosen(s)}] = Total(z, s \ {Chosen(s)})
        BY <1>6, <3>2
      <4> HIDE DEF g
      <4> QED BY <3>2, <4>1
    <3> QED BY <3>1, <3>2
  <2>2. g = [s \in SUBSET S |-> again(s)]
    <3> HIDE DEF again, value
    <3> QED BY <2>1
  <2> HIDE DEF g
  <2> QED BY <2>2
<1> HIDE DEF g
<1>8. IsSum(z, g, S)
  BY <1>7 DEF IsSum
<1> QED BY <1>3, <1>8

LEMMA TotalFacts ==
  ASSUME NEW z, NEW S, IsFiniteSet(S)
  PROVE  Total(z, S) = IF S = {} THEN 0 ELSE Weight(z, Chosen(S)) + Total(z, S \ {Chosen(S)})
<1>1. S \in SUBSET S /\ S \ {Chosen(S)} \in SUBSET S
  OBVIOUS
<1> QED BY <1>1, SumsExist, TotalUnfolds

(* Every job counts for at least one byte.                                  *)
LEMMA WeightType ==
  ASSUME NEW z \in [1 .. Jobs -> Nat], NEW i \in 1 .. Jobs
  PROVE  Weight(z, i) \in Nat /\ Weight(z, i) >= 1
<1>1. z[i] \in Nat /\ Factor \in Nat
  BY PoolAssumption
<1>2. \A m, n \in Nat : m * n \in Nat
  OBVIOUS
<1>3. z[i] * Factor \in Nat
  BY <1>1, <1>2
<1> DEFINE k == z[i] * Factor
<1> HIDE DEF k
<1>4. k \in Nat /\ Weight(z, i) = IF k = 0 THEN 1 ELSE k
  BY <1>3 DEF Weight, k
<1> QED BY <1>4

LEMMA JobsAreFinite == \A S \in SUBSET (1 .. Jobs) : IsFiniteSet(S) /\ Cardinality(S) \in Nat
<1>1. 1 \in Int /\ Jobs \in Int
  BY PoolAssumption
<1>2. IsFiniteSet(1 .. Jobs)
  BY <1>1, FS_Interval
<1> TAKE S \in SUBSET (1 .. Jobs)
<1>3. IsFiniteSet(S)
  BY <1>2, FS_Subset
<1> QED BY <1>3, FS_CardinalityType

LEMMA TotalType ==
  ASSUME NEW z \in [1 .. Jobs -> Nat]
  PROVE  \A S \in SUBSET (1 .. Jobs) : Total(z, S) \in Nat /\ (S # {} => Total(z, S) >= 1)
<1> DEFINE D == 1 .. Jobs
           Bad == {S \in SUBSET D : ~(Total(z, S) \in Nat /\ (S # {} => Total(z, S) >= 1))}
<1> SUFFICES ASSUME Bad # {} PROVE FALSE
  OBVIOUS
<1>1. Bad \in SUBSET SUBSET D /\ IsFiniteSet(D)
  BY JobsAreFinite
<1>2. PICK S \in Bad : \A t \in Bad : t \subseteq S => t = S
  <2> HIDE DEF Bad, D
  <2> QED BY <1>1, SmallestSet
<1>3. S \in SUBSET D /\ IsFiniteSet(S) /\ ~(Total(z, S) \in Nat /\ (S # {} => Total(z, S) >= 1))
  BY <1>2, JobsAreFinite
<1>4. CASE S = {}
  <2> HIDE DEF Bad, D
  <2>1. Total(z, S) = IF S = {} THEN 0 ELSE Weight(z, Chosen(S)) + Total(z, S \ {Chosen(S)})
    BY <1>3, TotalFacts
  <2>2. Total(z, S) = 0
    BY <1>4, <2>1
  <2> QED BY <1>3, <1>4, <2>2
<1>5. CASE S # {}
  <2> DEFINE rest == S \ {Chosen(S)}
  <2>1. rest \in SUBSET D /\ rest \subseteq S /\ rest # S /\ Chosen(S) \in D
    BY <1>3, <1>5, ChosenFacts
  <2>2. Total(z, rest) \in Nat
    BY <1>2, <2>1
  <2>3. Weight(z, Chosen(S)) \in Nat /\ Weight(z, Chosen(S)) >= 1
    BY <2>1, WeightType
  <2>4. Total(z, S) = Weight(z, Chosen(S)) + Total(z, rest)
    BY <1>3, <1>5, TotalFacts
  <2> QED BY <1>3, <2>2, <2>3, <2>4
<1> QED BY <1>4, <1>5

(* A job more adds its bytes. *)
LEMMA TotalAdds ==
  ASSUME NEW z \in [1 .. Jobs -> Nat]
  PROVE  \A S \in SUBSET (1 .. Jobs) : \A i \in (1 .. Jobs) \ S : Total(z, S \union {i}) = Weight(z, i) + Total(z, S)
<1> DEFINE D == 1 .. Jobs
           Bad == {S \in SUBSET D : \E i \in D \ S : Total(z, S \union {i}) # Weight(z, i) + Total(z, S)}
<1> SUFFICES ASSUME Bad # {} PROVE FALSE
  OBVIOUS
<1>1. Bad \in SUBSET SUBSET D /\ IsFiniteSet(D)
  BY JobsAreFinite
<1>2. PICK S \in Bad : \A t \in Bad : t \subseteq S => t = S
  <2> HIDE DEF Bad, D
  <2> QED BY <1>1, SmallestSet
<1>3. PICK i \in D \ S : Total(z, S \union {i}) # Weight(z, i) + Total(z, S)
  BY <1>2
<1>4. ASSUME NEW t \in SUBSET D, t \subseteq S, t # S, NEW j \in D \ t
      PROVE  Total(z, t \union {j}) = Weight(z, j) + Total(z, t)
  BY <1>2, <1>4
<1> DEFINE U == S \union {i}
           x == Chosen(U)
<1>5. S \in SUBSET D /\ U \in SUBSET D /\ U # {} /\ IsFiniteSet(U) /\ x \in U
  <2>1. S \in SUBSET D /\ U \in SUBSET D /\ U # {}
    BY <1>2, <1>3
  <2>2. IsFiniteSet(U)
    BY <2>1, JobsAreFinite
  <2>3. x \in U
    <3> HIDE DEF U
    <3> QED BY <2>1, ChosenFacts
  <2> QED BY <2>1, <2>2, <2>3
<1>6. Total(z, U) = Weight(z, x) + Total(z, U \ {x})
  <2> HIDE DEF U
  <2> QED BY <1>5, TotalFacts
<1> HIDE DEF x, D, Bad
<1>7. CASE x = i
  <2>1. U \ {x} = S
    BY <1>3, <1>7
  <2> QED BY <1>3, <1>6, <1>7, <2>1
<1>8. CASE x # i
  <2> DEFINE rest == S \ {x}
  <2>1. x \in S /\ rest \in SUBSET D /\ rest \subseteq S /\ rest # S /\ i \in D \ rest /\ x \in D \ rest
    BY <1>3, <1>5, <1>8
  <2>2. U \ {x} = rest \union {i} /\ rest \union {x} = S
    BY <1>3, <1>8, <2>1
  <2> HIDE DEF rest
  <2>3. Total(z, rest \union {i}) = Weight(z, i) + Total(z, rest)
    BY <1>4, <2>1
  <2>4. Total(z, rest \union {x}) = Weight(z, x) + Total(z, rest)
    BY <1>4, <2>1
  <2>5. Weight(z, i) \in Nat /\ Weight(z, x) \in Nat /\ Total(z, rest) \in Nat
    BY <2>1, WeightType, TotalType DEF D
  <2> HIDE DEF U
  <2>6. Total(z, U) = Weight(z, x) + (Weight(z, i) + Total(z, rest))
    BY <1>6, <2>2, <2>3
  <2>7. Total(z, S) = Weight(z, x) + Total(z, rest)
    BY <2>2, <2>4
  <2>8. \A l, m, n \in Nat : l + (m + n) = m + (l + n)
    OBVIOUS
  <2>9. Weight(z, x) + (Weight(z, i) + Total(z, rest)) = Weight(z, i) + (Weight(z, x) + Total(z, rest))
    BY <2>5, <2>8
  <2>10. Total(z, U) = Weight(z, i) + Total(z, S)
    BY <2>6, <2>7, <2>9
  <2> QED BY <1>3, <2>10 DEF U
<1> QED BY <1>7, <1>8

LEMMA AccountedIsWeight == \A i : Accounted(i) = Weight(size, i)
  BY DEF Accounted, Weight

(* The jobs that are under way were started in their order, their bytes are *)
(* those in flight, and two of them never exceed the budget.                *)
BudgetInv ==
  /\ size \in [1 .. Jobs -> Nat] /\ next \in Nat /\ running \subseteq 1 .. Jobs
  /\ \A i \in running \intersect Small : i < next
  /\ inFlight = Total(size, running)
  /\ Cardinality(running) <= MaxWorkers
  /\ inFlight <= MaxBytes \/ Cardinality(running) = 1

LEMMA TotalOfNone == ASSUME NEW z PROVE Total(z, {}) = 0
<1>1. IsFiniteSet({})
  BY FS_EmptySet
<1> QED BY <1>1, TotalFacts

LEMMA BudgetStarts == PoolInit \/ PoolRests => BudgetInv
<1> SUFFICES ASSUME PoolInit \/ PoolRests PROVE BudgetInv
  OBVIOUS
<1>1. next = 1 /\ running = {} /\ inFlight = 0
  BY DEF PoolInit, PoolRests
<1>2. size \in [1 .. Jobs -> Nat]
  <2>1. CASE PoolInit
    <3>1. size \in [1 .. Jobs -> JobSizes] /\ JobSizes \subseteq Nat
      BY <2>1, PoolAssumption DEF PoolInit
    <3> QED BY <3>1
  <2>2. CASE PoolRests
    <3>1. size = [i \in 1 .. Jobs |-> 0]
      BY <2>2 DEF PoolRests
    <3> QED BY <3>1
  <2> QED BY <2>1, <2>2
<1>3. inFlight = Total(size, running) /\ Cardinality(running) = 0
  BY <1>1, TotalOfNone, FS_EmptySet
<1> QED BY <1>1, <1>2, <1>3, PoolAssumption DEF BudgetInv

LEMMA BudgetStep == BudgetInv /\ [PoolNext]_poolVars => BudgetInv'
<1> SUFFICES ASSUME BudgetInv, [PoolNext]_poolVars PROVE BudgetInv'
  OBVIOUS
<1>0. /\ Jobs \in Nat /\ MaxWorkers \in Nat /\ MaxWorkers >= 1 /\ MaxBytes \in Nat
      /\ Small \subseteq 1 .. Jobs /\ Large \subseteq 1 .. Jobs /\ 1 .. Jobs \in SUBSET Nat
      /\ size \in [1 .. Jobs -> Nat] /\ next \in Nat /\ running \in SUBSET (1 .. Jobs)
  BY PoolAssumption DEF Small, Large, BudgetInv
<1>1. /\ inFlight \in Nat /\ inFlight = Total(size, running)
      /\ running # {} => inFlight >= 1
      /\ Cardinality(running) \in Nat /\ IsFiniteSet(running)
  BY <1>0, TotalType, JobsAreFinite DEF BudgetInv
<1>2. CASE StartLarge
  <2> DEFINE i == Min(LargeLeft)
  <2>1. LargeLeft \in SUBSET Nat /\ LargeLeft # {} /\ LargeLeft \subseteq Large
    BY <1>0, <1>2 DEF StartLarge, LargeLeft
  <2>2. i \in Large /\ i \in 1 .. Jobs
    BY <1>0, <2>1, MinOfNaturals
  <2>3. running' = {i} /\ inFlight' = Accounted(i) /\ running = {} /\ UNCHANGED <<size, next>>
    BY <1>2 DEF StartLarge
  <2> HIDE DEF i
  <2>4. Total(size, running') = Accounted(i)
    <3>1. Total(size, {} \union {i}) = Weight(size, i) + Total(size, {})
      BY <1>0, <2>2, TotalAdds
    <3>2. running' = {} \union {i}
      BY <2>3
    <3>3. Weight(size, i) \in Nat
      BY <1>0, <2>2, WeightType
    <3> QED BY <3>1, <3>2, <3>3, TotalOfNone, AccountedIsWeight
  <2>5. Cardinality(running') = 1
    BY <2>3, FS_Singleton
  <2>6. Small' = Small /\ running' \intersect Small = {}
    BY <2>2, <2>3 DEF Small, Large
  <2>7. (\A j \in running \intersect Small : j < next)'
    BY <2>6
  <2>8. running' \subseteq 1 .. Jobs
    BY <2>2, <2>3
  <2>9. Total(size', running') = Total(size, running')
    BY <2>3
  <2> QED BY <1>0, <2>3, <2>4, <2>5, <2>7, <2>8, <2>9 DEF BudgetInv
<1>3. CASE Schedule
  <2> DEFINE i == Min(SmallLeft)
  <2>1. SmallLeft \in SUBSET Nat /\ SmallLeft # {} /\ SmallLeft \subseteq Small
    BY <1>0, <1>3 DEF Schedule, CanSchedule, SmallLeft
  <2>2. i \in SmallLeft /\ i \in Small /\ i \in 1 .. Jobs /\ i \in Nat /\ i >= next
    BY <1>0, <2>1, MinOfNaturals DEF SmallLeft
  <2>3. /\ running' = running \union {i} /\ next' = i + 1 /\ inFlight' = inFlight + Accounted(i)
        /\ Cardinality(running) < MaxWorkers /\ size' = size
        /\ inFlight + Accounted(i) <= MaxBytes \/ inFlight = 0
    BY <1>3 DEF Schedule, CanSchedule, HasRoom, OversizedAlone
  <2> HIDE DEF i
  <2>4. i \notin running
    <3> SUFFICES ASSUME i \in running PROVE FALSE
      OBVIOUS
    <3>1. i < next
      BY <2>2 DEF BudgetInv
    <3> QED BY <1>0, <2>2, <3>1
  <2>5. Accounted(i) \in Nat
    BY <1>0, <2>2, WeightType, AccountedIsWeight
  <2>6. inFlight' = Total(size, running')
    <3>1. Total(size, running \union {i}) = Weight(size, i) + Total(size, running)
      BY <1>0, <2>2, <2>4, TotalAdds
    <3>2. Total(size, running') = Accounted(i) + inFlight
      BY <1>1, <2>3, <3>1, AccountedIsWeight
    <3> QED BY <1>1, <2>3, <2>5, <3>2
  <2>7. Cardinality(running') = Cardinality(running) + 1
    BY <1>1, <2>3, <2>4, FS_AddElement
  <2>8. inFlight' <= MaxBytes \/ Cardinality(running') = 1
    <3>1. CASE inFlight + Accounted(i) <= MaxBytes
      BY <2>3, <3>1
    <3>2. CASE inFlight = 0
      <4>1. running = {}
        BY <1>1, <3>2
      <4>2. Cardinality(running) = 0
        BY <4>1, FS_EmptySet
      <4> QED BY <2>7, <4>2
    <3> QED BY <2>3, <3>1, <3>2
  <2>9. Small' = Small
    BY <2>3 DEF Small, Large
  <2>10. ASSUME NEW j \in running' \intersect Small' PROVE j < next'
    <3>1. CASE j = i
      BY <2>2, <2>3, <3>1
    <3>2. CASE j # i
      <4>1. j \in running \intersect Small /\ j \in Nat
        BY <1>0, <2>3, <2>9, <2>10, <3>2
      <4>2. j < next
        BY <4>1 DEF BudgetInv
      <4> QED BY <1>0, <2>2, <2>3, <4>1, <4>2
    <3> QED BY <3>1, <3>2
  <2>11. Cardinality(running') <= MaxWorkers
    BY <1>0, <1>1, <2>3, <2>7
  <2>12. running' \subseteq 1 .. Jobs /\ next' \in Nat
    BY <1>0, <2>2, <2>3
  <2>13. Total(size', running') = Total(size, running')
    BY <2>3
  <2> QED BY <1>0, <2>3, <2>6, <2>8, <2>10, <2>11, <2>12, <2>13 DEF BudgetInv
<1>4. ASSUME NEW i \in 1 .. Jobs, NEW fails \in BOOLEAN, EndJob(i, fails) PROVE BudgetInv'
  <2>1. /\ i \in running /\ running' = running \ {i} /\ size' = size /\ next' = next
        /\ inFlight' = IF inFlight >= Accounted(i) THEN inFlight - Accounted(i) ELSE 0
    BY <1>4 DEF EndJob
  <2>2. running' \in SUBSET (1 .. Jobs) /\ i \in (1 .. Jobs) \ running' /\ running' \union {i} = running
    BY <1>0, <2>1
  <2>3. Accounted(i) \in Nat /\ Total(size, running') \in Nat
    BY <1>0, <2>2, WeightType, TotalType, AccountedIsWeight
  <2>4. inFlight = Accounted(i) + Total(size, running')
    <3>1. Total(size, running' \union {i}) = Weight(size, i) + Total(size, running')
      BY <1>0, <2>2, TotalAdds
    <3> QED BY <1>1, <2>2, <3>1, AccountedIsWeight
  <2>5. inFlight' = Total(size, running') /\ inFlight' <= inFlight
    BY <1>1, <2>1, <2>3, <2>4
  <2>6. Cardinality(running') = Cardinality(running) - 1
    BY <1>1, <2>1, FS_RemoveElement
  <2>7. inFlight' <= MaxBytes
    <3>1. CASE inFlight <= MaxBytes
      BY <1>0, <1>1, <2>3, <2>5, <3>1
    <3>2. CASE Cardinality(running) = 1
      <4>1. running' = {}
        <5>1. IsFiniteSet(running') /\ Cardinality(running') = 0
          BY <2>2, <2>6, <3>2, JobsAreFinite
        <5> QED BY <5>1, FS_EmptySet
      <4>2. inFlight' = 0
        BY <2>5, <4>1, TotalOfNone
      <4> QED BY <1>0, <4>2
    <3> QED BY <3>1, <3>2 DEF BudgetInv
  <2>8. Small' = Small
    BY <2>1 DEF Small, Large
  <2>9. ASSUME NEW j \in running' \intersect Small' PROVE j < next'
    BY <2>1, <2>8, <2>9 DEF BudgetInv
  <2>10. Cardinality(running') <= MaxWorkers
    <3>1. Cardinality(running) <= MaxWorkers
      BY DEF BudgetInv
    <3> QED BY <1>0, <1>1, <2>6, <3>1
  <2>11. Total(size', running') = Total(size, running')
    BY <2>1
  <2> QED BY <1>0, <2>1, <2>2, <2>5, <2>7, <2>9, <2>10, <2>11 DEF BudgetInv
<1>5. CASE FinishRun \/ UNCHANGED poolVars
  <2>1. UNCHANGED <<size, next, running, inFlight>>
    BY <1>5 DEF FinishRun, poolVars
  <2>2. Small' = Small
    BY <2>1 DEF Small, Large
  <2> QED BY <2>1, <2>2 DEF BudgetInv
<1> QED BY <1>2, <1>3, <1>4, <1>5 DEF PoolNext

(* However many jobs there are, the bytes in flight are those of the jobs   *)
(* under way, and stay within the budget unless one job alone exceeds it;   *)
(* the workers stay within their number (byte-bounded-pool.ts:105).         *)
THEOREM BudgetStaysKept == ComponentsSpec => []BudgetIsKept
<1>1. ComponentsInit => BudgetInv
  BY BudgetStarts DEF ComponentsInit
<1>2. BudgetInv /\ [ComponentsNext]_<<part, vars, foldersVars, recoveryVars, poolVars, chunkVars>> => BudgetInv'
  <2>1. [ComponentsNext]_<<part, vars, foldersVars, recoveryVars, poolVars, chunkVars>> => [PoolNext]_poolVars
    BY DEF ComponentsNext, PlannerMoves, FoldersMove, RecoveryMoves, PoolMoves, TransfersMove
  <2> QED BY <2>1, BudgetStep
<1>3. BudgetInv => BudgetIsKept
  BY FoldIsTotal DEF BudgetInv, BudgetIsKept
<1> QED BY <1>1, <1>2, <1>3, PTL DEF ComponentsSpec

-----------------------------------------------------------------------------
(* The transfers in chunks.                                                 *)

Phases == {"chunks", "lock", "check", "commit", "resolved", "rejected"}

TransferType ==
  [upload : BOOLEAN, chunks : Nat, next : Nat, busy : SUBSET Nat, landed : SUBSET Nat,
   failed : BOOLEAN, made : BOOLEAN, phase : Phases]

(* A transfer x in itself, and whether the lock is its own: until a request *)
(* fails, every chunk begun is under way or has landed.                     *)
SoundTransfer(x, mine) ==
  /\ x.next <= x.chunks
  /\ x.busy \subseteq 0 .. x.next - 1 /\ x.landed \subseteq 0 .. x.next - 1
  /\ ~x.failed => x.busy \union x.landed = 0 .. x.next - 1
  /\ x.phase # "chunks" => x.busy = {}
  /\ x.phase \in {"lock", "check", "commit", "resolved"} \/ x.made => x.landed = 0 .. x.chunks - 1
  /\ x.made => x.phase \in {"resolved", "rejected"}
  /\ x.phase = "resolved" /\ x.upload => x.made
  /\ x.phase \in {"check", "commit"} /\ x.chunks > 0 => mine
  /\ mine => x.phase \in {"check", "commit"}

Mine(t) == holder = t

TransfersTyped == transfer \in [Transfers -> TransferType]

ChunkInv == TransfersTyped /\ \A t \in Transfers : SoundTransfer(transfer[t], Mine(t))

LEMMA NewTransferIsSound ==
  ASSUME NEW upload \in BOOLEAN, NEW chunks \in Nat
  PROVE  NewTransfer(upload, chunks) \in TransferType /\ SoundTransfer(NewTransfer(upload, chunks), FALSE)
<1>1. NewTransfer(upload, chunks) \in TransferType
  BY DEF NewTransfer, TransferType, Phases
<1>2. SoundTransfer(NewTransfer(upload, chunks), FALSE)
  BY DEF NewTransfer, SoundTransfer
<1> QED BY <1>1, <1>2

LEMMA ChunkStarts == ChunkInit \/ TransfersRest => ChunkInv
<1>1. ASSUME ChunkInit PROVE ChunkInv
  <2>1. PICK upload \in [Transfers -> BOOLEAN], chunks \in [Transfers -> 0 .. MaxChunks] :
          transfer = [t \in Transfers |-> NewTransfer(upload[t], chunks[t])]
    BY <1>1 DEF ChunkInit
  <2>2. ASSUME NEW t \in Transfers
        PROVE  transfer[t] \in TransferType /\ SoundTransfer(transfer[t], FALSE) /\ Mine(t) = FALSE
    <3>1. upload[t] \in BOOLEAN /\ chunks[t] \in Nat /\ transfer[t] = NewTransfer(upload[t], chunks[t])
      BY <2>1, ChunkAssumption
    <3>2. Mine(t) = FALSE
      BY <1>1, ChunkAssumption DEF Mine, ChunkInit
    <3> QED BY <3>1, <3>2, NewTransferIsSound
  <2>3. TransfersTyped
    BY <2>1, <2>2 DEF TransfersTyped
  <2> QED BY <2>2, <2>3 DEF ChunkInv
<1>2. ASSUME TransfersRest PROVE ChunkInv
  <2> DEFINE n == NewTransfer(FALSE, 0)
             x == [n EXCEPT !.phase = "resolved"]
  <2>1. x \in TransferType /\ SoundTransfer(x, FALSE)
    <3>1. /\ n.upload = FALSE /\ n.chunks = 0 /\ n.next = 0 /\ n.busy = {} /\ n.landed = {}
          /\ n.failed = FALSE /\ n.made = FALSE
      BY DEF NewTransfer
    <3>2. n \in TransferType /\ "resolved" \in Phases
      BY NewTransferIsSound DEF Phases
    <3> HIDE DEF n
    <3>3. x \in TransferType
      BY <3>2 DEF TransferType
    <3>4. /\ x.upload = n.upload /\ x.chunks = n.chunks /\ x.next = n.next /\ x.busy = n.busy
          /\ x.landed = n.landed /\ x.failed = n.failed /\ x.made = n.made /\ x.phase = "resolved"
      BY <3>2 DEF TransferType
    <3> HIDE DEF x
    <3>5. SoundTransfer(x, FALSE)
      BY <3>1, <3>4 DEF SoundTransfer
    <3> QED BY <3>3, <3>5
  <2>2. transfer = [t \in Transfers |-> x]
    BY <1>2 DEF TransfersRest
  <2> HIDE DEF x
  <2>3. \A t \in Transfers : Mine(t) = FALSE
    BY <1>2, ChunkAssumption DEF Mine, TransfersRest
  <2> QED BY <2>1, <2>2, <2>3 DEF ChunkInv, TransfersTyped
<1> QED BY <1>1, <1>2

(* A step moves one transfer, and the lock is not moved between others.     *)
LEMMA ChunkMove ==
  ASSUME ChunkInv, NEW t \in Transfers, NEW x, NEW mine \in BOOLEAN, x \in TransferType, SoundTransfer(x, mine),
         transfer' = [transfer EXCEPT ![t] = x], Mine(t)' <=> mine,
         \A u \in Transfers : u # t => (Mine(u)' <=> Mine(u))
  PROVE  ChunkInv'
<1>1. TransfersTyped'
  BY DEF ChunkInv, TransfersTyped
<1>2. ASSUME NEW u \in Transfers PROVE SoundTransfer(transfer[u], Mine(u))'
  <2>1. CASE u = t
    <3>1. transfer'[u] = x /\ (Mine(u)' <=> mine)
      BY <2>1 DEF ChunkInv, TransfersTyped
    <3>2. SoundTransfer(x, mine)
      OBVIOUS
    <3> QED BY <3>1, <3>2 DEF SoundTransfer
  <2>2. CASE u # t
    <3>1. transfer'[u] = transfer[u] /\ (Mine(u)' <=> Mine(u))
      BY <2>2 DEF ChunkInv, TransfersTyped
    <3>2. SoundTransfer(transfer[u], Mine(u))
      BY DEF ChunkInv
    <3> QED BY <3>1, <3>2 DEF SoundTransfer
  <2> QED BY <2>1, <2>2
<1> QED BY <1>1, <1>2 DEF ChunkInv

LEMMA ChunkFacts ==
  ASSUME ChunkInv, NEW t \in Transfers
  PROVE  transfer[t] \in TransferType /\ SoundTransfer(transfer[t], Mine(t)) /\ Mine(t) \in BOOLEAN
  BY DEF ChunkInv, TransfersTyped, Mine

LEMMA ChunksMove ==
  ASSUME ChunkInv, NEW t \in Transfers,
         \/ BeginChunk(t) \/ \E i \in transfer[t].busy, fails \in BOOLEAN : Returned(t, i, fails)
  PROVE  ChunkInv'
<1> DEFINE old == transfer[t]
<1>0. old \in TransferType /\ SoundTransfer(old, Mine(t)) /\ Mine(t) \in BOOLEAN
  BY ChunkFacts
<1>1. CASE BeginChunk(t)
  <2> DEFINE x == [old EXCEPT !.next = old.next + 1, !.busy = old.busy \cup {old.next}]
  <2>1. /\ old.phase = "chunks" /\ ~old.failed /\ old.next < old.chunks /\ holder' = holder
        /\ transfer' = [transfer EXCEPT ![t] = x]
    BY <1>1 DEF BeginChunk, In, ChunkInv, TransfersTyped
  <2> HIDE DEF old
  <2>2. x \in TransferType
    <3>1. old.next + 1 \in Nat /\ old.busy \cup {old.next} \in SUBSET Nat
      BY <1>0 DEF TransferType
    <3> QED BY <1>0, <3>1 DEF TransferType
  <2>3. /\ x.next = old.next + 1 /\ x.busy = old.busy \cup {old.next} /\ x.landed = old.landed
        /\ x.chunks = old.chunks /\ x.failed = old.failed /\ x.made = old.made /\ x.phase = old.phase
        /\ x.upload = old.upload
    BY <1>0 DEF TransferType
  <2>4. /\ old.next \in Nat /\ old.chunks \in Nat /\ old.busy \subseteq Nat /\ old.landed \subseteq Nat
    BY <1>0 DEF TransferType
  <2> HIDE DEF x
  <2>5. SoundTransfer(x, Mine(t))
    BY <1>0, <2>1, <2>3, <2>4 DEF SoundTransfer
  <2> QED BY <1>0, <2>1, <2>2, <2>5, ChunkMove DEF Mine
<1>2. ASSUME NEW i \in old.busy, NEW fails \in BOOLEAN, Returned(t, i, fails) PROVE ChunkInv'
  <2> DEFINE landed == IF fails THEN old.landed ELSE old.landed \cup {i}
             broken == old.failed \/ fails
             x == [old EXCEPT !.busy = old.busy \ {i}, !.landed = landed, !.failed = broken]
  <2>1. /\ old.phase = "chunks" /\ holder' = holder
        /\ transfer' = [transfer EXCEPT ![t] = x]
    BY <1>2 DEF Returned, In, ChunkInv, TransfersTyped
  <2>4. /\ old.next \in Nat /\ old.chunks \in Nat /\ old.busy \subseteq Nat /\ old.landed \subseteq Nat
        /\ old.failed \in BOOLEAN
    BY <1>0 DEF TransferType
  <2>5. /\ landed \subseteq Nat /\ broken \in BOOLEAN
        /\ (broken <=> old.failed \/ fails) /\ landed \in {old.landed, old.landed \cup {i}}
        /\ ~broken => landed = old.landed \cup {i}
    BY <2>4
  <2> HIDE DEF old, landed, broken
  <2>2. x \in TransferType
    BY <1>0, <2>5 DEF TransferType
  <2>3. /\ x.next = old.next /\ x.busy = old.busy \ {i} /\ x.landed = landed
        /\ x.chunks = old.chunks /\ x.failed = broken /\ x.made = old.made /\ x.phase = old.phase
        /\ x.upload = old.upload
    BY <1>0 DEF TransferType
  <2> HIDE DEF x
  <2>6. SoundTransfer(x, Mine(t))
    BY <1>0, <1>2, <2>1, <2>3, <2>4, <2>5 DEF SoundTransfer
  <2> QED BY <1>0, <2>1, <2>2, <2>6, ChunkMove DEF Mine
<1> QED BY <1>1, <1>2

LEMMA PhasesMove ==
  ASSUME ChunkInv, NEW t \in Transfers,
         \/ EndDownload(t) \/ SealUpload(t) \/ SealEmpty(t) \/ AcquireLock(t)
         \/ \E passes \in BOOLEAN : CheckCommit(t, passes)
  PROVE  ChunkInv'
<1> DEFINE old == transfer[t]
           Moved(phase) == [old EXCEPT !.phase = phase]
<1>0. old \in TransferType /\ SoundTransfer(old, Mine(t)) /\ Mine(t) \in BOOLEAN
  BY ChunkFacts
<1>1. ASSUME NEW phase, Move(t, phase) PROVE transfer' = [transfer EXCEPT ![t] = Moved(phase)]
  BY <1>1 DEF Move, ChunkInv, TransfersTyped
<1>2. ASSUME NEW phase \in Phases
      PROVE  /\ Moved(phase) \in TransferType
             /\ Moved(phase).next = old.next /\ Moved(phase).busy = old.busy
             /\ Moved(phase).landed = old.landed /\ Moved(phase).chunks = old.chunks
             /\ Moved(phase).failed = old.failed /\ Moved(phase).made = old.made
             /\ Moved(phase).upload = old.upload /\ Moved(phase).phase = phase
  <2> HIDE DEF old
  <2>1. Moved(phase) \in TransferType
    BY <1>0 DEF TransferType
  <2>2. /\ Moved(phase).next = old.next /\ Moved(phase).busy = old.busy
        /\ Moved(phase).landed = old.landed /\ Moved(phase).chunks = old.chunks
        /\ Moved(phase).failed = old.failed /\ Moved(phase).made = old.made
        /\ Moved(phase).upload = old.upload /\ Moved(phase).phase = phase
    BY <1>0 DEF TransferType
  <2> QED BY <2>1, <2>2
<1>3. /\ old.next \in Nat /\ old.chunks \in Nat /\ old.busy \subseteq Nat /\ old.landed \subseteq Nat
      /\ old.failed \in BOOLEAN
  BY <1>0 DEF TransferType
<1>4. Phases = {"chunks", "lock", "check", "commit", "resolved", "rejected"}
  BY DEF Phases
<1> HIDE DEF Moved
<1>5. CASE EndDownload(t) \/ SealUpload(t) \/ SealEmpty(t)
  <2>1. PICK phase \in Phases :
          /\ Move(t, phase) /\ holder' = holder /\ old.phase = "chunks"
          /\ \/ phase = "rejected" /\ old.busy = {}
             \/ phase = "resolved" /\ ~old.upload /\ ~old.failed /\ old.busy = {} /\ old.next = old.chunks
             \/ phase = "lock" /\ ~old.failed /\ old.busy = {} /\ old.next = old.chunks
             \/ phase = "check" /\ old.chunks = 0
    BY <1>4, <1>5 DEF EndDownload, SealUpload, SealEmpty, ChunksEnd, In
  <2> HIDE DEF old
  <2>2. SoundTransfer(Moved(phase), Mine(t))
    <3>1. /\ old.next <= old.chunks /\ old.busy \subseteq 0 .. old.next - 1
          /\ old.landed \subseteq 0 .. old.next - 1 /\ ~old.made /\ Mine(t) = FALSE
          /\ ~old.failed => old.busy \union old.landed = 0 .. old.next - 1
      BY <1>0, <2>1 DEF SoundTransfer
    <3>2. CASE phase = "rejected" /\ old.busy = {}
      BY <1>2, <2>1, <3>1, <3>2 DEF SoundTransfer
    <3>3. CASE ~old.failed /\ old.busy = {} /\ old.next = old.chunks /\ phase \in {"resolved", "lock"}
               /\ (phase = "resolved" => ~old.upload)
      <4>1. old.landed = 0 .. old.chunks - 1
        BY <3>1, <3>3
      <4> QED BY <1>2, <2>1, <3>1, <3>3, <4>1 DEF SoundTransfer
    <3>4. CASE phase = "check" /\ old.chunks = 0
      <4>1. old.next = 0
        BY <1>3, <3>1, <3>4
      <4>2. 0 .. old.next - 1 = {} /\ 0 .. old.chunks - 1 = {}
        BY <3>4, <4>1
      <4>3. old.busy = {} /\ old.landed = {}
        BY <3>1, <4>2
      <4>4. /\ Moved(phase).next = 0 /\ Moved(phase).busy = {} /\ Moved(phase).landed = {}
            /\ Moved(phase).chunks = 0 /\ ~Moved(phase).made /\ Moved(phase).phase = "check"
        BY <1>2, <2>1, <3>1, <3>4, <4>1, <4>3
      <4>5. 0 .. 0 - 1 = {}
        OBVIOUS
      <4> QED BY <3>1, <4>4, <4>5 DEF SoundTransfer
    <3> QED BY <2>1, <3>2, <3>3, <3>4
  <2> QED BY <1>0, <1>1, <1>2, <2>1, <2>2, ChunkMove DEF Mine
<1>6. CASE AcquireLock(t)
  <2>1. Move(t, "check") /\ holder' = t /\ holder = Nobody /\ old.phase = "lock"
    BY <1>6 DEF AcquireLock, In
  <2>2. "check" \in Phases
    BY <1>4
  <2> HIDE DEF old
  <2>3. SoundTransfer(Moved("check"), TRUE)
    BY <1>0, <1>2, <1>3, <2>1, <2>2 DEF SoundTransfer
  <2>4. (Mine(t)' <=> TRUE) /\ \A u \in Transfers : u # t => (Mine(u)' <=> Mine(u))
    BY <2>1, ChunkAssumption DEF Mine
  <2> QED BY <1>1, <1>2, <2>1, <2>2, <2>3, <2>4, ChunkMove
<1>7. ASSUME NEW passes \in BOOLEAN, CheckCommit(t, passes) PROVE ChunkInv'
  <2>1. CASE passes
    <3>1. Move(t, "commit") /\ holder' = holder /\ old.phase = "check" /\ "commit" \in Phases
      BY <1>4, <1>7, <2>1 DEF CheckCommit, In
    <3> HIDE DEF old
    <3>2. SoundTransfer(Moved("commit"), Mine(t))
      BY <1>0, <1>2, <1>3, <3>1 DEF SoundTransfer
    <3> QED BY <1>0, <1>1, <1>2, <3>1, <3>2, ChunkMove DEF Mine
  <2>2. CASE ~passes
    <3>1. Move(t, "rejected") /\ Released(t) /\ old.phase = "check" /\ "rejected" \in Phases
      BY <1>4, <1>7, <2>2 DEF CheckCommit, In
    <3> HIDE DEF old
    <3>2. SoundTransfer(Moved("rejected"), FALSE)
      BY <1>0, <1>2, <1>3, <3>1 DEF SoundTransfer
    <3>3. (Mine(t)' <=> FALSE) /\ \A u \in Transfers : u # t => (Mine(u)' <=> Mine(u))
      BY <3>1, ChunkAssumption DEF Mine, Released
    <3> QED BY <1>1, <1>2, <3>1, <3>2, <3>3, ChunkMove
  <2> QED BY <2>1, <2>2
<1> QED BY <1>5, <1>6, <1>7

LEMMA CommitMoves ==
  ASSUME ChunkInv, NEW t \in Transfers, NEW made \in BOOLEAN, NEW answered \in BOOLEAN,
         CommitUpload(t, made, answered)
  PROVE  ChunkInv'
<1> DEFINE old == transfer[t]
           phase == IF answered THEN "resolved" ELSE "rejected"
           x == [old EXCEPT !.made = made, !.phase = phase]
<1>0. old \in TransferType /\ SoundTransfer(old, Mine(t)) /\ Mine(t) \in BOOLEAN
  BY ChunkFacts
<1>1. /\ old.phase = "commit" /\ (answered => made) /\ Released(t)
      /\ transfer' = [transfer EXCEPT ![t] = x]
  BY DEF CommitUpload, In, ChunkInv, TransfersTyped
<1>2. phase \in Phases /\ phase \in {"resolved", "rejected"} /\ (phase = "resolved" => made)
  BY <1>1 DEF Phases
<1> HIDE DEF old, phase
<1>3. x \in TransferType
  BY <1>0, <1>2 DEF TransferType
<1>4. /\ x.next = old.next /\ x.busy = old.busy /\ x.landed = old.landed /\ x.chunks = old.chunks
      /\ x.failed = old.failed /\ x.made = made /\ x.upload = old.upload /\ x.phase = phase
  BY <1>0 DEF TransferType
<1> HIDE DEF x
<1>5. SoundTransfer(x, FALSE)
  BY <1>0, <1>1, <1>2, <1>4 DEF SoundTransfer
<1>6. (Mine(t)' <=> FALSE) /\ \A u \in Transfers : u # t => (Mine(u)' <=> Mine(u))
  BY <1>1, ChunkAssumption DEF Mine, Released
<1> QED BY <1>1, <1>3, <1>5, <1>6, ChunkMove

LEMMA ChunkStep == ChunkInv /\ [ChunkNext]_chunkVars => ChunkInv'
<1> SUFFICES ASSUME ChunkInv, [ChunkNext]_chunkVars PROVE ChunkInv'
  OBVIOUS
<1>1. CASE UNCHANGED chunkVars
  BY <1>1 DEF chunkVars, ChunkInv, TransfersTyped, Mine
<1>2. ASSUME NEW t \in Transfers, NEW i \in transfer[t].busy, NEW fails \in BOOLEAN,
             UploadChunk(t, i, fails) \/ DownloadChunk(t, i, fails)
      PROVE  ChunkInv'
  <2>1. Returned(t, i, fails)
    BY <1>2 DEF UploadChunk, DownloadChunk
  <2> QED BY <2>1, ChunksMove
<1> QED BY <1>1, <1>2, ChunksMove, PhasesMove, CommitMoves DEF ChunkNext

LEMMA OutcomesFollow == PoolInv /\ ChunkInv => OutcomesAreFinal
<1> SUFFICES ASSUME PoolInv, ChunkInv PROVE OutcomesAreFinal
  OBVIOUS
<1>1. ASSUME NEW t \in Transfers
      PROVE  /\ transfer[t].made => Whole(t)
             /\ In(t, "resolved") => Whole(t) /\ (transfer[t].upload => transfer[t].made)
             /\ Over(t) => transfer[t].busy = {} /\ holder # t
             /\ In(t, "commit") /\ transfer[t].chunks > 0 => holder = t
  BY ChunkFacts DEF SoundTransfer, Whole, In, Over, Mine
<1> QED BY <1>1 DEF OutcomesAreFinal, TransfersAreWhole, PoolInv

(* No run of hashing jobs and no transfer is taken for complete before it   *)
(* is, for any number of jobs, workers and chunks: the small jobs start in  *)
(* their order, so none before the next one is left out, and of the chunks  *)
(* begun each is under way or has landed (byte-bounded-pool.ts:92,          *)
(* bounded-promise-pool.ts:15).                                             *)
THEOREM OutcomesStayFinal == ComponentsSpec => []OutcomesAreFinal
<1>1. ComponentsInit => PoolInv /\ ChunkInv
  BY PoolStarts, ChunkStarts DEF ComponentsInit
<1>2. PoolInv /\ ChunkInv /\ [ComponentsNext]_<<part, vars, foldersVars, recoveryVars, poolVars, chunkVars>>
      => (PoolInv /\ ChunkInv)'
  <2>1. [ComponentsNext]_<<part, vars, foldersVars, recoveryVars, poolVars, chunkVars>>
        => [PoolNext]_poolVars /\ [ChunkNext]_chunkVars
    BY DEF ComponentsNext, PlannerMoves, FoldersMove, RecoveryMoves, PoolMoves, TransfersMove
  <2> QED BY <2>1, PoolStep, ChunkStep
<1> QED BY <1>1, <1>2, OutcomesFollow, PTL DEF ComponentsSpec

-----------------------------------------------------------------------------
(* The folders. *)

(* A tree of one side: every file lies in a folder of the tree.             *)
Trees == {tree \in [dirs : SUBSET Dirs, files : SUBSET Dirs] : tree.files \subseteq tree.dirs}

PruneSteps == {"look", "stat", "gone", "again", "find", "list", "trash"}

Cursors == [dir : Dirs, lost : BOOLEAN, late : SUBSET Dirs, side : Sides, step : PruneSteps]

FolderPhases == {"idle", "scan", "confirm", "create", "files", "prune"}

FolderPasses ==
  [phase : FolderPhases, dir : Directions, cached : BOOLEAN, attended : BOOLEAN, stale : SUBSET Dirs,
   local : Trees, remote : Trees,
   read : SUBSET Sides, creates : SUBSET Dirs, files : SUBSET Dirs, prunes : SUBSET Dirs,
   cur : Cursors \union {NoDir}, applied : SUBSET Dirs, present : SUBSET Dirs]

FoldersTyped ==
  /\ local \in Trees /\ remote \in Trees /\ baseline \subseteq Dirs /\ pass \in FolderPasses
  /\ unmade \in [Sides -> SUBSET Dirs]

(* A folder whose deletion is meant is recorded, and a two-way pass creates *)
(* no folder that is.                                                       *)
UnmadeAreRecorded ==
  /\ \A side \in Sides : unmade[side] \subseteq baseline
  /\ pass.phase \in {"confirm", "create"} /\ pass.dir = "both" => pass.creates \intersect baseline = {}

(* Once the content of the folder to prune has been looked at, it holds no  *)
(* files but those that came since.                                         *)
SoundCursor(cur, tree) ==
  /\ cur.step \in {"stat", "gone"} => cur.side = "local"
  /\ cur.step \in {"again", "find", "list"} => cur.side = "remote"
  /\ cur.step \in {"stat", "trash"} /\ ~cur.lost => tree.files \intersect Beneath(cur.dir) \subseteq cur.late

CursorIsSound == pass.cur # NoDir => pass.phase = "prune" /\ SoundCursor(pass.cur, At(pass.cur.side))

FoldersInv == FoldersTyped /\ UnmadeAreRecorded /\ CursorIsSound

LEMMA AboveFacts ==
  /\ Above \in [Dirs -> SUBSET Dirs]
  /\ \A f \in Dirs : f \in Above[f] /\ f \in Beneath(f) /\ Beneath(f) \subseteq Dirs
<1>1. Above \in [Dirs -> SUBSET Dirs]
  BY DEF Above
<1>2. ASSUME NEW f \in Dirs PROVE f \in Above[f]
  BY DEF Above
<1> QED BY <1>1, <1>2 DEF Beneath

LEMMA TreeFacts ==
  ASSUME NEW tree
  PROVE  tree \in Trees <=> tree \in [dirs : SUBSET Dirs, files : SUBSET Dirs] /\ tree.files \subseteq tree.dirs
  BY DEF Trees

(* What becomes of a tree.                                                  *)
LEMMA FolderMade ==
  ASSUME NEW tree \in Trees, NEW f \in Dirs
  PROVE  WithFolder(tree, f) \in Trees /\ WithFolder(tree, f).files = tree.files
<1> DEFINE dirs == tree.dirs \union Above[f]
<1>1. WithFolder(tree, f) = [tree EXCEPT !.dirs = dirs] /\ dirs \in SUBSET Dirs
  BY AboveFacts, TreeFacts DEF WithFolder
<1> HIDE DEF dirs
<1>2. /\ WithFolder(tree, f) \in [dirs : SUBSET Dirs, files : SUBSET Dirs]
      /\ WithFolder(tree, f).files = tree.files /\ WithFolder(tree, f).dirs = dirs
  BY <1>1, TreeFacts
<1>3. tree.files \subseteq dirs
  BY TreeFacts DEF dirs
<1> QED BY <1>2, <1>3, TreeFacts

LEMMA FileMade ==
  ASSUME NEW tree \in Trees, NEW f \in Dirs
  PROVE  WithFile(tree, f) \in Trees /\ WithFile(tree, f).files = tree.files \union {f}
<1> DEFINE made == WithFolder(tree, f)
           files == tree.files \union {f}
<1>0. f \in made.dirs
  <2>1. tree \in [dirs : SUBSET Dirs, files : SUBSET Dirs]
    BY TreeFacts
  <2>2. made.dirs = tree.dirs \union Above[f]
    BY <2>1 DEF WithFolder
  <2> QED BY <2>2, AboveFacts
<1>1. made \in Trees /\ made.files = tree.files
  BY FolderMade
<1>2. WithFile(tree, f) = [made EXCEPT !.files = files]
  BY <1>1 DEF WithFile
<1>3. files \in SUBSET Dirs /\ files \subseteq made.dirs
  BY <1>0, <1>1, TreeFacts
<1> HIDE DEF made, files
<1>4. /\ WithFile(tree, f) \in [dirs : SUBSET Dirs, files : SUBSET Dirs]
      /\ WithFile(tree, f).files = files /\ WithFile(tree, f).dirs = made.dirs
  BY <1>1, <1>2, <1>3, TreeFacts
<1> QED BY <1>3, <1>4, TreeFacts DEF files

LEMMA FolderGone ==
  ASSUME NEW tree \in Trees, NEW f \in Dirs
  PROVE  Without(tree, f) \in Trees /\ Without(tree, f).files \subseteq tree.files
  BY TreeFacts DEF Without

LEMMA FileGone ==
  ASSUME NEW tree \in Trees, NEW f \in Dirs
  PROVE  LET new == [tree EXCEPT !.files = @ \ {f}] IN new \in Trees /\ new.files \subseteq tree.files
<1> DEFINE new == [tree EXCEPT !.files = @ \ {f}]
<1>1. tree \in [dirs : SUBSET Dirs, files : SUBSET Dirs] /\ tree.files \subseteq tree.dirs
  BY TreeFacts
<1>2. /\ new \in [dirs : SUBSET Dirs, files : SUBSET Dirs]
      /\ new.files = tree.files \ {f} /\ new.dirs = tree.dirs
  BY <1>1
<1> QED BY <1>1, <1>2, TreeFacts

LEMMA EmptyFolder ==
  ASSUME NEW tree \in Trees, NEW f \in Dirs, IsEmpty(tree, f)
  PROVE  tree.files \intersect Beneath(f) = {}
  BY TreeFacts DEF IsEmpty

LEMMA FoldersStart == FoldersInit => FoldersInv
<1> SUFFICES ASSUME FoldersInit PROVE FoldersInv
  OBVIOUS
<1>1. EmptyTree \in Trees /\ WholeTree \in Trees
  BY DEF EmptyTree, WholeTree, Trees
<1>2. Idle \in FolderPasses /\ Idle.phase = "idle" /\ Idle.cur = NoDir
  <2>1. "idle" \in FolderPhases /\ "both" \in Directions
    BY FoldersAssumption DEF FolderPhases
  <2> QED BY <1>1, <2>1 DEF Idle, FolderPasses
<1>3. local \in Trees /\ remote \in Trees /\ baseline \subseteq Dirs
  BY <1>1, TreeFacts DEF FoldersInit
<1>4. pass = Idle /\ unmade = [s \in Sides |-> {}]
  BY DEF FoldersInit
<1> QED BY <1>2, <1>3, <1>4 DEF FoldersInv, FoldersTyped, UnmadeAreRecorded, CursorIsSound

LEMMA PassFacts ==
  ASSUME FoldersInv
  PROVE  /\ pass \in FolderPasses /\ pass.phase \in FolderPhases /\ pass.dir \in Directions
         /\ pass.local \in Trees /\ pass.remote \in Trees /\ pass.read \subseteq Sides
         /\ pass.creates \subseteq Dirs /\ pass.files \subseteq Dirs /\ pass.prunes \subseteq Dirs
         /\ pass.applied \subseteq Dirs /\ pass.present \subseteq Dirs
         /\ pass.stale \subseteq Dirs /\ pass.attended \in BOOLEAN
         /\ pass.cur \in Cursors \union {NoDir}
         /\ local \in Trees /\ remote \in Trees /\ \A side \in Sides : At(side) \in Trees
         /\ baseline \subseteq Dirs /\ unmade \in [Sides -> SUBSET Dirs]
         /\ pass.phase # "prune" => pass.cur = NoDir
<1>1. /\ pass \in FolderPasses /\ local \in Trees /\ remote \in Trees /\ baseline \subseteq Dirs
      /\ unmade \in [Sides -> SUBSET Dirs]
  BY DEF FoldersInv, FoldersTyped
<1>2. /\ pass.phase \in FolderPhases /\ pass.dir \in Directions
      /\ pass.local \in Trees /\ pass.remote \in Trees /\ pass.read \subseteq Sides
      /\ pass.creates \subseteq Dirs /\ pass.files \subseteq Dirs /\ pass.prunes \subseteq Dirs
      /\ pass.applied \subseteq Dirs /\ pass.present \subseteq Dirs
      /\ pass.stale \subseteq Dirs /\ pass.attended \in BOOLEAN
      /\ pass.cur \in Cursors \union {NoDir}
  BY <1>1 DEF FolderPasses
<1>3. \A side \in Sides : At(side) \in Trees
  BY <1>1 DEF At
<1>4. pass.phase # "prune" => pass.cur = NoDir
  BY DEF FoldersInv, CursorIsSound
<1> QED BY <1>1, <1>2, <1>3, <1>4

(* A step that leaves no folder half pruned.                                *)
LEMMA Elsewhere ==
  ASSUME FoldersTyped', UnmadeAreRecorded', pass'.cur = NoDir
  PROVE  FoldersInv'
  BY DEF FoldersInv, CursorIsSound

LEMMA IdleFacts ==
  Idle \in FolderPasses /\ Idle.phase = "idle" /\ Idle.cur = NoDir
<1>1. EmptyTree \in Trees
  BY DEF EmptyTree, Trees
<1>2. "idle" \in FolderPhases /\ "both" \in Directions
  BY FoldersAssumption DEF FolderPhases
<1> QED BY <1>1, <1>2 DEF Idle, FolderPasses

(* The pass ends, or has not planned yet.                                   *)
LEMMA PassEnds ==
  ASSUME FoldersInv, pass' = Idle, UNCHANGED <<local, remote, baseline, unmade>>
  PROVE  FoldersInv'
<1>1. FoldersTyped'
  BY IdleFacts DEF FoldersInv, FoldersTyped
<1>2. UnmadeAreRecorded'
  BY IdleFacts DEF FoldersInv, UnmadeAreRecorded
<1> QED BY <1>1, <1>2, IdleFacts, Elsewhere

LEMMA ReadingKeeps ==
  ASSUME FoldersInv, \/ ScanRemote
                     \/ \E dir \in Directions : StartPass(dir)
                     \/ \E cached \in BOOLEAN : AutomaticPass(cached)
  PROVE  FoldersInv'
<1>1. CASE ScanRemote
  <2> DEFINE read == pass.read \union {"remote"}
  <2>1. /\ pass.phase = "scan" /\ pass' = [pass EXCEPT !.remote = remote, !.read = read]
        /\ UNCHANGED <<local, remote, baseline, unmade>>
    BY <1>1 DEF ScanRemote
  <2>2. read \subseteq Sides
    BY PassFacts DEF Sides
  <2> HIDE DEF read
  <2>3. pass' \in FolderPasses
    BY <2>1, <2>2, PassFacts DEF FolderPasses
  <2>4. pass'.phase = "scan" /\ pass'.cur = NoDir
    BY <2>1, PassFacts DEF FolderPasses
  <2>5. FoldersTyped'
    BY <2>1, <2>3 DEF FoldersInv, FoldersTyped
  <2>6. UnmadeAreRecorded'
    BY <2>1, <2>4 DEF FoldersInv, UnmadeAreRecorded
  <2> QED BY <2>4, <2>5, <2>6, Elsewhere
<1>2. ASSUME NEW dir \in Directions, NEW cached \in BOOLEAN, NEW attended \in BOOLEAN,
             NEW tree \in {remote, EmptyTree}, NEW read \in {{}, {"remote"}},
             pass' = [Idle EXCEPT !.phase = "scan", !.dir = dir, !.cached = cached, !.attended = attended,
                                  !.remote = tree, !.read = read],
             UNCHANGED <<local, remote, baseline, unmade>>
      PROVE  FoldersInv'
  <2>1. tree \in Trees /\ read \subseteq Sides /\ "scan" \in FolderPhases
    BY PassFacts DEF Sides, EmptyTree, Trees, FolderPhases
  <2>2. pass' \in FolderPasses
    BY <1>2, <2>1, IdleFacts DEF FolderPasses
  <2>3. pass'.phase = "scan" /\ pass'.cur = NoDir
    BY <1>2, IdleFacts DEF FolderPasses
  <2>4. FoldersTyped'
    BY <1>2, <2>2 DEF FoldersInv, FoldersTyped
  <2>5. UnmadeAreRecorded'
    BY <1>2, <2>3 DEF FoldersInv, UnmadeAreRecorded
  <2> QED BY <2>3, <2>4, <2>5, Elsewhere
<1>i. /\ Idle \in FolderPasses /\ Idle.dir = "both" /\ Idle.cached = FALSE /\ Idle.attended = FALSE
      /\ Idle.remote = EmptyTree /\ Idle.read = {} /\ "both" \in Directions
  BY IdleFacts, FoldersAssumption DEF Idle
<1>3. ASSUME NEW dir \in Directions, StartPass(dir) PROVE FoldersInv'
  <2>1. /\ pass' = [Idle EXCEPT !.phase = "scan", !.dir = dir, !.attended = TRUE]
        /\ UNCHANGED <<local, remote, baseline, unmade>>
    BY <1>3 DEF StartPass
  <2>2. pass' = [Idle EXCEPT !.phase = "scan", !.dir = dir, !.cached = FALSE, !.attended = TRUE,
                             !.remote = EmptyTree, !.read = {}]
    BY <1>i, <2>1 DEF FolderPasses
  <2> QED BY <1>2, <2>1, <2>2
<1>4. ASSUME NEW cached \in BOOLEAN, AutomaticPass(cached) PROVE FoldersInv'
  <2> DEFINE tree == IF cached THEN remote ELSE EmptyTree
             read == IF cached THEN {"remote"} ELSE {}
  <2>1. /\ pass' = [Idle EXCEPT !.phase = "scan", !.cached = cached, !.remote = tree, !.read = read]
        /\ UNCHANGED <<local, remote, baseline, unmade>>
    BY <1>4 DEF AutomaticPass
  <2>2. tree \in {remote, EmptyTree} /\ read \in {{}, {"remote"}}
    OBVIOUS
  <2> HIDE DEF tree, read
  <2>3. pass' = [Idle EXCEPT !.phase = "scan", !.dir = "both", !.cached = cached, !.attended = FALSE,
                             !.remote = tree, !.read = read]
    BY <1>i, <2>1 DEF FolderPasses
  <2> QED BY <1>2, <1>i, <2>1, <2>2, <2>3
<1> QED BY <1>1, <1>3, <1>4

LEMMA PlanKeeps == ASSUME FoldersInv, Plan PROVE FoldersInv'
<1> DEFINE creates == ToCreate(local.dirs, pass.remote.dirs)
           prunes == ToPrune(local.dirs, pass.remote.dirs)
           files == Transferred(local.files, pass.remote.files)
<1>1. PICK asks \in BOOLEAN :
        pass' = [pass EXCEPT !.phase = IF asks THEN "confirm" ELSE "create",
                             !.attended = pass.attended /\ asks, !.local = local,
                             !.creates = creates, !.prunes = prunes, !.files = files]
  BY Zenon DEF Plan, Questions
<1>u. UNCHANGED <<local, remote, baseline, unmade>>
  BY DEF Plan
<1>2. /\ local.dirs \subseteq Dirs /\ pass.remote.dirs \subseteq Dirs
      /\ local.files \subseteq Dirs /\ pass.remote.files \subseteq Dirs
  BY PassFacts, TreeFacts
<1>3. creates \subseteq Dirs /\ prunes \subseteq Dirs /\ files \subseteq Dirs
  BY <1>2 DEF ToCreate, ToPrune, Transferred
<1>4. pass.dir = "both" => creates \intersect baseline = {}
  BY DEF ToCreate
<1> DEFINE phase == IF asks THEN "confirm" ELSE "create"
           attended == pass.attended /\ asks
<1>p. phase \in FolderPhases /\ phase # "prune" /\ attended \in BOOLEAN /\ pass.cur = NoDir
  BY PassFacts DEF FolderPhases, Plan
<1>q. pass' = [pass EXCEPT !.phase = phase, !.attended = attended, !.local = local,
                           !.creates = creates, !.prunes = prunes, !.files = files]
  BY <1>1
<1> HIDE DEF creates, prunes, files, phase, attended
<1>5. pass' \in FolderPasses
  BY <1>q, <1>p, <1>3, PassFacts DEF FolderPasses
<1>6. pass'.creates = creates /\ pass'.dir = pass.dir /\ pass'.cur = NoDir
  BY <1>q, <1>p, PassFacts DEF FolderPasses
<1>7. FoldersTyped'
  BY <1>u, <1>5 DEF FoldersInv, FoldersTyped
<1>8. UnmadeAreRecorded'
  BY <1>u, <1>4, <1>6 DEF FoldersInv, UnmadeAreRecorded
<1> QED BY <1>6, <1>7, <1>8, Elsewhere

LEMMA AnswerKeeps == ASSUME FoldersInv, Confirm \/ Decline \/ Refuse PROVE FoldersInv'
<1>1. CASE Confirm
  <2>1. /\ pass' = [pass EXCEPT !.phase = "create", !.attended = FALSE] /\ pass.phase = "confirm"
        /\ UNCHANGED <<local, remote, baseline, unmade>>
    BY <1>1 DEF Confirm
  <2>2. "create" \in FolderPhases
    BY DEF FolderPhases
  <2>3. pass' \in FolderPasses /\ pass'.creates = pass.creates /\ pass'.dir = pass.dir /\ pass'.cur = NoDir
    BY <2>1, <2>2, PassFacts DEF FolderPasses
  <2>4. FoldersTyped'
    BY <2>1, <2>3 DEF FoldersInv, FoldersTyped
  <2>5. UnmadeAreRecorded'
    BY <2>1, <2>3 DEF FoldersInv, UnmadeAreRecorded
  <2> QED BY <2>3, <2>4, <2>5, Elsewhere
<1>2. CASE Decline \/ Refuse
  <2>1. pass' = Idle /\ UNCHANGED <<local, remote, baseline, unmade>>
    BY <1>2 DEF Decline, Refuse, Refused
  <2> QED BY <2>1, PassEnds
<1> QED BY <1>1, <1>2

(* The pass goes on: folders are only taken from those to create.           *)
LEMMA ApplyingKeeps ==
  ASSUME FoldersInv, pass.phase \in {"create", "files"}, local' \in Trees, remote' \in Trees,
         pass' \in FolderPasses, pass'.cur = pass.cur, pass'.dir = pass.dir,
         pass'.phase = pass.phase \/ pass'.phase \in {"files", "prune"},
         pass'.creates \subseteq pass.creates, UNCHANGED <<baseline, unmade>>
  PROVE  FoldersInv'
<1>1. FoldersTyped'
  BY DEF FoldersInv, FoldersTyped
<1>2. UnmadeAreRecorded'
  BY DEF FoldersInv, UnmadeAreRecorded
<1> QED BY <1>1, <1>2, PassFacts, Elsewhere

LEMMA CreateKeeps ==
  ASSUME FoldersInv, NEW f \in Dirs, Create(f) \/ CreateAstray(f) PROVE FoldersInv'
<1> DEFINE creates == pass.creates \ {f}
           applied == pass.applied \union {f}
<1>1. PICK stale \in SUBSET Dirs :
        pass' = [pass EXCEPT !.creates = creates, !.applied = applied, !.stale = stale]
  <2>0. pass.stale \subseteq Dirs
    BY PassFacts
  <2>1. CASE Create(f)
    <3> DEFINE s == IF Lacking(f) = "remote" THEN Fresh(f) ELSE pass.stale
    <3>1. s \in SUBSET Dirs
      BY <2>0 DEF Fresh
    <3>2. pass' = [pass EXCEPT !.creates = creates, !.applied = applied, !.stale = s]
      BY <2>1 DEF Create
    <3> QED BY <3>1, <3>2
  <2>2. CASE CreateAstray(f)
    <3>1. pass' = [pass EXCEPT !.creates = creates, !.applied = applied, !.stale = pass.stale \union {f}]
      BY <2>2 DEF CreateAstray
    <3> QED BY <2>0, <3>1
  <2> QED BY <2>1, <2>2
<1>u. pass.phase = "create" /\ UNCHANGED <<baseline, unmade>>
  BY DEF Create, CreateAstray, NextCreate
<1>2. local' \in Trees /\ remote' \in Trees
  <2>1. \/ local' = local /\ remote' = remote
        \/ local' = local /\ remote' = WithFolder(remote, f)
        \/ remote' = remote /\ local' = WithFolder(local, f)
    BY DEF Create, CreateAstray, Place, At, Lacking
  <2> QED BY <2>1, PassFacts, FolderMade
<1>3. creates \subseteq pass.creates /\ creates \subseteq Dirs /\ applied \subseteq Dirs
  BY PassFacts
<1> HIDE DEF creates, applied
<1>4. pass' \in FolderPasses
  BY <1>1, <1>3, PassFacts DEF FolderPasses
<1>5. pass'.cur = pass.cur /\ pass'.dir = pass.dir /\ pass'.phase = pass.phase /\ pass'.creates = creates
  BY <1>1, PassFacts DEF FolderPasses
<1> QED BY <1>u, <1>2, <1>3, <1>4, <1>5, ApplyingKeeps

LEMMA PhaseKeeps ==
  ASSUME FoldersInv, StartTransfers \/ StartPrunes \/ \E f \in Dirs : FileDeferred(f)
  PROVE  FoldersInv'
<1>1. PICK phase \in {"files", "prune"}, files \in SUBSET Dirs, stale \in SUBSET Dirs :
        pass' = [pass EXCEPT !.phase = phase, !.files = files, !.stale = stale]
  <2>1. CASE StartTransfers
    <3>1. /\ pass' = [pass EXCEPT !.phase = "files"]
          /\ pass.files \in SUBSET Dirs /\ pass.stale \in SUBSET Dirs
      BY <2>1, PassFacts DEF StartTransfers
    <3>2. pass' = [pass EXCEPT !.phase = "files", !.files = pass.files, !.stale = pass.stale]
      BY <3>1, PassFacts DEF FolderPasses
    <3> QED BY <3>1, <3>2
  <2>2. CASE StartPrunes
    <3>1. /\ pass' = [pass EXCEPT !.phase = "prune", !.stale = {}]
          /\ pass.files \in SUBSET Dirs /\ {} \in SUBSET Dirs
      BY <2>2, PassFacts DEF StartPrunes
    <3>2. pass' = [pass EXCEPT !.phase = "prune", !.files = pass.files, !.stale = {}]
      BY <3>1, PassFacts DEF FolderPasses
    <3> QED BY <3>1, <3>2
  <2>3. ASSUME NEW f \in Dirs, FileDeferred(f)
        PROVE  \E files \in SUBSET Dirs, stale \in SUBSET Dirs :
                 pass' = [pass EXCEPT !.phase = "files", !.files = files, !.stale = stale]
    <3>1. /\ pass.phase = "files" /\ pass' = [pass EXCEPT !.files = pass.files \ {f}]
          /\ pass.files \ {f} \in SUBSET Dirs /\ pass.stale \in SUBSET Dirs
      BY <2>3, PassFacts DEF FileDeferred
    <3>2. pass' = [pass EXCEPT !.phase = "files", !.files = pass.files \ {f}, !.stale = pass.stale]
      BY <3>1, PassFacts DEF FolderPasses
    <3> QED BY <3>1, <3>2
  <2> QED BY <2>1, <2>2, <2>3
<1>2. pass.phase \in {"create", "files"} /\ UNCHANGED <<local, remote, baseline, unmade>>
  BY DEF StartTransfers, StartPrunes, FileDeferred
<1>3. pass' \in FolderPasses
  <2>1. phase \in FolderPhases
    BY DEF FolderPhases
  <2> QED BY <1>1, <2>1, PassFacts DEF FolderPasses
<1>4. pass'.cur = pass.cur /\ pass'.dir = pass.dir /\ pass'.phase = phase /\ pass'.creates = pass.creates
  BY <1>1, PassFacts DEF FolderPasses
<1> QED BY <1>1, <1>2, <1>3, <1>4, PassFacts, ApplyingKeeps

LEMMA TransferKeeps ==
  ASSUME FoldersInv, NEW f \in Dirs, Transfer(f) \/ UploadAstray(f) PROVE FoldersInv'
<1> DEFINE files == pass.files \ {f}
<1>1. /\ pass.phase = "files" /\ pass' = [pass EXCEPT !.files = files] /\ UNCHANGED <<baseline, unmade>>
  BY DEF Transfer, UploadAstray
<1>2. local' \in Trees /\ remote' \in Trees
  <2> DEFINE After(side) == {[At(side) EXCEPT !.files = @ \ {f}], WithFile(At(side), f)}
  <2>1. CASE UploadAstray(f)
    BY <2>1, PassFacts DEF UploadAstray
  <2>2. CASE Transfer(f)
    <3>1. PICK side \in Sides : \E tree \in After(side) : Place(side, tree)
      BY <2>2 DEF Transfer, Sides
    <3>2. PICK tree \in After(side) : Place(side, tree)
      BY <3>1
    <3>3. At(side) \in Trees
      BY PassFacts
    <3>4. tree \in Trees
      BY <3>2, <3>3, FileMade, FileGone
    <3> QED BY <3>2, <3>4, PassFacts DEF Place
  <2> QED BY <2>1, <2>2
<1>3. files \subseteq Dirs
  BY PassFacts
<1> HIDE DEF files
<1>4. pass' \in FolderPasses
  BY <1>1, <1>3, PassFacts DEF FolderPasses
<1>5. pass'.cur = pass.cur /\ pass'.dir = pass.dir /\ pass'.phase = pass.phase /\ pass'.creates = pass.creates
  BY <1>1, PassFacts DEF FolderPasses
<1> QED BY <1>1, <1>2, <1>4, <1>5, ApplyingKeeps

(* The folder history is written: what is still meant to be gone is still   *)
(* recorded.                                                                *)
LEMMA FinishKeeps == ASSUME FoldersInv, Finish PROVE FoldersInv'
<1> DEFINE known == pass.local.dirs \union pass.remote.dirs
<1>1. /\ baseline' = NextBaseline /\ pass' = Idle /\ UNCHANGED <<local, remote>>
      /\ unmade' = [s \in Sides |-> (unmade[s] \intersect known) \ Deleted]
  BY DEF Finish
<1>2. pass.local.dirs \subseteq Dirs /\ pass.remote.dirs \subseteq Dirs
  BY PassFacts, TreeFacts
<1>3. baseline' \subseteq Dirs
  BY <1>1, <1>2, PassFacts DEF NextBaseline
<1>4. unmade' \in [Sides -> SUBSET Dirs]
  BY <1>1, PassFacts
<1>5. ASSUME NEW side \in Sides PROVE unmade'[side] \subseteq baseline'
  <2>1. unmade'[side] = (unmade[side] \intersect known) \ Deleted
    BY <1>1
  <2>2. unmade[side] \subseteq baseline
    BY DEF FoldersInv, UnmadeAreRecorded
  <2> QED BY <1>1, <2>1, <2>2 DEF NextBaseline
<1>6. FoldersTyped'
  BY <1>1, <1>3, <1>4, IdleFacts DEF FoldersInv, FoldersTyped
<1>7. UnmadeAreRecorded'
  BY <1>1, <1>5, IdleFacts DEF UnmadeAreRecorded
<1> QED BY <1>1, <1>6, <1>7, IdleFacts, Elsewhere

(* The pass keeps its place, but for the folder it may be pruning.          *)
StaysWith(cur) ==
  /\ pass' \in FolderPasses /\ pass'.cur = cur
  /\ pass'.phase = pass.phase /\ pass'.dir = pass.dir /\ pass'.creates = pass.creates

LEMMA KeepsPlace == ASSUME FoldersInv, pass' = pass PROVE StaysWith(pass.cur)
  BY PassFacts DEF StaysWith

(* What the environment does while a folder may be half pruned.             *)
LEMMA Surroundings ==
  ASSUME FoldersInv, NEW side \in Sides, NEW tree \in Trees, Place(side, tree), baseline' = baseline,
         unmade' \in [Sides -> SUBSET Dirs], \A s \in Sides : unmade'[s] \subseteq baseline,
         NEW cur \in Cursors \union {NoDir}, StaysWith(cur),
         cur # NoDir =>
           /\ pass.cur # NoDir
           /\ cur.side = pass.cur.side /\ cur.step = pass.cur.step /\ cur.dir = pass.cur.dir
           /\ ~cur.lost => ~pass.cur.lost /\ pass.cur.late \subseteq cur.late
           /\ ~cur.lost /\ cur.side = side => tree.files \subseteq At(side).files \union cur.late
  PROVE  FoldersInv'
<1>1. local' \in Trees /\ remote' \in Trees
  BY PassFacts DEF Place
<1>2. pass' \in FolderPasses
  BY DEF StaysWith
<1>3. pass'.cur = cur /\ pass'.phase = pass.phase /\ pass'.dir = pass.dir /\ pass'.creates = pass.creates
  BY DEF StaysWith
<1>4. FoldersTyped'
  BY <1>1, <1>2, PassFacts DEF FoldersTyped
<1>5. UnmadeAreRecorded'
  BY <1>3 DEF FoldersInv, UnmadeAreRecorded
<1>6. ASSUME cur # NoDir
      PROVE  pass.phase = "prune" /\ SoundCursor(cur, IF cur.side = "local" THEN local' ELSE remote')
  <2>1. pass.phase = "prune" /\ SoundCursor(pass.cur, At(pass.cur.side))
    BY <1>6 DEF FoldersInv, CursorIsSound
  <2>2. CASE cur.side = side
    <3>1. (IF cur.side = "local" THEN local' ELSE remote') = tree
      BY <2>2 DEF Place, Sides
    <3> QED BY <1>6, <2>1, <2>2, <3>1 DEF SoundCursor
  <2>3. CASE cur.side # side
    <3>1. cur.side \in Sides
      BY <1>6 DEF Cursors
    <3>2. (IF cur.side = "local" THEN local' ELSE remote') = At(cur.side)
      BY <2>3, <3>1 DEF Place, Sides, At
    <3> QED BY <1>6, <2>1, <3>2 DEF SoundCursor
  <2> QED BY <2>2, <2>3
<1>7. CursorIsSound'
  BY <1>3, <1>6 DEF CursorIsSound, At
<1> QED BY <1>4, <1>5, <1>7 DEF FoldersInv

LEMMA CursorFacts ==
  ASSUME FoldersInv, pass.cur # NoDir
  PROVE  /\ pass.cur \in Cursors /\ pass.cur.dir \in Dirs /\ pass.cur.side \in Sides
         /\ pass.cur.late \subseteq Dirs /\ pass.phase = "prune"
         /\ SoundCursor(pass.cur, At(pass.cur.side))
<1>1. pass.cur \in Cursors
  BY PassFacts
<1>2. pass.phase = "prune" /\ SoundCursor(pass.cur, At(pass.cur.side))
  BY DEF FoldersInv, CursorIsSound
<1> QED BY <1>1, <1>2 DEF Cursors

(* Something comes to a folder.                                             *)
LEMMA ArrivalKeeps ==
  ASSUME FoldersInv, NEW side \in Sides, NEW f \in Dirs, NEW tree \in Trees, Place(side, tree),
         tree.files \subseteq At(side).files \union {f}, pass' = Placed(side, f),
         unmade' = Remade(f), baseline' = baseline
  PROVE  FoldersInv'
<1>1. unmade' \in [Sides -> SUBSET Dirs] /\ \A s \in Sides : unmade'[s] \subseteq baseline
  <2>1. unmade' = [s \in Sides |-> unmade[s] \ Above[f]]
    BY DEF Remade
  <2> QED BY <2>1, PassFacts DEF FoldersInv, UnmadeAreRecorded
<1>2. CASE pass.cur # NoDir /\ pass.cur.side = side
  <2> DEFINE late == pass.cur.late \union {f}
             cur == [pass.cur EXCEPT !.late = late]
  <2>1. pass' = [pass EXCEPT !.cur = cur]
    BY <1>2, PassFacts DEF Placed, FolderPasses
  <2>2. late \subseteq Dirs
    BY <1>2, CursorFacts
  <2> HIDE DEF late
  <2>3. /\ cur \in Cursors /\ cur.side = pass.cur.side /\ cur.step = pass.cur.step
        /\ cur.dir = pass.cur.dir /\ cur.lost = pass.cur.lost /\ cur.late = late
    BY <1>2, <2>2, CursorFacts DEF Cursors
  <2> HIDE DEF cur
  <2>4. StaysWith(cur)
    BY <2>1, <2>3, PassFacts DEF StaysWith, FolderPasses
  <2> QED BY <1>1, <1>2, <2>3, <2>4, Surroundings DEF late
<1>3. CASE ~(pass.cur # NoDir /\ pass.cur.side = side)
  <2>1. StaysWith(pass.cur) /\ pass.cur \in Cursors \union {NoDir}
    BY <1>3, PassFacts, KeepsPlace DEF Placed
  <2> QED BY <1>1, <1>3, <2>1, Surroundings
<1> QED BY <1>2, <1>3

LEMMA EnvironmentKeeps == ASSUME FoldersInv, Environment PROVE FoldersInv'
<1>0. PICK side \in Sides, f \in Dirs :
        MakeFolder(side, f) \/ MakeFile(side, f) \/ DeleteFolder(side, f) \/ DeleteFile(side, f)
  BY DEF Environment
<1>t. At(side) \in Trees
  BY PassFacts
<1>1. CASE MakeFolder(side, f)
  <2>1. /\ Place(side, WithFolder(At(side), f)) /\ pass' = Placed(side, f)
        /\ unmade' = Remade(f) /\ baseline' = baseline
    BY <1>1 DEF MakeFolder
  <2>2. WithFolder(At(side), f) \in Trees /\ WithFolder(At(side), f).files \subseteq At(side).files \union {f}
    BY <1>t, FolderMade
  <2> QED BY <2>1, <2>2, ArrivalKeeps
<1>2. CASE MakeFile(side, f)
  <2>1. /\ Place(side, WithFile(At(side), f)) /\ pass' = Placed(side, f)
        /\ unmade' = Remade(f) /\ baseline' = baseline
    BY <1>2 DEF MakeFile
  <2>2. WithFile(At(side), f) \in Trees /\ WithFile(At(side), f).files \subseteq At(side).files \union {f}
    BY <1>t, FileMade
  <2> QED BY <2>1, <2>2, ArrivalKeeps
<1>3. CASE DeleteFile(side, f)
  <2> DEFINE tree == [At(side) EXCEPT !.files = @ \ {f}]
  <2>1. Place(side, tree) /\ pass' = pass /\ unmade' = unmade /\ baseline' = baseline
    BY <1>3 DEF DeleteFile
  <2>2. tree \in Trees /\ tree.files \subseteq At(side).files
    BY <1>t, FileGone
  <2> HIDE DEF tree
  <2>3. StaysWith(pass.cur) /\ pass.cur \in Cursors \union {NoDir}
    BY <2>1, PassFacts, KeepsPlace
  <2>4. unmade' \in [Sides -> SUBSET Dirs] /\ \A s \in Sides : unmade'[s] \subseteq baseline
    BY <2>1, PassFacts DEF FoldersInv, UnmadeAreRecorded
  <2> QED BY <2>1, <2>2, <2>3, <2>4, Surroundings
<1>4. CASE DeleteFolder(side, f)
  <2> DEFINE tree == Without(At(side), f)
             gone == Beneath(f) \intersect baseline \intersect local.dirs \intersect remote.dirs
             stale == pass.stale \union (Beneath(f) \intersect remote.dirs)
  <2>1. /\ Place(side, tree) /\ baseline' = baseline
        /\ unmade' = [unmade EXCEPT ![side] = unmade[side] \union gone]
    BY <1>4 DEF DeleteFolder
  <2>p. \/ pass' = pass
        \/ pass' = [pass EXCEPT !.stale = stale] /\ pass.cur = NoDir
        \/ pass' = [pass EXCEPT !.cur.lost = TRUE] /\ pass.cur # NoDir
    <3>1. pass' = IF side = "remote" THEN Bereft(f) ELSE pass
      BY <1>4 DEF DeleteFolder
    <3>2. \/ Bereft(f) = pass
          \/ Bereft(f) = [pass EXCEPT !.stale = stale] /\ pass.cur = NoDir
          \/ Bereft(f) = [pass EXCEPT !.cur.lost = TRUE] /\ pass.cur # NoDir
      BY PassFacts DEF Bereft
    <3> QED BY <3>1, <3>2
  <2>2. tree \in Trees /\ tree.files \subseteq At(side).files
    BY <1>t, FolderGone
  <2>3. gone \subseteq baseline /\ gone \subseteq Dirs /\ stale \in SUBSET Dirs
    <3>1. pass.stale \subseteq Dirs /\ baseline \subseteq Dirs
      BY PassFacts
    <3>2. Beneath(f) \subseteq Dirs
      BY DEF Beneath
    <3> QED BY <3>1, <3>2
  <2> HIDE DEF tree, gone, stale
  <2>4. unmade' \in [Sides -> SUBSET Dirs] /\ \A s \in Sides : unmade'[s] \subseteq baseline
    <3>1. unmade \in [Sides -> SUBSET Dirs] /\ \A s \in Sides : unmade[s] \subseteq baseline
      BY PassFacts DEF FoldersInv, UnmadeAreRecorded
    <3> QED BY <2>1, <2>3, <3>1
  <2>5. CASE pass' = [pass EXCEPT !.cur.lost = TRUE] /\ pass.cur # NoDir
    <3> DEFINE cur == [pass.cur EXCEPT !.lost = TRUE]
    <3>1. pass' = [pass EXCEPT !.cur = cur]
      BY <2>5, PassFacts DEF FolderPasses
    <3>2. /\ cur \in Cursors /\ cur.side = pass.cur.side /\ cur.step = pass.cur.step
          /\ cur.dir = pass.cur.dir /\ cur.lost = TRUE
      BY <2>5, CursorFacts DEF Cursors
    <3> HIDE DEF cur
    <3>3. StaysWith(cur)
      BY <3>1, <3>2, PassFacts DEF StaysWith, FolderPasses
    <3> QED BY <2>1, <2>2, <2>4, <2>5, <3>2, <3>3, Surroundings
  <2>6. CASE pass' = [pass EXCEPT !.stale = stale] /\ pass.cur = NoDir
    <3>1. StaysWith(NoDir) /\ NoDir \in Cursors \union {NoDir}
      BY <2>3, <2>6, PassFacts DEF StaysWith, FolderPasses
    <3> QED BY <2>1, <2>2, <2>4, <3>1, Surroundings
  <2>7. CASE pass' = pass
    <3>1. StaysWith(pass.cur) /\ pass.cur \in Cursors \union {NoDir}
      BY <2>7, PassFacts, KeepsPlace
    <3> QED BY <2>1, <2>2, <2>4, <3>1, Surroundings
  <2> QED BY <2>p, <2>5, <2>6, <2>7
<1> QED BY <1>0, <1>1, <1>2, <1>3, <1>4

(* A step of pruning that has only looked, or has taken the folder away.    *)
LEMMA PruneMoves ==
  ASSUME FoldersInv, NEW cur \in Cursors \union {NoDir}, NEW prunes \in SUBSET Dirs,
         NEW applied \in SUBSET Dirs, NEW present \in SUBSET Dirs, pass.phase = "prune",
         pass' = [pass EXCEPT !.cur = cur, !.prunes = prunes, !.applied = applied, !.present = present],
         local' \in Trees, remote' \in Trees, UNCHANGED <<baseline, unmade>>,
         cur # NoDir => SoundCursor(cur, IF cur.side = "local" THEN local' ELSE remote')
  PROVE  FoldersInv'
<1>1. pass' \in FolderPasses
  BY PassFacts DEF FolderPasses
<1>2. pass'.cur = cur /\ pass'.phase = "prune"
  BY PassFacts DEF FolderPasses
<1>3. FoldersTyped'
  BY <1>1, PassFacts DEF FoldersTyped
<1>4. UnmadeAreRecorded'
  BY <1>2 DEF FoldersInv, UnmadeAreRecorded
<1>5. CursorIsSound'
  BY <1>2 DEF CursorIsSound, At
<1> QED BY <1>3, <1>4, <1>5 DEF FoldersInv

LEMMA PickKeeps == ASSUME FoldersInv, NEW f \in Dirs, Pick(f) PROVE FoldersInv'
<1> DEFINE prunes == pass.prunes \ {f}
           side == IF f \in pass.local.dirs THEN "local" ELSE "remote"
           cur == [dir |-> f, lost |-> FALSE, late |-> {}, side |-> side, step |-> "look"]
<1>1. /\ pass.phase = "prune" /\ pass' = [pass EXCEPT !.prunes = prunes, !.cur = cur]
      /\ UNCHANGED <<local, remote, baseline, unmade>>
  BY DEF Pick
<1>2. side \in Sides /\ "look" \in PruneSteps
  BY DEF Sides, PruneSteps
<1> HIDE DEF side
<1>3. cur \in Cursors /\ cur.step = "look"
  BY <1>2 DEF Cursors
<1>4. prunes \in SUBSET Dirs /\ pass.applied \in SUBSET Dirs /\ pass.present \in SUBSET Dirs
  BY PassFacts
<1> HIDE DEF cur, prunes
<1>5. pass' = [pass EXCEPT !.cur = cur, !.prunes = prunes, !.applied = pass.applied, !.present = pass.present]
  BY <1>1, PassFacts DEF FolderPasses
<1>6. SoundCursor(cur, IF cur.side = "local" THEN local' ELSE remote')
  BY <1>3 DEF SoundCursor
<1>7. local' \in Trees /\ remote' \in Trees /\ cur \in Cursors \union {NoDir}
  BY <1>1, <1>3, PassFacts
<1>8. pass.phase = "prune" /\ UNCHANGED <<baseline, unmade>>
  BY <1>1
<1> QED BY <1>4, <1>5, <1>6, <1>7, <1>8, PruneMoves

LEMMA Rested ==
  ASSUME FoldersInv, pass.cur # NoDir, local' \in Trees, remote' \in Trees, UNCHANGED <<baseline, unmade>>,
         Skip \/ Present \/ pass' = Applied
  PROVE  FoldersInv'
<1>1. /\ pass.prunes \in SUBSET Dirs /\ pass.applied \in SUBSET Dirs /\ pass.present \in SUBSET Dirs
      /\ pass.applied \union {pass.cur.dir} \in SUBSET Dirs
      /\ pass.present \union {pass.cur.dir} \in SUBSET Dirs /\ pass.phase = "prune"
  BY PassFacts, CursorFacts
<1>2. PICK applied \in SUBSET Dirs, present \in SUBSET Dirs :
        pass' = [pass EXCEPT !.cur = NoDir, !.prunes = pass.prunes, !.applied = applied, !.present = present]
  <2>1. CASE Skip
    <3>1. pass' = [pass EXCEPT !.cur = NoDir, !.prunes = pass.prunes,
                               !.applied = pass.applied, !.present = pass.present]
      BY <2>1, PassFacts DEF Skip, FolderPasses
    <3> QED BY <1>1, <3>1
  <2>2. CASE Present
    <3>1. pass' = [pass EXCEPT !.cur = NoDir, !.prunes = pass.prunes,
                               !.applied = pass.applied, !.present = pass.present \union {pass.cur.dir}]
      BY <2>2, PassFacts DEF Present, FolderPasses
    <3> QED BY <1>1, <3>1
  <2>3. CASE pass' = Applied
    <3>1. pass' = [pass EXCEPT !.cur = NoDir, !.prunes = pass.prunes,
                               !.applied = pass.applied \union {pass.cur.dir}, !.present = pass.present]
      BY <2>3, PassFacts DEF Applied, FolderPasses
    <3> QED BY <1>1, <3>1
  <2> QED BY <2>1, <2>2, <2>3
<1>3. NoDir \in Cursors \union {NoDir}
  OBVIOUS
<1> QED BY <1>1, <1>2, <1>3, PruneMoves

(* The step the cursor goes on to, and what it is known to have seen.       *)
LEMMA Stepped ==
  ASSUME FoldersInv, pass.cur # NoDir, UNCHANGED <<local, remote, baseline, unmade>>,
         NEW step \in PruneSteps, NEW late \in SUBSET Dirs,
         pass' = [pass EXCEPT !.cur = [pass.cur EXCEPT !.step = step, !.late = late]],
         step \in {"stat", "gone"} => pass.cur.side = "local",
         step \in {"again", "find", "list"} => pass.cur.side = "remote",
         step \in {"stat", "trash"} /\ ~pass.cur.lost =>
           At(pass.cur.side).files \intersect Beneath(pass.cur.dir) \subseteq late
  PROVE  FoldersInv'
<1> DEFINE cur == [pass.cur EXCEPT !.step = step, !.late = late]
           prunes == pass.prunes
           applied == pass.applied
           present == pass.present
<1>1. /\ cur \in Cursors /\ cur.side = pass.cur.side /\ cur.step = step /\ cur.dir = pass.cur.dir
      /\ cur.lost = pass.cur.lost /\ cur.late = late
  BY CursorFacts DEF Cursors
<1>2. pass' = [pass EXCEPT !.cur = cur]
  OBVIOUS
<1> HIDE DEF cur
<1>3. pass' = [pass EXCEPT !.cur = cur, !.prunes = prunes, !.applied = applied, !.present = present]
  BY <1>2, PassFacts DEF FolderPasses
<1>4. SoundCursor(cur, IF cur.side = "local" THEN local' ELSE remote')
  BY <1>1 DEF SoundCursor, At
<1>5. /\ prunes \in SUBSET Dirs /\ applied \in SUBSET Dirs /\ present \in SUBSET Dirs
      /\ pass.phase = "prune" /\ cur \in Cursors \union {NoDir} /\ local' \in Trees /\ remote' \in Trees
  BY <1>1, PassFacts, CursorFacts
<1>6. UNCHANGED <<baseline, unmade>>
  OBVIOUS
<1> HIDE DEF prunes, applied, present
<1>7. FoldersInv
  OBVIOUS
<1> QED BY ONLY <1>3, <1>4, <1>5, <1>6, <1>7, PruneMoves

LEMMA Continued ==
  ASSUME FoldersInv, pass.cur # NoDir, UNCHANGED <<local, remote, baseline, unmade>>,
         NEW step \in PruneSteps, Continue(step),
         \/ step = "trash" /\ pass.cur.step = "stat"
         \/ step = "gone" /\ pass.cur.side = "local"
         \/ step \in {"again", "find", "list"} /\ pass.cur.side = "remote"
  PROVE  FoldersInv'
<1> DEFINE late == pass.cur.late
<1>1. late \in SUBSET Dirs /\ SoundCursor(pass.cur, At(pass.cur.side))
  BY CursorFacts
<1>2. pass' = [pass EXCEPT !.cur = [pass.cur EXCEPT !.step = step, !.late = late]]
  <2>1. pass' = [pass EXCEPT !.cur = [pass.cur EXCEPT !.step = step]]
    BY PassFacts DEF Continue, FolderPasses
  <2>2. [pass.cur EXCEPT !.step = step] = [pass.cur EXCEPT !.step = step, !.late = late]
    BY CursorFacts DEF Cursors
  <2> QED BY <2>1, <2>2
<1>3. /\ step \in {"stat", "gone"} => pass.cur.side = "local"
      /\ step \in {"again", "find", "list"} => pass.cur.side = "remote"
      /\ step \in {"stat", "trash"} /\ ~pass.cur.lost =>
           At(pass.cur.side).files \intersect Beneath(pass.cur.dir) \subseteq late
  BY <1>1 DEF SoundCursor
<1> HIDE DEF late
<1> QED BY <1>1, <1>2, <1>3, Stepped

LEMMA LookedAt ==
  ASSUME FoldersInv, pass.cur # NoDir, UNCHANGED <<local, remote, baseline, unmade>>,
         NEW step \in {"stat", "trash"}, Looked(step), step = "stat" => pass.cur.side = "local",
         pass.cur.lost \/ IsEmpty(At(pass.cur.side), pass.cur.dir)
  PROVE  FoldersInv'
<1>1. pass' = [pass EXCEPT !.cur = [pass.cur EXCEPT !.step = step, !.late = {}]]
  BY PassFacts, CursorFacts DEF Looked, FolderPasses, Cursors
<1>2. ~pass.cur.lost => At(pass.cur.side).files \intersect Beneath(pass.cur.dir) \subseteq {}
  BY PassFacts, CursorFacts, EmptyFolder
<1>3. step \in PruneSteps /\ {} \in SUBSET Dirs
  BY DEF PruneSteps
<1> QED BY <1>1, <1>2, <1>3, Stepped

LEMMA PruneKeeps == ASSUME FoldersInv, Prune PROVE FoldersInv'
<1>0. \A step : CurrentStep(step) <=> pass.cur # NoDir /\ pass.cur.step = step
  BY DEF CurrentStep
<1>s. \A step \in {"look", "stat", "gone", "again", "find", "list", "trash"} : step \in PruneSteps
  BY DEF PruneSteps
<1>t. local \in Trees /\ remote \in Trees /\ \A side \in Sides : At(side) \in Trees
  BY PassFacts
<1>1. CASE LookLocal
  <2>1. /\ pass.cur # NoDir /\ pass.cur.side = "local" /\ UNCHANGED <<local, remote, baseline, unmade>>
        /\ Continue("gone") \/ Skip \/ (Looked("stat") /\ IsEmpty(local, pass.cur.dir))
    BY <1>0, <1>1 DEF LookLocal
  <2>2. At(pass.cur.side) = local
    BY <2>1 DEF At
  <2>3. local' \in Trees /\ remote' \in Trees
    BY <1>t, <2>1
  <2>4. CASE Continue("gone")
    BY <1>s, <2>1, <2>4, Continued
  <2>5. CASE Skip
    BY <2>1, <2>3, <2>5, Rested
  <2>6. CASE Looked("stat") /\ IsEmpty(local, pass.cur.dir)
    BY <2>1, <2>2, <2>6, LookedAt
  <2> QED BY <2>1, <2>4, <2>5, <2>6
<1>2. CASE StatRemote
  <2>1. /\ pass.cur # NoDir /\ pass.cur.step = "stat" /\ UNCHANGED <<local, remote, baseline, unmade>>
        /\ Present \/ Continue("trash")
    BY <1>0, <1>2 DEF StatRemote
  <2>2. local' \in Trees /\ remote' \in Trees
    BY <1>t, <2>1
  <2>3. CASE Present
    BY <2>1, <2>2, <2>3, Rested
  <2>4. CASE Continue("trash")
    BY <1>s, <2>1, <2>4, Continued
  <2> QED BY <2>1, <2>3, <2>4
<1>3. CASE StatGone \/ StatAgain
  <2>1. /\ pass.cur # NoDir /\ UNCHANGED <<local, remote, baseline, unmade>>
        /\ Skip \/ Present \/ pass' = Applied
    BY <1>0, <1>3 DEF StatGone, StatAgain
  <2>2. local' \in Trees /\ remote' \in Trees
    BY <1>t, <2>1
  <2> QED BY <2>1, <2>2, Rested
<1>4. CASE LookRemote
  <2>1. /\ pass.cur # NoDir /\ pass.cur.side = "remote" /\ UNCHANGED <<local, remote, baseline, unmade>>
        /\ \E step \in {"again", "find"} : Continue(step)
    BY <1>0, <1>4 DEF LookRemote
  <2> QED BY <1>s, <2>1, Continued
<1>5. CASE FindRemote
  <2>1. /\ pass.cur # NoDir /\ pass.cur.step = "find" /\ UNCHANGED <<local, remote, baseline, unmade>>
        /\ Continue("list") \/ pass' = Applied
    BY <1>0, <1>5 DEF FindRemote
  <2>2. pass.cur.side = "remote"
    BY <2>1, CursorFacts DEF SoundCursor
  <2>3. local' \in Trees /\ remote' \in Trees
    BY <1>t, <2>1
  <2>4. CASE Continue("list")
    BY <1>s, <2>1, <2>2, <2>4, Continued
  <2>5. CASE pass' = Applied
    BY <2>1, <2>3, <2>5, Rested
  <2> QED BY <2>1, <2>4, <2>5
<1>6. CASE ListRemote
  <2>1. /\ pass.cur # NoDir /\ pass.cur.step = "list" /\ UNCHANGED <<local, remote, baseline, unmade>>
        /\ Skip \/ (Looked("trash") /\ (pass.cur.lost \/ IsEmpty(remote, pass.cur.dir)))
    BY <1>0, <1>6 DEF ListRemote
  <2>2. pass.cur.side = "remote"
    BY <2>1, CursorFacts DEF SoundCursor
  <2>3. At(pass.cur.side) = remote
    BY <2>2 DEF At
  <2>4. local' \in Trees /\ remote' \in Trees
    BY <1>t, <2>1
  <2>5. CASE Skip
    BY <2>1, <2>4, <2>5, Rested
  <2>6. CASE Looked("trash") /\ (pass.cur.lost \/ IsEmpty(remote, pass.cur.dir))
    BY <2>1, <2>3, <2>6, LookedAt
  <2> QED BY <2>1, <2>5, <2>6
<1>7. CASE Trash
  <2>1. pass.cur # NoDir /\ pass' = Applied /\ UNCHANGED <<baseline, unmade>>
    BY <1>0, <1>7 DEF Trash
  <2>2. local' \in Trees /\ remote' \in Trees
    <3>1. \/ UNCHANGED <<local, remote>>
          \/ Place(pass.cur.side, Without(At(pass.cur.side), pass.cur.dir))
      BY <1>7 DEF Trash
    <3>2. Without(At(pass.cur.side), pass.cur.dir) \in Trees
      BY <1>t, <2>1, CursorFacts, FolderGone
    <3> QED BY <1>t, <3>1, <3>2 DEF Place
  <2> QED BY <2>1, <2>2, Rested
<1> QED BY <1>1, <1>2, <1>3, <1>4, <1>5, <1>6, <1>7 DEF Prune

LEMMA FoldersStep == FoldersInv /\ [FoldersNext]_foldersVars => FoldersInv'
<1> SUFFICES ASSUME FoldersInv, [FoldersNext]_foldersVars PROVE FoldersInv'
  OBVIOUS
<1>1. CASE UNCHANGED foldersVars
  BY <1>1 DEF foldersVars, FoldersInv, FoldersTyped, UnmadeAreRecorded, CursorIsSound, At
<1>2. CASE FileRefused \/ RequestFails
  <2>1. pass' = Idle /\ UNCHANGED <<local, remote, baseline, unmade>>
    BY <1>2 DEF FileRefused, RequestFails
  <2> QED BY <2>1, PassEnds
<1>3. ASSUME NEW f \in Dirs, \/ Create(f) \/ CreateAstray(f) \/ Transfer(f) \/ UploadAstray(f)
                             \/ FileDeferred(f) \/ Pick(f)
      PROVE  FoldersInv'
  BY <1>3, CreateKeeps, TransferKeeps, PhaseKeeps, PickKeeps
<1>4. CASE \/ ScanRemote \/ \E dir \in Directions : StartPass(dir)
           \/ \E cached \in BOOLEAN : AutomaticPass(cached)
  BY <1>4, ReadingKeeps
<1>5. CASE StartTransfers \/ StartPrunes
  BY <1>5, PhaseKeeps
<1>6. CASE Confirm \/ Decline \/ Refuse
  BY <1>6, AnswerKeeps
<1> QED BY <1>1, <1>2, <1>3, <1>4, <1>5, <1>6, EnvironmentKeeps, PlanKeeps, PruneKeeps, FinishKeeps
       DEF FoldersNext, Proceed, User

LEMMA FoldersHold == FoldersSpec => []FoldersInv
  BY FoldersStart, FoldersStep, PTL DEF FoldersSpec

(* Whatever the folders and however long the behaviour: what goes to the    *)
(* trash along with a pruned folder came to it after the look at its        *)
(* content (directory-apply.ts:86, :72).                                    *)
THEOREM PruningSpares == FoldersSpec => PruneTakesOnlyLateComers
<1>1. FoldersInv =>
        [Trash => \/ pass.cur.lost
                  \/ At(pass.cur.side).files \intersect Beneath(pass.cur.dir) \subseteq pass.cur.late]_foldersVars
  <2> SUFFICES ASSUME FoldersInv, Trash, ~pass.cur.lost
               PROVE  At(pass.cur.side).files \intersect Beneath(pass.cur.dir) \subseteq pass.cur.late
    OBVIOUS
  <2>1. pass.cur # NoDir /\ pass.cur.step = "trash"
    BY DEF Trash, CurrentStep
  <2>2. SoundCursor(pass.cur, At(pass.cur.side))
    BY <2>1, CursorFacts
  <2> QED BY <2>1, <2>2 DEF SoundCursor
<1> QED BY <1>1, FoldersHold, PTL DEF PruneTakesOnlyLateComers

(* A two-way pass does not make a recorded folder again that was deleted    *)
(* (dir-planner.ts:139): the deletion stays recorded until it is complete.  *)
THEOREM DeletionsStand == FoldersSpec => DeletionIsNotUndone
<1>1. FoldersInv =>
        [\A f \in Dirs, side \in Sides :
           (Create(f) /\ pass.dir = "both" /\ side = IF f \in pass.local.dirs THEN "remote" ELSE "local")
             => f \notin unmade[side] \/ f \in At(side).dirs]_foldersVars
  BY DEF FoldersInv, UnmadeAreRecorded, Create, NextCreate
<1> QED BY <1>1, FoldersHold, PTL DEF DeletionIsNotUndone
=============================================================================
