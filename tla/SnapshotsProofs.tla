--------------------------- MODULE SnapshotsProofs ---------------------------
(***************************************************************************)
(* Proofs about what a pass keeps for the next one, for any paths,         *)
(* lifetimes and clocks, the device's ahead of the drive's or behind it: a *)
(* kept tree that is out of date is reported by the next probe or          *)
(* overlooked because of the clocks alone, and a narrow plan leaves out no *)
(* path that needs syncing but for the reasons it states.                  *)
(***************************************************************************)
EXTENDS Snapshots, TLAPS

Caches == [tree : Trees, fetched : Nat, mark : Nat, walked : Nat]
Snaps == [tree : Trees, fetched : Nat]

Phases == {"idle", "probe", "scan", "apply"}

Passes ==
  [phase : Phases, kind : Kinds, dir : {"both", "push", "pull"}, again : BOOLEAN,
   hints : SUBSET Paths, seen : SUBSET Paths, cacheValid : BOOLEAN, snapValid : BOOLEAN,
   narrow : BOOLEAN, reuse : BOOLEAN, clean : BOOLEAN, mark : Nat,
   local : Trees \union {None}, walkAt : Nat \union {None}, tree : Trees \union {None},
   jobs : SUBSET Paths, wrote : Paths \union {None}, applied : BOOLEAN,
   overlooked : SUBSET Paths, late : SUBSET Paths]

SnapshotsTyped ==
  /\ local \in Trees /\ remote \in Trees /\ base \in Trees /\ conflicts \subseteq Paths
  /\ now \in Nat /\ lead \in Int /\ now + lead \in Nat /\ lastEvent \in Nat
  /\ hints \subseteq Paths /\ confirm \in BOOLEAN
  /\ cache \in Caches \union {None} /\ snap \in Snaps \union {None} /\ pass \in Passes
  /\ left \subseteq Paths /\ made \in 0 .. MaxVersion

(* No event is of a second to come, and no watermark is: of the drive's     *)
(* clock, or where that is behind of the device's own.                      *)
Dated(mark) == IF lead >= 0 THEN mark \div Second <= ServerSecond ELSE mark <= now

MarksAreDated ==
  /\ lastEvent <= ServerSecond
  /\ cache # None => Dated(cache.mark)
  /\ Dated(pass.mark)
  /\ pass.walkAt # None => Dated(pass.walkAt)

(* For a device whose clock is ahead, a watermark is never later than the   *)
(* walk of the tree it belongs to.                                          *)
WalksAreLater ==
  lead < 0 =>
    /\ pass.walkAt # None => pass.mark <= pass.walkAt
    /\ cache # None => cache.mark <= cache.walked

(* For any other, the probe at a tree's watermark reports what has changed  *)
(* since, for the tree that is kept and for the one just read; and the      *)
(* content that waits to be patched into the kept tree is the one on the    *)
(* drive.                                                                   *)
TreesAreReported ==
  lead >= 0 =>
    /\ cache # None /\ cache.tree # remote => Reported(cache.mark)
    /\ pass.phase = "scan" /\ ~pass.reuse /\ pass.tree # None /\ pass.tree # remote =>
         Reported(WalkMark(pass.mark, pass.walkAt))
    /\ pass.wrote # None => base[pass.wrote] = remote[pass.wrote] \/ (cache # None => Reported(cache.mark))

Running == pass.phase # "idle"
Reading == pass.phase \in {"probe", "scan"}

(* What a pass knows in each of its phases. *)
ProbeIsSound ==
  pass.phase = "probe" =>
    /\ pass.local = None /\ pass.walkAt = None /\ pass.tree = None /\ ~pass.narrow /\ ~pass.reuse
    /\ pass.snapValid => snap # None
    /\ pass.cacheValid => cache # None

ScanIsSound ==
  pass.phase = "scan" =>
    /\ pass.reuse => cache # None /\ pass.tree = cache.tree /\ pass.walkAt = None
    /\ ~pass.reuse /\ pass.tree # None => pass.walkAt # None
    /\ pass.local # None =>
         \A p \in Paths : local[p] # pass.local[p] => ~pass.clean /\ p \in hints \ pass.seen

ApplyIsSound ==
  pass.phase = "apply" =>
    /\ pass.local \in Trees /\ pass.tree \in Trees /\ pass.wrote \notin pass.jobs
    /\ cache # None => \A p \in pass.jobs : cache.tree[p] = pass.tree[p]

PassIsSound ==
  /\ Running => ~confirm /\ pass.hints \subseteq hints /\ pass.seen \subseteq hints
  /\ Running /\ pass.kind = "auto" => pass.seen \subseteq pass.hints
  /\ pass.phase # "apply" => pass.jobs = {} /\ pass.wrote = None
  /\ pass.kind # "manual" => pass.dir = "both"
  /\ pass.narrow => pass.kind = "auto" /\ pass.reuse

(* Unless a declined plan or a manual run is to be followed by a full scan, *)
(* the kept inventories are complete: a path they say needs syncing is a    *)
(* hint of the next run, in conflict, left by the last full plan, or a job  *)
(* of the running pass.                                                     *)
Trusted == ~confirm /\ ~(Reading /\ pass.kind = "manual")

KeptIsComplete ==
  Trusted /\ snap # None =>
    /\ \A p \in Paths :
         local[p] # base[p] => p \in hints \union left \union conflicts \union pass.jobs
    /\ cache # None =>
         \A p \in Paths : cache.tree[p] # base[p] =>
           p \in left \union conflicts \union pass.jobs \union {pass.wrote}

(* A hint the pass began with needs nothing more, once its jobs are done.   *)
SeenIsDone ==
  pass.phase = "apply" /\ pass.dir # "pull" =>
    \A p \in pass.seen : local[p] # base[p] => p \in left \union conflicts \union pass.jobs

(* A path outside a narrow pass needs no syncing, unless it is in conflict  *)
(* or was left, or it was edited, changed or overlooked as stated.          *)
Untouched(p) ==
  p \notin conflicts =>
    /\ local[p] # base[p] => p \in hints \union left
    /\ remote[p] # base[p] => p \in left \union pass.late \union pass.overlooked

NarrowIsSound ==
  pass.phase \in {"scan", "apply"} /\ pass.narrow =>
    /\ pass.jobs \ pass.hints \subseteq conflicts
    /\ \A p \in Paths \ pass.hints : Untouched(p)

PhasesAreSound == PassIsSound /\ ProbeIsSound /\ ScanIsSound /\ ApplyIsSound

SnapInv ==
  /\ SnapshotsTyped /\ MarksAreDated /\ WalksAreLater /\ TreesAreReported
  /\ PhasesAreSound /\ KeptIsComplete /\ SeenIsDone /\ NarrowIsSound

-----------------------------------------------------------------------------
(* Seconds. *)

LEMMA Division ==
  ASSUME NEW s \in Nat \ {0}
  PROVE  /\ \A t \in Nat : t \div s \in Nat
         /\ \A k \in Nat : (k * s) \div s = k
         /\ \A t, u \in Nat : t <= u => t \div s <= u \div s
         /\ \A k, t \in Nat : k <= t \div s => k * s <= t
<1>1. \A t \in Nat : t \div s \in Nat
  OBVIOUS
<1>2. \A k \in Nat : (k * s) \div s = k
  OBVIOUS
<1>3. \A t, u \in Nat : t <= u => t \div s <= u \div s
  OBVIOUS
<1>4. \A k, t \in Nat : k <= t \div s => k * s <= t
  OBVIOUS
<1> QED BY <1>1, <1>2, <1>3, <1>4

LEMMA ServerTime ==
  ASSUME SnapshotsTyped
  PROVE  /\ ServerSecond \in Nat /\ Dated(0) /\ Dated(now)
         /\ lastEvent <= ServerSecond => Dated(lastEvent * Second)
<1>0. Second \in Nat \ {0} /\ now \in Nat /\ lead \in Int /\ now + lead \in Nat /\ lastEvent \in Nat
  BY SnapshotsAssumption DEF SnapshotsTyped
<1> DEFINE served == now + lead
<1>1. ServerSecond = served \div Second /\ served \in Nat
  BY <1>0 DEF ServerSecond
<1>2. (lead >= 0 => now <= served) /\ (lead < 0 => served <= now) /\ 0 <= served
  BY <1>0
<1> HIDE DEF served
<1>3. ServerSecond \in Nat /\ 0 \div Second <= ServerSecond /\ (lead >= 0 => now \div Second <= ServerSecond)
  BY <1>0, <1>1, <1>2, Division
<1>4. Dated(0) /\ Dated(now)
  BY <1>0, <1>3 DEF Dated
<1>5. (lastEvent * Second) \div Second = lastEvent
  BY <1>0, Division
<1>6. lastEvent <= ServerSecond => lastEvent * Second <= served
  BY <1>0, <1>1, Division
<1>7. ASSUME lastEvent <= ServerSecond, lead < 0 PROVE lastEvent * Second <= now
  <2> DEFINE event == lastEvent * Second
  <2>1. event <= served /\ served <= now
    BY <1>2, <1>6, <1>7
  <2>2. event \in Nat
    BY <1>0
  <2> HIDE DEF event
  <2>3. event <= now
    BY <1>0, <1>1, <2>1, <2>2
  <2> QED BY <2>3 DEF event
<1> QED BY <1>0, <1>3, <1>4, <1>5, <1>7 DEF Dated

(* Time goes on, and nothing is of a second to come.                        *)
LEMMA TimeGoesOn ==
  ASSUME SnapshotsTyped, now' \in Nat, now <= now', lead' = lead
  PROVE  /\ ServerSecond \in Nat /\ ServerSecond' \in Nat /\ ServerSecond <= ServerSecond'
         /\ now' + lead' \in Nat
<1>0. Second \in Nat \ {0} /\ now \in Nat /\ lead \in Int /\ now + lead \in Nat
  BY SnapshotsAssumption DEF SnapshotsTyped
<1> DEFINE before == now + lead
           after == now' + lead
<1>1. before \in Nat /\ after \in Nat /\ before <= after
  <2>1. \A t, u \in Nat, l \in Int :
          t <= u /\ t + l \in Nat => u + l \in Nat /\ t + l <= u + l
    OBVIOUS
  <2> QED BY <1>0, <2>1
<1>2. ServerSecond = before \div Second /\ ServerSecond' = after \div Second
  BY DEF ServerSecond
<1> HIDE DEF before, after
<1>3. ServerSecond \in Nat /\ ServerSecond' \in Nat /\ ServerSecond <= ServerSecond'
  BY <1>0, <1>1, <1>2, Division
<1> QED BY <1>1, <1>3 DEF after

LEMMA MarkIsNat ==
  ASSUME NEW mark \in Nat
  PROVE  mark \div Second \in Nat
  BY SnapshotsAssumption, Division

LEMMA LargerMark ==
  ASSUME NEW t \in Nat, NEW u \in Nat
  PROVE  Larger(t, u) \in {t, u} /\ Larger(t, u) \in Nat
  BY DEF Larger

LEMMA Idleness ==
  /\ Idle \in Passes /\ Idle.phase = "idle" /\ Idle.jobs = {} /\ Idle.wrote = None
  /\ Idle.kind = "auto" /\ Idle.dir = "both" /\ Idle.mark = 0 /\ Idle.walkAt = None /\ ~Idle.narrow
  /\ ~Idle.cacheValid /\ ~Idle.snapValid /\ ~Idle.reuse /\ Idle.local = None /\ Idle.tree = None /\ ~Idle.again
<1>1. "idle" \in Phases /\ "auto" \in Kinds
  BY DEF Phases, Kinds
<1> QED BY <1>1 DEF Idle, Passes

LEMMA SnapStarts == Init => SnapInv
<1> SUFFICES ASSUME Init PROVE SnapInv
  OBVIOUS
<1>0. 1 \in Content /\ 1 \in 0 .. MaxVersion
  BY SnapshotsAssumption DEF Content
<1>1. base \in Trees /\ local = base /\ remote = base /\ \A p \in Paths : base[p] = 1
  BY <1>0 DEF Init, Trees
<1>2. SnapshotsTyped
  <2>1. /\ now \in Nat /\ lead \in Int /\ now + lead \in Nat /\ lastEvent \in Nat
        /\ made \in 0 .. MaxVersion
    BY <1>0, SnapshotsAssumption DEF Init
  <2> QED BY <1>1, <2>1, Idleness DEF Init, SnapshotsTyped
<1>3. pass = Idle /\ cache = None /\ snap = None /\ ~confirm /\ lastEvent = 0
  BY DEF Init
<1>4. MarksAreDated /\ WalksAreLater
  BY <1>2, <1>3, ServerTime, Idleness DEF MarksAreDated, WalksAreLater
<1>6. TreesAreReported
  BY <1>3, Idleness DEF TreesAreReported
<1>7. PhasesAreSound
  BY <1>3, Idleness DEF PhasesAreSound, PassIsSound, ProbeIsSound, ScanIsSound, ApplyIsSound, Running
<1>8. KeptIsComplete /\ SeenIsDone /\ NarrowIsSound
  BY <1>3, Idleness DEF KeptIsComplete, SeenIsDone, NarrowIsSound
<1> QED BY <1>2, <1>4, <1>6, <1>7, <1>8 DEF SnapInv

-----------------------------------------------------------------------------
(* Each step keeps all this. *)

LEMMA Types ==
  ASSUME SnapInv
  PROVE  /\ local \in Trees /\ remote \in Trees /\ base \in Trees
         /\ pass \in Passes /\ cache \in Caches \union {None} /\ snap \in Snaps \union {None}
         /\ pass.phase \in Phases /\ pass.kind \in Kinds /\ pass.hints \subseteq Paths /\ pass.seen \subseteq Paths
         /\ pass.jobs \subseteq Paths /\ pass.mark \in Nat /\ pass.walkAt \in Nat \union {None}
         /\ pass.local \in Trees \union {None} /\ pass.tree \in Trees \union {None}
         /\ cache # None => cache \in Caches /\ cache.mark \in Nat /\ cache.tree \in Trees /\ cache.walked \in Nat
         /\ pass.dir \in {"both", "push", "pull"}
         /\ made \in Nat /\ made \in 0 .. MaxVersion /\ MaxVersion \in Nat
         /\ hints \subseteq Paths /\ conflicts \subseteq Paths /\ left \subseteq Paths
         /\ now \in Nat /\ lead \in Int /\ lastEvent \in Nat
<1>1. SnapshotsTyped /\ MaxVersion \in Nat
  BY SnapshotsAssumption DEF SnapInv
<1>2. /\ pass.phase \in Phases /\ pass.kind \in Kinds /\ pass.hints \subseteq Paths /\ pass.seen \subseteq Paths
      /\ pass.jobs \subseteq Paths /\ pass.mark \in Nat /\ pass.walkAt \in Nat \union {None}
      /\ pass.local \in Trees \union {None} /\ pass.tree \in Trees \union {None}
      /\ pass.dir \in {"both", "push", "pull"}
  BY <1>1 DEF SnapshotsTyped, Passes
<1>3. cache # None => cache \in Caches /\ cache.mark \in Nat /\ cache.tree \in Trees /\ cache.walked \in Nat
  BY <1>1 DEF SnapshotsTyped, Caches
<1>4. made \in Nat /\ made \in 0 .. MaxVersion
  BY <1>1 DEF SnapshotsTyped
<1> QED BY <1>1, <1>2, <1>3, <1>4 DEF SnapshotsTyped

LEMMA Values ==
  ASSUME NEW tree \in Trees, NEW p \in Paths
  PROVE  tree[p] \in Nat /\ tree[p] \in Content
  BY SnapshotsAssumption DEF Trees, Content

(* Over time, the marks stay.                                               *)
LEMMA MarksStay ==
  ASSUME MarksAreDated, WalksAreLater, SnapshotsTyped, now' \in Nat, now <= now', lead' = lead,
         lastEvent' \in {lastEvent, ServerSecond},
         cache' # None => cache # None /\ cache'.mark = cache.mark /\ cache'.walked = cache.walked,
         pass'.mark \in {0, now, pass.mark}, pass'.walkAt \in {None, now, pass.walkAt},
         pass'.walkAt # None => pass'.mark = pass.mark
  PROVE  MarksAreDated' /\ WalksAreLater'
<1>0. ServerSecond \in Nat /\ ServerSecond' \in Nat /\ ServerSecond <= ServerSecond' /\ lead \in Int /\ now \in Nat
  BY TimeGoesOn DEF SnapshotsTyped
<1>1. /\ 0 \in Nat /\ now \in Nat /\ pass.mark \in Nat /\ (pass.walkAt # None => pass.walkAt \in Nat)
      /\ (cache # None => cache.mark \in Nat) /\ lastEvent \in Nat
  BY DEF SnapshotsTyped, Passes, Caches
<1>2. ASSUME NEW mark \in Nat, Dated(mark)
      PROVE  IF lead >= 0 THEN mark \div Second <= ServerSecond' ELSE mark <= now'
  <2>1. mark \div Second \in Nat
    BY MarkIsNat
  <2>2. CASE lead >= 0
    <3>1. mark \div Second <= ServerSecond
      BY <1>2, <2>2 DEF Dated
    <3> QED BY <1>0, <2>1, <2>2, <3>1
  <2>3. CASE ~(lead >= 0)
    <3>1. mark <= now
      BY <1>2, <2>3 DEF Dated
    <3> QED BY <1>0, <2>3, <3>1
  <2> QED BY <2>2, <2>3
<1>3. Dated(0) /\ Dated(now) /\ Dated(pass.mark) /\ (pass.walkAt # None => Dated(pass.walkAt))
  BY ServerTime DEF MarksAreDated
<1>4. lastEvent' <= ServerSecond'
  <2>1. lastEvent' \in Nat /\ lastEvent' <= ServerSecond
    BY <1>0, <1>1 DEF MarksAreDated
  <2> QED BY <1>0, <2>1
<1>5. pass'.mark \in Nat /\ Dated(pass'.mark)
  BY <1>1, <1>3
<1>6. pass'.walkAt # None => pass'.walkAt \in Nat /\ Dated(pass'.walkAt)
  BY <1>1, <1>3
<1>7. cache' # None => cache'.mark \in Nat /\ Dated(cache'.mark)
  BY <1>1 DEF MarksAreDated
<1>8. MarksAreDated'
  <2>1. IF lead >= 0 THEN pass'.mark \div Second <= ServerSecond' ELSE pass'.mark <= now'
    BY <1>2, <1>5
  <2>2. pass'.walkAt # None =>
          IF lead >= 0 THEN pass'.walkAt \div Second <= ServerSecond' ELSE pass'.walkAt <= now'
    BY <1>2, <1>6
  <2>3. cache' # None =>
          IF lead >= 0 THEN cache'.mark \div Second <= ServerSecond' ELSE cache'.mark <= now'
    BY <1>2, <1>7
  <2> QED BY <1>4, <2>1, <2>2, <2>3 DEF MarksAreDated, Dated
<1>9. WalksAreLater'
  <2> SUFFICES ASSUME lead < 0
               PROVE  /\ pass'.walkAt # None => pass'.mark <= pass'.walkAt
                      /\ cache' # None => cache'.mark <= cache'.walked
    BY DEF WalksAreLater
  <2>1. pass.mark <= now
    BY <1>0, <1>3 DEF Dated
  <2> QED BY <2>1 DEF WalksAreLater
<1> QED BY <1>8, <1>9

(* The clock alone. *)
LEMMA TickKeeps == ASSUME SnapInv, Tick PROVE SnapInv'
<1>0. /\ now' = now + 1 /\ lead' = lead
      /\ UNCHANGED <<local, remote, base, conflicts, lastEvent, hints, confirm, cache, snap, pass, left, made>>
  BY DEF Tick, sides, bounds
<1>1. now \in Nat /\ now' \in Nat /\ now <= now' /\ SnapshotsTyped
  BY <1>0, Types DEF SnapInv
<1>2. now' + lead' \in Nat
  BY <1>0, <1>1, TimeGoesOn
<1>3. SnapshotsTyped'
  BY <1>0, <1>1, <1>2 DEF SnapshotsTyped
<1>4. MarksAreDated' /\ WalksAreLater'
  BY <1>0, <1>1, MarksStay DEF SnapInv
<1>5. TreesAreReported'
  BY <1>0 DEF SnapInv, TreesAreReported, Reported, WalkMark, Larger
<1>6. PhasesAreSound' /\ KeptIsComplete' /\ SeenIsDone' /\ NarrowIsSound'
  BY <1>0 DEF SnapInv, PhasesAreSound, PassIsSound, ProbeIsSound, ScanIsSound, ApplyIsSound,
    Running, Reading, Trusted, KeptIsComplete, SeenIsDone, NarrowIsSound, Untouched
<1> QED BY <1>3, <1>4, <1>5, <1>6 DEF SnapInv

LEMMA NewContent ==
  ASSUME SnapInv, made < MaxVersion, made' = made + 1, NEW deletes \in BOOLEAN,
         NEW v, v = IF deletes THEN 0 ELSE made'
  PROVE  /\ v \in {0, made'} /\ v \in Nat /\ v \in Content /\ v <= made'
         /\ made' \in 0 .. MaxVersion /\ made \in Nat /\ made <= made' /\ made' \in Nat
<1>1. made \in Nat /\ MaxVersion \in Nat
  BY Types
<1>2. /\ v \in {0, made'} /\ v \in Nat /\ v <= made'
      /\ made' \in 0 .. MaxVersion /\ made <= made' /\ made' \in Nat
  BY <1>1
<1>3. v \in Content
  BY <1>1, <1>2 DEF Content
<1> QED BY <1>1, <1>2, <1>3

LEMMA EditLocalKeeps ==
  ASSUME SnapInv, NEW p \in Paths, NEW deletes \in BOOLEAN, EditLocal(p, deletes)
  PROVE  SnapInv'
<1> DEFINE v == IF deletes THEN 0 ELSE made'
           clean == pass.phase # "scan"
           seen == pass.seen \ {p}
<1>1. /\ made < MaxVersion /\ made' = made + 1 /\ local' = [local EXCEPT ![p] = v]
      /\ hints' = hints \union {p}
      /\ pass' = IF pass.phase = "idle" THEN pass ELSE [pass EXCEPT !.clean = clean, !.seen = seen]
      /\ UNCHANGED <<remote, base, conflicts, now, lead, lastEvent, confirm, cache, snap, left>>
  BY DEF EditLocal, clock
<1>2. /\ made' \in 0 .. MaxVersion /\ v \in {0, made'} /\ v \in Nat /\ v <= made' /\ made <= made' /\ made' \in Nat
      /\ local' \in Trees /\ local'[p] = v /\ \A q \in Paths : q # p => local'[q] = local[q]
  <2>1. v = IF deletes THEN 0 ELSE made'
    OBVIOUS
  <2>2. made < MaxVersion /\ made' = made + 1 /\ local \in Trees /\ local' = [local EXCEPT ![p] = v]
    BY <1>1, Types
  <2> HIDE DEF v
  <2>3. v \in Content /\ v \in {0, made'} /\ v \in Nat /\ v <= made'
    BY <2>1, <2>2, NewContent
  <2>4. made' \in 0 .. MaxVersion /\ made <= made' /\ made' \in Nat
    BY <2>1, <2>2, NewContent
  <2>5. local' \in Trees /\ local'[p] = v /\ \A q \in Paths : q # p => local'[q] = local[q]
    BY <2>2, <2>3 DEF Trees
  <2> QED BY <2>3, <2>4, <2>5
<1>3. clean \in BOOLEAN /\ seen \subseteq pass.seen /\ seen \subseteq Paths /\ p \notin seen
  BY Types
<1>c. clean => pass.phase # "scan"
  OBVIOUS
<1> HIDE DEF v, clean, seen
<1>4. pass' \in Passes
  BY <1>1, <1>3, Types DEF Passes
<1>5. /\ pass'.phase = pass.phase /\ pass'.kind = pass.kind /\ pass'.dir = pass.dir /\ pass'.hints = pass.hints
      /\ pass'.narrow = pass.narrow /\ pass'.reuse = pass.reuse /\ pass'.mark = pass.mark
      /\ pass'.walkAt = pass.walkAt /\ pass'.local = pass.local /\ pass'.tree = pass.tree
      /\ pass'.overlooked = pass.overlooked /\ pass'.late = pass.late /\ pass'.jobs = pass.jobs /\ pass'.wrote = pass.wrote
      /\ pass'.cacheValid = pass.cacheValid /\ pass'.snapValid = pass.snapValid
      /\ pass.phase = "idle" => pass' = pass
      /\ pass.phase # "idle" => pass'.seen = pass.seen \ {p}
      /\ pass.phase = "scan" => pass'.clean = FALSE
  BY <1>1, Types DEF Passes, seen, clean
<1>6. SnapshotsTyped'
  BY <1>1, <1>2, <1>4, Types DEF SnapInv, SnapshotsTyped
<1>8. MarksAreDated' /\ WalksAreLater'
  BY <1>1, <1>5, Types, MarksStay DEF SnapInv
<1>9. TreesAreReported'
  BY <1>1, <1>5 DEF SnapInv, TreesAreReported, Reported, WalkMark, Larger
<1>10. PassIsSound' /\ ProbeIsSound' /\ ApplyIsSound'
  BY <1>1, <1>5 DEF SnapInv, PhasesAreSound, PassIsSound, ProbeIsSound, ApplyIsSound, Running
<1>11. ScanIsSound'
  BY <1>1, <1>2, <1>5 DEF SnapInv, PhasesAreSound, ScanIsSound
<1>12. KeptIsComplete'
  BY <1>1, <1>2, <1>5 DEF SnapInv, KeptIsComplete, Trusted, Reading
<1>13. SeenIsDone'
  BY <1>1, <1>2, <1>5 DEF SnapInv, SeenIsDone
<1>14. NarrowIsSound'
  <2> SUFFICES ASSUME pass.phase \in {"scan", "apply"}, pass.narrow
               PROVE  /\ pass.jobs \ pass.hints \subseteq conflicts
                      /\ \A q \in Paths \ pass.hints : Untouched(q)'
    BY <1>1, <1>5 DEF NarrowIsSound
  <2>1. /\ pass.jobs \ pass.hints \subseteq conflicts
        /\ \A q \in Paths \ pass.hints : Untouched(q)
    BY DEF SnapInv, NarrowIsSound
  <2>2. ASSUME NEW q \in Paths \ pass.hints PROVE Untouched(q)'
    <3>1. Untouched(q)
      BY <2>1, <2>2
    <3>2. local'[q] # base[q] => local[q] # base[q] \/ q \in hints'
      BY <1>1, <1>2
    <3> QED BY <1>1, <1>5, <3>1, <3>2 DEF Untouched
  <2> QED BY <2>1, <2>2
<1> QED BY <1>6, <1>8, <1>9, <1>10, <1>11, <1>12, <1>13, <1>14 DEF SnapInv, PhasesAreSound

(* An event of now is reported by a probe at any watermark there is, unless *)
(* the device's clock is ahead.                                             *)
LEMMA EventReports ==
  ASSUME SnapInv, lastEvent' = ServerSecond, UNCHANGED <<cache, lead>>,
         pass'.phase = "scan" =>
           /\ pass.phase = "scan" /\ pass'.tree = pass.tree /\ pass'.reuse = pass.reuse
           /\ pass'.mark = pass.mark /\ pass'.walkAt = pass.walkAt
  PROVE  TreesAreReported'
<1> SUFFICES ASSUME lead >= 0 PROVE TreesAreReported'
  BY DEF TreesAreReported
<1>1. cache # None => lastEvent' >= cache.mark \div Second
  <2>1. cache # None => /\ ServerSecond \in Nat /\ cache.mark \div Second \in Nat
                        /\ cache.mark \div Second <= ServerSecond
    BY Types, MarkIsNat, ServerTime DEF SnapInv, MarksAreDated, Dated
  <2> QED BY <2>1
<1>2. pass.walkAt # None => lastEvent' >= WalkMark(pass.mark, pass.walkAt) \div Second
  <2> SUFFICES ASSUME pass.walkAt # None PROVE lastEvent' >= WalkMark(pass.mark, pass.walkAt) \div Second
    OBVIOUS
  <2> DEFINE mark == WalkMark(pass.mark, pass.walkAt)
  <2>1. mark \in {pass.mark, pass.walkAt} /\ mark \in Nat
    BY Types, LargerMark DEF WalkMark
  <2>2. Dated(mark)
    BY <2>1 DEF SnapInv, MarksAreDated
  <2> HIDE DEF mark
  <2>3. ServerSecond \in Nat /\ mark \div Second \in Nat /\ mark \div Second <= ServerSecond
    BY <2>1, <2>2, MarkIsNat, ServerTime DEF SnapInv, Dated
  <2>4. lastEvent' >= mark \div Second
    BY <2>3
  <2> QED BY <2>4 DEF mark
<1>4. pass.phase = "scan" /\ ~pass.reuse /\ pass.tree # None => pass.walkAt # None
  BY DEF SnapInv, PhasesAreSound, ScanIsSound
<1>5. pass'.phase = "scan" /\ ~pass'.reuse /\ pass'.tree # None =>
        lastEvent' >= WalkMark(pass'.mark, pass'.walkAt) \div Second
  BY <1>2, <1>4
<1> QED BY <1>1, <1>5 DEF TreesAreReported, Reported, WalkMark, Larger

LEMMA EditRemoteKeeps ==
  ASSUME SnapInv, NEW p \in Paths, NEW deletes \in BOOLEAN, EditRemote(p, deletes)
  PROVE  SnapInv'
<1> DEFINE v == IF deletes THEN 0 ELSE made'
           late == pass.late \union {p}
<1>1. /\ made < MaxVersion /\ made' = made + 1 /\ remote' = [remote EXCEPT ![p] = v]
      /\ lastEvent' = ServerSecond
      /\ pass' = IF pass.narrow THEN [pass EXCEPT !.late = late] ELSE pass
      /\ UNCHANGED <<local, base, conflicts, now, lead, hints, confirm, cache, snap, left>>
  BY DEF EditRemote, clock
<1>2. /\ made' \in 0 .. MaxVersion
      /\ remote' \in Trees /\ \A q \in Paths : q # p => remote'[q] = remote[q]
  <2>1. v = IF deletes THEN 0 ELSE made'
    OBVIOUS
  <2>2. made < MaxVersion /\ made' = made + 1 /\ remote \in Trees /\ remote' = [remote EXCEPT ![p] = v]
    BY <1>1, Types
  <2> HIDE DEF v
  <2>3. v \in Content
    BY <2>1, <2>2, NewContent
  <2>4. made' \in 0 .. MaxVersion
    BY <2>1, <2>2, NewContent
  <2>5. remote' \in Trees /\ \A q \in Paths : q # p => remote'[q] = remote[q]
    BY <2>2, <2>3 DEF Trees
  <2> QED BY <2>4, <2>5
<1> HIDE DEF v
<1>3. ServerSecond \in Nat
  BY ServerTime DEF SnapInv
<1>4. late \in SUBSET Paths /\ p \in late /\ pass.late \subseteq late
  BY Types DEF Passes
<1> HIDE DEF late
<1>5. /\ pass' \in Passes /\ pass'.phase = pass.phase /\ pass'.kind = pass.kind /\ pass'.dir = pass.dir
      /\ pass'.hints = pass.hints /\ pass'.seen = pass.seen /\ pass'.clean = pass.clean
      /\ pass'.narrow = pass.narrow /\ pass'.reuse = pass.reuse /\ pass'.mark = pass.mark
      /\ pass'.walkAt = pass.walkAt /\ pass'.local = pass.local /\ pass'.tree = pass.tree
      /\ pass'.overlooked = pass.overlooked /\ pass'.jobs = pass.jobs /\ pass'.wrote = pass.wrote
      /\ pass'.cacheValid = pass.cacheValid /\ pass'.snapValid = pass.snapValid
      /\ pass.narrow => pass'.late = late
  BY <1>1, <1>4, Types DEF Passes
<1>6. SnapshotsTyped'
  BY <1>1, <1>2, <1>3, <1>5 DEF SnapInv, SnapshotsTyped
<1>7. MarksAreDated' /\ WalksAreLater'
  BY <1>1, <1>5, Types, MarksStay DEF SnapInv
<1>8. TreesAreReported'
  BY <1>1, <1>5, EventReports
<1>9. PhasesAreSound' /\ KeptIsComplete' /\ SeenIsDone'
  BY <1>1, <1>5 DEF SnapInv, PhasesAreSound, PassIsSound, ProbeIsSound, ScanIsSound, ApplyIsSound,
    Running, Reading, Trusted, KeptIsComplete, SeenIsDone
<1>10. NarrowIsSound'
  <2> SUFFICES ASSUME pass.phase \in {"scan", "apply"}, pass.narrow
               PROVE  /\ pass.jobs \ pass.hints \subseteq conflicts
                      /\ \A q \in Paths \ pass.hints : Untouched(q)'
    BY <1>1, <1>5 DEF NarrowIsSound
  <2>1. /\ pass.jobs \ pass.hints \subseteq conflicts
        /\ \A q \in Paths \ pass.hints : Untouched(q)
    BY DEF SnapInv, NarrowIsSound
  <2>2. ASSUME NEW q \in Paths \ pass.hints PROVE Untouched(q)'
    <3>1. Untouched(q)
      BY <2>1, <2>2
    <3>2. remote'[q] # base[q] => remote[q] # base[q] \/ q \in late
      BY <1>2, <1>4
    <3> QED BY <1>1, <1>4, <1>5, <3>1, <3>2 DEF Untouched
  <2> QED BY <2>1, <2>2
<1> QED BY <1>6, <1>7, <1>8, <1>9, <1>10 DEF SnapInv

(* A pass begins.                                                           *)
LEMMA StartPassKeeps ==
  ASSUME SnapInv, NEW kind \in Kinds, NEW dir \in Directions, StartPass(kind, dir)
  PROVE  SnapInv'
<1> DEFINE given == IF kind = "auto" THEN hints ELSE {}
           cacheValid == IsFresh(cache)
           snapValid == IsFresh(snap)
<1>1. /\ pass.phase = "idle" /\ (kind = "manual" \/ (~confirm /\ dir = "both"))
      /\ confirm' = (kind # "manual" /\ confirm)
      /\ pass' = [Idle EXCEPT !.phase = "probe", !.kind = kind, !.dir = dir, !.hints = given, !.seen = hints,
                              !.cacheValid = cacheValid, !.snapValid = snapValid, !.mark = now]
      /\ UNCHANGED <<local, remote, base, conflicts, now, lead, lastEvent, hints, cache, snap, left, made>>
  BY DEF StartPass, sides, clock, bounds
<1>2. /\ given \subseteq hints /\ (kind = "auto" => given = hints) /\ given \subseteq Paths
      /\ cacheValid \in BOOLEAN /\ snapValid \in BOOLEAN
      /\ (cacheValid => cache # None) /\ (snapValid => snap # None)
  BY Types DEF IsFresh
<1>3. dir \in {"both", "push", "pull"} /\ "probe" \in Phases /\ ~confirm' /\ confirm' \in BOOLEAN
  BY <1>1, SnapshotsAssumption DEF Phases
<1> HIDE DEF given, cacheValid, snapValid
<1>4. pass' \in Passes
  <2>1. /\ Idle \in Passes /\ given \in SUBSET Paths /\ hints \in SUBSET Paths /\ now \in Nat
        /\ kind \in Kinds /\ "probe" \in Phases /\ dir \in {"both", "push", "pull"}
        /\ cacheValid \in BOOLEAN /\ snapValid \in BOOLEAN
    BY <1>2, <1>3, Types, Idleness
  <2> DEFINE half == [Idle EXCEPT !.phase = "probe", !.kind = kind, !.dir = dir, !.hints = given]
  <2>2. half \in Passes
    BY ONLY <2>1 DEF Passes
  <2>3. pass' = [half EXCEPT !.seen = hints, !.cacheValid = cacheValid, !.snapValid = snapValid, !.mark = now]
    BY <1>1
  <2> HIDE DEF half
  <2>4. \A c, s \in BOOLEAN : [half EXCEPT !.seen = hints, !.cacheValid = c, !.snapValid = s, !.mark = now] \in Passes
    BY ONLY <2>1, <2>2 DEF Passes
  <2> QED BY ONLY <2>1, <2>3, <2>4, Zenon
<1>5. /\ pass'.phase = "probe" /\ pass'.kind = kind /\ pass'.dir = dir /\ pass'.hints = given
      /\ pass'.seen = hints /\ pass'.cacheValid = cacheValid /\ pass'.snapValid = snapValid /\ pass'.mark = now
  BY <1>1, Idleness DEF Passes
<1>6. /\ pass'.narrow = Idle.narrow /\ pass'.reuse = Idle.reuse /\ pass'.local = Idle.local
      /\ pass'.walkAt = Idle.walkAt /\ pass'.tree = Idle.tree /\ pass'.jobs = Idle.jobs /\ pass'.wrote = Idle.wrote
  BY <1>1, Idleness DEF Passes
<1>7. /\ ~pass'.narrow /\ ~pass'.reuse /\ pass'.local = None /\ pass'.walkAt = None /\ pass'.tree = None
      /\ pass'.jobs = {} /\ pass'.wrote = None
  BY <1>6, Idleness
<1>8. SnapshotsTyped'
  BY <1>1, <1>3, <1>4 DEF SnapInv, SnapshotsTyped
<1>10. MarksAreDated' /\ WalksAreLater'
  BY <1>1, <1>5, <1>7, Types, MarksStay DEF SnapInv
<1>11. TreesAreReported'
  BY <1>1, <1>5, <1>7 DEF SnapInv, TreesAreReported, Reported
<1>12. PhasesAreSound'
  BY <1>1, <1>2, <1>3, <1>5, <1>7 DEF PhasesAreSound, PassIsSound, ProbeIsSound, ScanIsSound, ApplyIsSound, Running
<1>13. KeptIsComplete'
  <2>1. Trusted' => Trusted
    BY <1>1, <1>3, <1>5 DEF Trusted, Reading
  <2>2. pass.jobs = {} /\ pass.wrote = None
    BY <1>1 DEF SnapInv, PhasesAreSound, PassIsSound
  <2> QED BY <1>1, <1>7, <2>1, <2>2 DEF SnapInv, KeptIsComplete
<1>14. SeenIsDone' /\ NarrowIsSound'
  BY <1>5 DEF SeenIsDone, NarrowIsSound
<1> QED BY <1>8, <1>10, <1>11, <1>12, <1>13, <1>14 DEF SnapInv

(* A kept tree that is out of date is reported by the probe, or overlooked  *)
(* by a device whose clock is ahead.                                        *)
LEMMA StaleIsReported == ASSUME SnapInv PROVE StaleCacheIsReported
<1> SUFFICES ASSUME cache # None, cache.tree # remote, ~Overlooks(cache) PROVE Reported(cache.mark)
  BY DEF StaleCacheIsReported
<1>1. cache.mark \in Nat /\ cache.walked \in Nat /\ lastEvent \in Nat /\ lead \in Int
  BY Types
<1>2. CASE lead >= 0
  BY <1>2 DEF SnapInv, TreesAreReported
<1>3. CASE lead < 0
  <2>1. cache.mark <= cache.walked /\ ~(lastEvent < cache.walked \div Second)
    BY <1>3 DEF SnapInv, WalksAreLater, Overlooks
  <2>2. cache.mark \div Second <= cache.walked \div Second
    BY <1>1, <2>1, Division, SnapshotsAssumption
  <2>3. cache.mark \div Second \in Nat /\ cache.walked \div Second \in Nat
    BY <1>1, MarkIsNat
  <2> QED BY <1>1, <2>1, <2>2, <2>3 DEF Reported
<1> QED BY <1>1, <1>2, <1>3

(* The probe has answered, or failed.  When it reports nothing, what is kept*)
(* of the drive is as the drive is, but for what was overlooked.            *)
LEMMA BeginScanKeeps ==
  ASSUME SnapInv, pass.phase = "probe", NEW unchanged \in BOOLEAN, NEW mark \in Nat, BeginScan(unchanged, mark),
         Dated(mark), unchanged => ~Reported(Watermark),
         UNCHANGED <<local, remote, base, conflicts, now, lead, lastEvent, hints, confirm, cache, snap, left, made>>
  PROVE  SnapInv'
<1> DEFINE reuse == unchanged /\ pass.cacheValid
           narrow == NarrowAllowed(unchanged)
           date == IF reuse THEN 0 ELSE mark
           tree == IF reuse THEN cache.tree ELSE None
           overlooked == IF narrow THEN Unreported ELSE {}
<1>1. pass' = [pass EXCEPT !.phase = "scan", !.cacheValid = FALSE, !.snapValid = FALSE, !.mark = date,
                           !.overlooked = overlooked, !.reuse = reuse, !.narrow = narrow, !.tree = tree]
  BY DEF BeginScan
<1>2. /\ pass.local = None /\ pass.walkAt = None /\ pass.jobs = {} /\ pass.wrote = None
      /\ pass.snapValid => snap # None
      /\ pass.cacheValid => cache # None
      /\ Running /\ ~confirm /\ pass.cacheValid \in BOOLEAN
  BY Types DEF SnapInv, PhasesAreSound, PassIsSound, ProbeIsSound, Running, Passes
<1>3. reuse => cache # None /\ tree = cache.tree /\ (cache.tree = remote \/ Overlooks(cache))
  BY <1>2, StaleIsReported DEF StaleCacheIsReported, Watermark
<1>4. narrow => /\ reuse /\ pass.kind = "auto" /\ overlooked = Unreported /\ snap # None
  BY <1>2 DEF NarrowAllowed, Refreshes
<1>5. /\ reuse \in BOOLEAN /\ narrow \in BOOLEAN /\ date \in Nat /\ Dated(date) /\ (~reuse => tree = None)
      /\ tree \in Trees \union {None} /\ overlooked \in SUBSET Paths /\ "scan" \in Phases
      /\ date \in {0, mark}
  BY <1>2, <1>3, Types, ServerTime DEF NarrowAllowed, Refreshes, Phases, SnapInv, Unreported
<1> HIDE DEF reuse, narrow, date, tree, overlooked
<1>6. pass' \in Passes
  <2>1. pass \in Passes
    BY Types
  <2> DEFINE half == [pass EXCEPT !.phase = "scan", !.cacheValid = FALSE, !.snapValid = FALSE, !.mark = date]
  <2>2. half \in Passes
    BY ONLY <1>5, <2>1 DEF Passes
  <2>3. pass' = [half EXCEPT !.overlooked = overlooked, !.reuse = reuse, !.narrow = narrow, !.tree = tree]
    BY <1>1
  <2> HIDE DEF half
  <2>4. \A r, n \in BOOLEAN :
          [half EXCEPT !.overlooked = overlooked, !.reuse = r, !.narrow = n, !.tree = tree] \in Passes
    BY ONLY <1>5, <2>2 DEF Passes
  <2> QED BY ONLY <1>5, <2>3, <2>4, Zenon
<1>7. /\ pass'.phase = "scan" /\ pass'.mark = date /\ pass'.overlooked = overlooked /\ pass'.reuse = reuse
      /\ pass'.narrow = narrow /\ pass'.tree = tree
  BY <1>1, Types DEF Passes
<1>8. /\ pass'.kind = pass.kind /\ pass'.dir = pass.dir /\ pass'.hints = pass.hints /\ pass'.seen = pass.seen
      /\ pass'.local = None /\ pass'.walkAt = None /\ pass'.jobs = {} /\ pass'.wrote = None
  BY <1>1, <1>2, Types DEF Passes
<1>9. SnapshotsTyped'
  BY <1>6 DEF SnapInv, SnapshotsTyped
<1>11. MarksAreDated' /\ WalksAreLater'
  <2>1. pass'.walkAt = None /\ Dated(date)
    BY <1>5, <1>8
  <2>2. MarksAreDated'
    BY <1>7, <2>1 DEF SnapInv, MarksAreDated, Dated, ServerSecond
  <2>3. WalksAreLater'
    BY <2>1 DEF SnapInv, WalksAreLater
  <2> QED BY <2>2, <2>3
<1>12. TreesAreReported'
  BY <1>5, <1>7, <1>8 DEF SnapInv, TreesAreReported, Reported
<1>13. PassIsSound'
  BY <1>2, <1>4, <1>7, <1>8 DEF SnapInv, PhasesAreSound, PassIsSound, Running
<1>14. ProbeIsSound' /\ ScanIsSound' /\ ApplyIsSound'
  BY <1>3, <1>5, <1>7, <1>8 DEF ProbeIsSound, ScanIsSound, ApplyIsSound
<1>15. KeptIsComplete'
  BY <1>2, <1>7, <1>8 DEF SnapInv, KeptIsComplete, Trusted, Reading
<1>16. SeenIsDone'
  BY <1>7 DEF SeenIsDone
<1>17. NarrowIsSound'
  <2> SUFFICES ASSUME narrow, NEW p \in Paths PROVE Untouched(p)'
    BY <1>7, <1>8 DEF NarrowIsSound
  <2>1. /\ pass'.overlooked = Unreported /\ cache # None /\ snap # None /\ pass.kind = "auto"
        /\ cache.tree = remote \/ Overlooks(cache)
    BY <1>3, <1>4, <1>7
  <2>2. remote[p] = cache.tree[p] \/ p \in pass'.overlooked
    BY <2>1 DEF Unreported
  <2>3. Trusted
    BY <1>2, <2>1 DEF Trusted
  <2>4. /\ local[p] # base[p] => p \in hints \union left \union conflicts
        /\ cache.tree[p] # base[p] => p \in left \union conflicts
    BY <1>2, <2>1, <2>3, SnapshotsAssumption DEF SnapInv, KeptIsComplete
  <2> QED BY <2>2, <2>4 DEF Untouched
<1> QED BY <1>9, <1>11, <1>12, <1>13, <1>14, <1>15, <1>16, <1>17 DEF SnapInv, PhasesAreSound

LEMMA ProbeKeeps == ASSUME SnapInv, Probe PROVE SnapInv'
<1>1. /\ pass.phase = "probe"
      /\ UNCHANGED <<local, remote, base, conflicts, now, lead, lastEvent, hints, confirm, cache, snap, left, made>>
  BY DEF Probe, sides, clock, bounds
<1>2. pass.mark \in Nat /\ Dated(pass.mark)
  BY Types DEF SnapInv, MarksAreDated
<1>3. CASE Refreshes
  <2>1. BeginScan(FALSE, pass.mark)
    BY <1>3 DEF Probe
  <2> QED BY <1>1, <1>2, <2>1, BeginScanKeeps
<1>4. CASE ~Refreshes
  <2> DEFINE unchanged == ~Reported(Watermark)
             mark == NewWatermark(Watermark)
             event == lastEvent * Second
  <2>1. BeginScan(unchanged, mark)
    BY <1>4 DEF Probe
  <2>2. Watermark \in Nat /\ Dated(Watermark)
    BY Types, ServerTime DEF SnapInv, MarksAreDated, Watermark
  <2>3. event \in Nat /\ Dated(event)
    <3>1. \A t, u \in Nat : t * u \in Nat
      OBVIOUS
    <3> QED BY <3>1, Types, ServerTime, SnapshotsAssumption DEF SnapInv, MarksAreDated
  <2>4. mark \in {Watermark, event}
    <3> HIDE DEF event
    <3>1. Larger(Watermark, event) \in {Watermark, event}
      BY <2>2, <2>3, LargerMark
    <3> QED BY <3>1 DEF NewWatermark, event
  <2>5. mark \in Nat /\ Dated(mark)
    <3> HIDE DEF mark, event
    <3> QED BY <2>2, <2>3, <2>4
  <2>6. unchanged \in BOOLEAN /\ (unchanged => ~Reported(Watermark))
    BY DEF Reported
  <2> HIDE DEF unchanged, mark, event
  <2> QED BY <1>1, <2>1, <2>5, <2>6, BeginScanKeeps
<1> QED BY <1>3, <1>4

LEMMA ProbeFailsKeeps == ASSUME SnapInv, ProbeFails PROVE SnapInv'
<1>1. /\ pass.phase = "probe" /\ BeginScan(FALSE, pass.mark)
      /\ UNCHANGED <<local, remote, base, conflicts, now, lead, lastEvent, hints, confirm, cache, snap, left, made>>
  BY DEF ProbeFails, sides, clock
<1>2. pass.mark \in Nat /\ Dated(pass.mark)
  BY Types DEF SnapInv, MarksAreDated
<1> QED BY <1>1, <1>2, BeginScanKeeps

(* Reading a side adds what was read to the pass.                           *)
LEMMA ReadingKeeps ==
  ASSUME SnapInv, pass.phase = "scan", pass' \in Passes,
         UNCHANGED <<local, remote, base, conflicts, now, lead, lastEvent, hints, confirm, cache, snap, left, made>>,
         pass'.phase = pass.phase, pass'.kind = pass.kind, pass'.dir = pass.dir, pass'.hints = pass.hints,
         pass'.seen = pass.seen, pass'.narrow = pass.narrow, pass'.reuse = pass.reuse, pass'.clean = pass.clean,
         pass'.mark = pass.mark, pass'.overlooked = pass.overlooked, pass'.late = pass.late,
         pass'.jobs = pass.jobs, pass'.wrote = pass.wrote,
         pass'.walkAt \in {None, now, pass.walkAt}, TreesAreReported', ScanIsSound'
  PROVE  SnapInv'
<1>1. SnapshotsTyped'
  BY DEF SnapInv, SnapshotsTyped
<1>2. KeptIsComplete' /\ SeenIsDone'
  BY DEF SnapInv, KeptIsComplete, Trusted, Reading, SeenIsDone
<1>3. MarksAreDated' /\ WalksAreLater'
  BY Types, MarksStay DEF SnapInv
<1>4. PassIsSound' /\ ProbeIsSound' /\ ApplyIsSound'
  BY DEF SnapInv, PhasesAreSound, PassIsSound, ProbeIsSound, ApplyIsSound, Running
<1>5. NarrowIsSound'
  <2>1. \A p \in Paths : Untouched(p) => Untouched(p)'
    BY DEF Untouched
  <2> QED BY <2>1 DEF SnapInv, NarrowIsSound
<1> QED BY <1>1, <1>2, <1>3, <1>4, <1>5 DEF SnapInv, PhasesAreSound

LEMMA ReadLocalKeeps == ASSUME SnapInv, ReadLocal PROVE SnapInv'
<1>1. /\ pass.phase = "scan" /\ pass' = [pass EXCEPT !.local = local] /\ local \in Trees
      /\ UNCHANGED <<local, remote, base, conflicts, now, lead, lastEvent, hints, confirm, cache, snap, left, made>>
  BY Types DEF ReadLocal, sides, clock, bounds
<1>2. /\ pass' \in Passes /\ pass'.local = local
      /\ pass'.phase = pass.phase /\ pass'.kind = pass.kind /\ pass'.dir = pass.dir /\ pass'.hints = pass.hints
      /\ pass'.seen = pass.seen /\ pass'.narrow = pass.narrow /\ pass'.reuse = pass.reuse /\ pass'.clean = pass.clean
      /\ pass'.mark = pass.mark /\ pass'.overlooked = pass.overlooked /\ pass'.late = pass.late
      /\ pass'.jobs = pass.jobs /\ pass'.wrote = pass.wrote
      /\ pass'.walkAt = pass.walkAt /\ pass'.tree = pass.tree
  BY <1>1, Types DEF Passes
<1>3. TreesAreReported'
  BY <1>1, <1>2 DEF SnapInv, TreesAreReported, Reported, WalkMark, Larger
<1>4. ScanIsSound'
  BY <1>1, <1>2 DEF SnapInv, PhasesAreSound, ScanIsSound
<1> QED BY <1>1, <1>2, <1>3, <1>4, ReadingKeeps

LEMMA StartWalkKeeps == ASSUME SnapInv, StartWalk PROVE SnapInv'
<1>1. /\ pass.phase = "scan" /\ ~pass.reuse /\ pass.walkAt = None /\ pass' = [pass EXCEPT !.walkAt = now]
      /\ UNCHANGED <<local, remote, base, conflicts, now, lead, lastEvent, hints, confirm, cache, snap, left, made>>
  BY DEF StartWalk, sides, clock, bounds
<1>2. /\ pass' \in Passes /\ pass'.walkAt = now
      /\ pass'.phase = pass.phase /\ pass'.kind = pass.kind /\ pass'.dir = pass.dir /\ pass'.hints = pass.hints
      /\ pass'.seen = pass.seen /\ pass'.narrow = pass.narrow /\ pass'.reuse = pass.reuse /\ pass'.clean = pass.clean
      /\ pass'.mark = pass.mark /\ pass'.overlooked = pass.overlooked /\ pass'.late = pass.late
      /\ pass'.jobs = pass.jobs /\ pass'.wrote = pass.wrote
      /\ pass'.local = pass.local /\ pass'.tree = pass.tree
  BY <1>1, Types DEF Passes
<1>3. TreesAreReported'
  <2>1. pass.tree = None
    BY <1>1 DEF SnapInv, PhasesAreSound, ScanIsSound
  <2> QED BY <1>1, <1>2, <2>1 DEF SnapInv, TreesAreReported, Reported
<1>4. ScanIsSound'
  BY <1>1, <1>2 DEF SnapInv, PhasesAreSound, ScanIsSound
<1> QED BY <1>1, <1>2, <1>3, <1>4, ReadingKeeps

LEMMA WalkKeeps == ASSUME SnapInv, Walk PROVE SnapInv'
<1>1. /\ pass.phase = "scan" /\ pass.walkAt # None /\ pass' = [pass EXCEPT !.tree = remote] /\ remote \in Trees
      /\ UNCHANGED <<local, remote, base, conflicts, now, lead, lastEvent, hints, confirm, cache, snap, left, made>>
  BY Types DEF Walk, sides, clock, bounds
<1>2. /\ pass' \in Passes /\ pass'.tree = remote
      /\ pass'.phase = pass.phase /\ pass'.kind = pass.kind /\ pass'.dir = pass.dir /\ pass'.hints = pass.hints
      /\ pass'.seen = pass.seen /\ pass'.narrow = pass.narrow /\ pass'.reuse = pass.reuse /\ pass'.clean = pass.clean
      /\ pass'.mark = pass.mark /\ pass'.overlooked = pass.overlooked /\ pass'.late = pass.late
      /\ pass'.jobs = pass.jobs /\ pass'.wrote = pass.wrote
      /\ pass'.local = pass.local /\ pass'.walkAt = pass.walkAt
  BY <1>1, Types DEF Passes
<1>3. ~pass.reuse
  BY <1>1 DEF SnapInv, PhasesAreSound, ScanIsSound
<1>4. TreesAreReported'
  BY <1>1, <1>2 DEF SnapInv, TreesAreReported, Reported
<1>5. ScanIsSound'
  BY <1>1, <1>2, <1>3 DEF SnapInv, PhasesAreSound, ScanIsSound
<1> QED BY <1>1, <1>2, <1>4, <1>5, ReadingKeeps

(* What a path needs.                                                       *)
LEMMA WantedFacts ==
  ASSUME NEW p, pass.dir \in {"both", "push", "pull"}
  PROVE  /\ Wanted(p) = "none" => p \notin conflicts /\ pass.local[p] = base[p] /\ pass.tree[p] = base[p]
         /\ Wanted(p) \in {"push", "pull", "record"} => p \notin conflicts
         /\ Wanted(p) = "record" => pass.local[p] = pass.tree[p]
         /\ pass.dir = "both" /\ Wanted(p) # "none" => Allowed(p)
<1> DEFINE l == pass.local[p]
           r == pass.tree[p]
           disputed == base[p] \notin {l, r} /\ ((base[p] # 0 /\ 0 \in {l, r}) \/ pass.dir = "both")
           overridden == pass.dir # "both" /\ (base[p] \notin {l, r} \/ (base[p] # 0 /\ 0 \in {l, r}))
<1>1. Wanted(p) = IF p \in conflicts THEN "conflict"
                  ELSE IF l = r THEN IF base[p] = l THEN "none" ELSE "record"
                  ELSE IF disputed THEN "conflict"
                  ELSE IF overridden THEN pass.dir
                  ELSE IF r = base[p] THEN "push" ELSE "pull"
  BY DEF Wanted
<1>2. overridden => pass.dir \in {"push", "pull"}
  OBVIOUS
<1> HIDE DEF disputed, overridden
<1>3. CASE p \in conflicts \/ l = r
  BY <1>1, <1>3 DEF Allowed
<1>4. CASE p \notin conflicts /\ l # r
  <2>1. Wanted(p) \in {"conflict", "push", "pull"}
    BY <1>1, <1>2, <1>4
  <2> QED BY <1>4, <2>1 DEF Allowed
<1> QED BY <1>3, <1>4

(* Plans.  A full one knows both sides, a narrow one what it needs to.      *)
LEMMA PlanKeeps == ASSUME SnapInv, Plan PROVE SnapInv'
<1> DEFINE planned == Jobs
<1>1. /\ pass.phase = "scan" /\ pass.local # None /\ pass.tree # None /\ (pass.narrow \/ pass.clean) /\ Publish
      /\ pass' = [pass EXCEPT !.phase = "apply", !.jobs = planned, !.clean = TRUE, !.mark = 0, !.walkAt = None]
      /\ UNCHANGED <<local, remote, base, conflicts, now, lead, lastEvent, hints, confirm, made>>
  BY DEF Plan, ScanRead, sides, clock, bounds
<1>2. planned \in SUBSET Paths /\ planned \subseteq Scope /\ LeftOut \in SUBSET Paths /\ "apply" \in Phases
  BY Types DEF Jobs, Scope, LeftOut, Phases
<1>3. \A p \in Scope : Wanted(p) # "none" => p \in planned \/ ~Allowed(p)
  BY DEF Jobs
<1> HIDE DEF planned
<1>4. /\ pass' \in Passes /\ pass'.phase = "apply" /\ pass'.jobs = planned /\ pass'.mark = 0 /\ pass'.walkAt = None
      /\ pass'.kind = pass.kind /\ pass'.dir = pass.dir /\ pass'.hints = pass.hints /\ pass'.seen = pass.seen
      /\ pass'.narrow = pass.narrow /\ pass'.reuse = pass.reuse /\ pass'.local = pass.local /\ pass'.tree = pass.tree
      /\ pass'.overlooked = pass.overlooked /\ pass'.late = pass.late /\ pass'.wrote = pass.wrote
  <2>1. pass \in Passes
    BY Types
  <2> QED BY <1>1, <1>2, <2>1 DEF Passes
<1>5. /\ pass.local \in Trees /\ pass.tree \in Trees /\ pass.jobs = {} /\ pass.wrote = None /\ ~confirm
      /\ (pass.narrow => pass.kind = "auto" /\ pass.dir = "both" /\ pass.reuse)
      /\ (pass.reuse => cache # None /\ pass.tree = cache.tree)
      /\ \A p \in Paths : local[p] # pass.local[p] => ~pass.clean /\ p \in hints \ pass.seen
      /\ (~pass.reuse => pass.walkAt \in Nat)
      /\ Running /\ pass.hints \subseteq hints /\ pass.seen \subseteq hints
      /\ (pass.kind = "auto" => pass.seen \subseteq pass.hints)
      /\ pass.dir \in {"both", "push", "pull"}
  BY <1>1, Types DEF SnapInv, PhasesAreSound, PassIsSound, ScanIsSound, Running
<1>7. /\ PassIsSound' /\ ProbeIsSound' /\ ScanIsSound'
  BY <1>1, <1>4, <1>5 DEF SnapInv, PhasesAreSound, PassIsSound, ProbeIsSound, ScanIsSound, Running
<1>8. pass'.wrote \notin pass'.jobs
  BY <1>2, <1>4, <1>5, SnapshotsAssumption
<1>9. CASE pass.narrow
  <2>1. UNCHANGED <<cache, snap, left>>
    BY <1>1, <1>9 DEF Publish
  <2>2. SnapshotsTyped'
    BY <1>1, <1>4, <2>1 DEF SnapInv, SnapshotsTyped
  <2>3. MarksAreDated' /\ WalksAreLater'
    BY <1>1, <1>4, <2>1, Types, MarksStay DEF SnapInv
  <2>4. TreesAreReported'
    BY <1>1, <1>4, <1>5, <2>1 DEF SnapInv, TreesAreReported, Reported
  <2>5. ApplyIsSound'
    BY <1>4, <1>5, <1>8, <1>9, <2>1 DEF ApplyIsSound
  <2>6. KeptIsComplete'
    BY <1>1, <1>4, <1>5, <1>9, <2>1 DEF SnapInv, KeptIsComplete, Trusted, Reading
  <2>7. SeenIsDone'
    <3> SUFFICES ASSUME NEW p \in pass.seen, local[p] # base[p], p \notin conflicts PROVE p \in planned
      BY <1>1, <1>4, <2>1 DEF SeenIsDone
    <3>1. p \in Paths /\ p \in pass.hints /\ p \in Scope /\ local[p] = pass.local[p]
      BY <1>5, <1>9, Types DEF Scope
    <3>2. Wanted(p) # "none" /\ Allowed(p)
      BY <1>5, <1>9, <3>1, WantedFacts
    <3> QED BY <1>3, <3>1, <3>2
  <2>8. NarrowIsSound'
    <3>1. planned \ pass.hints \subseteq conflicts
      BY <1>2, <1>9 DEF Scope
    <3>2. \A p \in Paths : Untouched(p) => Untouched(p)'
      BY <1>1, <1>4, <2>1 DEF Untouched
    <3> QED BY <1>1, <1>4, <3>1, <3>2 DEF SnapInv, NarrowIsSound
  <2> QED BY <1>7, <2>2, <2>3, <2>4, <2>5, <2>6, <2>7, <2>8 DEF SnapInv, PhasesAreSound
<1>10. CASE ~pass.narrow
  <2> DEFINE mark == WalkMark(pass.mark, pass.walkAt)
  <2>1. /\ cache' = IF pass.reuse THEN cache ELSE [tree |-> pass.tree, fetched |-> now, mark |-> mark, walked |-> pass.walkAt]
        /\ snap' = [tree |-> pass.local, fetched |-> now]
        /\ left' = LeftOut
    BY <1>1, <1>10 DEF Publish
  <2>2. ~pass.reuse =>
          /\ mark \in Nat /\ Dated(mark) /\ (lead >= 0 /\ pass.tree # remote => Reported(mark))
          /\ lead < 0 => mark <= pass.walkAt
    <3> SUFFICES ASSUME ~pass.reuse
                 PROVE  /\ mark \in Nat /\ Dated(mark) /\ (lead >= 0 /\ pass.tree # remote => Reported(mark))
                        /\ lead < 0 => mark <= pass.walkAt
      OBVIOUS
    <3>1. pass.walkAt # None /\ (lead >= 0 /\ pass.tree # remote => Reported(mark))
      BY <1>1, <1>5, SnapshotsAssumption DEF SnapInv, TreesAreReported, PhasesAreSound, ScanIsSound
    <3>2. Dated(pass.mark) /\ Dated(pass.walkAt) /\ pass.mark \in Nat /\ pass.walkAt \in Nat
      BY <1>5, <3>1, Types DEF SnapInv, MarksAreDated
    <3>3. mark \in {pass.mark, pass.walkAt}
      BY <3>2, LargerMark DEF WalkMark
    <3>4. lead < 0 => pass.mark <= pass.walkAt
      BY <3>1 DEF SnapInv, WalksAreLater
    <3> HIDE DEF mark
    <3> QED BY <3>1, <3>2, <3>3, <3>4
  <2> HIDE DEF mark
  <2>3. /\ cache' \in Caches \union {None} /\ cache'.tree = pass.tree /\ snap' \in Snaps
        /\ (pass.reuse => cache' = cache)
        /\ (~pass.reuse => cache'.mark = mark /\ cache'.walked = pass.walkAt)
    BY <1>5, <2>1, <2>2, Types DEF Caches, Snaps
  <2>4. SnapshotsTyped'
    BY <1>1, <1>2, <1>4, <2>1, <2>3 DEF SnapInv, SnapshotsTyped
  <2>5. MarksAreDated' /\ WalksAreLater'
    <3>1. ServerSecond' = ServerSecond /\ Dated(0)
      BY <1>1, ServerTime DEF ServerSecond, SnapInv
    <3>2. lastEvent <= ServerSecond /\ Dated(cache'.mark)
      BY <1>5, <2>2, <2>3 DEF SnapInv, MarksAreDated
    <3>3. MarksAreDated'
      BY <1>1, <1>4, <3>1, <3>2 DEF MarksAreDated, Dated
    <3>4. lead < 0 => cache'.mark <= cache'.walked
      BY <1>5, <2>2, <2>3 DEF SnapInv, WalksAreLater
    <3> QED BY <1>1, <1>4, <3>3, <3>4 DEF WalksAreLater
  <2>6. TreesAreReported'
    <3>1. lead >= 0 /\ cache'.tree # remote => Reported(cache'.mark)
      BY <1>5, <2>2, <2>3 DEF SnapInv, TreesAreReported
    <3>2. pass'.phase # "scan" /\ pass'.wrote = None
      BY <1>4, <1>5
    <3> QED BY <1>1, <3>1, <3>2 DEF TreesAreReported, Reported
  <2>7. ApplyIsSound'
    BY <1>4, <1>5, <1>8, <2>3 DEF ApplyIsSound
  <2>8. \A p \in Paths : Wanted(p) # "none" => p \in planned \union LeftOut
    BY <1>3, <1>10 DEF Scope, LeftOut
  <2>9. \A p \in Paths : local[p] = pass.local[p]
    BY <1>1, <1>5, <1>10
  <2>10. \A p \in Paths : local[p] # base[p] \/ pass.tree[p] # base[p] => p \in planned \union LeftOut
    BY <1>5, <2>8, <2>9, WantedFacts
  <2>11. KeptIsComplete'
    BY <1>1, <1>4, <2>1, <2>3, <2>10 DEF KeptIsComplete
  <2>12. SeenIsDone'
    BY <1>1, <1>4, <2>1, <2>10, Types DEF SeenIsDone
  <2>13. NarrowIsSound'
    BY <1>4, <1>10 DEF NarrowIsSound
  <2> QED BY <1>7, <2>4, <2>5, <2>6, <2>7, <2>11, <2>12, <2>13 DEF SnapInv, PhasesAreSound
<1> QED BY <1>9, <1>10

(* A pass is over, well or not.                                             *)
LEMMA EndKeeps ==
  ASSUME SnapInv, pass' = Idle, cache' \in {cache, None}, snap' \in {snap, None},
         hints' \subseteq Paths, left' \subseteq Paths, confirm' \in BOOLEAN,
         UNCHANGED <<local, remote, base, conflicts, now, lead, lastEvent, made>>,
         KeptIsComplete'
  PROVE  SnapInv'
<1>1. /\ pass' \in Passes /\ pass'.phase = "idle" /\ pass'.jobs = {} /\ pass'.wrote = None
      /\ pass'.kind = "auto" /\ pass'.dir = "both" /\ pass'.mark = 0 /\ pass'.walkAt = None /\ ~pass'.narrow
  BY Idleness
<1>2. SnapshotsTyped'
  BY <1>1 DEF SnapInv, SnapshotsTyped
<1>4. MarksAreDated' /\ WalksAreLater'
  <2>1. cache' # None => cache # None /\ cache'.mark = cache.mark /\ cache'.walked = cache.walked
    OBVIOUS
  <2> QED BY <1>1, <2>1, Types, MarksStay DEF SnapInv
<1>5. TreesAreReported'
  BY <1>1 DEF SnapInv, TreesAreReported, Reported
<1>6. PhasesAreSound' /\ SeenIsDone' /\ NarrowIsSound'
  BY <1>1 DEF PhasesAreSound, PassIsSound, ProbeIsSound, ScanIsSound, ApplyIsSound, Running, SeenIsDone, NarrowIsSound
<1> QED BY <1>2, <1>4, <1>5, <1>6 DEF SnapInv

LEMMA DeclineKeeps == ASSUME SnapInv, Decline PROVE SnapInv'
<1>1. /\ confirm' = TRUE /\ pass' = Idle
      /\ UNCHANGED <<local, remote, base, conflicts, now, lead, lastEvent, hints, cache, snap, left, made>>
  BY DEF Decline, sides, clock
<1>2. KeptIsComplete'
  BY <1>1 DEF KeptIsComplete, Trusted
<1> QED BY <1>1, <1>2, Types, EndKeeps

LEMMA FinishKeeps == ASSUME SnapInv, Finish PROVE SnapInv'
<1>1. /\ pass.phase = "apply" /\ pass.jobs = {} /\ pass.wrote = None /\ pass' = Idle
      /\ cache' \in {cache, None} /\ hints' = IF pass.dir = "pull" THEN hints ELSE hints \ pass.seen
      /\ UNCHANGED <<local, remote, base, conflicts, now, lead, lastEvent, confirm, snap, left, made>>
  BY DEF Finish, sides, clock, bounds
<1>2. KeptIsComplete'
  <2> SUFFICES ASSUME Trusted', snap' # None
               PROVE  /\ \A p \in Paths : local[p] # base[p] => p \in hints' \union left \union conflicts
                      /\ cache' # None => \A p \in Paths : cache'.tree[p] # base[p] => p \in left \union conflicts
    BY <1>1, Idleness DEF KeptIsComplete
  <2>1. Trusted /\ snap # None
    BY <1>1 DEF Trusted, Reading
  <2>2. /\ \A p \in Paths : local[p] # base[p] => p \in hints \union left \union conflicts
        /\ cache # None => \A p \in Paths : cache.tree[p] # base[p] => p \in left \union conflicts
    BY <1>1, <2>1, SnapshotsAssumption DEF SnapInv, KeptIsComplete
  <2>3. pass.dir # "pull" => \A p \in pass.seen : local[p] # base[p] => p \in left \union conflicts
    BY <1>1 DEF SnapInv, SeenIsDone
  <2> QED BY <1>1, <2>2, <2>3
<1>3. hints' \subseteq Paths /\ left' \subseteq Paths /\ confirm' \in BOOLEAN
  BY <1>1, Types DEF SnapInv, SnapshotsTyped
<1> QED BY <1>1, <1>2, <1>3, EndKeeps

(* A failed pass keeps nothing, whether it starts anew or not.              *)
LEMMA FailureKeeps ==
  ASSUME SnapInv, RequestFails \/ Restart \/ (Fail /\ pass' = Idle)
  PROVE  SnapInv'
<1>1. /\ cache' = None /\ snap' = None /\ pass' = Idle
      /\ UNCHANGED <<local, remote, base, conflicts, now, lead, lastEvent, made>>
  BY DEF RequestFails, Restart, Fail, DropKept, sides, clock, bounds
<1>2. KeptIsComplete'
  BY <1>1 DEF KeptIsComplete
<1>3. hints' \in {hints, {}} /\ left' \in {left, {}} /\ confirm' \in {confirm, FALSE}
  BY DEF RequestFails, Restart, Fail
<1>4. hints' \subseteq Paths /\ left' \subseteq Paths /\ confirm' \in BOOLEAN
  BY <1>3, Types DEF SnapInv, SnapshotsTyped
<1> QED BY <1>1, <1>2, <1>4, EndKeeps

LEMMA RetryKeeps == ASSUME SnapInv, Fail, pass' # Idle PROVE SnapInv'
<1>1. /\ cache' = None /\ snap' = None
      /\ pass' = [Idle EXCEPT !.phase = "probe", !.kind = pass.kind, !.dir = pass.dir,
                              !.again = TRUE, !.hints = pass.hints, !.seen = pass.seen, !.mark = now]
      /\ UNCHANGED <<local, remote, base, conflicts, now, lead, lastEvent, hints, confirm, left, made>>
  BY DEF Fail, Retry, DropKept, sides, clock, bounds
<1>2. Running
  BY DEF Fail, ScanOutdated, TransferRefused, CanExecute, Running
<1>3. pass' \in Passes
  <2>1. /\ Idle \in Passes /\ pass.kind \in Kinds /\ pass.hints \in SUBSET Paths /\ pass.seen \in SUBSET Paths
        /\ pass.dir \in {"both", "push", "pull"} /\ now \in Nat /\ "probe" \in Phases
    BY Idleness, Types DEF Passes, Phases
  <2> DEFINE half == [Idle EXCEPT !.phase = "probe", !.kind = pass.kind, !.dir = pass.dir, !.again = TRUE]
  <2>2. half \in Passes
    BY ONLY <2>1 DEF Passes
  <2>3. pass' = [half EXCEPT !.hints = pass.hints, !.seen = pass.seen, !.mark = now]
    BY <1>1
  <2> HIDE DEF half
  <2> QED BY ONLY <2>1, <2>2, <2>3 DEF Passes
<1>4. /\ pass'.phase = "probe" /\ pass'.kind = pass.kind /\ pass'.dir = pass.dir
      /\ pass'.hints = pass.hints /\ pass'.seen = pass.seen /\ pass'.mark = now
  BY <1>1, Idleness DEF Passes
<1>5. /\ pass'.narrow = Idle.narrow /\ pass'.reuse = Idle.reuse /\ pass'.local = Idle.local
      /\ pass'.walkAt = Idle.walkAt /\ pass'.tree = Idle.tree /\ pass'.jobs = Idle.jobs /\ pass'.wrote = Idle.wrote
      /\ pass'.cacheValid = Idle.cacheValid /\ pass'.snapValid = Idle.snapValid
  BY <1>1, Idleness DEF Passes
<1>6. /\ ~pass'.narrow /\ ~pass'.reuse /\ pass'.local = None /\ pass'.walkAt = None /\ pass'.tree = None
      /\ pass'.jobs = {} /\ pass'.wrote = None /\ ~pass'.cacheValid /\ ~pass'.snapValid
  BY <1>5, Idleness
<1>7. SnapshotsTyped'
  BY <1>1, <1>3 DEF SnapInv, SnapshotsTyped
<1>9. MarksAreDated' /\ WalksAreLater'
  BY <1>1, <1>4, <1>6, Types, MarksStay DEF SnapInv
<1>10. TreesAreReported' /\ KeptIsComplete'
  BY <1>1, <1>4, <1>6 DEF TreesAreReported, KeptIsComplete
<1>11. PhasesAreSound'
  BY <1>1, <1>2, <1>4, <1>6 DEF SnapInv, PhasesAreSound, PassIsSound, ProbeIsSound, ScanIsSound, ApplyIsSound, Running
<1>12. SeenIsDone' /\ NarrowIsSound'
  BY <1>4 DEF SeenIsDone, NarrowIsSound
<1> QED BY <1>7, <1>9, <1>10, <1>11, <1>12 DEF SnapInv

(* An operation ends: its path is equal on both sides and in the history,   *)
(* where it writes one, or in conflict.                                     *)
LEMMA CommitFields ==
  ASSUME SnapInv, NEW p \in Paths, CanExecute(p), NEW patched \in BOOLEAN, Commit(p, patched)
  PROVE  /\ pass.phase = "apply" /\ pass.wrote = None /\ p \in pass.jobs
         /\ pass' \in Passes /\ pass'.jobs = pass.jobs \ {p} /\ pass'.wrote = IF patched THEN p ELSE None
         /\ pass'.phase = pass.phase /\ pass'.kind = pass.kind /\ pass'.dir = pass.dir /\ pass'.hints = pass.hints
         /\ pass'.seen = pass.seen /\ pass'.narrow = pass.narrow /\ pass'.reuse = pass.reuse
         /\ pass'.mark = pass.mark /\ pass'.walkAt = pass.walkAt
         /\ pass'.overlooked = pass.overlooked /\ pass'.late = pass.late
         /\ pass'.local = pass.local /\ pass'.tree = pass.tree
<1> DEFINE jobs == pass.jobs \ {p}
           wrote == IF patched THEN p ELSE None
           applied == pass.applied \/ patched
<1>1. pass \in Passes /\ jobs \in SUBSET Paths /\ wrote \in Paths \union {None}
  BY Types
<1>2. applied \in BOOLEAN
  BY Types DEF Passes
<1>3. pass' = [pass EXCEPT !.jobs = jobs, !.applied = applied, !.wrote = wrote]
  BY DEF Commit
<1> HIDE DEF jobs, wrote, applied
<1>4. \A a \in BOOLEAN : [pass EXCEPT !.jobs = jobs, !.applied = a, !.wrote = wrote] \in Passes
  BY <1>1 DEF Passes
<1>5. pass' \in Passes
  BY ONLY <1>2, <1>3, <1>4, Zenon
<1>6. pass'.jobs = jobs /\ pass'.wrote = wrote
  BY <1>1, <1>3 DEF Passes
<1>7. /\ pass'.phase = pass.phase /\ pass'.kind = pass.kind /\ pass'.dir = pass.dir /\ pass'.hints = pass.hints
      /\ pass'.seen = pass.seen /\ pass'.narrow = pass.narrow /\ pass'.reuse = pass.reuse
      /\ pass'.mark = pass.mark /\ pass'.walkAt = pass.walkAt
      /\ pass'.overlooked = pass.overlooked /\ pass'.late = pass.late
      /\ pass'.local = pass.local /\ pass'.tree = pass.tree
  BY <1>1, <1>3 DEF Passes
<1> QED BY <1>5, <1>6, <1>7 DEF CanExecute, jobs, wrote

Settled(p, patched) ==
  \/ p \in conflicts'
  \/ local'[p] = base'[p] /\ (patched \/ (cache # None => cache.tree[p] = base'[p]))

LEMMA OperationKeeps ==
  ASSUME SnapInv, NEW p \in Paths, CanExecute(p), NEW patched \in BOOLEAN, Commit(p, patched),
         local' \in Trees, remote' \in Trees, base' \in Trees, conflicts' \subseteq Paths,
         \A q \in Paths \ {p} : local'[q] = local[q] /\ remote'[q] = remote[q] /\ base'[q] = base[q],
         \A q \in Paths \ {p} : q \in conflicts' <=> q \in conflicts,
         lastEvent' \in {lastEvent, ServerSecond}, made' \in 0 .. MaxVersion,
         UNCHANGED <<now, lead, hints, confirm, cache, snap, left>>,
         Settled(p, patched), TreesAreReported',
         pass.narrow /\ p \notin pass.hints => Untouched(p)'
  PROVE  SnapInv'
<1>1. /\ pass.phase = "apply" /\ pass.wrote = None /\ p \in pass.jobs
      /\ pass' \in Passes /\ pass'.jobs = pass.jobs \ {p} /\ pass'.wrote = IF patched THEN p ELSE None
      /\ pass'.phase = pass.phase /\ pass'.kind = pass.kind /\ pass'.dir = pass.dir /\ pass'.hints = pass.hints
      /\ pass'.seen = pass.seen /\ pass'.narrow = pass.narrow /\ pass'.reuse = pass.reuse
      /\ pass'.mark = pass.mark /\ pass'.walkAt = pass.walkAt
      /\ pass'.overlooked = pass.overlooked /\ pass'.late = pass.late
      /\ pass'.local = pass.local /\ pass'.tree = pass.tree
  BY CommitFields
<1>2. lastEvent' \in Nat
  BY Types, ServerTime DEF SnapInv
<1>3. SnapshotsTyped'
  BY <1>1, <1>2 DEF SnapInv, SnapshotsTyped
<1>5. MarksAreDated' /\ WalksAreLater'
  BY <1>1, Types, MarksStay DEF SnapInv
<1>6. PassIsSound' /\ ProbeIsSound' /\ ScanIsSound'
  BY <1>1 DEF SnapInv, PhasesAreSound, PassIsSound, ProbeIsSound, ScanIsSound, Running
<1>7. ApplyIsSound'
  <2>1. pass'.wrote \notin pass'.jobs
    BY <1>1, Types, SnapshotsAssumption
  <2> QED BY <1>1, <2>1 DEF SnapInv, PhasesAreSound, ApplyIsSound
<1>8. KeptIsComplete'
  <2> SUFFICES ASSUME Trusted', snap # None
               PROVE  /\ \A q \in Paths :
                           local'[q] # base'[q] => q \in hints \union left \union conflicts' \union pass'.jobs
                      /\ cache # None =>
                           \A q \in Paths : cache.tree[q] # base'[q] =>
                             q \in left \union conflicts' \union pass'.jobs \union {pass'.wrote}
    BY DEF KeptIsComplete
  <2>1. Trusted
    BY <1>1 DEF Trusted, Reading
  <2>2. /\ \A q \in Paths : local[q] # base[q] => q \in hints \union left \union conflicts \union pass.jobs
        /\ cache # None =>
             \A q \in Paths : cache.tree[q] # base[q] => q \in left \union conflicts \union pass.jobs
    BY <1>1, <2>1, SnapshotsAssumption DEF SnapInv, KeptIsComplete
  <2>3. /\ local'[p] # base'[p] => p \in conflicts'
        /\ cache # None /\ cache.tree[p] # base'[p] => p \in conflicts' \/ p = pass'.wrote
    BY <1>1 DEF Settled
  <2>4. \A q \in Paths \ {p} : q \in conflicts \union pass.jobs => q \in conflicts' \union pass'.jobs
    BY <1>1
  <2>5. ASSUME NEW q \in Paths, q # p
        PROVE  /\ local'[q] # base'[q] => q \in hints \union left \union conflicts' \union pass'.jobs
               /\ cache # None => (cache.tree[q] # base'[q] => q \in left \union conflicts' \union pass'.jobs)
    BY <2>2, <2>4, <2>5
  <2> QED BY <2>3, <2>5
<1>9. SeenIsDone'
  <2> SUFFICES ASSUME pass.dir # "pull", NEW q \in pass.seen, local'[q] # base'[q]
               PROVE  q \in left \union conflicts' \union pass'.jobs
    BY <1>1 DEF SeenIsDone
  <2>1. CASE q = p
    BY <2>1 DEF Settled
  <2>2. CASE q # p
    BY <1>1, <2>2, Types DEF SnapInv, SeenIsDone
  <2> QED BY <2>1, <2>2
<1>10. NarrowIsSound'
  <2> SUFFICES ASSUME pass.narrow
               PROVE  /\ pass'.jobs \ pass.hints \subseteq conflicts'
                      /\ \A q \in Paths \ pass.hints : Untouched(q)'
    BY <1>1 DEF NarrowIsSound
  <2>1. pass.jobs \ pass.hints \subseteq conflicts /\ \A q \in Paths \ pass.hints : Untouched(q)
    BY <1>1 DEF SnapInv, NarrowIsSound
  <2>2. ASSUME NEW q \in Paths \ pass.hints, q # p PROVE Untouched(q)'
    <3>1. /\ local'[q] = local[q] /\ remote'[q] = remote[q] /\ base'[q] = base[q]
          /\ (q \in conflicts' <=> q \in conflicts) /\ Untouched(q)
      BY <2>1, <2>2
    <3> QED BY <1>1, <3>1 DEF Untouched
  <2>3. pass'.jobs \ pass.hints \subseteq conflicts'
    BY <1>1, <2>1, Types
  <2> QED BY <2>2, <2>3
<1> QED BY <1>3, <1>5, <1>6, <1>7, <1>8, <1>9, <1>10 DEF SnapInv, PhasesAreSound

(* What a transfer may rely on.                                             *)
LEMMA TransferFacts ==
  ASSUME SnapInv, NEW p \in Paths, CanExecute(p), Unmoved(p), Wanted(p) \in {"push", "pull", "record"}
  PROVE  /\ p \notin conflicts /\ (pass.narrow => p \in pass.hints)
         /\ local[p] \in Content /\ remote[p] \in Content
         /\ pass.phase = "apply" /\ made \in 0 .. MaxVersion
<1>1. p \notin conflicts
  BY Types, WantedFacts
<1>2. pass.narrow => p \in pass.hints
  BY <1>1 DEF SnapInv, NarrowIsSound, CanExecute
<1> QED BY <1>1, <1>2, Types, Values DEF CanExecute

LEMMA PushKeeps == ASSUME SnapInv, NEW p \in Paths, Push(p) PROVE SnapInv'
<1>1. /\ CanExecute(p) /\ Unmoved(p) /\ Wanted(p) = "push" /\ Commit(p, TRUE) /\ lastEvent' = ServerSecond
      /\ remote' = [remote EXCEPT ![p] = local[p]] /\ base' = [base EXCEPT ![p] = local[p]]
      /\ UNCHANGED <<local, conflicts, now, lead, hints, confirm, cache, snap, left, made>>
  BY DEF Push, clock, bounds
<1>2. /\ p \notin conflicts /\ (pass.narrow => p \in pass.hints)
      /\ local[p] \in Content /\ pass.phase = "apply" /\ made \in 0 .. MaxVersion
  BY <1>1, TransferFacts
<1>3. /\ local' \in Trees /\ remote' \in Trees /\ base' \in Trees /\ remote'[p] = local[p] /\ base'[p] = local[p]
      /\ \A q \in Paths \ {p} : local'[q] = local[q] /\ remote'[q] = remote[q] /\ base'[q] = base[q]
  BY <1>1, <1>2, Types DEF Trees
<1>4. pass'.phase = "apply"
  BY <1>1, <1>2, CommitFields
<1>5. TreesAreReported'
  BY <1>1, <1>4, EventReports
<1>6. Settled(p, TRUE)
  BY <1>1, <1>3 DEF Settled
<1> QED BY <1>1, <1>2, <1>3, <1>5, <1>6, Types, OperationKeeps

LEMMA PullKeeps == ASSUME SnapInv, NEW p \in Paths, Pull(p) PROVE SnapInv'
<1>1. /\ CanExecute(p) /\ Unmoved(p) /\ Wanted(p) = "pull" /\ Commit(p, TRUE)
      /\ local' = [local EXCEPT ![p] = remote[p]] /\ base' = [base EXCEPT ![p] = remote[p]]
      /\ UNCHANGED <<remote, conflicts, now, lead, lastEvent, hints, confirm, cache, snap, left, made>>
  BY DEF Pull, clock, bounds
<1>2. /\ p \notin conflicts /\ (pass.narrow => p \in pass.hints)
      /\ remote[p] \in Content /\ pass.phase = "apply" /\ made \in 0 .. MaxVersion
  BY <1>1, TransferFacts
<1>3. /\ local' \in Trees /\ remote' \in Trees /\ base' \in Trees /\ local'[p] = remote[p] /\ base'[p] = remote[p]
      /\ \A q \in Paths \ {p} : local'[q] = local[q] /\ remote'[q] = remote[q] /\ base'[q] = base[q]
  BY <1>1, <1>2, Types DEF Trees
<1>4. pass'.phase = "apply" /\ pass'.wrote = p
  BY <1>1, <1>2, CommitFields
<1>5. TreesAreReported'
  BY <1>1, <1>3, <1>4 DEF SnapInv, TreesAreReported, Reported
<1>6. Settled(p, TRUE)
  BY <1>3 DEF Settled
<1> QED BY <1>1, <1>2, <1>3, <1>5, <1>6, Types, OperationKeeps

LEMMA RecordKeeps == ASSUME SnapInv, NEW p \in Paths, RecordEqual(p) PROVE SnapInv'
<1>1. /\ CanExecute(p) /\ Unmoved(p) /\ Wanted(p) = "record" /\ Commit(p, FALSE)
      /\ base' = [base EXCEPT ![p] = pass.local[p]]
      /\ UNCHANGED <<local, remote, conflicts, now, lead, lastEvent, hints, confirm, cache, snap, left, made>>
  BY DEF RecordEqual, clock, bounds
<1>2. /\ p \notin conflicts /\ (pass.narrow => p \in pass.hints) /\ made \in 0 .. MaxVersion
      /\ local[p] \in Content /\ pass.phase = "apply" /\ p \in pass.jobs
  BY <1>1, TransferFacts DEF CanExecute
<1>3. local[p] = pass.local[p] /\ pass.tree[p] = pass.local[p]
  BY <1>1, Types, WantedFacts DEF Unmoved
<1>4. /\ local' \in Trees /\ remote' \in Trees /\ base' \in Trees /\ base'[p] = local[p]
      /\ \A q \in Paths \ {p} : local'[q] = local[q] /\ remote'[q] = remote[q] /\ base'[q] = base[q]
  BY <1>1, <1>2, <1>3, Types DEF Trees
<1>5. pass'.phase = "apply" /\ pass'.wrote = None
  BY <1>1, <1>2, CommitFields
<1>6. TreesAreReported'
  BY <1>1, <1>5 DEF SnapInv, TreesAreReported, Reported
<1>7. Settled(p, FALSE)
  BY <1>1, <1>2, <1>3, <1>4 DEF Settled, SnapInv, PhasesAreSound, ApplyIsSound
<1> QED BY <1>1, <1>2, <1>4, <1>6, <1>7, Types, OperationKeeps

LEMMA CaptureKeeps == ASSUME SnapInv, NEW p \in Paths, CaptureConflict(p) PROVE SnapInv'
<1>1. /\ CanExecute(p) /\ conflicts' = conflicts \union {p} /\ Commit(p, FALSE)
      /\ UNCHANGED <<local, remote, base, now, lead, lastEvent, hints, confirm, cache, snap, left, made>>
  BY DEF CaptureConflict, clock, bounds
<1>2. /\ pass.phase = "apply" /\ local \in Trees /\ remote \in Trees /\ base \in Trees
      /\ conflicts' \subseteq Paths /\ p \in conflicts' /\ made \in 0 .. MaxVersion
      /\ \A q \in Paths \ {p} : q \in conflicts' <=> q \in conflicts
  BY <1>1, Types DEF CanExecute
<1>3. pass'.phase = "apply" /\ pass'.wrote = None
  BY <1>1, <1>2, CommitFields
<1>4. TreesAreReported'
  BY <1>1, <1>3 DEF SnapInv, TreesAreReported, Reported
<1>5. Settled(p, FALSE) /\ Untouched(p)'
  BY <1>2 DEF Settled, Untouched
<1> QED BY <1>1, <1>2, <1>4, <1>5, OperationKeeps

(* A settled conflict leaves its path equal on both sides and in the history.*)
LEMMA SettleFacts ==
  ASSUME SnapInv, NEW p \in Paths, NEW result \in Content, Settle(p, result)
  PROVE  /\ local' \in Trees /\ remote' \in Trees /\ base' \in Trees /\ conflicts' \subseteq Paths
         /\ local'[p] = result /\ remote'[p] = result /\ base'[p] = result
         /\ \A q \in Paths \ {p} : local'[q] = local[q] /\ remote'[q] = remote[q] /\ base'[q] = base[q]
         /\ \A q \in Paths \ {p} : q \in conflicts' <=> q \in conflicts
         /\ made' \in 0 .. MaxVersion /\ lastEvent' \in {lastEvent, ServerSecond}
         /\ remote' = remote \/ lastEvent' = ServerSecond
         /\ UNCHANGED <<now, lead, confirm, left>>
<1>1. /\ local' = [local EXCEPT ![p] = result] /\ remote' = [remote EXCEPT ![p] = result]
      /\ base' = [base EXCEPT ![p] = result] /\ conflicts' = conflicts \ {p}
      /\ lastEvent' = IF remote[p] = result THEN lastEvent ELSE ServerSecond
      /\ UNCHANGED <<now, lead, confirm, left>>
  BY DEF Settle, clock
<1>2. made' = made \/ (made < MaxVersion /\ made' = made + 1)
  BY DEF Settle
<1>3. made' \in 0 .. MaxVersion
  BY <1>2, Types
<1>4. local \in Trees /\ remote \in Trees /\ base \in Trees /\ conflicts \subseteq Paths
  BY Types
<1>5. /\ local' \in Trees /\ local'[p] = result /\ \A q \in Paths \ {p} : local'[q] = local[q]
  BY <1>1, <1>4 DEF Trees
<1>6. /\ remote' \in Trees /\ remote'[p] = result /\ \A q \in Paths \ {p} : remote'[q] = remote[q]
      /\ remote[p] = result => remote' = remote
  BY <1>1, <1>4 DEF Trees
<1>7. /\ base' \in Trees /\ base'[p] = result /\ \A q \in Paths \ {p} : base'[q] = base[q]
  BY <1>1, <1>4 DEF Trees
<1> QED BY <1>1, <1>3, <1>4, <1>5, <1>6, <1>7

LEMMA SettleKeeps ==
  ASSUME SnapInv, NEW p \in Paths, NEW result \in Content, SettleConflict(p, result)
  PROVE  SnapInv'
<1>1. CanExecute(p) /\ Settle(p, result) /\ Commit(p, TRUE) /\ UNCHANGED <<hints, cache, snap>>
  BY DEF SettleConflict
<1>2. /\ local' \in Trees /\ remote' \in Trees /\ base' \in Trees /\ conflicts' \subseteq Paths
      /\ local'[p] = result /\ remote'[p] = result /\ base'[p] = result
      /\ \A q \in Paths \ {p} : local'[q] = local[q] /\ remote'[q] = remote[q] /\ base'[q] = base[q]
      /\ \A q \in Paths \ {p} : q \in conflicts' <=> q \in conflicts
      /\ made' \in 0 .. MaxVersion /\ lastEvent' \in {lastEvent, ServerSecond}
      /\ remote' = remote \/ lastEvent' = ServerSecond
      /\ UNCHANGED <<now, lead, confirm, left>>
  BY <1>1, SettleFacts
<1>3. pass.phase = "apply" /\ pass'.phase = "apply" /\ pass'.wrote = p
  BY <1>1, CommitFields
<1>4. TreesAreReported'
  <2>1. CASE lastEvent' = ServerSecond
    BY <1>1, <1>2, <1>3, <2>1, EventReports
  <2>2. CASE remote' = remote /\ lastEvent' = lastEvent
    BY <1>1, <1>2, <1>3, <2>2 DEF SnapInv, TreesAreReported, Reported
  <2> QED BY <1>2, <2>1, <2>2
<1>5. Settled(p, TRUE) /\ Untouched(p)'
  BY <1>2 DEF Settled, Untouched
<1> QED BY <1>1, <1>2, <1>4, <1>5, OperationKeeps

LEMMA ResolveKeeps ==
  ASSUME SnapInv, NEW p \in Paths, NEW result \in Content, Resolve(p, result)
  PROVE  SnapInv'
<1>1. /\ pass.phase = "idle" /\ Settle(p, result) /\ cache' = None /\ snap' = None /\ pass' = pass
      /\ hints' = hints \ {p}
  BY DEF Resolve, DropKept
<1>2. /\ local' \in Trees /\ remote' \in Trees /\ base' \in Trees /\ conflicts' \subseteq Paths
      /\ made' \in 0 .. MaxVersion /\ lastEvent' \in {lastEvent, ServerSecond}
      /\ UNCHANGED <<now, lead, confirm, left>>
  BY <1>1, SettleFacts
<1>3. lastEvent' \in Nat
  BY <1>2, Types, ServerTime DEF SnapInv
<1>4. SnapshotsTyped'
  BY <1>1, <1>2, <1>3 DEF SnapInv, SnapshotsTyped
<1>5. pass.jobs = {} /\ pass.wrote = None
  BY <1>1 DEF SnapInv, PhasesAreSound, PassIsSound
<1>6. MarksAreDated' /\ WalksAreLater'
  BY <1>1, <1>2, Types, MarksStay DEF SnapInv
<1>7. TreesAreReported' /\ KeptIsComplete' /\ SeenIsDone' /\ NarrowIsSound'
  BY <1>1, <1>5 DEF TreesAreReported, KeptIsComplete, SeenIsDone, NarrowIsSound
<1>8. PhasesAreSound'
  BY <1>1, <1>2 DEF SnapInv, PhasesAreSound, PassIsSound, ProbeIsSound, ScanIsSound, ApplyIsSound, Running
<1> QED BY <1>4, <1>6, <1>7, <1>8 DEF SnapInv

(* What was written is patched into what is kept.                           *)
LEMMA PatchKeeps == ASSUME SnapInv, PatchSnapshots PROVE SnapInv'
<1> DEFINE p == pass.wrote
<1>1. /\ pass.phase = "apply" /\ p # None /\ cache' = Patched(cache, p) /\ snap' = Patched(snap, p)
      /\ pass' = [pass EXCEPT !.wrote = None]
      /\ UNCHANGED <<local, remote, base, conflicts, now, lead, lastEvent, hints, confirm, left, made>>
  BY DEF PatchSnapshots, sides, clock, bounds
<1>2. p \in Paths /\ pass \in Passes /\ base[p] \in Content /\ p \notin pass.jobs
  BY <1>1, Types, Values DEF Passes, SnapInv, PhasesAreSound, ApplyIsSound
<1>3. /\ pass' \in Passes /\ pass'.wrote = None
      /\ pass'.phase = pass.phase /\ pass'.kind = pass.kind /\ pass'.dir = pass.dir /\ pass'.hints = pass.hints
      /\ pass'.seen = pass.seen /\ pass'.narrow = pass.narrow /\ pass'.reuse = pass.reuse
      /\ pass'.mark = pass.mark /\ pass'.walkAt = pass.walkAt
      /\ pass'.overlooked = pass.overlooked /\ pass'.late = pass.late
      /\ pass'.local = pass.local /\ pass'.tree = pass.tree /\ pass'.jobs = pass.jobs
  BY <1>1, <1>2 DEF Passes
<1> HIDE DEF p
<1>4. cache = None => cache' = None
  BY <1>1 DEF Patched
<1>5. snap = None => snap' = None
  BY <1>1 DEF Patched
<1>6. cache # None =>
        /\ cache' \in Caches /\ cache'.mark = cache.mark /\ cache'.walked = cache.walked
        /\ cache'.tree \in Trees /\ cache'.tree[p] = base[p] /\ \A q \in Paths \ {p} : cache'.tree[q] = cache.tree[q]
  <2> SUFFICES ASSUME cache # None
               PROVE  /\ cache' \in Caches /\ cache'.mark = cache.mark /\ cache'.walked = cache.walked
                      /\ cache'.tree \in Trees /\ cache'.tree[p] = base[p]
                      /\ \A q \in Paths \ {p} : cache'.tree[q] = cache.tree[q]
    OBVIOUS
  <2> DEFINE tree == [cache.tree EXCEPT ![p] = base[p]]
  <2>1. cache \in Caches /\ cache.tree \in Trees
    BY Types
  <2>2. tree \in Trees /\ tree[p] = base[p] /\ \A q \in Paths \ {p} : tree[q] = cache.tree[q]
    BY <1>2, <2>1 DEF Trees
  <2>3. cache' = [cache EXCEPT !.tree = tree]
    BY <1>1 DEF Patched
  <2> HIDE DEF tree
  <2>4. cache' \in Caches /\ cache'.mark = cache.mark /\ cache'.walked = cache.walked /\ cache'.tree = tree
    BY <2>1, <2>2, <2>3 DEF Caches
  <2> QED BY <2>2, <2>4
<1>7. snap # None => snap' \in Snaps
  <2> SUFFICES ASSUME snap # None PROVE snap' \in Snaps
    OBVIOUS
  <2> DEFINE tree == [snap.tree EXCEPT ![p] = base[p]]
  <2>1. snap \in Snaps /\ snap.tree \in Trees
    BY Types DEF Snaps
  <2>2. tree \in Trees
    BY <1>2, <2>1 DEF Trees
  <2>3. snap' = [snap EXCEPT !.tree = tree]
    BY <1>1 DEF Patched
  <2> HIDE DEF tree
  <2> QED BY <2>1, <2>2, <2>3 DEF Snaps
<1>8. SnapshotsTyped'
  BY <1>1, <1>3, <1>4, <1>5, <1>6, <1>7 DEF SnapInv, SnapshotsTyped
<1>10. MarksAreDated' /\ WalksAreLater'
  BY <1>1, <1>3, <1>4, <1>6, Types, MarksStay DEF SnapInv
<1>11. TreesAreReported'
  <2> SUFFICES ASSUME lead >= 0, cache # None, ~Reported(cache.mark) PROVE cache'.tree = remote
    BY <1>1, <1>3, <1>4, <1>6 DEF TreesAreReported, Reported
  <2>1. cache.tree = remote /\ base[p] = remote[p]
    BY <1>1 DEF SnapInv, TreesAreReported, p
  <2>2. \A q \in Paths : cache'.tree[q] = remote[q]
    BY <1>6, <2>1
  <2>3. cache'.tree \in Trees /\ remote \in Trees
    BY <1>6, Types
  <2> QED BY <2>2, <2>3 DEF Trees
<1>12. PassIsSound' /\ ProbeIsSound' /\ ScanIsSound'
  BY <1>1, <1>3 DEF SnapInv, PhasesAreSound, PassIsSound, ProbeIsSound, ScanIsSound, Running
<1>13. ApplyIsSound'
  <2>1. pass'.wrote \notin pass'.jobs
    BY <1>3, Types, SnapshotsAssumption
  <2>2. cache # None => \A q \in pass.jobs : cache'.tree[q] = pass.tree[q]
    BY <1>1, <1>2, <1>6, Types DEF SnapInv, PhasesAreSound, ApplyIsSound
  <2> QED BY <1>1, <1>3, <1>4, <2>1, <2>2 DEF SnapInv, PhasesAreSound, ApplyIsSound
<1>14. KeptIsComplete'
  <2> SUFFICES ASSUME Trusted', snap' # None
               PROVE  /\ \A q \in Paths :
                           local[q] # base[q] => q \in hints \union left \union conflicts \union pass.jobs
                      /\ cache' # None =>
                           \A q \in Paths : cache'.tree[q] # base[q] => q \in left \union conflicts \union pass.jobs
    BY <1>1, <1>3 DEF KeptIsComplete
  <2>1. Trusted /\ snap # None
    BY <1>1, <1>3, <1>5 DEF Trusted, Reading
  <2>2. /\ \A q \in Paths : local[q] # base[q] => q \in hints \union left \union conflicts \union pass.jobs
        /\ cache # None =>
             \A q \in Paths : cache.tree[q] # base[q] => q \in left \union conflicts \union pass.jobs \union {p}
    BY <2>1 DEF SnapInv, KeptIsComplete, p
  <2> QED BY <1>4, <1>6, <2>2
<1>15. SeenIsDone'
  BY <1>1, <1>3 DEF SnapInv, SeenIsDone
<1>16. NarrowIsSound'
  <2>1. \A q \in Paths : Untouched(q) => Untouched(q)'
    BY <1>1, <1>3 DEF Untouched
  <2> QED BY <1>1, <1>3, <2>1 DEF SnapInv, NarrowIsSound
<1> QED BY <1>8, <1>10, <1>11, <1>12, <1>13, <1>14, <1>15, <1>16 DEF SnapInv, PhasesAreSound

-----------------------------------------------------------------------------
(* The theorems. *)

LEMMA SnapStep == SnapInv /\ [Next]_vars => SnapInv'
<1> SUFFICES ASSUME SnapInv, [Next]_vars PROVE SnapInv'
  OBVIOUS
<1>1. ASSUME NEW p \in Paths, NEW deletes \in BOOLEAN, EditLocal(p, deletes) \/ EditRemote(p, deletes)
      PROVE  SnapInv'
  BY <1>1, EditLocalKeeps, EditRemoteKeeps
<1>2. ASSUME NEW kind \in Kinds, NEW dir \in Directions, StartPass(kind, dir) PROVE SnapInv'
  BY <1>2, StartPassKeeps
<1>3. ASSUME NEW p \in Paths, Execute(p) PROVE SnapInv'
  BY <1>3, PushKeeps, PullKeeps, RecordKeeps, CaptureKeeps DEF Execute
<1>7. ASSUME NEW p \in Paths, NEW result \in Content, SettleConflict(p, result) \/ Resolve(p, result)
      PROVE  SnapInv'
  BY <1>7, SettleKeeps, ResolveKeeps
<1>4. CASE Tick \/ Probe \/ ProbeFails \/ ReadLocal \/ StartWalk \/ Walk \/ Plan
  BY <1>4, TickKeeps, ProbeKeeps, ProbeFailsKeeps, ReadLocalKeeps, StartWalkKeeps, WalkKeeps, PlanKeeps
<1>5. CASE Decline \/ PatchSnapshots \/ Finish \/ Fail \/ RequestFails \/ Restart
  BY <1>5, DeclineKeeps, PatchKeeps, FinishKeeps, FailureKeeps, RetryKeeps
<1>6. CASE UNCHANGED vars
  <2>1. UNCHANGED <<local, remote, base, conflicts, now, lead, lastEvent, hints, confirm, cache, snap, pass, left, made>>
    BY <1>6 DEF vars, sides, clock, bounds
  <2> QED BY <2>1 DEF SnapInv, SnapshotsTyped, MarksAreDated, Dated, WalksAreLater, ServerSecond, TreesAreReported,
    Reported, WalkMark, Larger, PhasesAreSound, PassIsSound, ProbeIsSound, ScanIsSound, ApplyIsSound,
    Running, Reading, Trusted, KeptIsComplete, SeenIsDone, NarrowIsSound, Untouched
<1> QED BY <1>1, <1>2, <1>3, <1>4, <1>5, <1>6, <1>7 DEF Next

(* Whatever passes, edits, failures and restarts follow one another, what is*)
(* kept of the drive is out of date only where the probe at its watermark   *)
(* reports an event, or, on a device whose clock is ahead, where the drive  *)
(* dates every change before the second in which the device began to walk   *)
(* (sync-engine.ts:633, fs-remote.ts:507).                                  *)
THEOREM StaleCachesAreReported == Spec => []StaleCacheIsReported
<1> HIDE DEF SnapInv, StaleCacheIsReported
<1> QED BY StaleIsReported, SnapStarts, SnapStep, PTL DEF Spec

(* A narrow plan leaves out no path that needs syncing but what was edited  *)
(* since its pass began, changed on the drive after the probe, left by the  *)
(* last full plan's direction, or overlooked by the probe because the       *)
(* device's clock is ahead (sync-engine.ts:430, scan-policy.ts:35).         *)
THEOREM NarrowPlansMissNothing == Spec => []NarrowMissesNothing
<1>1. SnapInv => NarrowMissesNothing
  BY DEF SnapInv, NarrowIsSound, Untouched, NarrowMissesNothing, Scope
<1> HIDE DEF SnapInv, NarrowMissesNothing
<1> QED BY <1>1, SnapStarts, SnapStep, PTL DEF Spec
=============================================================================
