----------------------------- MODULE SyncProofs -----------------------------
(***************************************************************************)
(* Proofs about PoolSync: its state is well typed, and the health of an    *)
(* endpoint stays coherent, for every number of attempts, probes and       *)
(* syncs, every threshold and every cooldown.  With one sync at a time,    *)
(* the caches and the data plane also agree with the database, a member    *)
(* has its profile, and failures in a row are counted.                     *)
(***************************************************************************)
EXTENDS PoolSync, FiniteSetTheorems, TLAPS

(* A healthy row has no cooldown: what a metric hands to the database, and *)
(* what a sync reads from it.                                              *)
RowCoherent(h) == h.health = "healthy" => h.cooldown = None

MetricCoherent(m) ==
  /\ m.health = "healthy" => m.failures = 0 /\ m.cooldown = None
  /\ m.failures = Threshold => m.health = "unavailable" /\ m.cooldown # None

(* HealthCoherent speaks of the metric and the row; it is inductive with   *)
(* the same of the rows that are being written and read.                   *)
HealthInv ==
  /\ TypeOK
  /\ metric # None => MetricCoherent(metric)
  /\ RowCoherent(row)
  /\ \A a \in Attempts : RowCoherent(write[a])
  /\ \A s \in Syncs : RowCoherent(read[s].row)

----------------------------------------------------------------------------
(* The operators on metrics and rows.                                      *)

LEMMA CooldownType ==
  /\ Cooldown \in (0..Cooldown) \cup {None}
  /\ Cooldown # None /\ Threshold # 0
  /\ Healthy \in HealthRow /\ RowCoherent(Healthy)
  /\ NewMetric \in Metric /\ MetricCoherent(NewMetric)
BY HealthAssumption DEF Healthy, HealthRow, Status, NewMetric, Metric, RowCoherent, MetricCoherent

LEMMA EntryType ==
  ASSUME TypeOK, metric # None => MetricCoherent(metric)
  PROVE  Entry \in Metric /\ MetricCoherent(Entry)
BY CooldownType DEF Entry, TypeOK

LEMMA ReleasedType ==
  ASSUME NEW m \in Metric, MetricCoherent(m)
  PROVE  /\ Released(m) \in Metric /\ MetricCoherent(Released(m))
         /\ Released(m).health = m.health
BY DEF Metric, Released, MetricCoherent

LEMMA SucceededType ==
  ASSUME NEW m \in Metric, MetricCoherent(m)
  PROVE  Succeeded(m) \in Metric /\ MetricCoherent(Succeeded(m))
<1>1. Succeeded(m) = [m EXCEPT !.failures = 0, !.health = "healthy", !.cooldown = None]
  BY DEF Succeeded, MetricCoherent, Metric
<1>2. 0 \in 0..Threshold /\ 0 # Threshold
  BY HealthAssumption
<1> QED  BY <1>1, <1>2 DEF Metric, Status, MetricCoherent

LEMMA OneMoreType ==
  ASSUME NEW n \in 0..Threshold
  PROVE  OneMore(n) \in 1..Threshold
BY HealthAssumption DEF OneMore

LEMMA FailedType ==
  ASSUME NEW m \in Metric, MetricCoherent(m)
  PROVE  Failed(m) \in Metric /\ MetricCoherent(Failed(m))
<1> DEFINE n == OneMore(m.failures)
<1>1. n \in 0..Threshold /\ n # 0
  BY OneMoreType, HealthAssumption DEF Metric
<1> HIDE DEF n
<1>2. CASE n = Threshold
  <2>1. Failed(m) = [m EXCEPT !.failures = n, !.health = "unavailable", !.cooldown = Cooldown]
    BY <1>2 DEF Failed, n, Metric
  <2>2. Failed(m) \in Metric
    BY <1>1, <2>1, CooldownType DEF Metric, Status
  <2>3. MetricCoherent(Failed(m))
    BY <1>1, <1>2, <2>1, CooldownType DEF Metric, MetricCoherent
  <2> QED  BY <2>2, <2>3
<1>3. CASE n # Threshold
  <2>1. Failed(m) = [m EXCEPT !.failures = n,
                              !.health = IF @ = "healthy" THEN "degraded" ELSE @]
    BY <1>3 DEF Failed, n, Metric
  <2>2. Failed(m) \in Metric
    BY <1>1, <2>1 DEF Metric, Status
  <2>3. Failed(m).health # "healthy" /\ Failed(m).failures # Threshold
    BY <1>3, <2>1 DEF Metric, Status
  <2> QED  BY <2>2, <2>3 DEF MetricCoherent
<1> QED  BY <1>2, <1>3

LEMMA RecordType ==
  ASSUME NEW m \in Metric, MetricCoherent(m), NEW success \in BOOLEAN
  PROVE  RecordAttempt(m, success) \in Metric /\ MetricCoherent(RecordAttempt(m, success))
BY ReleasedType, SucceededType, FailedType DEF RecordAttempt

LEMMA RowOfType ==
  ASSUME NEW m \in Metric, MetricCoherent(m)
  PROVE  RowOf(m) \in HealthRow /\ RowCoherent(RowOf(m))
BY DEF RowOf, HealthRow, Metric, RowCoherent, MetricCoherent

LEMMA LessType ==
  ASSUME NEW c \in (0..Cooldown) \cup {None}
  PROVE  Less(c) \in (0..Cooldown) \cup {None} /\ (Less(c) = None <=> c = None)
BY HealthAssumption DEF Less

LEMMA ElapsedRow ==
  ASSUME NEW h \in HealthRow, RowCoherent(h)
  PROVE  Elapsed(h) \in HealthRow /\ RowCoherent(Elapsed(h))
<1>1. Less(h.cooldown) \in (0..Cooldown) \cup {None} /\ (Less(h.cooldown) = None <=> h.cooldown = None)
  BY LessType DEF HealthRow
<1> QED  BY <1>1 DEF Elapsed, HealthRow, RowCoherent

LEMMA ElapsedMetric ==
  ASSUME NEW m \in Metric, MetricCoherent(m)
  PROVE  Elapsed(m) \in Metric /\ MetricCoherent(Elapsed(m))
<1>1. Less(m.cooldown) \in (0..Cooldown) \cup {None} /\ (Less(m.cooldown) = None <=> m.cooldown = None)
  BY LessType DEF Metric
<1> QED  BY <1>1 DEF Elapsed, Metric, MetricCoherent

LEMMA SampleType == Cardinality(UnderWay) \in Nat
BY FiniteAttempts, FS_Subset, FS_CardinalityType DEF UnderWay

----------------------------------------------------------------------------
(* The steps.                                                              *)

LEMMA StartAttemptStep ==
  ASSUME HealthInv, NEW a \in Attempts, Choose(a)
  PROVE  HealthInv'
<1>1. sampled' \in [Attempts -> Nat]
  BY SampleType DEF HealthInv, TypeOK, Choose, StartAttempt
<1>2. pc' \in [Attempts \cup Probes \cup Syncs -> AttemptPc \cup ProbePc \cup SyncPc]
  BY DEF HealthInv, TypeOK, Choose, StartAttempt, Goto, AttemptPc
<1> QED  BY <1>1, <1>2 DEF HealthInv, TypeOK, Choose, StartAttempt, registryVars

LEMMA StartedStep ==
  ASSUME HealthInv, NEW a \in Attempts, OnAttemptStarted(a), UNCHANGED registryVars
  PROVE  HealthInv'
<1>1. Entry \in Metric /\ MetricCoherent(Entry) /\ sampled[a] \in Nat
  BY EntryType DEF HealthInv, TypeOK
<1>2. metric' \in Metric /\ MetricCoherent(metric')
  BY <1>1 DEF OnAttemptStarted, Metric, MetricCoherent
<1>3. sampled' \in [Attempts -> Nat]
  BY DEF HealthInv, TypeOK, OnAttemptStarted
<1>4. pc' \in [Attempts \cup Probes \cup Syncs -> AttemptPc \cup ProbePc \cup SyncPc]
  BY DEF HealthInv, TypeOK, OnAttemptStarted, Goto, AttemptPc
<1> QED  BY <1>2, <1>3, <1>4 DEF HealthInv, TypeOK, OnAttemptStarted, registryVars

LEMMA FinishedStep ==
  ASSUME HealthInv, NEW a \in Attempts, OnAttemptFinished(a), UNCHANGED registryVars
  PROVE  HealthInv'
<1>1. Entry \in Metric /\ MetricCoherent(Entry)
  BY EntryType DEF HealthInv
<1>2. PICK success \in BOOLEAN :
        /\ metric' = RecordAttempt(Entry, success)
        /\ streak' = IF success THEN 0 ELSE OneMore(streak)
        /\ IF MustPersist(Entry, success)
           THEN /\ Goto(a, "persist")
                /\ write' = [write EXCEPT ![a] = RowOf(RecordAttempt(Entry, success))]
           ELSE Goto(a, "idle") /\ UNCHANGED write
  BY DEF OnAttemptFinished
<1>3. metric' \in Metric /\ MetricCoherent(metric')
  BY <1>1, <1>2, RecordType
<1>4. write' \in [Attempts -> HealthRow] /\ \A b \in Attempts : RowCoherent(write'[b])
  BY <1>2, <1>3, RowOfType DEF HealthInv, TypeOK
<1>5. streak' \in 0..Threshold
  <2>1. OneMore(streak) \in 1..Threshold
    BY OneMoreType DEF HealthInv, TypeOK
  <2> QED  BY <1>2, <2>1, HealthAssumption
<1>6. pc' \in [Attempts \cup Probes \cup Syncs -> AttemptPc \cup ProbePc \cup SyncPc]
  BY <1>2 DEF HealthInv, TypeOK, Goto, AttemptPc
<1> QED  BY <1>3, <1>4, <1>5, <1>6 DEF HealthInv, TypeOK, OnAttemptFinished, registryVars

LEMMA PersistStep ==
  ASSUME HealthInv, NEW a \in Attempts, Persist(a), UNCHANGED registryVars
  PROVE  HealthInv'
<1>1. row' \in HealthRow /\ RowCoherent(row')
  BY DEF HealthInv, TypeOK, Persist
<1>2. write' \in [Attempts -> HealthRow] /\ \A b \in Attempts : RowCoherent(write'[b])
  BY CooldownType DEF HealthInv, TypeOK, Persist
<1>3. pc' \in [Attempts \cup Probes \cup Syncs -> AttemptPc \cup ProbePc \cup SyncPc]
  BY DEF HealthInv, TypeOK, Persist, Goto, AttemptPc
<1> QED  BY <1>1, <1>2, <1>3 DEF HealthInv, TypeOK, Persist, registryVars

LEMMA ProbeStep ==
  ASSUME HealthInv, NEW p \in Probes, Probe(p)
  PROVE  HealthInv'
<1>1. CASE ProbeRow(p) /\ UNCHANGED registryVars
  <2>1. row' \in HealthRow /\ RowCoherent(row')
    BY <1>1, CooldownType DEF HealthInv, TypeOK, ProbeRow
  <2>2. pc' \in [Attempts \cup Probes \cup Syncs -> AttemptPc \cup ProbePc \cup SyncPc]
    BY <1>1 DEF HealthInv, TypeOK, ProbeRow, Goto, ProbePc
  <2> QED  BY <1>1, <2>1, <2>2 DEF HealthInv, TypeOK, ProbeRow, registryVars
<1>2. CASE ProbeMetric(p) /\ UNCHANGED registryVars
  <2>1. metric' \in Metric \cup {None} /\ (metric' # None => MetricCoherent(metric'))
    <3>1. CASE metric = None
      BY <1>2, <3>1 DEF ProbeMetric
    <3>2. CASE metric # None
      <4>1. metric' = [metric EXCEPT !.health = "healthy", !.failures = 0, !.cooldown = None]
        BY <1>2, <3>2 DEF ProbeMetric
      <4>2. metric \in Metric /\ 0 \in 0..Threshold
        BY <3>2, HealthAssumption DEF HealthInv, TypeOK
      <4> QED  BY <4>1, <4>2, CooldownType DEF Metric, Status, MetricCoherent
    <3> QED  BY <3>1, <3>2
  <2>2. pc' \in [Attempts \cup Probes \cup Syncs -> AttemptPc \cup ProbePc \cup SyncPc]
    BY <1>2 DEF HealthInv, TypeOK, ProbeMetric, Goto, ProbePc
  <2>3. streak' \in 0..Threshold
    BY <1>2, HealthAssumption DEF ProbeMetric
  <2> QED  BY <1>2, <2>1, <2>2, <2>3 DEF HealthInv, TypeOK, ProbeMetric, registryVars
<1> QED  BY <1>1, <1>2 DEF Probe

(* Every step of a sync but Seed leaves the metric alone.                  *)
LEMMA SyncTypeStep ==
  ASSUME HealthInv, NEW s \in Syncs, AdminWrites(s) \/ SyncEnds(s) \/ (Sync(s) /\ ~Seed(s))
  PROVE  HealthInv'
<1>1. NoRows \in Rows /\ RowCoherent(NoRows.row)
  BY CooldownType DEF NoRows, Rows, Config
<1>2. UNCHANGED <<metric, row, sampled, write, streak>>
  BY DEF AdminWrites, SyncEnds, Sync, SyncStep, FetchPools, ClearPools, ClearMembers,
         ClearProfiles, FetchRows, SeedCheck, InsertProfile, InsertPool, InsertMembers, Upsert
<1>3. pc' \in [Attempts \cup Probes \cup Syncs -> AttemptPc \cup ProbePc \cup SyncPc]
  BY DEF AdminWrites, SyncEnds, Sync, SyncStep, FetchPools, ClearPools, ClearMembers,
         ClearProfiles, FetchRows, SeedCheck, InsertProfile, InsertPool, InsertMembers, Upsert,
         HealthInv, TypeOK, Goto, SyncPc
<1>4. read' \in [Syncs -> Rows] /\ \A t \in Syncs : RowCoherent(read'[t].row)
  BY <1>1 DEF AdminWrites, SyncEnds, Sync, SyncStep, FetchPools, ClearPools, ClearMembers,
         ClearProfiles, FetchRows, SeedCheck, InsertProfile, InsertPool, InsertMembers, Upsert,
         HealthInv, TypeOK, Rows
<1>5. config' \in Config /\ members' \in Config \cup {None} /\ engine' \in Config \cup {None}
  BY DEF AdminWrites, SyncEnds, Sync, SyncStep, FetchPools, ClearPools, ClearMembers,
         ClearProfiles, FetchRows, SeedCheck, InsertProfile, InsertPool, InsertMembers, Upsert,
         HealthInv, TypeOK, Rows
<1>6. pools' \in BOOLEAN /\ profile' \in BOOLEAN /\ serving' \in BOOLEAN
  BY DEF AdminWrites, SyncEnds, Sync, SyncStep, FetchPools, ClearPools, ClearMembers,
         ClearProfiles, FetchRows, SeedCheck, InsertProfile, InsertPool, InsertMembers, Upsert,
         HealthInv, TypeOK
<1> QED  BY <1>2, <1>3, <1>4, <1>5, <1>6 DEF HealthInv, TypeOK

LEMMA SeedStep ==
  ASSUME HealthInv, NEW s \in Syncs, Seed(s)
  PROVE  HealthInv'
<1>1. read[s].row \in HealthRow /\ RowCoherent(read[s].row)
  BY DEF HealthInv, TypeOK, Rows
<1>2. metric' \in Metric /\ MetricCoherent(metric')
  BY <1>1, CooldownType DEF Seed, Cooling, NewMetric, Metric, HealthRow, RowCoherent, MetricCoherent
<1>3. pc' \in [Attempts \cup Probes \cup Syncs -> AttemptPc \cup ProbePc \cup SyncPc]
  BY DEF HealthInv, TypeOK, Seed, SyncStep, Goto, SyncPc
<1> QED  BY <1>2, <1>3 DEF HealthInv, TypeOK, Seed, SyncStep

LEMMA TickStep ==
  ASSUME HealthInv, Tick
  PROVE  HealthInv'
<1>1. metric' \in Metric \cup {None} /\ (metric' # None => MetricCoherent(metric'))
  BY ElapsedMetric DEF HealthInv, TypeOK, Tick
<1>2. row' \in HealthRow /\ RowCoherent(row')
  BY ElapsedRow DEF HealthInv, TypeOK, Tick
<1>3. write' \in [Attempts -> HealthRow] /\ \A a \in Attempts : RowCoherent(write'[a])
  <2>1. \A a \in Attempts : Elapsed(write[a]) \in HealthRow /\ RowCoherent(Elapsed(write[a]))
    BY ElapsedRow DEF HealthInv, TypeOK
  <2> QED  BY <2>1 DEF Tick
<1>4. read' \in [Syncs -> Rows] /\ \A s \in Syncs : RowCoherent(read'[s].row)
  <2>1. \A s \in Syncs : read[s] \in Rows /\ RowCoherent(read[s].row)
    BY DEF HealthInv, TypeOK
  <2>2. \A s \in Syncs : Elapsed(read[s].row) \in HealthRow /\ RowCoherent(Elapsed(read[s].row))
    BY <2>1, ElapsedRow DEF Rows
  <2>3. \A s \in Syncs : /\ [read[s] EXCEPT !.row = Elapsed(@)] \in Rows
                         /\ RowCoherent([read[s] EXCEPT !.row = Elapsed(@)].row)
    BY <2>1, <2>2 DEF Rows
  <2> QED  BY <2>3 DEF Tick
<1> QED  BY <1>1, <1>2, <1>3, <1>4 DEF HealthInv, TypeOK, Tick

LEMMA AtBootType ==
  AtBoot \in [Attempts \cup Probes \cup Syncs -> AttemptPc \cup ProbePc \cup SyncPc]
BY DEF AtBoot, AttemptPc, SyncPc

LEMMA NothingRead ==
  /\ [s \in Syncs |-> NoRows] \in [Syncs -> Rows]
  /\ \A s \in Syncs : RowCoherent([t \in Syncs |-> NoRows][s].row)
BY CooldownType DEF NoRows, Rows, Config

LEMMA RestartStep ==
  ASSUME HealthInv, Restart
  PROVE  HealthInv'
<1>1. TypeOK'
  <2>1. /\ pc' \in [Attempts \cup Probes \cup Syncs -> AttemptPc \cup ProbePc \cup SyncPc]
        /\ sampled' \in [Attempts -> Nat]
        /\ write' \in [Attempts -> HealthRow]
        /\ read' \in [Syncs -> Rows]
    BY AtBootType, NothingRead, CooldownType DEF Restart
  <2>2. streak' \in 0..Threshold
    BY HealthAssumption DEF Restart
  <2> QED  BY <2>1, <2>2 DEF HealthInv, TypeOK, Restart
<1>2. /\ metric' = None
      /\ RowCoherent(row')
      /\ \A a \in Attempts : RowCoherent(write'[a])
      /\ \A s \in Syncs : RowCoherent(read'[s].row)
  BY NothingRead, CooldownType DEF HealthInv, Restart
<1> QED  BY <1>1, <1>2 DEF HealthInv

LEMMA HealthInit == Init => HealthInv
<1> SUFFICES ASSUME Init
             PROVE  HealthInv
  OBVIOUS
<1>1. TypeOK
  <2>1. /\ pc \in [Attempts \cup Probes \cup Syncs -> AttemptPc \cup ProbePc \cup SyncPc]
        /\ sampled \in [Attempts -> Nat]
        /\ write \in [Attempts -> HealthRow]
        /\ read \in [Syncs -> Rows]
    BY AtBootType, NothingRead, CooldownType DEF Init
  <2>2. streak \in 0..Threshold
    BY HealthAssumption DEF Init
  <2> QED  BY <2>1, <2>2, CooldownType DEF TypeOK, Init
<1>2. /\ metric = None
      /\ RowCoherent(row)
      /\ \A a \in Attempts : RowCoherent(write[a])
      /\ \A s \in Syncs : RowCoherent(read[s].row)
  BY NothingRead, CooldownType DEF Init
<1> QED  BY <1>1, <1>2 DEF HealthInv

LEMMA HealthNext == HealthInv /\ [Next]_vars => HealthInv'
<1> SUFFICES ASSUME HealthInv, [Next]_vars
             PROVE  HealthInv'
  OBVIOUS
<1>1. ASSUME NEW s \in Syncs, AdminWrites(s) \/ Sync(s) \/ SyncEnds(s)
      PROVE  HealthInv'
  BY <1>1, SeedStep, SyncTypeStep
<1>2. ASSUME NEW a \in Attempts, Choose(a)
      PROVE  HealthInv'
  BY <1>2, StartAttemptStep
<1>3. ASSUME NEW a \in Attempts, Attempt(a)
      PROVE  HealthInv'
  BY <1>3, StartedStep, FinishedStep, PersistStep DEF Attempt
<1>4. ASSUME NEW p \in Probes, Probe(p)
      PROVE  HealthInv'
  BY <1>4, ProbeStep
<1>5. CASE Tick
  BY <1>5, TickStep
<1>6. CASE Restart
  BY <1>6, RestartStep
<1>7. CASE UNCHANGED vars
  BY <1>7 DEF HealthInv, TypeOK, vars, healthVars, registryVars
<1> QED  BY <1>1, <1>2, <1>3, <1>4, <1>5, <1>6, <1>7 DEF Next

----------------------------------------------------------------------------

(* The invariant of the health of an endpoint, in memory, in the database  *)
(* and between them.                                                       *)
THEOREM HealthInvariant == Spec => []HealthInv
BY HealthInit, HealthNext, PTL DEF Spec

(* Every reachable state of sync, hooks and probes is well typed: the      *)
(* count of active attempts is never negative, a cooldown never longer     *)
(* than COOLDOWN_SECS.                                                     *)
THEOREM SyncTypeCorrect == Spec => []TypeOK
<1>1. HealthInv => TypeOK
  BY DEF HealthInv
<1> QED  BY <1>1, HealthInvariant, PTL

(* A healthy endpoint is not cooling down and one that reached the         *)
(* threshold of record_attempt is unavailable, whatever interleaves.       *)
THEOREM HealthIsCoherent == Spec => []HealthCoherent
<1>1. HealthInv => HealthCoherent
  BY DEF HealthInv, HealthCoherent, MetricCoherent, RowCoherent
<1> QED  BY <1>1, HealthInvariant, PTL

----------------------------------------------------------------------------
(* One sync at a time.                                                     *)

Clearing == {"clear_profiles", "fetch_rows", "seed_check", "seed", "insert_profile",
             "insert_pool", "insert_members"}
Filling == {"seed_check", "seed", "insert_profile", "insert_pool", "insert_members", "upsert"}
Seeding == {"seed_check", "seed", "insert_profile"}

(* How far the maps and the data plane are when the only sync is at l.  A  *)
(* sync that ended leaves them as they were at one of its awaits, of which *)
(* only the first line survives.                                           *)
RegistryAt(l) ==
  /\ members = "with" => profile
  /\ l = "idle" => /\ pools /\ members = config /\ engine = config
                   /\ profile = (config = "with")
  /\ l \in Clearing => members = None
  /\ l \in {"fetch_rows"} \cup Seeding => ~profile
  /\ l \in Filling => read[Boot].config = config
  /\ l \in Seeding => config = "with"
  /\ l \in Filling \ Seeding => profile = (config = "with")
  /\ l \in {"insert_members", "upsert"} => pools
  /\ l = "upsert" => members = config

(* The endpoint has a metric before the data plane knows it: until then no *)
(* attempt is under way that would create one, and no sync is past Seed.   *)
NothingUnderWay(l) ==
  /\ streak = 0
  /\ engine # "with"
  /\ UnderWay = {}
  /\ l \in Filling \ {"seed_check", "seed"} => config # "with"

StreakInv(l) ==
  /\ metric = None => NothingUnderWay(l)
  /\ metric # None => streak <= metric.failures
  /\ l = "seed" => metric = None

SyncInv == HealthInv /\ RegistryAt(pc[Boot]) /\ StreakInv(pc[Boot])

ServerStep ==
  \/ \E a \in Attempts : Choose(a) \/ Attempt(a)
  \/ \E p \in Probes : Probe(p)

LEMMA OthersLeaveTheSync ==
  ASSUME HealthInv, ServerStep
  PROVE  pc'[Boot] = pc[Boot] /\ UNCHANGED registryVars
<1>1. ASSUME NEW a \in Attempts \cup Probes, NEW l, Goto(a, l)
      PROVE  pc'[Boot] = pc[Boot]
  BY <1>1, SyncAssumption, HealthAssumption DEF HealthInv, TypeOK, Goto
<1>2. ASSUME NEW a \in Attempts, Choose(a) \/ Attempt(a)
      PROVE  \E l : Goto(a, l)
  BY <1>2 DEF Choose, Attempt, StartAttempt, OnAttemptStarted, OnAttemptFinished, Persist
<1>3. ASSUME NEW p \in Probes, Probe(p)
      PROVE  \E l : Goto(p, l)
  BY <1>3 DEF Probe, ProbeRow, ProbeMetric
<1>4. UNCHANGED registryVars
  BY DEF ServerStep, Choose, Attempt, Probe
<1> QED  BY <1>1, <1>2, <1>3, <1>4 DEF ServerStep

(* The steps of a sync, one after the other.                               *)
LEMMA RegistrySyncStep ==
  ASSUME HealthInv, RegistryAt(pc[Boot]),
         AdminWrites(Boot) \/ Sync(Boot) \/ SyncEnds(Boot)
  PROVE  RegistryAt(pc[Boot])'
<1>1. pc[Boot] \in AttemptPc \cup ProbePc \cup SyncPc /\ config \in Config
  BY SyncAssumption DEF HealthInv, TypeOK
<1>2. \A l : Goto(Boot, l) => pc'[Boot] = l
  BY SyncAssumption DEF HealthInv, TypeOK, Goto
<1>3. \A rows : read' = [read EXCEPT ![Boot] = rows] => read'[Boot] = rows
  BY SyncAssumption DEF HealthInv, TypeOK
<1> USE DEF RegistryAt, Clearing, Filling, Seeding
<1>4. CASE AdminWrites(Boot)
  BY <1>2, <1>4 DEF AdminWrites
<1>5. CASE SyncEnds(Boot)
  BY <1>2, <1>5 DEF SyncEnds
<1>6. CASE FetchPools(Boot)
  BY <1>2, <1>6 DEF FetchPools, SyncStep
<1>7. CASE ClearPools(Boot)
  BY <1>2, <1>7 DEF ClearPools, SyncStep
<1>8. CASE ClearMembers(Boot)
  BY <1>2, <1>8, SyncAssumption DEF ClearMembers, SyncStep, Config
<1>9. CASE ClearProfiles(Boot)
  BY <1>2, <1>9, SyncAssumption DEF ClearProfiles, SyncStep, Config
<1>10. CASE FetchRows(Boot)
  <2>1. read'[Boot].config = config
    <3>1. read' = [read EXCEPT ![Boot] = [config |-> config, row |-> row]]
      BY <1>10 DEF FetchRows
    <3>2. read'[Boot] = [config |-> config, row |-> row]
      BY <1>3, <3>1
    <3> QED  BY <3>2
  <2>2. members = None /\ ~profile /\ UNCHANGED <<members, profile, config>>
    BY <1>10 DEF FetchRows, SyncStep
  <2>3. pc'[Boot] = IF config = "with" THEN "seed_check" ELSE "insert_pool"
    BY <1>2, <1>10 DEF FetchRows, SyncStep
  <2> QED  BY <2>1, <2>2, <2>3, <1>1, SyncAssumption DEF HealthInv, TypeOK, Config
<1>11. CASE SeedCheck(Boot)
  <2>1. pc'[Boot] \in {"seed", "insert_profile"}
    BY <1>2, <1>11 DEF SeedCheck, SyncStep
  <2> QED  BY <2>1, <1>11 DEF SeedCheck, SyncStep
<1>12. CASE Seed(Boot)
  BY <1>2, <1>12 DEF Seed, SyncStep
<1>13. CASE InsertProfile(Boot)
  BY <1>2, <1>13, SyncAssumption DEF InsertProfile, SyncStep
<1>14. CASE InsertPool(Boot)
  BY <1>2, <1>14 DEF InsertPool, SyncStep
<1>15. CASE InsertMembers(Boot)
  BY <1>2, <1>15 DEF InsertMembers, SyncStep
<1>16. CASE Upsert(Boot)
  BY <1>2, <1>16 DEF Upsert, SyncStep
<1> QED
  BY <1>4, <1>5, <1>6, <1>7, <1>8, <1>9, <1>10, <1>11, <1>12, <1>13, <1>14, <1>15, <1>16 DEF Sync

(* What an attempt counts, and what it resets, it counts and resets in     *)
(* both.                                                                   *)
LEMMA RecordedFailures ==
  ASSUME NEW m \in Metric, NEW n \in 0..Threshold, n <= m.failures, NEW success \in BOOLEAN
  PROVE  (IF success THEN 0 ELSE OneMore(n)) <= RecordAttempt(m, success).failures
<1>1. Released(m) \in Metric /\ Released(m).failures = m.failures
  BY DEF Released, Metric
<1>2. RecordAttempt(m, success).failures = IF success THEN 0 ELSE OneMore(m.failures)
  BY <1>1 DEF RecordAttempt, Succeeded, Failed, Metric
<1>3. m.failures \in 0..Threshold
  BY DEF Metric
<1> QED  BY <1>2, <1>3, HealthAssumption DEF OneMore

LEMMA UnderWayKept ==
  ASSUME HealthInv, NEW s \in Syncs \cup Probes, NEW l, Goto(s, l)
  PROVE  UnderWay' = UnderWay
<1>1. \A a \in Attempts : pc'[a] = pc[a]
  BY HealthAssumption DEF HealthInv, TypeOK, Goto
<1> QED  BY <1>1 DEF UnderWay

LEMMA StreakSyncStep ==
  ASSUME HealthInv, RegistryAt(pc[Boot]), StreakInv(pc[Boot]),
         AdminWrites(Boot) \/ Sync(Boot) \/ SyncEnds(Boot)
  PROVE  StreakInv(pc[Boot])'
<1>1. pc[Boot] \in AttemptPc \cup ProbePc \cup SyncPc /\ config \in Config
  BY SyncAssumption DEF HealthInv, TypeOK
<1>2. \A l : Goto(Boot, l) => pc'[Boot] = l /\ UnderWay' = UnderWay
  BY SyncAssumption, UnderWayKept DEF HealthInv, TypeOK, Goto
<1> USE DEF StreakInv, NothingUnderWay, Filling
<1>3. CASE AdminWrites(Boot)
  BY <1>2, <1>3 DEF AdminWrites
<1>4. CASE SyncEnds(Boot)
  BY <1>2, <1>4 DEF SyncEnds
<1>5. CASE FetchPools(Boot) \/ ClearPools(Boot) \/ ClearMembers(Boot) \/ ClearProfiles(Boot)
  BY <1>2, <1>5 DEF FetchPools, ClearPools, ClearMembers, ClearProfiles, SyncStep
<1>6. CASE FetchRows(Boot)
  BY <1>2, <1>6 DEF FetchRows, SyncStep
<1>7. CASE SeedCheck(Boot)
  BY <1>2, <1>7 DEF SeedCheck, SyncStep
<1>8. CASE Seed(Boot)
  <2>1. metric' \in Metric /\ metric' # None /\ metric'.failures = 0
    <3>1. read[Boot].row \in HealthRow
      BY SyncAssumption DEF HealthInv, TypeOK, Rows
    <3> QED  BY <1>8, <3>1, CooldownType, NoneIsNoMetric DEF Seed, NewMetric, Metric, HealthRow
  <2>2. streak' = 0 /\ pc'[Boot] = "insert_profile"
    BY <1>2, <1>8 DEF Seed, SyncStep
  <2> QED  BY <2>1, <2>2
<1>9. CASE InsertProfile(Boot)
  BY <1>2, <1>9 DEF InsertProfile, SyncStep
<1>10. CASE InsertPool(Boot) \/ InsertMembers(Boot)
  BY <1>2, <1>10 DEF InsertPool, InsertMembers, SyncStep
<1>11. CASE Upsert(Boot)
  BY <1>2, <1>11 DEF Upsert, SyncStep, RegistryAt
<1> QED
  BY <1>3, <1>4, <1>5, <1>6, <1>7, <1>8, <1>9, <1>10, <1>11 DEF Sync

LEMMA StreakServerStep ==
  ASSUME HealthInv, StreakInv(pc[Boot]), ServerStep
  PROVE  StreakInv(pc[Boot])'
<1>1. pc'[Boot] = pc[Boot] /\ UNCHANGED registryVars
  BY OthersLeaveTheSync
<1> USE DEF StreakInv, NothingUnderWay
<1>2. ASSUME NEW a \in Attempts, Choose(a)
      PROVE  StreakInv(pc[Boot])'
  BY <1>1, <1>2 DEF Choose, StartAttempt, registryVars
<1>3. ASSUME NEW a \in Attempts, pc[a] \in {"starting", "running"}
      PROVE  metric \in Metric /\ metric # None /\ Entry = metric
  BY <1>3 DEF UnderWay, Entry, HealthInv, TypeOK
<1>4. ASSUME NEW a \in Attempts, OnAttemptStarted(a)
      PROVE  StreakInv(pc[Boot])'
  <2>1. metric \in Metric /\ metric # None /\ Entry = metric
    BY <1>3, <1>4 DEF OnAttemptStarted
  <2>2. metric' # None /\ metric'.failures = metric.failures
    <3>1. metric' = [metric EXCEPT !.active = sampled[a]] /\ sampled[a] \in Nat
      BY <1>4, <2>1 DEF OnAttemptStarted, HealthInv, TypeOK
    <3>2. metric' \in Metric
      BY <2>1, <3>1 DEF Metric
    <3> QED  BY <2>1, <3>1, <3>2, NoneIsNoMetric DEF Metric
  <2> QED  BY <1>1, <1>4, <2>1, <2>2 DEF OnAttemptStarted
<1>5. ASSUME NEW a \in Attempts, OnAttemptFinished(a)
      PROVE  StreakInv(pc[Boot])'
  <2>1. metric \in Metric /\ metric # None /\ Entry = metric
    BY <1>3, <1>5 DEF OnAttemptFinished
  <2>2. PICK success \in BOOLEAN : /\ metric' = RecordAttempt(metric, success)
                                   /\ streak' = IF success THEN 0 ELSE OneMore(streak)
    BY <1>5, <2>1 DEF OnAttemptFinished
  <2>3. metric' \in Metric
    BY <2>1, <2>2, RecordType DEF HealthInv
  <2>4. streak' <= metric'.failures
    BY <2>1, <2>2, RecordedFailures DEF HealthInv, TypeOK
  <2> QED  BY <1>1, <2>1, <2>3, <2>4, NoneIsNoMetric
<1>6. ASSUME NEW a \in Attempts, Persist(a)
      PROVE  StreakInv(pc[Boot])'
  <2>1. UnderWay' = UnderWay
    BY <1>6 DEF Persist, Goto, UnderWay, HealthInv, TypeOK
  <2> QED  BY <1>1, <1>6, <2>1 DEF Persist, registryVars
<1>7. ASSUME NEW p \in Probes, Probe(p)
      PROVE  StreakInv(pc[Boot])'
  <2>1. UnderWay' = UnderWay
    BY <1>7, UnderWayKept DEF Probe, ProbeRow, ProbeMetric
  <2>2. CASE ProbeRow(p)
    BY <1>1, <2>1, <2>2 DEF ProbeRow, registryVars
  <2>3. CASE ProbeMetric(p) /\ metric = None
    BY <1>1, <2>1, <2>3 DEF ProbeMetric, registryVars
  <2>4. CASE ProbeMetric(p) /\ metric # None
    <3>1. metric' = [metric EXCEPT !.health = "healthy", !.failures = 0, !.cooldown = None]
      BY <2>4 DEF ProbeMetric
    <3>2. metric \in Metric
      BY <2>4 DEF HealthInv, TypeOK
    <3>3. metric' \in Metric /\ metric'.failures = 0 /\ streak' = 0
      <4>1. streak' = 0 /\ 0 \in 0..Threshold
        BY <2>4, HealthAssumption DEF ProbeMetric
      <4>2. metric' \in Metric
        BY <3>1, <3>2, <4>1, CooldownType DEF Metric, Status
      <4> QED  BY <3>1, <3>2, <4>1, <4>2 DEF Metric
    <3> QED  BY <1>1, <2>4, <3>3, NoneIsNoMetric
  <2> QED  BY <1>7, <2>2, <2>3, <2>4 DEF Probe
<1> QED  BY <1>2, <1>4, <1>5, <1>6, <1>7 DEF ServerStep, Attempt

LEMMA TickLeavesSyncInv ==
  ASSUME SyncInv, Tick
  PROVE  RegistryAt(pc[Boot])' /\ StreakInv(pc[Boot])'
<1>1. read'[Boot].config = read[Boot].config
  BY SyncAssumption DEF Tick, SyncInv, HealthInv, TypeOK, Rows
<1>2. metric' = None <=> metric = None
  <2>1. metric # None => metric' \in Metric
    BY ElapsedMetric DEF Tick, SyncInv, HealthInv, TypeOK
  <2> QED  BY <2>1, NoneIsNoMetric DEF Tick
<1>3. metric # None => metric'.failures = metric.failures
  BY DEF Tick, Elapsed, SyncInv, HealthInv, TypeOK, Metric
<1>4. UnderWay' = UnderWay
  BY DEF Tick, UnderWay
<1>5. UNCHANGED <<pc, streak, config, pools, members, profile, engine>>
  BY DEF Tick
<1>6. RegistryAt(pc[Boot])'
  BY <1>1, <1>5 DEF SyncInv, RegistryAt
<1>7. StreakInv(pc[Boot])'
  BY <1>2, <1>3, <1>4, <1>5 DEF SyncInv, StreakInv, NothingUnderWay
<1> QED  BY <1>6, <1>7

LEMMA AtStart ==
  ASSUME config \in Config, pc = AtBoot, metric = None, streak = 0,
         members = None, engine = None
  PROVE  RegistryAt(pc[Boot]) /\ StreakInv(pc[Boot])
<1>1. pc[Boot] = "fetch_pools"
  BY SyncAssumption DEF AtBoot
<1>2. UnderWay = {}
  BY SyncAssumption, HealthAssumption DEF UnderWay, AtBoot
<1>3. None # "with"
  BY SyncAssumption DEF Config
<1> QED  BY <1>1, <1>2, <1>3 DEF RegistryAt, StreakInv, NothingUnderWay, Clearing, Filling, Seeding

LEMMA RestartLeavesSyncInv ==
  ASSUME SyncInv, Restart
  PROVE  RegistryAt(pc[Boot])' /\ StreakInv(pc[Boot])'
<1>1. /\ config' \in Config /\ pc' = AtBoot /\ metric' = None /\ streak' = 0
      /\ members' = None /\ engine' = None
  BY DEF SyncInv, HealthInv, TypeOK, Restart
<1>2. pc'[Boot] = "fetch_pools"
  BY <1>1, SyncAssumption DEF AtBoot
<1>3. UnderWay' = {}
  BY <1>1, SyncAssumption, HealthAssumption DEF UnderWay, AtBoot
<1>4. None # "with"
  BY SyncAssumption DEF Config
<1> QED  BY <1>1, <1>2, <1>3, <1>4
         DEF RegistryAt, StreakInv, NothingUnderWay, Clearing, Filling, Seeding

LEMMA SyncInvInit == Init => SyncInv
BY HealthInit, AtStart DEF Init, SyncInv

LEMMA SyncInvNext ==
  ASSUME Syncs = {Boot}, SyncInv, [Next]_vars
  PROVE  SyncInv'
<1>1. HealthInv'
  BY HealthNext DEF SyncInv
<1>2. CASE AdminWrites(Boot) \/ Sync(Boot) \/ SyncEnds(Boot)
  BY <1>1, <1>2, RegistrySyncStep, StreakSyncStep DEF SyncInv
<1>3. CASE ServerStep
  <2>1. pc'[Boot] = pc[Boot] /\ UNCHANGED registryVars
    BY <1>3, OthersLeaveTheSync DEF SyncInv
  <2>2. RegistryAt(pc[Boot])'
    BY <2>1 DEF SyncInv, RegistryAt, registryVars
  <2> QED  BY <1>1, <1>3, <2>2, StreakServerStep DEF SyncInv
<1>4. CASE Tick
  BY <1>1, <1>4, TickLeavesSyncInv DEF SyncInv
<1>5. CASE Restart
  BY <1>1, <1>5, RestartLeavesSyncInv DEF SyncInv
<1>6. CASE UNCHANGED vars
  <2>1. UNCHANGED <<pc, metric, streak, config, pools, members, profile, engine, read>>
    BY <1>6 DEF vars, healthVars, registryVars
  <2> QED  BY <1>1, <2>1 DEF SyncInv, RegistryAt, StreakInv, NothingUnderWay, UnderWay
<1> QED  BY <1>2, <1>3, <1>4, <1>5, <1>6 DEF Next, ServerStep

(* The invariant of one sync at a time, beside the hooks and the probes.   *)
THEOREM SyncInvariant ==
  ASSUME Syncs = {Boot}
  PROVE  Spec => []SyncInv
<1>1. SyncInv /\ [Next]_vars => SyncInv'
  BY SyncInvNext
<1> QED  BY <1>1, SyncInvInit, PTL DEF Spec

(* A sync never resets the metric of an endpoint that is in use: failures  *)
(* in a row are counted across syncs, up to FAILURE_THRESHOLD.             *)
THEOREM StreakIsCounted ==
  ASSUME Syncs = {Boot}
  PROVE  Spec => []StreakCounted
<1>1. SyncInv => StreakCounted
  <2> SUFFICES ASSUME SyncInv, streak = Threshold
               PROVE  metric # None /\ metric.health = "unavailable"
    BY DEF StreakCounted
  <2>1. metric # None
    BY HealthAssumption DEF SyncInv, StreakInv, NothingUnderWay
  <2>2. metric.failures \in 0..Threshold /\ Threshold <= metric.failures
    BY <2>1 DEF SyncInv, HealthInv, StreakInv, TypeOK, Metric
  <2>3. metric.failures = Threshold
    BY <2>2, HealthAssumption
  <2> QED  BY <2>1, <2>3 DEF SyncInv, HealthInv, MetricCoherent
<1> QED  BY <1>1, SyncInvariant, PTL

(* When no sync is under way or ended half-way, the routing caches and the *)
(* data plane are those of the database.                                   *)
THEOREM RegistryIsCurrent ==
  ASSUME Syncs = {Boot}
  PROVE  Spec => []RegistryCurrent
<1>1. SyncInv => RegistryCurrent
  BY DEF SyncInv, RegistryAt, RegistryCurrent
<1> QED  BY <1>1, SyncInvariant, PTL

(* In the order in which sync_all_pools clears and fills the maps, a       *)
(* request that finds a member finds its profile, at every moment.         *)
THEOREM MembersAlwaysHaveProfiles ==
  ASSUME Syncs = {Boot}
  PROVE  Spec => []MembersHaveProfiles
<1>1. SyncInv => MembersHaveProfiles
  BY DEF SyncInv, RegistryAt, MembersHaveProfiles
<1> QED  BY <1>1, SyncInvariant, PTL
=============================================================================
