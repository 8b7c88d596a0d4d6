------------------------------ MODULE PoolSync ------------------------------
(***************************************************************************)
(* sync_all_pools of src/src/sync/mod.rs with the health it seeds, for one *)
(* pool and one endpoint that administrators put into the pool and take    *)
(* out of it.  The routing caches pools, pool_members and profiles are     *)
(* cleared one after the other and refilled entry by entry; the data plane *)
(* keeps a pool of its own, which is replaced and never cleared.           *)
(*                                                                         *)
(* A sync runs at start-up and at the end of each administrative handler,  *)
(* with nothing that orders the syncs of two handlers.  The endpoint is    *)
(* not one of a judge (api/judge.rs), whose pool has no feedback.          *)
(***************************************************************************)
EXTENDS EndpointHealth

CONSTANT
  Boot       (* The member of Syncs that runs the sync of the start-up.    *)

Config == {"with", "without"}

ASSUME SyncAssumption ==
  /\ Boot \in Syncs
  /\ None \notin Config

VARIABLES
  config,   (* In the database: the pool with or without the endpoint.     *)
  pools,    (* Whether the pool is in the map pools.                       *)
  members,  (* pool_members: None, or the pool with or without it.         *)
  profile,  (* Whether the endpoint is in the map profiles.                *)
  engine,   (* The data plane's pool: None, with or without the endpoint.  *)
  serving,  (* The server is past its start-up.                            *)
  read      (* What each sync has read from the database.                  *)

registryVars == <<config, pools, members, profile, engine, serving, read>>
vars == <<healthVars, registryVars>>

Rows == [config: Config, row: HealthRow]
NoRows == [config |-> "without", row |-> Healthy]

AttemptPc == {"idle", "starting", "running", "persist"}
ProbePc == {"idle", "probe_metric"}
SyncPc == {"idle", "ended", "fetch_pools", "clear_pools", "clear_members",
           "clear_profiles", "fetch_rows", "seed_check", "seed", "insert_profile",
           "insert_pool", "insert_members", "upsert"}

TypeOK ==
  /\ metric \in Metric \cup {None}
  /\ row \in HealthRow
  /\ pc \in [Attempts \cup Probes \cup Syncs -> AttemptPc \cup ProbePc \cup SyncPc]
  /\ sampled \in [Attempts -> Nat]
  /\ write \in [Attempts -> HealthRow]
  /\ streak \in 0..Threshold
  /\ config \in Config
  /\ pools \in BOOLEAN /\ profile \in BOOLEAN /\ serving \in BOOLEAN
  /\ members \in Config \cup {None}
  /\ engine \in Config \cup {None}
  /\ read \in [Syncs -> Rows]

----------------------------------------------------------------------------
(* A sync.                                                                 *)

(* An administrator adds the endpoint to the pool or takes it out (or      *)
(* enables, disables, ...), and the handler goes on to the sync.           *)
AdminWrites(s) ==
  /\ serving /\ pc[s] \in {"idle", "ended"}
  /\ config' \in Config
  /\ Goto(s, "fetch_pools")
  /\ UNCHANGED <<metric, row, sampled, write, streak,
                 pools, members, profile, engine, serving, read>>

SyncStep(s, from, to) ==
  /\ pc[s] = from
  /\ Goto(s, to)
  /\ UNCHANGED <<row, sampled, write, streak, config>>

FetchPools(s) ==
  /\ SyncStep(s, "fetch_pools", "clear_pools")
  /\ UNCHANGED <<metric, pools, members, profile, engine, serving, read>>

FaultyClearPools(s) ==
  /\ SyncStep(s, "clear_pools", "fetch_rows")
  /\ pools' = FALSE
  /\ UNCHANGED <<metric, members, profile, engine, serving, read>>

ClearPools(s) ==
  /\ SyncStep(s, "clear_pools", "clear_members")
  /\ pools' = FALSE
  /\ UNCHANGED <<metric, members, profile, engine, serving, read>>

FaultyClearMembers(s) ==
  /\ SyncStep(s, "clear_members", "clear_profiles")
  /\ UNCHANGED <<metric, pools, members, profile, engine, serving, read>>

ClearMembers(s) ==
  /\ SyncStep(s, "clear_members", "clear_profiles")
  /\ members' = None
  /\ UNCHANGED <<metric, pools, profile, engine, serving, read>>

ClearProfiles(s) ==
  /\ SyncStep(s, "clear_profiles", "fetch_rows")
  /\ profile' = FALSE
  /\ UNCHANGED <<metric, pools, members, engine, serving, read>>

FetchRows(s) ==
  /\ SyncStep(s, "fetch_rows", IF config = "with" THEN "seed_check" ELSE "insert_pool")
  /\ read' = [read EXCEPT ![s] = [config |-> config, row |-> row]]
  /\ UNCHANGED <<metric, pools, members, profile, engine, serving>>

FaultySeedCheck(s) ==
  /\ SyncStep(s, "seed_check", "seed")
  /\ UNCHANGED <<metric, pools, members, profile, engine, serving, read>>

(* metrics.contains_key.                                                   *)
SeedCheck(s) ==
  /\ SyncStep(s, "seed_check", IF metric = None THEN "seed" ELSE "insert_profile")
  /\ UNCHANGED <<metric, pools, members, profile, engine, serving, read>>

(* metrics.insert of a new metric with the health of the row.              *)
Seed(s) ==
  LET known == read[s].row
  IN  /\ SyncStep(s, "seed", "insert_profile")
      /\ metric' = [NewMetric EXCEPT !.health = known.health,
                                     !.cooldown = IF Cooling(known) THEN known.cooldown ELSE None]
      /\ UNCHANGED <<pools, members, profile, engine, serving, read>>

InsertProfile(s) ==
  /\ SyncStep(s, "insert_profile", "insert_pool")
  /\ profile' = TRUE
  /\ UNCHANGED <<metric, pools, members, engine, serving, read>>

(* After the await for the names of the virtual models.                    *)
InsertPool(s) ==
  /\ SyncStep(s, "insert_pool", "insert_members")
  /\ pools' = TRUE
  /\ UNCHANGED <<metric, members, profile, engine, serving, read>>

InsertMembers(s) ==
  /\ SyncStep(s, "insert_members", "upsert")
  /\ members' = read[s].config
  /\ UNCHANGED <<metric, pools, profile, engine, serving, read>>

(* engine.upsert_pool; the start-up goes on to serve.                      *)
Upsert(s) ==
  /\ SyncStep(s, "upsert", "idle")
  /\ engine' = read[s].config
  /\ read' = [read EXCEPT ![s] = NoRows]
  /\ serving' = TRUE
  /\ UNCHANGED <<metric, pools, members, profile>>

(* The database fails, an error that the handlers ignore, or the client    *)
(* goes away and the handler is dropped at an await; "ended" remembers it  *)
(* until a later sync.  A start-up that fails ends the process: Restart.   *)
SyncEnds(s) ==
  /\ serving
  /\ pc[s] \in {"fetch_pools", "fetch_rows", "insert_pool", "upsert"}
  /\ Goto(s, "ended")
  /\ read' = [read EXCEPT ![s] = NoRows]
  /\ UNCHANGED <<metric, row, sampled, write, streak,
                 config, pools, members, profile, engine, serving>>

----------------------------------------------------------------------------
(* The rest of the server.                                                 *)

(* The data plane picks the endpoint out of its pool, unless the feedback  *)
(* for the pool excludes it; without pool_members there is no feedback.    *)
Choose(a) ==
  /\ serving /\ engine = "with"
  /\ ~(members = "with" /\ Excluded)
  /\ StartAttempt(a)
  /\ UNCHANGED registryVars

Attempt(a) ==
  /\ OnAttemptStarted(a) \/ OnAttemptFinished(a) \/ Persist(a)
  /\ UNCHANGED registryVars

Probe(p) ==
  /\ serving
  /\ ProbeRow(p) \/ ProbeMetric(p)
  /\ UNCHANGED registryVars

Tick ==
  /\ metric' = IF metric = None THEN None ELSE Elapsed(metric)
  /\ row' = Elapsed(row)
  /\ write' = [a \in Attempts |-> Elapsed(write[a])]
  /\ read' = [s \in Syncs |-> [read[s] EXCEPT !.row = Elapsed(@)]]
  /\ UNCHANGED <<pc, sampled, streak, config, pools, members, profile, engine,
                 serving>>

AtBoot == [a \in Attempts \cup Probes \cup Syncs |-> IF a = Boot THEN "fetch_pools" ELSE "idle"]

(* The process ends, with everything it had under way, and starts again    *)
(* from the database.                                                      *)
Restart ==
  /\ metric' = None
  /\ pc' = AtBoot
  /\ sampled' = [a \in Attempts |-> 0]
  /\ write' = [a \in Attempts |-> Healthy]
  /\ streak' = 0
  /\ pools' = FALSE /\ members' = None /\ profile' = FALSE
  /\ engine' = None
  /\ serving' = FALSE
  /\ read' = [s \in Syncs |-> NoRows]
  /\ UNCHANGED <<row, config>>

----------------------------------------------------------------------------

Sync(s) ==
  \/ FetchPools(s) \/ ClearPools(s) \/ ClearMembers(s) \/ ClearProfiles(s)
  \/ FetchRows(s) \/ SeedCheck(s) \/ Seed(s)
  \/ InsertProfile(s) \/ InsertPool(s) \/ InsertMembers(s) \/ Upsert(s)

Init ==
  /\ metric = None
  /\ row = Healthy
  /\ pc = AtBoot
  /\ sampled = [a \in Attempts |-> 0]
  /\ write = [a \in Attempts |-> Healthy]
  /\ streak = 0
  /\ config \in Config
  /\ pools = FALSE /\ members = None /\ profile = FALSE
  /\ engine = None
  /\ serving = FALSE
  /\ read = [s \in Syncs |-> NoRows]

Next ==
  \/ \E s \in Syncs : AdminWrites(s) \/ Sync(s) \/ SyncEnds(s)
  \/ \E a \in Attempts : Choose(a) \/ Attempt(a)
  \/ \E p \in Probes : Probe(p)
  \/ Tick \/ Restart

Spec == Init /\ [][Next]_vars

(* Time passes; nothing else is owed.                                      *)
FairSpec == Spec /\ WF_vars(Tick)

----------------------------------------------------------------------------
(* Properties.                                                             *)

(* Status, failure count and cooldown agree, in memory, in the database    *)
(* and on their way between them: a healthy endpoint is not cooling down,  *)
(* and one that has failed Threshold times in a row is unavailable and     *)
(* has a cooldown, whatever hooks, probes, seeding and restarts interleave.*)
HealthCoherent ==
  /\ row.health = "healthy" => row.cooldown = None
  /\ metric # None =>
       /\ metric.health = "healthy" => metric.failures = 0 /\ metric.cooldown = None
       /\ metric.failures = Threshold => metric.health = "unavailable" /\ metric.cooldown # None

(* Consecutive failures are counted across syncs: an endpoint that failed  *)
(* Threshold times in a row is shown as unavailable, for a sync never      *)
(* resets a metric that is in use.                                         *)
StreakCounted ==
  streak = Threshold => metric # None /\ metric.health = "unavailable"

(* A cooldown ends: once administrators are quiet, an endpoint that        *)
(* routing excludes is not excluded for ever.                              *)
CooldownEnds ==
  <>[](\A s \in Syncs : pc[s] \in {"idle", "ended"}) => (Excluded ~> ~Excluded)

(* "Push DB pool config into UniGateway and refresh in-memory routing      *)
(* caches": when no sync is under way, caches and data plane agree with    *)
(* the database; a sync that ends half-way is repaired by the next one.    *)
RegistryCurrent ==
  (\A s \in Syncs : pc[s] = "idle") =>
    pools /\ members = config /\ engine = config /\ profile = (config = "with")

(* A request that finds the endpoint among the members finds its profile:  *)
(* it is never scored with default prices and capabilities.                *)
MembersHaveProfiles ==
  members = "with" => profile

(* "Automatically isolates degraded or unavailable endpoints, cooling them *)
(* down": no attempt starts on an endpoint that is cooling down.           *)
CooldownRespected ==
  [][ \A a \in Attempts : pc[a] = "idle" /\ pc'[a] = "starting" => ~Excluded ]_vars
=============================================================================
