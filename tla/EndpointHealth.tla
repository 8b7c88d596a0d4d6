--------------------------- MODULE EndpointHealth ---------------------------
(***************************************************************************)
(* The health of one endpoint: the EndpointMetric that the hooks of        *)
(* src/src/usage/mod.rs and the probes of saas/model_services/probe.rs     *)
(* change in memory, and the health columns of its row in the database.    *)
(* Endpoints share nothing here.                                           *)
(*                                                                         *)
(* The metric is locked for one update at a time; the row is written after *)
(* the lock is released (hooks) or before it is taken (probes).            *)
(*                                                                         *)
(* A cooldown is the number of ticks until cooldown_until, 0 when that     *)
(* instant has passed.  The latency averages, the totals and the cache     *)
(* ratio of the metric have no influence on health and are left out.       *)
(*                                                                         *)
(* A definition named Faulty<Name> is a wrong variant of <Name>: no action *)
(* refers to it, it documents a fault that the properties notice.          *)
(***************************************************************************)
EXTENDS Integers, FiniteSets

CONSTANTS
  Attempts,   (* Attempts of the data plane that can be under way at once. *)
  Probes,     (* Calls of the probe and test handlers at once.             *)
  Syncs,      (* Tasks that run sync_all_pools (see PoolSync).             *)
  Threshold,  (* FAILURE_THRESHOLD.                                        *)
  Cooldown,   (* COOLDOWN_SECS in ticks.                                   *)
  None        (* An absent value (Rust's None, SQL's NULL).                *)

ASSUME HealthAssumption ==
  /\ Threshold \in Nat \ {0}
  /\ Cooldown \in Nat \ {0}
  /\ None \notin Nat
  /\ Attempts \cap Probes = {} /\ Attempts \cap Syncs = {} /\ Probes \cap Syncs = {}

ASSUME FiniteAttempts == IsFiniteSet(Attempts)

VARIABLES
  metric,    (* The entry of the metrics map, None before it exists.       *)
  row,       (* health_status and cooldown_until in the database.          *)
  pc,        (* Where each attempt, probe and sync is.                     *)
  sampled,   (* active_attempts_at_start of each attempt.                  *)
  write,     (* What each attempt is about to write to the row.            *)
  streak     (* History: failures in a row since the last success, probe   *)
             (* or restart, counted up to Threshold.                       *)

healthVars == <<metric, row, pc, sampled, write, streak>>

Status == {"healthy", "degraded", "unavailable"}
HealthRow == [health: Status, cooldown: (0..Cooldown) \cup {None}]
Metric == [health: Status, cooldown: (0..Cooldown) \cup {None},
           failures: 0..Threshold, active: Nat]

ASSUME NoneIsNoMetric == None \notin Metric

Healthy == [health |-> "healthy", cooldown |-> None]

(* EndpointMetric::new.                                                    *)
NewMetric == [health |-> "healthy", cooldown |-> None, failures |-> 0, active |-> 0]

(* entry().or_insert_with(EndpointMetric::new).                            *)
Entry == IF metric = None THEN NewMetric ELSE metric

RowOf(m) == [health |-> m.health, cooldown |-> m.cooldown]

Goto(a, label) == pc' = [pc EXCEPT ![a] = label]

----------------------------------------------------------------------------
(* record_attempt.                                                         *)

FaultyReleased(m) == [m EXCEPT !.active = @ - 1]
Released(m) == [m EXCEPT !.active = IF @ > 0 THEN @ - 1 ELSE @]

FaultySucceeded(m) == [m EXCEPT !.failures = 0, !.health = "healthy"]
Succeeded(m) ==
  [m EXCEPT !.failures = 0, !.health = "healthy",
            !.cooldown = IF m.health = "healthy" THEN @ ELSE None]

(* The count only matters up to the threshold.                             *)
OneMore(n) == IF n < Threshold THEN n + 1 ELSE Threshold

Failed(m) ==
  LET n == OneMore(m.failures)
  IN  [m EXCEPT !.failures = n,
                !.health = IF n = Threshold THEN "unavailable"
                           ELSE IF @ = "healthy" THEN "degraded" ELSE @,
                !.cooldown = IF n = Threshold THEN Cooldown ELSE @]

RecordAttempt(m, success) ==
  IF success THEN Succeeded(Released(m)) ELSE Failed(Released(m))

(* "Returns whether health changed and must be persisted".                 *)
MustPersist(m, success) ==
  IF success THEN m.health # "healthy"
  ELSE OneMore(m.failures) = Threshold \/ m.health = "healthy"

----------------------------------------------------------------------------
(* The hooks.                                                              *)

(* The attempts that the data plane counts.                                *)
UnderWay == {a \in Attempts : pc[a] \in {"starting", "running"}}

(* The data plane starts an attempt and samples its count, which may or    *)
(* may not include the attempt itself.                                     *)
StartAttempt(a) ==
  /\ pc[a] = "idle"
  /\ Goto(a, "starting")
  /\ \E self \in {0, 1} : sampled' = [sampled EXCEPT ![a] = Cardinality(UnderWay) + self]
  /\ UNCHANGED <<metric, row, write, streak>>

OnAttemptStarted(a) ==
  /\ pc[a] = "starting"
  /\ metric' = [Entry EXCEPT !.active = sampled[a]]
  /\ sampled' = [sampled EXCEPT ![a] = 0]
  /\ Goto(a, "running")
  /\ UNCHANGED <<row, write, streak>>

OnAttemptFinished(a) ==
  /\ pc[a] = "running"
  /\ \E success \in BOOLEAN :
       /\ metric' = RecordAttempt(Entry, success)
       /\ streak' = IF success THEN 0 ELSE OneMore(streak)
       /\ IF MustPersist(Entry, success)
          THEN /\ Goto(a, "persist")
               /\ write' = [write EXCEPT ![a] = RowOf(RecordAttempt(Entry, success))]
          ELSE Goto(a, "idle") /\ UNCHANGED write
  /\ UNCHANGED <<row, sampled>>

(* UPDATE endpoints, whose error is ignored.                               *)
Persist(a) ==
  /\ pc[a] = "persist"
  /\ row' \in {row, write[a]}
  /\ write' = [write EXCEPT ![a] = Healthy]
  /\ Goto(a, "idle")
  /\ UNCHANGED <<metric, sampled, streak>>

----------------------------------------------------------------------------
(* The probes: the row first, then the metric if there is one.  A test     *)
(* gets here after an answer, a probe in any case.                         *)

ProbeRow(p) ==
  /\ pc[p] = "idle"
  /\ row' \in {row, Healthy}
  /\ Goto(p, "probe_metric")
  /\ UNCHANGED <<metric, sampled, write, streak>>

ProbeMetric(p) ==
  /\ pc[p] = "probe_metric"
  /\ metric' = IF metric = None THEN None
               ELSE [metric EXCEPT !.health = "healthy", !.failures = 0, !.cooldown = None]
  /\ streak' = 0
  /\ Goto(p, "idle")
  /\ UNCHANGED <<row, sampled, write>>

----------------------------------------------------------------------------
(* Time.                                                                   *)

Less(cooldown) == IF cooldown = None \/ cooldown = 0 THEN cooldown ELSE cooldown - 1

Elapsed(h) == [h EXCEPT !.cooldown = Less(@)]

(* cooldown_until > now, for which routing excludes the endpoint.          *)
FaultyCooling(h) == h.cooldown # None
Cooling(h) == h.cooldown # None /\ h.cooldown > 0

Excluded == metric # None /\ Cooling(metric)
=============================================================================
