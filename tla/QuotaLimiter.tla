---------------------------- MODULE QuotaLimiter ----------------------------
(***************************************************************************)
(* The in-memory limiter of src/src/quota/mod.rs: one concurrency counter  *)
(* and one sliding window of admission instants for each project and for   *)
(* each API key.  QuotaLimiter::try_acquire takes no lock over the whole   *)
(* admission: it touches the project and the key one entry at a time, so   *)
(* the steps below, one for each entry operation, interleave freely with   *)
(* the steps of every other request.                                       *)
(*                                                                         *)
(* A request is a slot of the server's task pool: it arrives, is admitted  *)
(* or rejected, and the same element of Requests may arrive again later.   *)
(*                                                                         *)
(* A definition named Faulty<Name> is a wrong variant of <Name>: no action  *)
(* refers to it, it documents a fault that the properties notice.          *)
(***************************************************************************)
EXTENDS Integers, Sequences, FiniteSets

CONSTANTS
  Requests,       (* Requests that can be in the server at the same time.  *)
  Keys,           (* API keys.                                             *)
  Projects,       (* Projects; disjoint from Keys.                         *)
  ProjectOf,      (* The project of each key.                              *)
  KeyLimits,      (* The limits an administrator may give to a key ...     *)
  ProjectLimits,  (* ... and to a project: records [rpm, conc].            *)
  None,           (* An absent value (Rust's None, SQL's NULL).            *)
  Window,         (* RPM_WINDOW in ticks of the clock.                     *)
  IdleTtl,        (* RPM_IDLE_TTL in ticks of the clock.                   *)
  MaxClock        (* Bound: the clock stops here.                          *)

Scopes == Keys \cup Projects
Option(S) == S \cup {None}
Limits == [rpm: Option(Nat), conc: Option(Nat)]
LimitsOf(s) == IF s \in Keys THEN KeyLimits ELSE ProjectLimits

ASSUME QuotaAssumption ==
  /\ Keys \cap Projects = {}
  /\ ProjectOf \in [Keys -> Projects]
  /\ KeyLimits # {} /\ KeyLimits \subseteq Limits
  /\ ProjectLimits # {} /\ ProjectLimits \subseteq Limits
  /\ None \notin Nat
  /\ Window \in Nat /\ IdleTtl \in Nat /\ MaxClock \in Nat

ASSUME FiniteRequests == IsFiniteSet(Requests) /\ Requests # {}

VARIABLES
  clock,     (* Instant::now().                                            *)
  limits,    (* The limits stored in the database for each scope.          *)
  slots,     (* key_concurrency and project_concurrency: an absent entry   *)
             (* behaves as 0, for a decrement of either changes nothing.   *)
  window,    (* key_rpm and project_rpm: RpmState, or None if absent.      *)
  pc,        (* Where each request is.                                     *)
  req,       (* What each request carries: its key, the limits read when   *)
             (* it was authenticated, the instant of its admission.        *)
  own,       (* History: the scopes whose counter a request incremented    *)
             (* and has not yet given back.                                *)
  admitted   (* History: how many admissions of each instant each scope    *)
             (* has recorded.                                              *)

limiterVars == <<clock, limits, slots, window, pc, req, own, admitted>>

Instants == 0..MaxClock
Request == [key: Keys, keyLimit: KeyLimits, projectLimit: ProjectLimits, now: Instants]
RpmState == [events: Seq(Instants), last: Instants]

ASSUME StateAssumption == None \notin RpmState

LimiterPc == {"idle", "check_project", "evict_project", "check_key", "evict_key",
              "reserve_project", "reserve_key", "rollback",
              "record_project", "record_key", "admitted"}

----------------------------------------------------------------------------
(* What a request is about, while pc[r] # "idle".                          *)

KeyOf(r) == req[r].key
ProjectOfRequest(r) == ProjectOf[req[r].key]
ScopesOf(r) == {KeyOf(r), ProjectOfRequest(r)}

(* The limits that apply to r in scope s, as read at its authentication.   *)
LimitOf(r, s) == IF s = KeyOf(r) THEN req[r].keyLimit ELSE req[r].projectLimit

(* The requests that hold a slot of scope s.                               *)
Holders(s) == {r \in Requests : s \in own[r]}

Goto(r, label) == pc' = [pc EXCEPT ![r] = label]
Leave(r) == Goto(r, "idle") /\ req' = [req EXCEPT ![r] = None]

----------------------------------------------------------------------------
(* The sliding window.                                                     *)

(* prune_window drops expired instants from the front, and only there: an  *)
(* expired instant behind a younger one stays.                             *)
Prune(events, t) ==
  LET live == {i \in 1..Len(events) : t - events[i] < Window}
  IN  IF live = {} THEN <<>>
      ELSE SubSeq(events, CHOOSE i \in live : \A j \in live : i <= j, Len(events))

(* entry().or_insert_with(RpmState::new(now)).                             *)
Entry(s, t) == IF window[s] = None THEN [events |-> <<>>, last |-> t] ELSE window[s]

FaultyFull(events, limit) == Len(events) > limit
Full(events, limit) == Len(events) >= limit

(* would_exceed_rpm up to the unlock: prune, note the visit, decide.  An   *)
(* entry found empty and long idle is evicted in a step of its own.        *)
WouldExceedRpm(r, s, evict, next) ==
  LET limit == LimitOf(r, s).rpm
      t == req[r].now
      events == Prune(Entry(s, t).events, t)
      idle == events = <<>> /\ t - Entry(s, t).last >= IdleTtl
  IN  IF limit = None
      THEN Goto(r, next) /\ UNCHANGED <<window, req>>
      ELSE /\ window' = [window EXCEPT ![s] = [events |-> events, last |-> t]]
           /\ \/ idle /\ Goto(r, evict) /\ UNCHANGED req
              \/ ~idle /\ ~Full(events, limit) /\ Goto(r, next) /\ UNCHANGED req
              \/ ~idle /\ Full(events, limit) /\ Leave(r)

FaultyEvictIfEmpty(r, s, next) ==
  /\ window' = [window EXCEPT ![s] = None]
  /\ IF Full(<<>>, LimitOf(r, s).rpm) THEN Leave(r) ELSE Goto(r, next) /\ UNCHANGED req

(* evict_if_empty: remove_if looks again under the shard lock, and prunes  *)
(* even when it keeps the entry.  The decision taken before stands: it saw *)
(* no admission, so only a limit of 0 rejects.                             *)
EvictIfEmpty(r, s, next) ==
  LET events == Prune(Entry(s, req[r].now).events, req[r].now)
  IN  /\ window' = [window EXCEPT ![s] =
                      IF @ = None \/ events = <<>> THEN None ELSE [@ EXCEPT !.events = events]]
      /\ IF Full(<<>>, LimitOf(r, s).rpm) THEN Leave(r) ELSE Goto(r, next) /\ UNCHANGED req

(* record_rpm, with the instant taken at the head of try_acquire.          *)
RecordRpm(r, s) ==
  LET t == req[r].now IN
  IF LimitOf(r, s).rpm = None
  THEN UNCHANGED <<window, admitted>>
  ELSE /\ window' = [window EXCEPT ![s] =
                       [events |-> Append(Prune(Entry(s, t).events, t), t), last |-> t]]
       /\ admitted' = [admitted EXCEPT ![s][t] = @ + 1]

----------------------------------------------------------------------------
(* The concurrency counters.                                               *)

FaultyReached(s, cap) == slots[s] > cap
Reached(s, cap) == slots[s] >= cap

(* try_inc_concurrency that succeeds: the compare-exchange loop is atomic. *)
Inc(r, s) ==
  /\ slots' = [slots EXCEPT ![s] = @ + 1]
  /\ own' = [own EXCEPT ![r] = @ \cup {s}]

FaultyDec(s) == slots' = [slots EXCEPT ![s] = @ - 1]

(* dec_concurrency stops at 0 and does not know whose slot it gives back.  *)
Dec(s) == slots' = [slots EXCEPT ![s] = IF @ = 0 THEN 0 ELSE @ - 1]


----------------------------------------------------------------------------
(* try_acquire, one action for each entry it locks.                        *)

(* The extractor of AuthContext reads the key and its project; try_acquire *)
(* then takes the instant that all its steps use.                          *)
Arrive(r) ==
  /\ pc[r] = "idle"
  /\ \E k \in Keys :
       req' = [req EXCEPT ![r] = [key |-> k, keyLimit |-> limits[k],
                                  projectLimit |-> limits[ProjectOf[k]], now |-> clock]]
  /\ Goto(r, "check_project")
  /\ UNCHANGED <<clock, limits, slots, window, own, admitted>>

CheckProjectRpm(r) ==
  /\ pc[r] = "check_project"
  /\ WouldExceedRpm(r, ProjectOfRequest(r), "evict_project", "check_key")
  /\ UNCHANGED <<clock, limits, slots, own, admitted>>

EvictProject(r) ==
  /\ pc[r] = "evict_project"
  /\ EvictIfEmpty(r, ProjectOfRequest(r), "check_key")
  /\ UNCHANGED <<clock, limits, slots, own, admitted>>

CheckKeyRpm(r) ==
  /\ pc[r] = "check_key"
  /\ WouldExceedRpm(r, KeyOf(r), "evict_key", "reserve_project")
  /\ UNCHANGED <<clock, limits, slots, own, admitted>>

EvictKey(r) ==
  /\ pc[r] = "evict_key"
  /\ EvictIfEmpty(r, KeyOf(r), "reserve_project")
  /\ UNCHANGED <<clock, limits, slots, own, admitted>>

ReserveProject(r) ==
  /\ pc[r] = "reserve_project"
  /\ LET s == ProjectOfRequest(r)
         cap == req[r].projectLimit.conc
     IN  \/ cap = None /\ Goto(r, "reserve_key") /\ UNCHANGED <<slots, own, req>>
         \/ cap # None /\ ~Reached(s, cap) /\ Inc(r, s) /\ Goto(r, "reserve_key") /\ UNCHANGED req
         \/ cap # None /\ Reached(s, cap) /\ Leave(r) /\ UNCHANGED <<slots, own>>
  /\ UNCHANGED <<clock, limits, window, admitted>>

ReserveKey(r) ==
  /\ pc[r] = "reserve_key"
  /\ LET s == KeyOf(r)
         cap == req[r].keyLimit.conc
         full == cap # None /\ Reached(s, cap)
     IN  \/ cap = None /\ Goto(r, "record_project") /\ UNCHANGED <<slots, own, req>>
         \/ cap # None /\ ~full /\ Inc(r, s) /\ Goto(r, "record_project") /\ UNCHANGED req
         \/ full /\ req[r].projectLimit.conc # None /\ Goto(r, "rollback") /\ UNCHANGED <<slots, own, req>>
         \/ full /\ req[r].projectLimit.conc = None /\ Leave(r) /\ UNCHANGED <<slots, own>>
  /\ UNCHANGED <<clock, limits, window, admitted>>

FaultyRollback(r) ==
  /\ pc[r] = "rollback"
  /\ own' = [own EXCEPT ![r] = @ \ {ProjectOfRequest(r)}]
  /\ UNCHANGED slots
  /\ Leave(r)
  /\ UNCHANGED <<clock, limits, window, admitted>>

(* The key was full: the project's slot goes back before the rejection.    *)
Rollback(r) ==
  /\ pc[r] = "rollback"
  /\ own' = [own EXCEPT ![r] = @ \ {ProjectOfRequest(r)}]
  /\ Dec(ProjectOfRequest(r))
  /\ Leave(r)
  /\ UNCHANGED <<clock, limits, window, admitted>>

RecordProjectRpm(r) ==
  /\ pc[r] = "record_project"
  /\ RecordRpm(r, ProjectOfRequest(r))
  /\ Goto(r, "record_key")
  /\ UNCHANGED <<clock, limits, slots, req, own>>

RecordKeyRpm(r) ==
  /\ pc[r] = "record_key"
  /\ RecordRpm(r, KeyOf(r))
  /\ Goto(r, "admitted")
  /\ UNCHANGED <<clock, limits, slots, req, own>>

TryAcquire(r) ==
  \/ CheckProjectRpm(r) \/ EvictProject(r) \/ CheckKeyRpm(r) \/ EvictKey(r)
  \/ ReserveProject(r) \/ ReserveKey(r) \/ Rollback(r)
  \/ RecordProjectRpm(r) \/ RecordKeyRpm(r)

----------------------------------------------------------------------------
(* The environment of the limiter.                                         *)

Tick ==
  /\ clock < MaxClock
  /\ clock' = clock + 1
  /\ UNCHANGED <<limits, slots, window, pc, req, own, admitted>>

(* An administrator updates a key or a project; requests already           *)
(* authenticated keep the limits they read.                                *)
SetLimits(s) ==
  /\ \E l \in LimitsOf(s) :
       /\ limits[s] # l
       /\ limits' = [limits EXCEPT ![s] = l]
  /\ UNCHANGED <<clock, slots, window, pc, req, own, admitted>>

LimiterInit ==
  /\ clock = 0
  /\ limits \in [Scopes -> KeyLimits \cup ProjectLimits]
  /\ \A s \in Scopes : limits[s] \in LimitsOf(s)
  /\ slots = [s \in Scopes |-> 0]
  /\ window = [s \in Scopes |-> None]
  /\ pc = [r \in Requests |-> "idle"]
  /\ req = [r \in Requests |-> None]
  /\ own = [r \in Requests |-> {}]
  /\ admitted = [s \in Scopes |-> [t \in Instants |-> 0]]
=============================================================================
