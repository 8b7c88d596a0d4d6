--------------------------- MODULE QuotaLifecycle ---------------------------
(***************************************************************************)
(* The life of an admitted request and of its concurrency slots: the proxy *)
(* handlers chat_proxy and responses (src/src/api/proxy.rs), the judge     *)
(* (api/judge.rs), the shadow request (api/shadow.rs) and the finish hook  *)
(* (usage/mod.rs).                                                         *)
(*                                                                         *)
(* Four places can give slots back: the finish hook of the main request,   *)
(* of the judge's and of the shadow's request, and the Drop of an armed    *)
(* QuotaPermit.  Each of them runs QuotaLimiter::release, which decrements *)
(* the key's counter and then the project's, in two steps.                 *)
(*                                                                         *)
(* The data plane (UniGateway) is external.  What it may do beyond running *)
(* one finish hook after an answered request is the constant EngineMay:    *)
(*   "report_failure"  a failed dispatch runs the finish hook too (the     *)
(*                     hook has a branch for error_kind);                  *)
(*   "report_inline"   the hook of a complete answer runs before the       *)
(*                     dispatch future returns to the handler.             *)
(***************************************************************************)
EXTENDS QuotaLimiter

CONSTANTS
  EngineMay,          (* See above.                                        *)
  ClientsDisconnect,  (* A client may go away: axum drops the handler.     *)
  MaxShadows          (* ShadowConfig::max_concurrent; 0 mirrors nothing.  *)

ASSUME LifecycleAssumption ==
  /\ EngineMay \subseteq {"report_failure", "report_inline"}
  /\ ClientsDisconnect \in BOOLEAN
  /\ MaxShadows \in Nat

VARIABLES
  engine,   (* The dispatch of the main request in the data plane.         *)
  shadow,   (* The mirrored copy of the request, if one was spawned.       *)
  rel       (* How far the release of each source has got.                 *)

vars == <<limiterVars, engine, shadow, rel>>

Sources == {"main", "judge", "shadow", "permit"}

HandlerPc == {"judged", "dispatched", "returned"}

TypeOK ==
  /\ clock \in Instants
  /\ limits \in [Scopes -> KeyLimits \cup ProjectLimits]
  /\ \A s \in Scopes : limits[s] \in LimitsOf(s)
  /\ slots \in [Scopes -> Nat]
  /\ window \in [Scopes -> Option(RpmState)]
  /\ pc \in [Requests -> LimiterPc \cup HandlerPc]
  /\ req \in [Requests -> Option(Request)]
  /\ \A r \in Requests : pc[r] # "idle" => req[r] \in Request
  /\ own \in [Requests -> SUBSET Scopes]
  /\ admitted \in [Scopes -> [Instants -> Nat]]
  /\ engine \in [Requests -> {"none", "running", "responded", "failed", "done"}]
  /\ shadow \in [Requests -> {"none", "running", "reported"}]
  /\ rel \in [Requests -> [Sources -> {"none", "key", "project"}]]

----------------------------------------------------------------------------
(* Releases.                                                               *)

(* The requests whose metadata carry quota_release = "0".                  *)
FaultyQuotaReleaseZero == {}
QuotaReleaseZero == {"judge"}

(* on_request_finished, up to its release: a request that carries key_id   *)
(* and is not marked starts one.                                           *)
FinishHook(r, source) ==
  rel' = [rel EXCEPT ![r][source] = IF source \in QuotaReleaseZero THEN "none" ELSE "key"]

(* Drop of an armed permit.                                                *)
FaultyDropPermit(r) == UNCHANGED rel
DropPermit(r) == rel' = [rel EXCEPT ![r]["permit"] = "key"]

(* The slots of its own request that a release gives back.                 *)
GiveBack(r, source, s) ==
  own' = [own EXCEPT ![r] = IF source = "shadow" THEN @ ELSE @ \ {s}]

ReleaseKey(r, source) ==
  /\ rel[r][source] = "key"
  /\ rel' = [rel EXCEPT ![r][source] = "project"]
  /\ Dec(KeyOf(r))
  /\ GiveBack(r, source, KeyOf(r))
  /\ UNCHANGED <<clock, limits, window, pc, req, admitted, engine, shadow>>

FaultyReleaseProject(r, source) ==
  /\ rel[r][source] = "project"
  /\ rel' = [rel EXCEPT ![r][source] = "none"]
  /\ UNCHANGED slots
  /\ GiveBack(r, source, ProjectOfRequest(r))
  /\ UNCHANGED <<clock, limits, window, pc, req, admitted, engine, shadow>>

ReleaseProject(r, source) ==
  /\ rel[r][source] = "project"
  /\ rel' = [rel EXCEPT ![r][source] = "none"]
  /\ Dec(ProjectOfRequest(r))
  /\ GiveBack(r, source, ProjectOfRequest(r))
  /\ UNCHANGED <<clock, limits, window, pc, req, admitted, engine, shadow>>

----------------------------------------------------------------------------
(* The handler, from the permit to the response.                           *)

(* classify_borderline_difficulty: the judge's answer, or its absence, is  *)
(* reported like any request of this key.                                  *)
Judge(r) ==
  /\ pc[r] = "admitted"
  /\ Goto(r, "judged")
  /\ FinishHook(r, "judge")
  /\ UNCHANGED <<clock, limits, slots, window, req, own, admitted, engine, shadow>>

(* The handler returns without a dispatch: the payload does not parse, the *)
(* warm binding names another model, the pool is unknown, or the client    *)
(* leaves while the judge is awaited.                                      *)
Abandon(r) ==
  /\ pc[r] \in {"admitted", "judged"}
  /\ Goto(r, "returned")
  /\ DropPermit(r)
  /\ UNCHANGED <<clock, limits, slots, window, req, own, admitted, engine, shadow>>

Dispatch(r) ==
  /\ pc[r] \in {"admitted", "judged"}
  /\ Goto(r, "dispatched")
  /\ engine' = [engine EXCEPT ![r] = "running"]
  /\ UNCHANGED <<clock, limits, slots, window, req, own, admitted, shadow, rel>>

EngineRespond(r) ==
  /\ engine[r] = "running"
  /\ engine' = [engine EXCEPT ![r] = "responded"]
  /\ UNCHANGED <<limiterVars, shadow, rel>>

EngineFail(r) ==
  /\ engine[r] = "running"
  /\ engine' = [engine EXCEPT ![r] = "failed"]
  /\ \/ UNCHANGED rel
     \/ "report_failure" \in EngineMay /\ FinishHook(r, "main")
  /\ UNCHANGED <<limiterVars, shadow>>

(* The answer is complete: a stream after the handler has returned, a body *)
(* of known length perhaps before.                                         *)
EngineReport(r) ==
  /\ engine[r] = "responded"
  /\ pc[r] = "returned" \/ "report_inline" \in EngineMay
  /\ engine' = [engine EXCEPT ![r] = "done"]
  /\ FinishHook(r, "main")
  /\ UNCHANGED <<limiterVars, shadow>>

ShadowsRunning == {r \in Requests : shadow[r] # "none"}

(* maybe_spawn_shadow: not sampled or no semaphore permit, or mirrored.    *)
SpawnShadow(r) ==
  \/ UNCHANGED shadow
  \/ /\ Cardinality(ShadowsRunning) < MaxShadows
     /\ shadow' = [shadow EXCEPT ![r] = "running"]

FaultyHandlerOk(r) ==
  /\ pc[r] = "dispatched"
  /\ engine[r] \in {"responded", "done"}
  /\ Goto(r, "returned")
  /\ SpawnShadow(r)
  /\ DropPermit(r)
  /\ UNCHANGED <<clock, limits, slots, window, req, own, admitted, engine>>

(* Ok(Response): disarm hands the slots to the hook.                       *)
HandlerOk(r) ==
  /\ pc[r] = "dispatched"
  /\ engine[r] \in {"responded", "done"}
  /\ Goto(r, "returned")
  /\ SpawnShadow(r)
  /\ UNCHANGED <<clock, limits, slots, window, req, own, admitted, engine, rel>>

(* Err(e): the armed permit goes out of scope.                             *)
HandlerErr(r) ==
  /\ pc[r] = "dispatched"
  /\ engine[r] = "failed"
  /\ Goto(r, "returned")
  /\ DropPermit(r)
  /\ UNCHANGED <<clock, limits, slots, window, req, own, admitted, engine, shadow>>

(* The client leaves during the dispatch: handler, permit and an           *)
(* unfinished dispatch are dropped together.                               *)
Disconnect(r) ==
  /\ ClientsDisconnect
  /\ pc[r] = "dispatched"
  /\ Goto(r, "returned")
  /\ DropPermit(r)
  /\ engine' = [engine EXCEPT ![r] = IF @ \in {"running", "responded"} THEN "none" ELSE @]
  /\ UNCHANGED <<clock, limits, slots, window, req, own, admitted, shadow>>

(* The mirrored request finishes and is reported with the key_id and the   *)
(* project_id of the caller.                                               *)
ShadowReport(r) ==
  /\ shadow[r] = "running"
  /\ shadow' = [shadow EXCEPT ![r] = "reported"]
  /\ FinishHook(r, "shadow")
  /\ UNCHANGED <<limiterVars, engine>>

(* run_shadow ends and its semaphore permit is dropped; a shadow that is   *)
(* not authorised or does not parse ends without a report.                 *)
ShadowEnd(r) ==
  /\ shadow[r] \in {"running", "reported"}
  /\ shadow' = [shadow EXCEPT ![r] = "none"]
  /\ UNCHANGED <<limiterVars, engine, rel>>

(* Everything the request started is over; its slot of the task pool can   *)
(* serve another request.                                                  *)
Finish(r) ==
  /\ pc[r] = "returned"
  /\ engine[r] \in {"none", "failed", "done"}
  /\ shadow[r] = "none"
  /\ \A source \in Sources : rel[r][source] = "none"
  /\ Leave(r)
  /\ engine' = [engine EXCEPT ![r] = "none"]
  /\ UNCHANGED <<clock, limits, slots, window, own, admitted, shadow, rel>>

----------------------------------------------------------------------------

Handler(r) ==
  \/ Judge(r) \/ Abandon(r) \/ Dispatch(r)
  \/ HandlerOk(r) \/ HandlerErr(r) \/ Disconnect(r) \/ Finish(r)

Engine(r) ==
  \/ EngineRespond(r) \/ EngineFail(r) \/ EngineReport(r)
  \/ ShadowReport(r) \/ ShadowEnd(r)

Release(r) ==
  \E source \in Sources : ReleaseKey(r, source) \/ ReleaseProject(r, source)

Limiter(r) == (Arrive(r) \/ TryAcquire(r)) /\ UNCHANGED <<engine, shadow, rel>>

Environment ==
  (Tick \/ \E s \in Scopes : SetLimits(s)) /\ UNCHANGED <<engine, shadow, rel>>

Init ==
  /\ LimiterInit
  /\ engine = [r \in Requests |-> "none"]
  /\ shadow = [r \in Requests |-> "none"]
  /\ rel = [r \in Requests |-> [source \in Sources |-> "none"]]

Next ==
  \/ \E r \in Requests : Limiter(r) \/ Handler(r) \/ Engine(r) \/ Release(r)
  \/ Environment

Spec == Init /\ [][Next]_vars

(* Every step a request has to take once it is under way.  A task of the   *)
(* runtime is polled again until it finishes, and each attempt of the data *)
(* plane is bounded by its timeout; arrivals, disconnects, the clock and   *)
(* the administrator owe nothing.                                          *)
Progress(r) ==
  \/ TryAcquire(r) /\ UNCHANGED <<engine, shadow, rel>>
  \/ Judge(r) \/ Dispatch(r) \/ HandlerOk(r) \/ HandlerErr(r) \/ Finish(r)
  \/ Engine(r) \/ Release(r)

FairSpec == Spec /\ \A r \in Requests : WF_vars(Progress(r))

----------------------------------------------------------------------------
(* Properties.                                                             *)

(* The concurrency limits that scope s can be given, None aside.           *)
CapsOf(s) ==
  {l.conc : l \in LimitsOf(s)} \ {None}

(* The requests the upstream is working for, or is about to work for,      *)
(* among those admitted against a concurrency limit of scope s.            *)
InFlight(s) ==
  {r \in Requests :
     /\ pc[r] \in {"admitted", "judged"} \/ engine[r] \in {"running", "responded"}
     /\ s \in ScopesOf(r)
     /\ LimitOf(r, s).conc # None}

(* The settings under which the slots of a request are released once: no   *)
(* mirrored copy reports as its caller, no failed dispatch and no dropped  *)
(* handler is reported besides, and a key (a project) that has a limit     *)
(* does not lose it while a request is under way, nor gain one.            *)
ReleasedOnce ==
  /\ MaxShadows = 0
  /\ "report_failure" \notin EngineMay
  /\ ClientsDisconnect => "report_inline" \notin EngineMay
  /\ \A L \in {KeyLimits, ProjectLimits} :
       (\A l \in L : l.conc = None) \/ (\A l \in L : l.conc # None)

(* The counter of a scope counts exactly the requests that hold a slot of  *)
(* it: no admission, rollback, hook or permit gives back twice, forgets to *)
(* give back, or gives back what another request holds ("concurrency slots *)
(* stay held until [`release`]").                                          *)
SlotsMatchHolders ==
  \A s \in Scopes : slots[s] = Cardinality(Holders(s))

(* The hard concurrency limit: whatever the interleaving, the data plane   *)
(* never works for more requests of a key or of a project than its limit.  *)
HardConcurrencyLimit ==
  \A s \in Scopes :
    CapsOf(s) # {} => \E cap \in CapsOf(s) : Cardinality(InFlight(s)) <= cap

(* No counter ever passes the largest limit of its scope, even when slots  *)
(* are given back twice or limits change under way: the check and the      *)
(* increment of try_inc_concurrency are one step.                          *)
CounterWithinLimit ==
  \A s \in Scopes :
    slots[s] > 0 => \E cap \in CapsOf(s) : slots[s] <= cap

(* When the server is idle every slot is free again, whatever failed,      *)
(* disconnected or changed its limits on the way.                          *)
NoLeakedSlot ==
  (\A r \in Requests : pc[r] = "idle") => \A s \in Scopes : slots[s] = 0

(* An admission younger than the window is counted: neither the pruning    *)
(* with another request's older instant nor the eviction of an entry that  *)
(* was found idle drops it.                                                *)
NoForgottenAdmission ==
  \A s \in Scopes, t \in 0..clock :
    clock - t < Window =>
      admitted[s][t] =
        IF window[s] = None THEN 0
        ELSE Cardinality({i \in DOMAIN window[s].events : window[s].events[i] = t})

(* The admissions of scope s within the window that ends now.              *)
InWindow(s) ==
  IF window[s] = None THEN {}
  ELSE {i \in DOMAIN window[s].events : clock - window[s].events[i] < Window}

RpmCapsOf(s) ==
  {l.rpm : l \in LimitsOf(s)} \ {None}

(* Checking the window and recording in it are separate steps, so          *)
(* concurrent admissions can pass the limit, but by no more than the other *)
(* requests that were in the server at the time.                           *)
RpmOvershootBounded ==
  \A s \in Scopes :
    RpmCapsOf(s) # {} =>
      \E limit \in RpmCapsOf(s) :
        Cardinality(InWindow(s)) <= limit + Cardinality(Requests) - 1

(* A slot that was taken is given back: a request that holds one does not  *)
(* hold it for ever.                                                       *)
SlotsComeBack ==
  \A r \in Requests : own[r] # {} ~> own[r] = {}

(* The admission and release steps, over every interleaving, implement one *)
(* counting semaphore for each scope.                                      *)
Pool == INSTANCE SlotPool WITH
          held <- [s \in Scopes |-> Holders(s)],
          Capacities <- [s \in Scopes |-> CapsOf(s)]

ImplementsSlotPool == Pool!Spec
=============================================================================
