------------------------------ MODULE Affinity ------------------------------
(***************************************************************************)
(* Routed requests of one API key to one pool: the daily spend gate        *)
(* (policy/budget.rs), the session store (policy/session.rs), the routing  *)
(* hints (policy/route_hint.rs), the scoring of Routing, and what the      *)
(* finish hook (usage/mod.rs) does to the session and to the spend.  The   *)
(* two handlers are chat_proxy and responses (api/proxy.rs); only the      *)
(* first has sessions, and only the first dispatches within the scope of   *)
(* its own hint.                                                           *)
(*                                                                         *)
(* The data plane is external: it tries the candidates of the feedback it  *)
(* is given, the best one first, and the others after a failure.           *)
(*                                                                         *)
(* Time is counted in ticks.  A session stands for a pair of session id    *)
(* and epoch.  Its prefix hash is only reported, so it is left out.        *)
(***************************************************************************)
EXTENDS Routing

CONSTANTS
  Handlers,      (* Requests under way at a time.                          *)
  Sessions,      (* Session epochs.                                        *)
  Prompts,       (* What is asked.                                         *)
  Pools,         (* The forms the pool takes as it is edited and reloaded. *)
  MetricTables,  (* States of the metrics map that a scoring meets.        *)
  ReportedHits,  (* Cached tokens that a provider may report.              *)
  KeyLimit,      (* daily_spend_limit of the key and of its project.       *)
  ProjectLimit,
  Dearest,       (* No request costs more.                                 *)
  MaxRequests    (* Requests, reloads, restarts in a run, at most.         *)

Pool == [strategy : Strategies, affinity : BOOLEAN, judge : BOOLEAN, ttl : Nat \ {0},
         members : SUBSET Endpoints]

Hint == [difficulty : 0..1000, tools : BOOLEAN, input : Nat, output : Nat,
         downshift : BOOLEAN, affinity : BOOLEAN, sticky : Endpoints \cup {None}]

Entry == [turns : Nat, sticky : Endpoints \cup {None}, age : Nat, ttl : Nat \ {0}]

(* seen: the pool and the metrics its candidates were scored with.         *)
Request ==
  [kind : {"chat", "responses"}, prompt : Prompts, session : Sessions \cup {None},
   pool : Pools, hint : Hint,
   seen : [pool : Pools, metrics : MetricTables] \cup {None},
   options : SUBSET Endpoints, endpoint : Endpoints \cup {None},
   tried : SUBSET Endpoints, ok : BOOLEAN]

ASSUME AffinityAssumption ==
  /\ IsFiniteSet(Handlers)
  /\ None \notin Sessions /\ None \notin Endpoints
  /\ None \notin Hint /\ None \notin Entry /\ None \notin Request
  /\ Prompts \subseteq Prompt
  /\ \A p \in Pools : p \in Pool /\ p.members # {}
  /\ \E p \in Pools : \A q \in Pools : q.ttl <= p.ttl
  /\ MetricTables \subseteq [Endpoints -> Metric]
  /\ KeyLimit \in Nat \cup {None} /\ ProjectLimit \in Nat \cup {None}
  /\ ReportedHits \subseteq Nat /\ MaxRequests \in Nat
  /\ Dearest \in Nat
  /\ \A e \in Endpoints, p \in Prompts, hits \in ReportedHits :
       IsPriced(Profiles[e]) =>
         CalculateCost(Profiles[e].price, p.tokens, 5, hits) <= Dearest

VARIABLES
  pool,      (* The pool in the registry.                                  *)
  sessions,  (* SESSIONS: the entry of each session, or None.              *)
  current,   (* CURRENT: the process-wide hint.                            *)
  hint,      (* The hints map at the pool's id.                            *)
  spent,     (* Sum of estimated_cost over the key's usage_logs of today.  *)
  pc, req,   (* Where each handler is and what it holds.                   *)
  served     (* Requests so far.                                           *)

hintVars == <<current, hint>>
vars == <<pool, sessions, hintVars, spent, pc, req, served>>

Places == {"idle", "admitted", "looked", "counted", "installed", "sent",
           "returned"}

TypeOK ==
  /\ pool \in Pools
  /\ sessions \in [Sessions -> Entry \cup {None}]
  /\ current \in Hint \cup {None}
  /\ hint \in Hint \cup {None}
  /\ spent \in Nat
  /\ pc \in [Handlers -> Places]
  /\ req \in [Handlers -> Request \cup {None}]
  /\ \A h \in Handlers : pc[h] # "idle" => req[h] # None
  /\ served \in 0..MaxRequests

Goto(h, label) == pc' = [pc EXCEPT ![h] = label]
FaultyEnd(h) == UNCHANGED pc /\ req' = [req EXCEPT ![h] = None]
End(h) == Goto(h, "idle") /\ req' = [req EXCEPT ![h] = None]

----------------------------------------------------------------------------
(* The session store.                                                      *)

Fresh(entry) == entry # None /\ entry.age < entry.ttl

(* purge_stale_sessions.                                                   *)
Purged == [s \in Sessions |-> IF Fresh(sessions[s]) THEN sessions[s] ELSE None]

NewEntry(ttl) == [turns |-> 0, sticky |-> None, age |-> 0, ttl |-> ttl]

(* get_sticky_endpoint.                                                    *)
StickyEndpoint(s, ttl) ==
  IF Fresh(sessions[s]) /\ sessions[s].age < ttl THEN sessions[s].sticky ELSE None

(* next_turn_index.                                                        *)
NextTurn(s, ttl) ==
  LET entry == IF Purged[s] = None THEN NewEntry(ttl) ELSE Purged[s]
  IN  [entry EXCEPT !.turns = @ + 1, !.age = 0, !.ttl = ttl]

(* record_success.                                                         *)
FaultyRecordSuccess(s, endpoint, ttl) ==
  LET entry == IF sessions[s] = None THEN NewEntry(ttl) ELSE sessions[s]
  IN  [entry EXCEPT !.age = 0, !.ttl = ttl, !.sticky = endpoint]
RecordSuccess(s, endpoint, ttl) ==
  LET entry == IF sessions[s] = None THEN NewEntry(ttl) ELSE sessions[s]
  IN  [entry EXCEPT !.age = 0, !.ttl = ttl,
                    !.sticky = IF @ = None THEN endpoint ELSE @]

----------------------------------------------------------------------------
(* The spend gate.                                                         *)

FaultyEffectiveDailyLimit ==
  IF KeyLimit = None THEN ProjectLimit ELSE KeyLimit
EffectiveDailyLimit ==
  CASE KeyLimit = None -> ProjectLimit
    [] ProjectLimit = None -> KeyLimit
    [] OTHER -> Least(KeyLimit, ProjectLimit)

(* budget::evaluate.                                                       *)
Budget(sum) ==
  IF EffectiveDailyLimit \in {None, 0} THEN "ok"
  ELSE IF sum >= EffectiveDailyLimit THEN "hard"
  ELSE IF 10 * sum >= 8 * EffectiveDailyLimit THEN "soft" ELSE "ok"

----------------------------------------------------------------------------
(* The handlers up to the dispatch.                                        *)

(* A request with its pool (resolve_pool_context), which is turned away    *)
(* over the limit, or when the database does not tell what was spent       *)
(* (enforce_spend_budget).                                                 *)
Refuse ==
  /\ served < MaxRequests
  /\ served' = served + 1
  /\ UNCHANGED <<pool, sessions, hintVars, spent, pc, req>>

(* What the request's own hint says before the session is looked at.       *)
OwnHint(prompt, downshift) ==
  [difficulty |-> Difficulty(prompt), tools |-> prompt.tools, input |-> prompt.tokens,
   output |-> 5, downshift |-> downshift, affinity |-> FALSE, sticky |-> None]

Arrived(kind, prompt, session) ==
  [kind |-> kind, prompt |-> prompt, session |-> session, pool |-> pool,
   hint |-> OwnHint(prompt, Budget(spent) = "soft"), seen |-> None,
   options |-> {}, endpoint |-> None, tried |-> {}, ok |-> FALSE]

(* One that is let through: the handler keeps the pool it found.           *)
Admit(h) ==
  /\ pc[h] = "idle" /\ served < MaxRequests /\ Budget(spent) # "hard"
  /\ \E kind \in {"chat", "responses"}, p \in Prompts, s \in Sessions \cup {None} :
       /\ kind = "responses" => s = None
       /\ req' = [req EXCEPT ![h] = Arrived(kind, p, s)]
  /\ Goto(h, "admitted")
  /\ served' = served + 1
  /\ UNCHANGED <<pool, sessions, hintVars, spent>>

(* classify_borderline_difficulty: what a judge may make of the request.   *)
Difficulties(h) ==
  {req[h].hint.difficulty} \cup
    IF req[h].pool.judge /\ req[h].hint.difficulty \in JudgeZone THEN JudgeTiers ELSE {}

(* derive_warm_affinity, up to the lookup of the sticky endpoint.          *)
AffinityEnabled(h) ==
  req[h].pool.affinity /\ req[h].session # None /\ Cardinality(pool.members) > 1

Look(h) ==
  /\ pc[h] = "admitted" /\ req[h].kind = "chat"
  /\ \E d \in Difficulties(h) :
       req' = [req EXCEPT ![h].hint =
         [@ EXCEPT !.difficulty = d, !.affinity = AffinityEnabled(h),
                   !.sticky = IF req[h].session = None THEN None
                              ELSE StickyEndpoint(req[h].session, req[h].pool.ttl)]]
  /\ sessions' = IF req[h].session = None THEN sessions ELSE Purged
  /\ Goto(h, IF req[h].session = None THEN "counted" ELSE "looked")
  /\ UNCHANGED <<pool, hintVars, spent, served>>

CountTurn(h) ==
  /\ pc[h] = "looked"
  /\ sessions' = [Purged EXCEPT ![req[h].session] =
                    NextTurn(req[h].session, req[h].pool.ttl)]
  /\ Goto(h, "counted")
  /\ UNCHANGED <<pool, hintVars, spent, req, served>>

(* install_route_hint, and the set_hint of responses.                      *)
Install(h) ==
  /\ \/ pc[h] = "counted" /\ hint' = req[h].hint
     \/ pc[h] = "admitted" /\ req[h].kind = "responses" /\ UNCHANGED hint
  /\ current' = req[h].hint
  /\ Goto(h, "installed")
  /\ UNCHANGED <<pool, sessions, spent, req, served>>

(* Dropped once its HintGuard stands: the quota is used up, the payload    *)
(* does not parse, or the client goes away.                                *)
Drop(h) ==
  /\ pc[h] \in {"installed", "sent"}
  /\ current' = None
  /\ End(h)
  /\ UNCHANGED <<pool, sessions, hint, spent, served>>

----------------------------------------------------------------------------
(* The dispatch.                                                           *)

(* The hint that evaluate finds on the task of the handler.                *)
FaultyHintInForce(h) ==
  IF hint # None THEN hint ELSE req[h].hint
HintInForce(h) ==
  IF req[h].kind = "chat" THEN req[h].hint
  ELSE IF hint # None THEN hint
  ELSE IF current # None THEN current ELSE DefaultHint

Dispatch(h) ==
  /\ pc[h] = "installed"
  /\ \E metrics \in MetricTables :
       LET strategy == Canonical(pool.strategy)
           found == HintInForce(h)
       IN  \E e \in Best(strategy, pool.members, found, metrics) :
             req' = [req EXCEPT ![h].seen = [pool |-> pool, metrics |-> metrics],
                                ![h].options = Candidates(strategy, pool.members, found, metrics),
                                ![h].endpoint = e, ![h].tried = {e}]
  /\ Goto(h, "sent")
  /\ UNCHANGED <<pool, sessions, hintVars, spent, served>>

FallBack(h) ==
  /\ pc[h] = "sent"
  /\ \E e \in req[h].options \ req[h].tried :
       req' = [req EXCEPT ![h].endpoint = e, ![h].tried = @ \cup {e}]
  /\ UNCHANGED <<pool, sessions, hintVars, spent, pc, served>>

(* The answer, or the failure of the last candidate; HintGuard is dropped. *)
Return(h) ==
  /\ pc[h] = "sent"
  /\ \E ok \in BOOLEAN :
       /\ ~ok => req[h].tried = req[h].options
       /\ req' = [req EXCEPT ![h].ok = ok, ![h].seen = None, ![h].options = {},
                             ![h].tried = {}]
  /\ current' = None
  /\ Goto(h, "returned")
  /\ UNCHANGED <<pool, sessions, hint, spent, served>>

----------------------------------------------------------------------------
(* on_request_finished.                                                    *)

(* estimated_cost: of what the provider reports, or else of the estimates, *)
(* whether the request was answered or not.                                *)
EstimatedCost(h, hits) ==
  LET price == Profiles[req[h].endpoint].price
  IN  IF price = None THEN 0
      ELSE CalculateCost(price, req[h].prompt.tokens, 5, hits)

(* record_success, then the usage row, whose insert is only logged when it *)
(* fails.                                                                  *)
Finish(h) ==
  /\ pc[h] = "returned"
  /\ sessions' = IF req[h].ok /\ req[h].hint.affinity
                 THEN [sessions EXCEPT ![req[h].session] =
                         RecordSuccess(req[h].session, req[h].endpoint, req[h].pool.ttl)]
                 ELSE sessions
  /\ \/ \E hits \in ReportedHits : spent' = spent + EstimatedCost(h, hits)
     \/ UNCHANGED spent
  /\ End(h)
  /\ UNCHANGED <<pool, hintVars, served>>

----------------------------------------------------------------------------
(* The rest of the system.                                                 *)

(* sync_all_pools with a changed pool.                                     *)
Reload ==
  /\ served < MaxRequests
  /\ pool' \in Pools \ {pool}
  /\ served' = served + 1
  /\ UNCHANGED <<sessions, hintVars, spent, pc, req>>

Longest == CHOOSE t \in {p.ttl : p \in Pools} : \A p \in Pools : p.ttl <= t

Tick ==
  /\ \E s \in Sessions : sessions[s] # None /\ sessions[s].age < Longest
  /\ sessions' = [s \in Sessions |->
       IF sessions[s] = None THEN None
       ELSE [sessions[s] EXCEPT !.age = Least(@ + 1, Longest)]]
  /\ UNCHANGED <<pool, hintVars, spent, pc, req, served>>

Midnight ==
  /\ spent > 0
  /\ spent' = 0
  /\ UNCHANGED <<pool, sessions, hintVars, pc, req, served>>

(* Nothing but the usage rows and the pool survives.                       *)
Restart ==
  /\ served < MaxRequests
  /\ served' = served + 1
  /\ sessions' = [s \in Sessions |-> None]
  /\ current' = None /\ hint' = None
  /\ pc' = [h \in Handlers |-> "idle"] /\ req' = [h \in Handlers |-> None]
  /\ UNCHANGED <<pool, spent>>

Init ==
  /\ pool \in Pools
  /\ sessions = [s \in Sessions |-> None]
  /\ current = None /\ hint = None
  /\ spent = 0 /\ served = 0
  /\ pc = [h \in Handlers |-> "idle"] /\ req = [h \in Handlers |-> None]

Handle(h) ==
  \/ Admit(h) \/ Look(h) \/ CountTurn(h) \/ Install(h)
  \/ Drop(h) \/ Dispatch(h) \/ FallBack(h) \/ Return(h) \/ Finish(h)

Next == Refuse \/ Tick \/ Midnight \/ Reload \/ Restart \/ \E h \in Handlers : Handle(h)

Spec == Init /\ [][Next]_vars

----------------------------------------------------------------------------
(* Properties.                                                             *)

(* A hard chat is first sent to an endpoint of the pool's top capability   *)
(* whenever one is healthy and takes its tools: not the budget's downshift,*)
(* not the session's sticky endpoint and not the hint of another request   *)
(* send it to a weaker one (budget_protected, sticky_is_capable and        *)
(* TASK_ROUTE_HINT, routing/mod.rs:87-143).                                *)
HardChatsStayCapable ==
  \A h \in Handlers :
    /\ pc[h] = "sent" /\ req[h].kind = "chat" /\ req[h].tried = {req[h].endpoint}
    /\ Canonical(req[h].seen.pool.strategy) = "capability_aware"
    /\ IsHard(req[h].hint.difficulty)
    => LET able == {e \in Qualified("capability_aware", req[h].seen.pool.members,
                                    req[h].hint.difficulty) :
                      /\ ~req[h].seen.metrics[e].cooling
                      /\ req[h].prompt.tools => Profiles[e].tools # "no"}
       IN  able # {} => req[h].endpoint \in able

(* No attempt of a chat with tools, fallbacks included, goes to an endpoint*)
(* that declares no support for tools, and none goes to one that was       *)
(* cooling down when the candidates were scored (routing/mod.rs:205-222).  *)
ToolsHonoured ==
  \A h \in Handlers :
    pc[h] = "sent" /\ req[h].kind = "chat" =>
      \A e \in req[h].tried :
        /\ req[h].prompt.tools => Profiles[e].tools # "no"
        /\ ~req[h].seen.metrics[e].cooling

(* A session is bound once, to an endpoint that answered one of its        *)
(* requests with success, and stays bound to it until it is purged: to the *)
(* one that answered, not the one tried first, whatever other requests of  *)
(* the session are under way (record_success, policy/session.rs:261-291).  *)
SessionKept ==
  [][\A s \in Sessions :
       sessions[s] # None /\ sessions'[s] # None =>
         LET old == sessions[s].sticky
             new == sessions'[s].sticky
         IN  new # old =>
               \/ ~Fresh(sessions[s]) /\ sessions'[s].turns = 1 /\ new = None
               \/ /\ old = None
                  /\ \E h \in Handlers :
                       /\ pc[h] = "returned" /\ req[h].ok /\ req[h].session = s
                       /\ req[h].endpoint = new]_vars

(* Requests that were under way when the limit was reached still add to    *)
(* the spend, but no others do: it exceeds neither daily limit by more     *)
(* than they cost (enforce_spend_budget reads what the finish hook writes).*)
SpendBounded ==
  \A limit \in {KeyLimit, ProjectLimit} \ {None, 0} :
    spent < limit + Dearest * Cardinality(Handlers)
=============================================================================
