------------------------------ MODULE Routing -------------------------------
(***************************************************************************)
(* How the control plane ranks the endpoints of a pool for one request     *)
(* (src/src/routing/mod.rs, routing/strategy.rs, pricing/mod.rs), and how  *)
(* hard it takes a request to be (policy/tokens.rs).                       *)
(*                                                                         *)
(* The floating point numbers of the code are integers here:               *)
(*   capability, family, difficulty  thousandths                           *)
(*   prices     cents per million tokens                                   *)
(*   tokens     hundreds                                                   *)
(*   costs      millionths of a dollar, rounded down                       *)
(*   errors     percent;  utilization  percent                             *)
(* The scores of two strategies are never compared, so each has the unit   *)
(* that suits it.                                                          *)
(*                                                                         *)
(* A definition named Faulty<Name> is a wrong variant of <Name>: nothing   *)
(* refers to it, it documents a fault that the properties notice.          *)
(***************************************************************************)
EXTENDS Integers, FiniteSets

CONSTANTS
  Endpoints,
  Profiles,   (* EndpointProfile, priority and weight of each endpoint.    *)
  None        (* An absent value.                                          *)

Least(a, b) == IF a < b THEN a ELSE b
Greatest(a, b) == IF a < b THEN b ELSE a
Clamp(n, low, high) == Greatest(low, Least(n, high))

Price == [input : Nat, output : Nat, cached : Nat \cup {None}]

EndpointProfile ==
  [price : Price \cup {None},
   billing : {"payg", "subscription", "free"},
   used : (0..100) \cup {None}, reset : Nat \cup {None},
   capability : 0..1000, family : 0..1000,
   tools : {"yes", "no", "unknown"},
   priority : Nat, weight : Nat]

ASSUME RoutingAssumption ==
  /\ IsFiniteSet(Endpoints)
  /\ Profiles \in [Endpoints -> EndpointProfile]
  /\ None \notin Nat /\ None \notin Price

(* What the metrics map says of an endpoint when its pool is scored.       *)
Metric == [cooling : BOOLEAN, errors : 0..100, latency : Nat, active : Nat,
           cache : {"few", "collapsed", "some", "healthy"}]

----------------------------------------------------------------------------
(* heuristic_difficulty, of the features of a prompt that it looks at.     *)

Prompt == [tokens : Nat, tools : BOOLEAN, code : BOOLEAN,
           keyword : {"none", "task", "strong"},
           long : BOOLEAN, correction : BOOLEAN]

Difficulty(p) ==
  Least(1000,
    150 + Least((p.tokens * 25) \div 6, 200)
        + (IF p.tokens > 600 THEN 50 ELSE 0)
        + (IF p.tools THEN 80 ELSE 0)
        + (IF p.code THEN 120 ELSE 0)
        + (IF p.tokens > 120 THEN 50 ELSE 0)
        + [none |-> 0, task |-> 250, strong |-> 500][p.keyword]
        + (IF p.long THEN 50 ELSE 0)
        + (IF p.correction THEN 300 ELSE 0))

HardTaskDifficulty == 550
IsHard(difficulty) == difficulty >= HardTaskDifficulty

(* Between JUDGE_TRIGGER_MIN and JUDGE_TRIGGER_MAX a judge may be asked,   *)
(* whose answers stand for these difficulties.                             *)
JudgeZone == 300..650
JudgeTiers == {200, 500, 850}

----------------------------------------------------------------------------
(* Prices and costs.                                                       *)

IsPriced(profile) == profile.price # None

(* UnitPrice::calculate_cost; estimate_cost is the same with no hits.      *)
CalculateCost(price, input, output, hits) ==
  LET found == Least(hits, input)
      cached == IF price.cached = None THEN (found * price.input) \div 10
                ELSE found * price.cached
  IN  (input - found) * price.input + cached + output * price.output

WithErrors(cost, errors) == (cost * (100 + Least(errors, 95))) \div 100

(* expected_cost of a priced endpoint.                                     *)
ExpectedCost(profile, hint, errors) ==
  WithErrors(CalculateCost(profile.price, hint.input, hint.output, 0), errors)

(* expected_agentic_cost: seven tenths of the prompt come from the cache.  *)
ExpectedAgenticCost(profile, hint, errors) ==
  WithErrors(CalculateCost(profile.price, hint.input, hint.output,
                           (hint.input * 7) \div 10), errors)

(* watermark_mult, in 225ths, and urgency_mult, in 3600ths.                *)
Watermark(used) == IF used >= 80 THEN 225 + 10 * (used - 80) * (used - 80) ELSE 225
Urgency(used, reset) ==
  IF used # None /\ used < 50 /\ reset # None THEN Clamp(reset, 720, 3600) ELSE 3600

(* effective_marginal_cost of an endpoint that is priced or free.          *)
EffectiveMarginalCost(profile, hint, errors) ==
  LET base == IF hint.affinity THEN ExpectedAgenticCost(profile, hint, errors)
              ELSE ExpectedCost(profile, hint, errors)
      used == IF profile.used = None THEN 0 ELSE profile.used
  IN  CASE profile.billing = "free" -> 1
        [] profile.billing = "payg" -> base
        [] profile.billing = "subscription" ->
             (((base * Watermark(used)) \div 22500) * Urgency(profile.used, profile.reset))
               \div 3600

----------------------------------------------------------------------------
(* Capability.                                                             *)

CapabilityTopTolerance == 40

(* 1000 * required_capability(difficulty).                                 *)
RequiredCapability(difficulty) == 350000 + 550 * difficulty

CapabilityQualified(capability, difficulty, strongest) ==
  IF IsHard(difficulty) THEN capability >= strongest - CapabilityTopTolerance
  ELSE 1000 * capability >= RequiredCapability(difficulty)

NearCapable(capability, difficulty) ==
  1000 * capability >= RequiredCapability(difficulty) - 100000

Strategies ==
  {"priority", "least_connections", "least_conn", "load_aware", "latency",
   "latency_based", "stream_aware", "cost_aware", "lowest_price", "balanced_cost",
   "capability_aware", "smart", "capability", "round_robin", "random", "fallback"}

Canonical(strategy) ==
  CASE strategy \in {"latency", "latency_based", "stream_aware"} -> "load_aware"
    [] strategy \in {"lowest_price", "balanced_cost"} -> "cost_aware"
    [] strategy \in {"smart", "capability"} -> "capability_aware"
    [] strategy = "least_conn" -> "least_connections"
    [] OTHER -> strategy

(* max_pool_capability.                                                    *)
MaxPoolCapability(strategy, members) ==
  IF strategy = "capability_aware"
  THEN CHOOSE c \in {Profiles[e].capability : e \in members} :
         \A e \in members : Profiles[e].capability <= c
  ELSE 1000

(* Qualified for a request in the pool, budget_protected when it is hard.  *)
Qualified(strategy, members, difficulty) ==
  {e \in members : CapabilityQualified(Profiles[e].capability, difficulty,
                                       MaxPoolCapability(strategy, members))}

----------------------------------------------------------------------------
(* strategy::score.                                                        *)

CapabilityTierScale == 1000000000
CapabilityRankScale == 1000000
FamilyRankScale == 1000
CostTermMax == 999

Tier(capable, near) == IF capable THEN 2 ELSE IF near THEN 1 ELSE 0

(* (capability * 100).round()                                              *)
Hundredths(thousandths) == (thousandths + 5) \div 10

HardScore(tier, capability, family, cost) ==
  tier * CapabilityTierScale + capability * CapabilityRankScale
    + family * FamilyRankScale + cost

PerDollar(cost, most) == IF cost = 0 THEN most ELSE Least(1000000 \div cost, most)

CapabilityScore(profile, hint, strongest, errors) ==
  LET tier == Tier(CapabilityQualified(profile.capability, hint.difficulty, strongest),
                   NearCapable(profile.capability, hint.difficulty))
      ranked == IsPriced(profile) \/ profile.billing = "free"
      cost == EffectiveMarginalCost(profile, hint, errors)
  IN  IF IsHard(hint.difficulty)
      THEN HardScore(tier, Hundredths(profile.capability), Hundredths(profile.family),
                     IF ranked THEN PerDollar(cost + 1, CostTermMax) ELSE 0)
      ELSE tier * CapabilityTierScale + profile.capability \div 100
             + IF ranked THEN PerDollar(cost, CapabilityTierScale - 1000000) ELSE 0

CostScore(profile, hint, errors) ==
  IF IsPriced(profile) \/ profile.billing = "free"
  THEN PerDollar(EffectiveMarginalCost(profile, hint, errors), CapabilityTierScale)
  ELSE 0

LoadScore(m) ==
  (((IF m.latency > 0 THEN 100000000 \div m.latency ELSE 100000)
     * (200 - Least(m.errors, 95))) \div 200) \div (1 + m.active)

Score(strategy, e, hint, strongest, m) ==
  CASE strategy = "priority" -> Profiles[e].priority * 1000 + Profiles[e].weight
    [] strategy = "least_connections" -> 1000000 \div (1 + m.active)
    [] strategy = "load_aware" -> LoadScore(m)
    [] strategy = "cost_aware" -> CostScore(Profiles[e], hint, m.errors)
    [] strategy = "capability_aware" -> CapabilityScore(Profiles[e], hint, strongest, m.errors)
    [] OTHER -> IF hint.affinity THEN 1 ELSE 0

----------------------------------------------------------------------------
(* SmartGateFeedbackProvider::evaluate.                                    *)

(* Its defaults when no hint is to be found.                               *)
DefaultHint == [difficulty |-> 200, tools |-> FALSE, input |-> 10, output |-> 5,
                downshift |-> FALSE, affinity |-> FALSE, sticky |-> None]

(* Is the sorted list's element at len / 2; None when nothing is priced.   *)
MedianCost(members, hint) ==
  LET priced == {e \in members : IsPriced(Profiles[e])}
      Cost(e) == ExpectedCost(Profiles[e], hint, 0)
      Below(c) == Cardinality({e \in priced : Cost(e) < c})
      UpTo(c) == Cardinality({e \in priced : Cost(e) <= c})
  IN  IF priced = {} THEN None
      ELSE CHOOSE c \in {Cost(e) : e \in priced} :
             Below(c) <= Cardinality(priced) \div 2 /\ Cardinality(priced) \div 2 < UpTo(c)

(* budget_protected.                                                       *)
FaultyBudgetProtected(strategy, members, hint) == {}
BudgetProtected(strategy, members, hint) ==
  IF strategy = "capability_aware" /\ IsHard(hint.difficulty)
  THEN Qualified(strategy, members, hint.difficulty) ELSE {}

LacksTools(e, hint) == hint.tools /\ Profiles[e].tools = "no"

TooDear(strategy, members, e, hint, m) ==
  /\ hint.downshift /\ IsPriced(Profiles[e])
  /\ 100 * ExpectedCost(Profiles[e], hint, m.errors) > 105 * MedianCost(members, hint)
  /\ e \notin BudgetProtected(strategy, members, hint)

(* The members that are not excluded.                                      *)
Candidates(strategy, members, hint, metrics) ==
  {e \in members : /\ ~metrics[e].cooling
                   /\ ~LacksTools(e, hint)
                   /\ ~TooDear(strategy, members, e, hint, metrics[e])}

AffinityBoost == 10000

(* sticky_is_capable; the sticky endpoint need not be a member.            *)
StickyCapable(strategy, members, hint) ==
  strategy = "capability_aware" =>
    CapabilityQualified(Profiles[hint.sticky].capability, hint.difficulty,
                        MaxPoolCapability(strategy, members))

CacheCollapsed(members, hint, metrics) ==
  /\ metrics[hint.sticky].cache = "collapsed"
  /\ \E e \in members \ {hint.sticky} : metrics[e].cache = "healthy"

Boosted(strategy, members, hint, metrics) ==
  IF /\ hint.affinity /\ hint.sticky # None
     /\ StickyCapable(strategy, members, hint)
     /\ ~CacheCollapsed(members, hint, metrics)
  THEN {hint.sticky} ELSE {}

FinalScore(strategy, members, e, hint, metrics) ==
  Score(strategy, e, hint, MaxPoolCapability(strategy, members), metrics[e])
    + IF e \in Boosted(strategy, members, hint, metrics) THEN AffinityBoost ELSE 0

(* The candidates that ScoreOrdered tries first.  Endpoints with the same  *)
(* score are in no order, those without a score are all tried first.       *)
Best(strategy, members, hint, metrics) ==
  LET able == Candidates(strategy, members, hint, metrics)
      Of(e) == FinalScore(strategy, members, e, hint, metrics)
  IN  {e \in able : \A f \in able : Of(f) <= Of(e)}
=============================================================================
