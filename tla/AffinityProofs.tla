--------------------------- MODULE AffinityProofs ---------------------------
(***************************************************************************)
(* Proofs about Affinity and the scores of Routing, for every set of       *)
(* endpoints and their profiles, pools, prompts and metrics, and every     *)
(* number of requests under way.                                           *)
(***************************************************************************)
EXTENDS Affinity, FiniteSetTheorems, TLAPS

----------------------------------------------------------------------------
(* The numbers of Routing.                                                 *)

LEMMA Products == \A a, b \in Nat : a * b \in Nat
OBVIOUS

LEMMA Quotients == \A a \in Nat, b \in Nat \ {0} : a \div b \in Nat
OBVIOUS

LEMMA DifficultyType == \A p \in Prompt : Difficulty(p) \in 0..1000
<1> SUFFICES ASSUME NEW p \in Prompt PROVE Difficulty(p) \in 0..1000
  OBVIOUS
<1>1. p.tokens \in Nat /\ p.keyword \in {"none", "task", "strong"}
  BY DEF Prompt
<1>2. [none |-> 0, task |-> 250, strong |-> 500][p.keyword] \in Nat
  BY <1>1
<1>3. (p.tokens * 25) \div 6 \in Nat
  BY <1>1, Quotients
<1> DEFINE k == [none |-> 0, task |-> 250, strong |-> 500][p.keyword]
           q == (p.tokens * 25) \div 6
<1>4. k \in Nat /\ q \in Nat
  BY <1>2, <1>3
<1>5. Difficulty(p) =
        Least(1000, 150 + Least(q, 200)
                    + (IF p.tokens > 600 THEN 50 ELSE 0)
                    + (IF p.tools THEN 80 ELSE 0)
                    + (IF p.code THEN 120 ELSE 0)
                    + (IF p.tokens > 120 THEN 50 ELSE 0)
                    + k
                    + (IF p.long THEN 50 ELSE 0)
                    + (IF p.correction THEN 300 ELSE 0))
  BY DEF Difficulty
<1> HIDE DEF k, q
<1> QED  BY <1>4, <1>5 DEF Least

(* A request costs nothing or something.                                   *)
LEMMA CostType ==
  ASSUME NEW price \in Price, NEW input \in Nat, NEW output \in Nat, NEW hits \in Nat
  PROVE  CalculateCost(price, input, output, hits) \in Nat
<1>1. price.input \in Nat /\ price.output \in Nat /\ (price.cached # None => price.cached \in Nat)
  BY DEF Price
<1> DEFINE found == Least(hits, input)
           cached == IF price.cached = None THEN (found * price.input) \div 10
                     ELSE found * price.cached
<1>2. found \in Nat /\ input - found \in Nat
  BY DEF Least
<1>3. cached \in Nat
  BY <1>1, <1>2, Products, Quotients
<1>4. (input - found) * price.input \in Nat /\ output * price.output \in Nat
  BY <1>1, <1>2, Products
<1>5. CalculateCost(price, input, output, hits)
        = (input - found) * price.input + cached + output * price.output
  BY DEF CalculateCost
<1> HIDE DEF found, cached
<1>6. \A a, b, c \in Nat : a + b + c \in Nat
  OBVIOUS
<1> QED  BY <1>3, <1>4, <1>5, <1>6

LEMMA WithErrorsType ==
  ASSUME NEW cost \in Nat, NEW errors \in 0..100
  PROVE  WithErrors(cost, errors) \in Nat
<1>1. 100 + Least(errors, 95) \in Nat
  BY DEF Least
<1> QED  BY <1>1, Products, Quotients DEF WithErrors

LEMMA MarginalCostType ==
  ASSUME NEW e \in Endpoints, NEW h \in Hint, NEW errors \in 0..100,
         IsPriced(Profiles[e]) \/ Profiles[e].billing = "free"
  PROVE  EffectiveMarginalCost(Profiles[e], h, errors) \in Nat
<1> DEFINE p == Profiles[e]
<1>1. /\ p.price \in Price \cup {None} /\ p.billing \in {"payg", "subscription", "free"}
      /\ p.used \in (0..100) \cup {None} /\ p.reset \in Nat \cup {None}
  BY RoutingAssumption DEF EndpointProfile
<1>2. h.input \in Nat /\ h.output \in Nat
  BY DEF Hint
<1> HIDE DEF p
<1>3. CASE p.billing = "free"
  BY <1>3 DEF EffectiveMarginalCost, p
<1>4. CASE p.billing # "free"
  <2>1. p.price \in Price
    BY <1>1, <1>4 DEF IsPriced, p
  <2>2. ExpectedCost(p, h, errors) \in Nat
    BY <1>2, <2>1, CostType, WithErrorsType DEF ExpectedCost
  <2>3. (h.input * 7) \div 10 \in Nat
    BY <1>2, Quotients
  <2>4. ExpectedAgenticCost(p, h, errors) \in Nat
    BY <1>2, <2>1, <2>3, CostType, WithErrorsType DEF ExpectedAgenticCost
  <2> DEFINE base == IF h.affinity THEN ExpectedAgenticCost(p, h, errors)
                     ELSE ExpectedCost(p, h, errors)
             used == IF p.used = None THEN 0 ELSE p.used
  <2>5. base \in Nat
    BY <2>2, <2>4
  <2>6. CASE p.billing = "payg"
    <3>1. EffectiveMarginalCost(p, h, errors) = base
      BY <2>6 DEF EffectiveMarginalCost
    <3> QED  BY <2>5, <3>1 DEF p
  <2>7. CASE p.billing = "subscription"
    <3>1. EffectiveMarginalCost(p, h, errors) =
            (((base * Watermark(used)) \div 22500) * Urgency(p.used, p.reset)) \div 3600
      BY <2>7 DEF EffectiveMarginalCost
    <3>2. used \in 0..100
      BY <1>1
    <3> HIDE DEF base, used
    <3>3. Watermark(used) \in Nat
      <4>1. \A n \in 80..100 : 10 * (n - 80) * (n - 80) \in Nat
        <5> SUFFICES ASSUME NEW n \in 80..100 PROVE 10 * (n - 80) * (n - 80) \in Nat
          OBVIOUS
        <5>1. n - 80 \in Nat /\ 10 * (n - 80) \in Nat
          OBVIOUS
        <5> QED  BY <5>1, Products
      <4> QED  BY <3>2, <4>1 DEF Watermark
    <3>4. Urgency(p.used, p.reset) \in Nat
      BY <1>1 DEF Urgency, Clamp, Greatest, Least
    <3>5. (base * Watermark(used)) \div 22500 \in Nat
      <4>1. base * Watermark(used) \in Nat
        BY <2>5, <3>3, Products
      <4> QED  BY <4>1, Quotients
    <3> QED  BY <3>1, <3>4, <3>5, Products, Quotients DEF p
  <2> QED  BY <1>1, <1>4, <2>6, <2>7
<1> QED  BY <1>3, <1>4

LEMMA PerDollarType ==
  ASSUME NEW cost \in Nat, NEW most \in Nat
  PROVE  PerDollar(cost, most) \in 0..most
<1>1. cost # 0 => 1000000 \div cost \in Nat
  BY Quotients
<1> QED  BY <1>1 DEF PerDollar, Least

----------------------------------------------------------------------------
(* Hard requests.                                                          *)

(* What the score of a hard request is made of beside its tier.            *)
BelowTier == 100 * CapabilityRankScale + 100 * FamilyRankScale + CostTermMax

LEMMA HardScoreNumbers ==
  ASSUME NEW t \in 0..2, NEW a \in 0..100, NEW b \in 0..100, NEW k \in 0..CostTermMax
  PROVE  \E low \in 0..BelowTier : HardScore(t, a, b, k) = t * CapabilityTierScale + low
<1> DEFINE low == a * CapabilityRankScale + b * FamilyRankScale + k
<1>1. low \in 0..BelowTier
  <2>1. CapabilityRankScale \in Nat /\ FamilyRankScale \in Nat /\ CostTermMax \in Nat
    BY SMT DEF CapabilityRankScale, FamilyRankScale, CostTermMax
  <2>2. \A c \in Nat, n \in 0..100 : n * c \in 0..(100 * c)
    BY SMT
  <2>3. \A x, y, z, u, v, w \in Nat : u \in 0..x /\ v \in 0..y /\ w \in 0..z => u + v + w \in 0..(x + y + z)
    BY SMT
  <2>4. 100 * CapabilityRankScale \in Nat /\ 100 * FamilyRankScale \in Nat
    BY <2>1, SMT
  <2>5. a * CapabilityRankScale \in 0..(100 * CapabilityRankScale) /\ a * CapabilityRankScale \in Nat
    BY <2>1, <2>2, <2>4, SMT
  <2>6. b * FamilyRankScale \in 0..(100 * FamilyRankScale) /\ b * FamilyRankScale \in Nat
    BY <2>1, <2>2, <2>4, SMT
  <2> QED  BY <2>1, <2>3, <2>4, <2>5, <2>6, SMT DEF BelowTier
<1>2. HardScore(t, a, b, k) = t * CapabilityTierScale + low
  BY SMT DEF HardScore, CapabilityTierScale, CapabilityRankScale, FamilyRankScale, CostTermMax
<1> QED  BY <1>1, <1>2

LEMMA HardScoreParts ==
  ASSUME NEW e \in Endpoints, NEW h \in Hint, NEW strongest, NEW m \in Metric,
         IsHard(h.difficulty)
  PROVE  \E low \in 0..BelowTier :
           Score("capability_aware", e, h, strongest, m) =
             Tier(CapabilityQualified(Profiles[e].capability, h.difficulty, strongest),
                  NearCapable(Profiles[e].capability, h.difficulty)) * CapabilityTierScale + low
<1> DEFINE p == Profiles[e]
           tier == Tier(CapabilityQualified(p.capability, h.difficulty, strongest),
                        NearCapable(p.capability, h.difficulty))
           ranked == IsPriced(p) \/ p.billing = "free"
           cost == EffectiveMarginalCost(p, h, m.errors)
           last == IF ranked THEN PerDollar(cost + 1, CostTermMax) ELSE 0
<1>1. p.capability \in 0..1000 /\ p.family \in 0..1000 /\ m.errors \in 0..100
  BY RoutingAssumption DEF EndpointProfile, Metric
<1>2. \A n \in 0..1000 : Hundredths(n) \in 0..100
  BY DEF Hundredths
<1>3. last \in 0..CostTermMax
  <2>1. CostTermMax \in Nat
    BY SMT DEF CostTermMax
  <2>2. CASE ranked
    <3>1. cost + 1 \in Nat
      BY <1>1, <2>2, MarginalCostType
    <3>2. last = PerDollar(cost + 1, CostTermMax)
      BY <2>2
    <3> HIDE DEF last, cost
    <3> QED  BY <2>1, <3>1, <3>2, PerDollarType
  <2>3. CASE ~ranked
    <3>1. last = 0
      BY <2>3
    <3> HIDE DEF last
    <3> QED  BY <2>1, <3>1
  <2> QED  BY <2>2, <2>3
<1>4. Score("capability_aware", e, h, strongest, m) = CapabilityScore(p, h, strongest, m.errors)
  BY DEF Score
<1>5. CapabilityScore(p, h, strongest, m.errors)
        = HardScore(tier, Hundredths(p.capability), Hundredths(p.family), last)
  BY DEF CapabilityScore
<1>6. tier \in 0..2
  BY DEF Tier
<1>7. Hundredths(p.capability) \in 0..100 /\ Hundredths(p.family) \in 0..100
  BY <1>1, <1>2
<1> HIDE DEF last, tier, p
<1>8. PICK low \in 0..BelowTier :
        HardScore(tier, Hundredths(p.capability), Hundredths(p.family), last)
          = tier * CapabilityTierScale + low
  BY <1>3, <1>6, <1>7, HardScoreNumbers
<1> QED  BY <1>4, <1>5, <1>8 DEF tier, p

LEMMA TiersApart ==
  /\ BelowTier \in Nat /\ CapabilityTierScale \in Nat
  /\ BelowTier + AffinityBoost < CapabilityTierScale
BY SMT DEF BelowTier, CapabilityRankScale, FamilyRankScale, CostTermMax, AffinityBoost, CapabilityTierScale

(* The boost of a session's endpoint does not lift it over a tier.         *)
LEMMA QualifiedWins ==
  ASSUME NEW members \in SUBSET Endpoints, NEW h \in Hint,
         NEW metrics \in [Endpoints -> Metric], IsHard(h.difficulty),
         NEW a \in Qualified("capability_aware", members, h.difficulty),
         NEW b \in members \ Qualified("capability_aware", members, h.difficulty)
  PROVE  ~ (FinalScore("capability_aware", members, a, h, metrics)
              <= FinalScore("capability_aware", members, b, h, metrics))
<1> DEFINE strongest == MaxPoolCapability("capability_aware", members)
           able(e) == CapabilityQualified(Profiles[e].capability, h.difficulty, strongest)
           near(e) == NearCapable(Profiles[e].capability, h.difficulty)
           score(e) == Score("capability_aware", e, h, strongest, metrics[e])
           boost(e) == IF e \in Boosted("capability_aware", members, h, metrics)
                       THEN AffinityBoost ELSE 0
<1>1. a \in members /\ able(a) /\ ~able(b)
  BY DEF Qualified
<1>2. \A e \in members : FinalScore("capability_aware", members, e, h, metrics) = score(e) + boost(e)
  BY DEF FinalScore
<1>3. \A e \in members : boost(e) \in {0, AffinityBoost}
  OBVIOUS
<1>4. Tier(able(a), near(a)) = 2 /\ Tier(able(b), near(b)) \in {0, 1}
  BY <1>1 DEF Tier
<1>5. PICK m \in 0..BelowTier : score(a) = Tier(able(a), near(a)) * CapabilityTierScale + m
  <2>1. a \in Endpoints /\ metrics[a] \in Metric
    BY <1>1
  <2> QED  BY <2>1, HardScoreParts
<1>6. PICK n \in 0..BelowTier : score(b) = Tier(able(b), near(b)) * CapabilityTierScale + n
  <2>1. b \in Endpoints /\ metrics[b] \in Metric
    OBVIOUS
  <2> QED  BY <2>1, HardScoreParts
<1> HIDE DEF score, boost, able, near
<1>7. \A s, t, x, y, big, small, add \in Nat :
        /\ s <= 1 /\ t = 2 /\ x <= small /\ y <= small /\ small + add < big
        => \A u, v \in {0, add} : s * big + x + u < t * big + y + v
  <2> SUFFICES ASSUME NEW s \in {0, 1}, NEW x \in Nat, NEW y \in Nat, NEW big \in Nat,
                      NEW small \in Nat, NEW add \in Nat,
                      x <= small, y <= small, small + add < big,
                      NEW u \in {0, add}, NEW v \in {0, add}
               PROVE  s * big + x + u < 2 * big + y + v
    OBVIOUS
  <2>1. s * big \in Nat /\ s * big <= big
    OBVIOUS
  <2> QED  BY <2>1
<1> DEFINE s == Tier(able(b), near(b))
           t == Tier(able(a), near(a))
<1>8. s \in Nat /\ s <= 1 /\ t \in Nat /\ t = 2
  BY <1>4
<1>9. AffinityBoost \in Nat
  BY SMT DEF AffinityBoost
<1> HIDE DEF s, t
<1>10. s * CapabilityTierScale + n + boost(b) < t * CapabilityTierScale + m + boost(a)
  BY <1>1, <1>3, <1>5, <1>6, <1>7, <1>8, <1>9, TiersApart
<1>11. /\ s * CapabilityTierScale + n + boost(b) \in Int
       /\ t * CapabilityTierScale + m + boost(a) \in Int
  <2>1. s * CapabilityTierScale \in Nat /\ t * CapabilityTierScale \in Nat
    BY <1>8, TiersApart, Products
  <2>2. m \in Nat /\ n \in Nat
    BY <1>5, <1>6, TiersApart
  <2>3. boost(a) \in Nat /\ boost(b) \in Nat
    BY <1>1, <1>3, <1>9
  <2>4. \A x, y, z \in Nat : x + y + z \in Int
    OBVIOUS
  <2> DEFINE S == s * CapabilityTierScale
             T == t * CapabilityTierScale
  <2>5. S \in Nat /\ T \in Nat
    BY <2>1
  <2> HIDE DEF S, T
  <2>6. S + n + boost(b) \in Int /\ T + m + boost(a) \in Int
    BY <2>2, <2>3, <2>4, <2>5
  <2> QED  BY <2>6 DEF S, T
<1>12. ~ (t * CapabilityTierScale + m + boost(a) <= s * CapabilityTierScale + n + boost(b))
  <2>1. \A x, y \in Int : x < y => ~ (y <= x)
    OBVIOUS
  <2> QED  BY <1>10, <1>11, <2>1, Zenon
<1>13. /\ FinalScore("capability_aware", members, a, h, metrics)
            = t * CapabilityTierScale + m + boost(a)
       /\ FinalScore("capability_aware", members, b, h, metrics)
            = s * CapabilityTierScale + n + boost(b)
  BY <1>1, <1>2, <1>5, <1>6 DEF s, t
<1> QED  BY <1>12, <1>13, Zenon

(* The best of the candidates is qualified if a candidate is.              *)
LEMMA HardBest ==
  ASSUME NEW members \in SUBSET Endpoints, NEW h \in Hint,
         NEW metrics \in [Endpoints -> Metric], IsHard(h.difficulty),
         NEW b \in Best("capability_aware", members, h, metrics),
         NEW a \in Qualified("capability_aware", members, h.difficulty),
         ~metrics[a].cooling, ~LacksTools(a, h)
  PROVE  b \in Qualified("capability_aware", members, h.difficulty)
<1>1. a \in Candidates("capability_aware", members, h, metrics)
  BY DEF Candidates, TooDear, BudgetProtected, Qualified
<1>2. /\ b \in members
      /\ FinalScore("capability_aware", members, a, h, metrics)
           <= FinalScore("capability_aware", members, b, h, metrics)
  BY <1>1 DEF Best, Candidates
<1> QED  BY <1>2, QualifiedWins

----------------------------------------------------------------------------
(* What a handler holds where it stands.                                   *)

(* The candidates are those of the hint, the pool and the metrics seen.    *)
Scored(r) ==
  LET strategy == Canonical(r.seen.pool.strategy)
  IN  /\ r.seen \in [pool : Pools, metrics : MetricTables]
      /\ r.tried \subseteq r.options /\ r.endpoint \in r.tried
      /\ r.kind = "chat" =>
           /\ r.options = Candidates(strategy, r.seen.pool.members, r.hint, r.seen.metrics)
           /\ r.tried = {r.endpoint} =>
                r.endpoint \in Best(strategy, r.seen.pool.members, r.hint, r.seen.metrics)

Held(l, r) ==
  /\ r \in Request
  /\ r.hint.tools = r.prompt.tools
  /\ r.hint.affinity => r.session \in Sessions
  /\ l = "looked" => r.session \in Sessions
  /\ l = "sent" => Scored(r)
  /\ l \in {"sent", "returned"} => r.endpoint \in Endpoints

HandlersTyped ==
  /\ pc \in [Handlers -> Places]
  /\ req \in [Handlers -> Request \cup {None}]
  /\ \A h \in Handlers : pc[h] # "idle" => Held(pc[h], req[h])

StoresTyped ==
  /\ pool \in Pools
  /\ sessions \in [Sessions -> Entry \cup {None}]
  /\ current \in Hint \cup {None} /\ hint \in Hint \cup {None}
  /\ spent \in Nat /\ served \in 0..MaxRequests

Typed == StoresTyped /\ HandlersTyped

LEMMA HandlerStep ==
  ASSUME HandlersTyped, NEW h \in Handlers, NEW l \in Places, NEW r,
         pc' = [pc EXCEPT ![h] = l], req' = [req EXCEPT ![h] = r], Held(l, r)
  PROVE  HandlersTyped'
<1>1. r \in Request
  BY DEF Held
<1> QED  BY <1>1 DEF HandlersTyped

LEMMA EndTyped ==
  ASSUME HandlersTyped, NEW h \in Handlers, End(h)
  PROVE  HandlersTyped'
BY DEF HandlersTyped, End, Goto, Places

(* Candidates are members of the pool.                                     *)
LEMMA PoolTyped ==
  ASSUME NEW p \in Pools
  PROVE  /\ p \in Pool /\ p.members \in SUBSET Endpoints
         /\ p.ttl \in Nat \ {0}
BY AffinityAssumption DEF Pool

LEMMA CandidatesTyped ==
  ASSUME NEW p \in Pools, NEW g, NEW metrics
  PROVE  /\ Candidates(Canonical(p.strategy), p.members, g, metrics) \in SUBSET Endpoints
         /\ Best(Canonical(p.strategy), p.members, g, metrics)
              \subseteq Candidates(Canonical(p.strategy), p.members, g, metrics)
BY PoolTyped DEF Candidates, Best

(* Changes to what a handler holds.                                        *)
LEMMA RequestReturned ==
  ASSUME NEW r \in Request, NEW ok \in BOOLEAN, NEW n,
         n = [r EXCEPT !.ok = ok, !.seen = None, !.options = {}, !.tried = {}]
  PROVE  /\ n \in Request /\ n.endpoint = r.endpoint
         /\ n.kind = r.kind /\ n.prompt = r.prompt /\ n.session = r.session
         /\ n.pool = r.pool /\ n.hint = r.hint
BY DEF Request

LEMMA RequestHinted ==
  ASSUME NEW r \in Request, NEW g \in Hint, NEW n, n = [r EXCEPT !.hint = g]
  PROVE  /\ n \in Request /\ n.hint = g
         /\ n.kind = r.kind /\ n.prompt = r.prompt /\ n.session = r.session /\ n.pool = r.pool
BY DEF Request

----------------------------------------------------------------------------
(* The session store.                                                      *)

LEMMA NewEntryType ==
  ASSUME NEW ttl \in Nat \ {0}
  PROVE  /\ NewEntry(ttl) \in Entry
         /\ NewEntry(ttl).sticky = None /\ NewEntry(ttl).turns = 0
BY DEF NewEntry, Entry

LEMMA PurgedTyped ==
  ASSUME sessions \in [Sessions -> Entry \cup {None}]
  PROVE  /\ Purged \in [Sessions -> Entry \cup {None}]
         /\ \A s \in Sessions : Purged[s] = (IF Fresh(sessions[s]) THEN sessions[s] ELSE None)
         /\ \A s \in Sessions : Fresh(sessions[s]) => sessions[s] \in Entry
BY DEF Purged, Fresh

(* A turn begins a new entry, unless there is a fresh one.                 *)
LEMMA NextTurnFacts ==
  ASSUME sessions \in [Sessions -> Entry \cup {None}], NEW s \in Sessions, NEW ttl \in Nat \ {0}
  PROVE  /\ NextTurn(s, ttl) \in Entry
         /\ Fresh(sessions[s]) => NextTurn(s, ttl).sticky = sessions[s].sticky
         /\ ~Fresh(sessions[s]) => NextTurn(s, ttl).sticky = None /\ NextTurn(s, ttl).turns = 1
<1> DEFINE e == IF Purged[s] = None THEN NewEntry(ttl) ELSE Purged[s]
           t == e.turns + 1
<1>1. /\ e \in Entry
      /\ Fresh(sessions[s]) => e = sessions[s]
      /\ ~Fresh(sessions[s]) => e.sticky = None /\ e.turns = 0
  BY PurgedTyped, NewEntryType DEF Fresh
<1>2. PICK age \in Nat : NextTurn(s, ttl) = [e EXCEPT !.turns = t, !.age = age, !.ttl = ttl]
  BY DEF NextTurn
<1> HIDE DEF e
<1>3. t \in Nat /\ e.sticky \in Endpoints \cup {None}
  BY <1>1 DEF Entry
<1>4. /\ NextTurn(s, ttl) \in Entry
      /\ NextTurn(s, ttl).turns = t /\ NextTurn(s, ttl).sticky = e.sticky
  <2> HIDE DEF t
  <2> QED  BY <1>1, <1>2, <1>3 DEF Entry
<1> QED  BY <1>1, <1>4

(* A success binds a session that is not bound, and leaves a binding.      *)
LEMMA RecordSuccessFacts ==
  ASSUME sessions \in [Sessions -> Entry \cup {None}], NEW s \in Sessions,
         NEW endpoint \in Endpoints, NEW ttl \in Nat \ {0}
  PROVE  /\ RecordSuccess(s, endpoint, ttl) \in Entry
         /\ sessions[s] # None =>
              RecordSuccess(s, endpoint, ttl).sticky =
                (IF sessions[s].sticky = None THEN endpoint ELSE sessions[s].sticky)
<1> DEFINE e == IF sessions[s] = None THEN NewEntry(ttl) ELSE sessions[s]
           sticky == IF e.sticky = None THEN endpoint ELSE e.sticky
<1>1. e \in Entry /\ (sessions[s] # None => e = sessions[s])
  BY NewEntryType
<1>2. PICK age \in Nat :
        RecordSuccess(s, endpoint, ttl) = [e EXCEPT !.age = age, !.ttl = ttl, !.sticky = sticky]
  BY DEF RecordSuccess
<1> HIDE DEF e
<1>3. e.turns \in Nat /\ sticky \in Endpoints \cup {None}
  BY <1>1 DEF Entry
<1>4. RecordSuccess(s, endpoint, ttl) \in Entry /\ RecordSuccess(s, endpoint, ttl).sticky = sticky
  <2> HIDE DEF sticky
  <2> QED  BY <1>1, <1>2, <1>3 DEF Entry
<1> QED  BY <1>1, <1>4

LEMMA StickyTyped ==
  ASSUME sessions \in [Sessions -> Entry \cup {None}], NEW s \in Sessions, NEW ttl
  PROVE  StickyEndpoint(s, ttl) \in Endpoints \cup {None}
BY PurgedTyped DEF StickyEndpoint, Entry

LEMMA LongestNat == Longest \in Nat
<1>1. PICK p \in Pools : \A q \in Pools : q.ttl <= p.ttl
  BY AffinityAssumption
<1>2. p.ttl \in {q.ttl : q \in Pools} /\ \A q \in Pools : q.ttl <= p.ttl
  BY <1>1
<1>3. Longest \in {q.ttl : q \in Pools}
  BY <1>2 DEF Longest
<1> QED  BY <1>3, PoolTyped

----------------------------------------------------------------------------
(* Type correctness.                                                       *)

LEMMA TypedInit == Init => Typed
BY AffinityAssumption DEF Init, Typed, StoresTyped, HandlersTyped, Places

LEMMA TypedAdmit ==
  ASSUME Typed, NEW h \in Handlers, Admit(h)
  PROVE  Typed'
<1>1. PICK kind \in {"chat", "responses"}, p \in Prompts, s \in Sessions \cup {None} :
        req' = [req EXCEPT ![h] = Arrived(kind, p, s)]
  BY DEF Admit
<1> DEFINE g == OwnHint(p, Budget(spent) = "soft")
           r == [kind |-> kind, prompt |-> p, session |-> s, pool |-> pool, hint |-> g, seen |-> None,
                 options |-> {}, endpoint |-> None, tried |-> {}, ok |-> FALSE]
<1>2. p \in Prompt /\ p.tools \in BOOLEAN /\ p.tokens \in Nat /\ Difficulty(p) \in 0..1000
  BY AffinityAssumption, DifficultyType DEF Prompt
<1>3. g \in Hint /\ g.tools = p.tools /\ g.affinity = FALSE
  BY <1>2 DEF OwnHint, Hint
<1>4. req' = [req EXCEPT ![h] = r]
  BY <1>1 DEF Arrived
<1> HIDE DEF g
<1>5. r \in Request /\ r.hint = g /\ r.prompt = p
  BY <1>3 DEF Request, Typed, StoresTyped
<1> HIDE DEF r
<1>6. Held("admitted", r) /\ "admitted" \in Places
  BY <1>3, <1>5 DEF Held, Places
<1>7. pc' = [pc EXCEPT ![h] = "admitted"]
  BY DEF Admit, Goto
<1>8. HandlersTyped'
  BY <1>4, <1>6, <1>7, HandlerStep DEF Typed
<1>9. StoresTyped'
  BY AffinityAssumption DEF Admit, Typed, StoresTyped, hintVars
<1> QED  BY <1>8, <1>9 DEF Typed

LEMMA TypedLook ==
  ASSUME Typed, NEW h \in Handlers, Look(h)
  PROVE  Typed'
<1> DEFINE sticky == IF req[h].session = None THEN None
                     ELSE StickyEndpoint(req[h].session, req[h].pool.ttl)
           g(d) == [req[h].hint EXCEPT !.difficulty = d, !.affinity = AffinityEnabled(h),
                                       !.sticky = sticky]
           r(d) == [req[h] EXCEPT !.hint = g(d)]
           l == IF req[h].session = None THEN "counted" ELSE "looked"
<1>1. pc[h] = "admitted" /\ Held(pc[h], req[h]) /\ sessions \in [Sessions -> Entry \cup {None}]
      /\ req \in [Handlers -> Request \cup {None}]
  BY DEF Typed, StoresTyped, HandlersTyped, Look
<1>2. /\ req[h] \in Request /\ req[h].hint \in Hint /\ req[h].hint.tools = req[h].prompt.tools
      /\ req[h].session \in Sessions \cup {None}
  BY <1>1 DEF Held, Request
<1>3. PICK d \in Difficulties(h) :
        req' = [req EXCEPT ![h].hint = [@ EXCEPT !.difficulty = d, !.affinity = AffinityEnabled(h),
                                                 !.sticky = sticky]]
  BY DEF Look
<1>4. req' = [req EXCEPT ![h] = r(d)]
  BY <1>1, <1>3
<1>5. d \in 0..1000
  BY <1>2 DEF Difficulties, JudgeTiers, Hint
<1>6. sticky \in Endpoints \cup {None}
  BY <1>1, <1>2, StickyTyped
<1>7. AffinityEnabled(h) \in BOOLEAN /\ (AffinityEnabled(h) => req[h].session \in Sessions)
  <2>1. req[h].pool.affinity \in BOOLEAN
    BY <1>2, PoolTyped DEF Request, Pool
  <2> QED  BY <1>2, <2>1 DEF AffinityEnabled
<1>8. g(d) \in Hint /\ g(d).affinity = AffinityEnabled(h) /\ g(d).tools = req[h].hint.tools
  <2> DEFINE q == req[h].hint
             n == g(d)
             enabled == AffinityEnabled(h)
  <2>1. n = [q EXCEPT !.difficulty = d, !.affinity = enabled, !.sticky = sticky]
    OBVIOUS
  <2>2. enabled \in BOOLEAN /\ q \in Hint
    BY <1>2, <1>7
  <2> HIDE DEF n, enabled, sticky, q
  <2>3. n = [difficulty |-> d, tools |-> q.tools, input |-> q.input, output |-> q.output,
             downshift |-> q.downshift, affinity |-> enabled, sticky |-> sticky]
    BY <2>1, <2>2 DEF Hint
  <2>4. n \in Hint /\ n.affinity = enabled /\ n.tools = q.tools
    BY <1>5, <1>6, <2>2, <2>3 DEF Hint
  <2> QED  BY <2>4 DEF n, enabled, q
<1> HIDE DEF g
<1>9. /\ r(d) \in Request /\ r(d).hint = g(d) /\ r(d).prompt = req[h].prompt
      /\ r(d).session = req[h].session
  BY <1>2, <1>8, RequestHinted
<1> HIDE DEF r
<1>10. Held(l, r(d)) /\ l \in Places
  BY <1>2, <1>7, <1>8, <1>9 DEF Held, Places
<1>11. pc' = [pc EXCEPT ![h] = l]
  BY DEF Look, Goto
<1> HIDE DEF l
<1>12. HandlersTyped'
  BY <1>4, <1>10, <1>11, HandlerStep DEF Typed
<1>13. sessions' \in [Sessions -> Entry \cup {None}]
  BY <1>1, PurgedTyped DEF Look
<1>14. StoresTyped'
  BY <1>13 DEF Look, Typed, StoresTyped, hintVars
<1> QED  BY <1>12, <1>14 DEF Typed

LEMMA TypedTurn ==
  ASSUME Typed, NEW h \in Handlers, CountTurn(h) \/ Install(h)
  PROVE  Typed'
<1>0. /\ sessions \in [Sessions -> Entry \cup {None}]
      /\ req \in [Handlers -> Request \cup {None}] /\ pc[h] # "idle"
      /\ UNCHANGED <<pool, spent, req, served>>
  BY DEF Typed, StoresTyped, HandlersTyped, CountTurn, Install
<1>1. Held(pc[h], req[h]) /\ HandlersTyped
  BY <1>0 DEF Typed, HandlersTyped
<1>2. /\ req[h] \in Request /\ req[h].hint \in Hint /\ req[h].pool \in Pools
      /\ req' = [req EXCEPT ![h] = req[h]]
  BY <1>0, <1>1 DEF Held, Request
<1>3. Held("counted", req[h]) /\ Held("installed", req[h]) /\ {"counted", "installed"} \subseteq Places
  BY <1>1 DEF Held, Places
<1>4. HandlersTyped'
  <2>1. \E l \in {"counted", "installed"} : pc' = [pc EXCEPT ![h] = l]
    BY DEF CountTurn, Install, Goto
  <2> QED  BY <1>1, <1>2, <1>3, <2>1, HandlerStep
<1>5. CASE CountTurn(h)
  <2>1. req[h].session \in Sessions
    BY <1>1, <1>5 DEF Held, CountTurn
  <2>2. NextTurn(req[h].session, req[h].pool.ttl) \in Entry
    BY <1>0, <1>2, <2>1, PoolTyped, NextTurnFacts
  <2>3. sessions' \in [Sessions -> Entry \cup {None}]
    BY <1>0, <1>5, <2>2, PurgedTyped DEF CountTurn
  <2> QED  BY <1>0, <1>4, <1>5, <2>3 DEF CountTurn, Typed, StoresTyped, hintVars
<1>6. CASE Install(h)
  BY <1>0, <1>2, <1>4, <1>6 DEF Install, Typed, StoresTyped
<1> QED  BY <1>5, <1>6

LEMMA TypedDispatch ==
  ASSUME Typed, NEW h \in Handlers, Dispatch(h)
  PROVE  Typed'
<1>1. pc[h] = "installed" /\ Held(pc[h], req[h]) /\ pool \in Pools /\ HandlersTyped
      /\ req[h] \in Request
  BY DEF Typed, StoresTyped, HandlersTyped, Dispatch, Held
<1> DEFINE strategy == Canonical(pool.strategy)
           found == HintInForce(h)
<1>2. PICK metrics \in MetricTables : \E e \in Best(strategy, pool.members, found, metrics) :
        req' = [req EXCEPT ![h].seen = [pool |-> pool, metrics |-> metrics],
                           ![h].options = Candidates(strategy, pool.members, found, metrics),
                           ![h].endpoint = e, ![h].tried = {e}]
  BY DEF Dispatch
<1>p. PICK e \in Best(strategy, pool.members, found, metrics) :
        req' = [req EXCEPT ![h].seen = [pool |-> pool, metrics |-> metrics],
                           ![h].options = Candidates(strategy, pool.members, found, metrics),
                           ![h].endpoint = e, ![h].tried = {e}]
  BY <1>2
<1> DEFINE seen == [pool |-> pool, metrics |-> metrics]
           options == Candidates(strategy, pool.members, found, metrics)
           tried == {e}
           r == [req[h] EXCEPT !.seen = seen, !.options = options, !.endpoint = e, !.tried = tried]
<1>3. e \in options /\ options \in SUBSET Endpoints /\ seen \in [pool : Pools, metrics : MetricTables]
      /\ seen.pool = pool /\ seen.metrics = metrics /\ e \in Endpoints /\ tried \in SUBSET Endpoints
  BY <1>1, CandidatesTyped
<1>4. req' = [req EXCEPT ![h] = r]
  <2> HIDE DEF found, strategy
  <2> QED  BY <1>1, <1>p DEF HandlersTyped
<1>5. tried = {e}
  OBVIOUS
<1>6. req[h].kind = "chat" => found = req[h].hint
  BY DEF HintInForce
<1>7. e \in Best(strategy, pool.members, found, metrics)
      /\ options = Candidates(strategy, pool.members, found, metrics)
      /\ strategy = Canonical(pool.strategy)
  OBVIOUS
<1> HIDE DEF seen, options, tried, found, strategy
<1>8. /\ r \in Request
      /\ r.seen = seen /\ r.options = options /\ r.endpoint = e /\ r.tried = tried
      /\ r.kind = req[h].kind /\ r.prompt = req[h].prompt /\ r.session = req[h].session
      /\ r.pool = req[h].pool /\ r.hint = req[h].hint
  <2> DEFINE q == req[h]
  <2>1. r = [q EXCEPT !.seen = seen, !.options = options, !.endpoint = e, !.tried = tried]
    OBVIOUS
  <2>2. q \in Request
    BY <1>1
  <2> HIDE DEF r, q
  <2>3. /\ r \in Request
        /\ r.seen = seen /\ r.options = options /\ r.endpoint = e /\ r.tried = tried
        /\ r.kind = q.kind /\ r.prompt = q.prompt /\ r.session = q.session
        /\ r.pool = q.pool /\ r.hint = q.hint
    BY <1>3, <2>1, <2>2 DEF Request
  <2> QED  BY <2>3 DEF q
<1> HIDE DEF r
<1>9. Scored(r)
  BY <1>3, <1>5, <1>6, <1>7, <1>8 DEF Scored
<1>10. Held("sent", r) /\ "sent" \in Places
  BY <1>1, <1>3, <1>8, <1>9 DEF Held, Places
<1>11. pc' = [pc EXCEPT ![h] = "sent"]
  BY DEF Dispatch, Goto
<1>12. HandlersTyped'
  BY <1>1, <1>4, <1>10, <1>11, HandlerStep
<1> QED  BY <1>12 DEF Dispatch, Typed, StoresTyped, hintVars

LEMMA TypedFallBack ==
  ASSUME Typed, NEW h \in Handlers, FallBack(h)
  PROVE  Typed'
<1>1. pc[h] = "sent" /\ Held(pc[h], req[h]) /\ HandlersTyped
      /\ req[h] \in Request /\ Scored(req[h]) /\ pc \in [Handlers -> Places]
  BY DEF Typed, HandlersTyped, FallBack, Held
<1>2. PICK e \in req[h].options \ req[h].tried :
        req' = [req EXCEPT ![h].endpoint = e, ![h].tried = @ \cup {e}]
  BY DEF FallBack
<1> DEFINE tried == req[h].tried \cup {e}
           r == [req[h] EXCEPT !.endpoint = e, !.tried = tried]
<1>3. e \in Endpoints /\ tried \in SUBSET Endpoints
  BY <1>1 DEF Request
<1>4. req' = [req EXCEPT ![h] = r]
  BY <1>1, <1>2 DEF HandlersTyped
<1>5. e \in tried /\ tried \subseteq req[h].options /\ tried # {e}
  BY <1>1 DEF Scored
<1> HIDE DEF tried
<1>6. /\ r \in Request /\ r.endpoint = e /\ r.tried = tried
      /\ r.seen = req[h].seen /\ r.options = req[h].options
      /\ r.kind = req[h].kind /\ r.prompt = req[h].prompt /\ r.session = req[h].session
      /\ r.hint = req[h].hint
  <2> DEFINE q == req[h]
  <2>1. r = [q EXCEPT !.endpoint = e, !.tried = tried]
    OBVIOUS
  <2>2. q \in Request
    BY <1>1
  <2> HIDE DEF r, q
  <2>3. /\ r \in Request /\ r.endpoint = e /\ r.tried = tried
        /\ r.seen = q.seen /\ r.options = q.options
        /\ r.kind = q.kind /\ r.prompt = q.prompt /\ r.session = q.session
        /\ r.hint = q.hint
    BY <1>3, <2>1, <2>2 DEF Request
  <2> QED  BY <2>3 DEF q
<1> HIDE DEF r
<1>7. Scored(r)
  BY <1>1, <1>5, <1>6 DEF Scored
<1>8. Held("sent", r) /\ "sent" \in Places
  BY <1>1, <1>3, <1>6, <1>7 DEF Held, Places
<1>9. pc' = [pc EXCEPT ![h] = "sent"]
  BY <1>1 DEF FallBack
<1>10. HandlersTyped'
  BY <1>1, <1>4, <1>8, <1>9, HandlerStep
<1> QED  BY <1>10 DEF FallBack, Typed, StoresTyped, hintVars

LEMMA TypedReturn ==
  ASSUME Typed, NEW h \in Handlers, Return(h)
  PROVE  Typed'
<1>1. pc[h] = "sent" /\ Held(pc[h], req[h]) /\ HandlersTyped /\ req[h] \in Request
  BY DEF Typed, HandlersTyped, Return, Held
<1>2. PICK ok \in BOOLEAN :
        req' = [req EXCEPT ![h].ok = ok, ![h].seen = None, ![h].options = {}, ![h].tried = {}]
  BY DEF Return
<1> DEFINE r == [req[h] EXCEPT !.ok = ok, !.seen = None, !.options = {}, !.tried = {}]
<1>3. req' = [req EXCEPT ![h] = r]
  BY <1>1, <1>2 DEF HandlersTyped
<1>4. /\ r \in Request /\ r.endpoint = req[h].endpoint
      /\ r.prompt = req[h].prompt /\ r.session = req[h].session /\ r.hint = req[h].hint
  BY <1>1, RequestReturned
<1> HIDE DEF r
<1>5. Held("returned", r) /\ "returned" \in Places
  BY <1>1, <1>4 DEF Held, Places
<1>6. HandlersTyped'
  BY <1>1, <1>3, <1>5, HandlerStep DEF Return, Goto
<1> QED  BY <1>6 DEF Return, Typed, StoresTyped

(* What a request adds to the spend.                                       *)
LEMMA EstimateType ==
  ASSUME NEW h \in Handlers, req[h] \in Request, req[h].endpoint \in Endpoints,
         NEW hits \in ReportedHits
  PROVE  EstimatedCost(h, hits) \in 0..Dearest
<1> DEFINE e == req[h].endpoint
           price == Profiles[e].price
<1>1. req[h].prompt \in Prompts /\ req[h].prompt \in Prompt /\ req[h].prompt.tokens \in Nat /\ hits \in Nat
  BY AffinityAssumption DEF Request, Prompt
<1>2. price \in Price \cup {None}
  BY RoutingAssumption DEF EndpointProfile
<1>3. CASE price = None
  BY <1>3, AffinityAssumption DEF EstimatedCost
<1>4. CASE price # None
  <2>1. EstimatedCost(h, hits) = CalculateCost(price, req[h].prompt.tokens, 5, hits)
    BY <1>4 DEF EstimatedCost
  <2>2. CalculateCost(price, req[h].prompt.tokens, 5, hits) <= Dearest
    BY <1>1, <1>4, AffinityAssumption DEF IsPriced
  <2>3. 5 \in Nat
    OBVIOUS
  <2>4. CalculateCost(price, req[h].prompt.tokens, 5, hits) \in Nat
    BY <1>1, <1>2, <1>4, <2>3, CostType
  <2> QED  BY <2>1, <2>2, <2>4, AffinityAssumption
<1> QED  BY <1>3, <1>4

LEMMA TypedFinish ==
  ASSUME Typed, NEW h \in Handlers, Finish(h)
  PROVE  Typed'
<1>1. pc[h] = "returned" /\ Held(pc[h], req[h]) /\ HandlersTyped /\ req[h] \in Request
      /\ req[h].endpoint \in Endpoints /\ sessions \in [Sessions -> Entry \cup {None}]
      /\ req[h].pool \in Pools
  BY DEF Typed, HandlersTyped, StoresTyped, Finish, Held, Request
<1>2. sessions' \in [Sessions -> Entry \cup {None}]
  <2>1. CASE req[h].ok /\ req[h].hint.affinity
    <3>1. req[h].session \in Sessions
      BY <1>1, <2>1 DEF Held
    <3>2. RecordSuccess(req[h].session, req[h].endpoint, req[h].pool.ttl) \in Entry
      BY <1>1, <3>1, PoolTyped, RecordSuccessFacts
    <3> QED  BY <1>1, <2>1, <3>2 DEF Finish
  <2>2. CASE ~(req[h].ok /\ req[h].hint.affinity)
    BY <1>1, <2>2 DEF Finish
  <2> QED  BY <2>1, <2>2
<1>3. spent' \in Nat
  <2>1. spent \in Nat /\ \A hits \in ReportedHits : EstimatedCost(h, hits) \in Nat
    BY <1>1, EstimateType DEF Typed, StoresTyped
  <2>2. UNCHANGED spent \/ \E hits \in ReportedHits : spent' = spent + EstimatedCost(h, hits)
    BY DEF Finish
  <2> QED  BY <2>1, <2>2
<1>4. HandlersTyped'
  BY <1>1, EndTyped DEF Finish
<1> QED  BY <1>2, <1>3, <1>4 DEF Finish, Typed, StoresTyped, hintVars

LEMMA TypedRest ==
  ASSUME Typed, Refuse \/ Tick \/ Midnight \/ Reload \/ Restart \/ UNCHANGED vars
                  \/ \E h \in Handlers : Drop(h)
  PROVE  Typed'
<1>1. CASE Refuse \/ Midnight \/ Reload \/ UNCHANGED vars
  BY <1>1, AffinityAssumption
     DEF Refuse, Midnight, Reload, vars, hintVars, Typed, StoresTyped, HandlersTyped
<1>2. CASE Tick
  <2>1. HandlersTyped'
    BY <1>2 DEF Tick, Typed, HandlersTyped
  <2>2. ASSUME NEW s \in Sessions PROVE sessions'[s] \in Entry \cup {None}
    <3>1. CASE sessions[s] = None
      BY <1>2, <3>1 DEF Tick
    <3>2. CASE sessions[s] # None
      <4>1. sessions[s] \in Entry /\ sessions'[s] = [sessions[s] EXCEPT !.age = Least(@ + 1, Longest)]
        BY <1>2, <3>2 DEF Tick, Typed, StoresTyped
      <4>2. Least(sessions[s].age + 1, Longest) \in Nat
        <5>1. \E q \in Sessions : sessions[q] # None /\ sessions[q].age < Longest
          BY <1>2 DEF Tick
        <5> QED  BY <4>1, LongestNat DEF Least, Entry
      <4> QED  BY <4>1, <4>2 DEF Entry
    <3> QED  BY <3>1, <3>2
  <2>3. sessions' = [s \in Sessions |-> sessions'[s]]
    BY <1>2 DEF Tick
  <2>4. sessions' \in [Sessions -> Entry \cup {None}]
    BY <2>2, <2>3
  <2> QED  BY <1>2, <2>1, <2>4 DEF Tick, Typed, StoresTyped, hintVars
<1>3. CASE Restart
  BY <1>3, AffinityAssumption DEF Restart, Typed, StoresTyped, HandlersTyped, Places
<1>4. ASSUME NEW h \in Handlers, Drop(h) PROVE Typed'
  BY <1>4, EndTyped DEF Drop, Typed, StoresTyped
<1> QED  BY <1>1, <1>2, <1>3, <1>4

LEMMA TypedStep == Typed /\ [Next]_vars => Typed'
BY TypedAdmit, TypedLook, TypedTurn, TypedDispatch, TypedFallBack, TypedReturn, TypedFinish,
   TypedRest DEF Next, Handle

LEMMA AlwaysTyped == Spec => []Typed
<1>1. Init => Typed
  BY TypedInit
<1> QED  BY <1>1, TypedStep, PTL DEF Spec

(* The state is well typed at every step.                                  *)
THEOREM AffinityTypeCorrect == Spec => []TypeOK
<1>1. Typed => TypeOK
  BY AffinityAssumption DEF Typed, StoresTyped, HandlersTyped, Held, TypeOK
<1> QED  BY <1>1, AlwaysTyped, PTL

(* No attempt of a chat, fallbacks included, is at an endpoint without the *)
(* tools it needs or that was cooling down, whatever the hints of other    *)
(* requests are (evaluate's exclusions).                                   *)
THEOREM ToolsAreHonoured == Spec => []ToolsHonoured
<1>1. Typed => ToolsHonoured
  <2> SUFFICES ASSUME Typed, NEW h \in Handlers, pc[h] = "sent", req[h].kind = "chat",
                      NEW e \in req[h].tried
               PROVE  /\ req[h].prompt.tools => Profiles[e].tools # "no"
                      /\ ~req[h].seen.metrics[e].cooling
    BY DEF ToolsHonoured
  <2>1. Scored(req[h]) /\ req[h].hint.tools = req[h].prompt.tools
    BY DEF Typed, HandlersTyped, Held
  <2>2. e \in Candidates(Canonical(req[h].seen.pool.strategy), req[h].seen.pool.members,
                         req[h].hint, req[h].seen.metrics)
    BY <2>1 DEF Scored
  <2> QED  BY <2>1, <2>2 DEF Candidates, LacksTools
<1> QED  BY <1>1, AlwaysTyped, PTL

(* A hard chat goes first to an endpoint of the pool's top capability if   *)
(* one is healthy and has the tools: neither the budget nor the session    *)
(* nor another request's hint takes it away (evaluate).                    *)
THEOREM HardChatsAreServed == Spec => []HardChatsStayCapable
<1>1. Typed => HardChatsStayCapable
  <2> SUFFICES ASSUME Typed, NEW h \in Handlers,
                      pc[h] = "sent", req[h].kind = "chat", req[h].tried = {req[h].endpoint},
                      Canonical(req[h].seen.pool.strategy) = "capability_aware",
                      IsHard(req[h].hint.difficulty),
                      NEW a \in Qualified("capability_aware", req[h].seen.pool.members,
                                          req[h].hint.difficulty),
                      ~req[h].seen.metrics[a].cooling,
                      req[h].prompt.tools => Profiles[a].tools # "no"
               PROVE  /\ req[h].endpoint \in Qualified("capability_aware", req[h].seen.pool.members,
                                                       req[h].hint.difficulty)
                      /\ ~req[h].seen.metrics[req[h].endpoint].cooling
                      /\ req[h].prompt.tools => Profiles[req[h].endpoint].tools # "no"
    BY DEF HardChatsStayCapable
  <2> DEFINE members == req[h].seen.pool.members
             g == req[h].hint
             metrics == req[h].seen.metrics
             b == req[h].endpoint
  <2>1. Scored(req[h]) /\ g.tools = req[h].prompt.tools /\ req[h] \in Request
    BY DEF Typed, HandlersTyped, Held
  <2>2. req[h].seen.pool \in Pools /\ metrics \in MetricTables
    BY <2>1 DEF Scored
  <2>3. /\ b \in Best("capability_aware", members, g, metrics)
        /\ b \in Candidates("capability_aware", members, g, metrics)
    BY <2>1 DEF Scored, Best
  <2>4. members \in SUBSET Endpoints /\ g \in Hint /\ metrics \in [Endpoints -> Metric]
    BY <2>1, <2>2, PoolTyped, AffinityAssumption DEF Request
  <2>5. ~LacksTools(a, g)
    BY <2>1 DEF LacksTools
  <2>6. b \in Qualified("capability_aware", members, g.difficulty)
    <3> HIDE DEF members, g, metrics, b
    <3>1. IsHard(g.difficulty) /\ a \in Qualified("capability_aware", members, g.difficulty)
          /\ ~metrics[a].cooling
      BY DEF members, g, metrics
    <3> QED  BY <2>3, <2>4, <2>5, <3>1, HardBest
  <2> QED  BY <2>1, <2>3, <2>6 DEF Candidates, LacksTools
<1> QED  BY <1>1, AlwaysTyped, PTL

----------------------------------------------------------------------------
(* Sessions.                                                               *)

(* What a step may do to a session's binding.                              *)
Kept(s) ==
  sessions[s] # None /\ sessions'[s] # None =>
    LET old == sessions[s].sticky
        new == sessions'[s].sticky
    IN  new # old =>
          \/ ~Fresh(sessions[s]) /\ sessions'[s].turns = 1 /\ new = None
          \/ /\ old = None
             /\ \E h \in Handlers :
                  /\ pc[h] = "returned" /\ req[h].ok /\ req[h].session = s
                  /\ req[h].endpoint = new

LEMMA KeptStep ==
  ASSUME Typed, [Next]_vars
  PROVE  \A s \in Sessions : Kept(s)
<1>1. sessions \in [Sessions -> Entry \cup {None}]
  BY DEF Typed, StoresTyped
<1>2. ASSUME UNCHANGED sessions
      PROVE  \A s \in Sessions : Kept(s)
  BY <1>2 DEF Kept
<1>3. ASSUME NEW h \in Handlers, Look(h)
      PROVE  \A s \in Sessions : Kept(s)
  <2>1. sessions' = sessions \/ sessions' = Purged
    BY <1>3 DEF Look
  <2> QED  BY <1>1, <1>2, <2>1, PurgedTyped DEF Kept
<1>4. ASSUME NEW h \in Handlers, CountTurn(h)
      PROVE  \A s \in Sessions : Kept(s)
  <2> DEFINE own == req[h].session
             ttl == req[h].pool.ttl
  <2>1. Held("looked", req[h]) /\ sessions' = [Purged EXCEPT ![own] = NextTurn(own, ttl)]
    BY <1>4 DEF CountTurn, Typed, HandlersTyped
  <2>2. own \in Sessions /\ ttl \in Nat \ {0}
    BY <2>1, PoolTyped DEF Held, Request
  <2>3. ASSUME NEW s \in Sessions PROVE Kept(s)
    <3>1. CASE s = own
      <4>1. sessions'[s] = NextTurn(s, ttl)
        BY <1>1, <2>1, <3>1, PurgedTyped
      <4> QED  BY <1>1, <2>2, <4>1, NextTurnFacts DEF Kept
    <3>2. CASE s # own
      BY <1>1, <2>1, <3>2, PurgedTyped DEF Kept
    <3> QED  BY <3>1, <3>2
  <2> QED  BY <2>3
<1>5. ASSUME NEW h \in Handlers, Finish(h)
      PROVE  \A s \in Sessions : Kept(s)
  <2>1. Held("returned", req[h]) /\ pc[h] = "returned"
    BY <1>5 DEF Finish, Typed, HandlersTyped
  <2>2. CASE req[h].ok /\ req[h].hint.affinity
    <3> DEFINE own == req[h].session
               ttl == req[h].pool.ttl
               endpoint == req[h].endpoint
    <3>1. own \in Sessions /\ ttl \in Nat \ {0} /\ endpoint \in Endpoints
      BY <2>1, <2>2, PoolTyped DEF Held, Request
    <3>2. sessions' = [sessions EXCEPT ![own] = RecordSuccess(own, endpoint, ttl)]
      BY <1>5, <2>2 DEF Finish
    <3>3. ASSUME NEW s \in Sessions PROVE Kept(s)
      <4>1. CASE s = own
        <5>1. sessions'[s] = RecordSuccess(s, endpoint, ttl)
          BY <1>1, <3>2, <4>1
        <5>2. sessions[s] # None =>
                sessions'[s].sticky = (IF sessions[s].sticky = None THEN endpoint ELSE sessions[s].sticky)
          BY <1>1, <3>1, <5>1, RecordSuccessFacts
        <5> QED  BY <2>1, <2>2, <4>1, <5>2 DEF Kept
      <4>2. CASE s # own
        BY <1>1, <3>2, <4>2 DEF Kept
      <4> QED  BY <4>1, <4>2
    <3> QED  BY <3>3
  <2>3. CASE ~(req[h].ok /\ req[h].hint.affinity)
    BY <1>2, <1>5, <2>3 DEF Finish
  <2> QED  BY <2>2, <2>3
<1>6. ASSUME Tick
      PROVE  \A s \in Sessions : Kept(s)
  <2>1. ASSUME NEW s \in Sessions, sessions[s] # None
        PROVE  sessions'[s].sticky = sessions[s].sticky
    <3>1. sessions[s] \in Entry /\ sessions'[s] = [sessions[s] EXCEPT !.age = Least(@ + 1, Longest)]
      BY <1>1, <1>6, <2>1 DEF Tick
    <3> QED  BY <3>1 DEF Entry
  <2> QED  BY <2>1 DEF Kept
<1>7. ASSUME Restart
      PROVE  \A s \in Sessions : Kept(s)
  BY <1>7 DEF Restart, Kept
<1>8. ASSUME NEW h \in Handlers,
             Admit(h) \/ Install(h) \/ Drop(h) \/ Dispatch(h) \/ FallBack(h) \/ Return(h)
      PROVE  UNCHANGED sessions
  BY <1>8 DEF Admit, Install, Drop, Dispatch, FallBack, Return
<1>9. Refuse \/ Midnight \/ Reload \/ UNCHANGED vars => UNCHANGED sessions
  BY DEF Refuse, Midnight, Reload, vars
<1> QED  BY <1>2, <1>3, <1>4, <1>5, <1>6, <1>7, <1>8, <1>9 DEF Next, Handle

(* A session is bound once and stays bound to an endpoint that answered it,*)
(* until it is purged, with any number of its requests under way           *)
(* (next_turn_index, record_success).                                      *)
THEOREM SessionsAreKept == Spec => SessionKept
<1>1. Typed /\ [Next]_vars =>
        [\A s \in Sessions :
           sessions[s] # None /\ sessions'[s] # None =>
             LET old == sessions[s].sticky
                 new == sessions'[s].sticky
             IN  new # old =>
                   \/ ~Fresh(sessions[s]) /\ sessions'[s].turns = 1 /\ new = None
                   \/ /\ old = None
                      /\ \E h \in Handlers :
                           /\ pc[h] = "returned" /\ req[h].ok /\ req[h].session = s
                           /\ req[h].endpoint = new]_vars
  BY KeptStep DEF Kept
<1> QED  BY <1>1, AlwaysTyped, PTL DEF Spec, SessionKept

----------------------------------------------------------------------------
(* The spend.                                                              *)

UnderWay == {h \in Handlers : pc[h] # "idle"}

(* What is spent, and what the requests under way may still spend.         *)
SpendInv ==
  \A limit \in {KeyLimit, ProjectLimit} \ {None, 0} :
    spent + Dearest * Cardinality(UnderWay) < limit + Dearest * Cardinality(Handlers)

LEMMA Counts ==
  ASSUME NEW A \in SUBSET Handlers
  PROVE  /\ Cardinality(A) \in Nat /\ Cardinality(Handlers) \in Nat
         /\ Cardinality(A) <= Cardinality(Handlers)
         /\ \A h \in A : Cardinality(A \ {h}) = Cardinality(A) - 1
<1>1. IsFiniteSet(Handlers) /\ IsFiniteSet(A) /\ Cardinality(A) <= Cardinality(Handlers)
  BY AffinityAssumption, FS_Subset
<1> QED  BY <1>1, FS_CardinalityType, FS_RemoveElement

LEMMA LimitsTyped ==
  /\ \A limit \in {KeyLimit, ProjectLimit} \ {None, 0} : limit \in Nat \ {0}
  /\ Dearest \in Nat /\ Cardinality(Handlers) \in Nat
BY AffinityAssumption, FS_CardinalityType

LEMMA Rates ==
  ASSUME NEW d \in Nat, NEW m \in Nat, NEW n \in Nat, m <= n
  PROVE  /\ d * m \in Nat /\ d * n \in Nat /\ d * m <= d * n
         /\ d * (m + 1) = d * m + d
OBVIOUS

(* A request that is let in finds less spent than either limit, unless one *)
(* of them is zero, which Budget takes for the absence of both.            *)
LEMMA NotHard ==
  ASSUME Typed, Budget(spent) # "hard", KeyLimit # 0, ProjectLimit # 0
  PROVE  \A limit \in {KeyLimit, ProjectLimit} \ {None, 0} : spent < limit
<1>1. KeyLimit \in Nat \cup {None} /\ ProjectLimit \in Nat \cup {None} /\ None \notin Nat /\ spent \in Nat
  BY AffinityAssumption, RoutingAssumption DEF Typed, StoresTyped
<1>2. ASSUME EffectiveDailyLimit \in Nat \ {0}
      PROVE  spent < EffectiveDailyLimit
  BY <1>1, <1>2 DEF Budget
<1>3. CASE KeyLimit = None /\ ProjectLimit = None
  BY <1>3
<1>4. CASE KeyLimit = None /\ ProjectLimit # None
  <2>1. EffectiveDailyLimit = ProjectLimit
    BY <1>4 DEF EffectiveDailyLimit
  <2> QED  BY <1>1, <1>2, <1>4, <2>1
<1>5. CASE KeyLimit # None /\ ProjectLimit = None
  <2>1. EffectiveDailyLimit = KeyLimit
    BY <1>5 DEF EffectiveDailyLimit
  <2> QED  BY <1>1, <1>2, <1>5, <2>1
<1>6. CASE KeyLimit # None /\ ProjectLimit # None
  <2>1. EffectiveDailyLimit = Least(KeyLimit, ProjectLimit)
    BY <1>6 DEF EffectiveDailyLimit
  <2>2. /\ EffectiveDailyLimit \in Nat \ {0}
        /\ EffectiveDailyLimit <= KeyLimit /\ EffectiveDailyLimit <= ProjectLimit
    BY <1>1, <1>6, <2>1 DEF Least
  <2>3. spent < EffectiveDailyLimit
    BY <1>2, <2>2
  <2> QED  BY <1>1, <1>6, <2>2, <2>3
<1> QED  BY <1>3, <1>4, <1>5, <1>6

LEMMA SpendInit == Init => SpendInv
<1> SUFFICES ASSUME Init PROVE SpendInv
  OBVIOUS
<1>1. UnderWay = {} /\ spent = 0
  BY DEF Init, UnderWay
<1>2. Cardinality(UnderWay) = 0
  BY <1>1, FS_EmptySet
<1>3. Dearest * 0 = 0 /\ Dearest * Cardinality(Handlers) \in Nat
  BY LimitsTyped, Products
<1>4. spent + Dearest * Cardinality(UnderWay) = 0
  BY <1>1, <1>2, <1>3
<1> DEFINE full == Dearest * Cardinality(Handlers)
<1>5. \A limit \in {KeyLimit, ProjectLimit} \ {None, 0} : 0 < limit + full
  <2>1. full \in Nat
    BY <1>3
  <2> HIDE DEF full
  <2> QED  BY <2>1, LimitsTyped
<1> QED  BY <1>4, <1>5 DEF SpendInv

(* Steps that add nothing, or as much as one request that comes to its end.*)
LEMMA SpendEnds ==
  ASSUME SpendInv, Typed, NEW more \in 0..Dearest, spent' = spent + more,
         NEW h \in UnderWay, UnderWay' = UnderWay \ {h}
  PROVE  SpendInv'
<1> DEFINE m == Cardinality(UnderWay)
           d == Dearest
           full == Dearest * Cardinality(Handlers)
<1>1. UnderWay \in SUBSET Handlers
  BY DEF UnderWay
<1>2. m \in Nat /\ Cardinality(UnderWay') = m - 1 /\ m - 1 \in Nat
  <2>1. m \in Nat /\ Cardinality(UnderWay \ {h}) = m - 1 /\ Cardinality(UnderWay \ {h}) \in Nat
    <3>1. UnderWay \ {h} \in SUBSET Handlers
      BY <1>1
    <3> QED  BY <1>1, <3>1, Counts
  <2> QED  BY <2>1
<1>3. d \in Nat /\ full \in Nat /\ spent \in Nat
  BY LimitsTyped, Products DEF Typed, StoresTyped
<1> HIDE DEF m, d, full
<1>4. d * m = d * (m - 1) + d /\ d * (m - 1) \in Nat
  <2>1. \A n \in Nat : d * (n + 1) = d * n + d /\ d * n \in Nat
    BY <1>3, Products
  <2>2. (m - 1) + 1 = m
    BY <1>2
  <2> QED  BY <1>2, <2>1, <2>2
<1>5. ASSUME NEW limit \in {KeyLimit, ProjectLimit} \ {None, 0}
      PROVE  spent' + d * (m - 1) < limit + full
  <2>1. spent + d * m < limit + full /\ limit \in Nat
    BY LimitsTyped DEF SpendInv, m, d, full
  <2>2. more \in Nat /\ more <= d
    BY <1>3 DEF d
  <2> DEFINE rest == d * (m - 1)
  <2>3. rest \in Nat /\ spent + (rest + d) < limit + full
    BY <1>4, <2>1
  <2> HIDE DEF rest
  <2>4. spent + more + rest < limit + full
    BY <1>3, <2>1, <2>2, <2>3
  <2> QED  BY <2>4 DEF rest
<1>6. Cardinality(UnderWay)' = m - 1 /\ d * Cardinality(Handlers) = full
  BY <1>2 DEF full, d
<1> QED  BY <1>5, <1>6 DEF SpendInv, d, full

LEMMA SpendAdmit ==
  ASSUME Typed, NEW h \in Handlers, Admit(h), KeyLimit # 0, ProjectLimit # 0
  PROVE  SpendInv'
<1>1. \A limit \in {KeyLimit, ProjectLimit} \ {None, 0} : spent < limit
  BY NotHard DEF Admit
<1>2. spent' = spent /\ spent \in Nat
  BY DEF Admit, Typed, StoresTyped
<1> DEFINE n == Cardinality(UnderWay')
<1>3. n \in Nat /\ Cardinality(Handlers) \in Nat /\ n <= Cardinality(Handlers)
  <2>1. UnderWay' \in SUBSET Handlers
    BY DEF UnderWay
  <2> QED  BY <2>1, Counts
<1>4. Dearest * n \in Nat /\ Dearest * Cardinality(Handlers) \in Nat
      /\ Dearest * n <= Dearest * Cardinality(Handlers)
  BY <1>3, LimitsTyped, Rates
<1>5. ASSUME NEW limit \in {KeyLimit, ProjectLimit} \ {None, 0}
      PROVE  spent' + Dearest * n < limit + Dearest * Cardinality(Handlers)
  <2> DEFINE x == Dearest * n
             y == Dearest * Cardinality(Handlers)
  <2>1. x \in Nat /\ y \in Nat /\ x <= y
    BY <1>4
  <2>2. spent < limit /\ limit \in Nat
    BY <1>1, LimitsTyped
  <2> HIDE DEF x, y
  <2>3. spent' + x < limit + y
    BY <1>2, <2>1, <2>2
  <2> QED  BY <2>3 DEF x, y
<1> QED  BY <1>5 DEF SpendInv

(* Nothing is spent any more, or no request is under way any more.         *)
LEMMA SpendLess ==
  ASSUME SpendInv, Typed, spent' \in {0, spent}, UnderWay' \in {{}, UnderWay}
  PROVE  SpendInv'
<1> DEFINE m == Cardinality(UnderWay)
           n == Cardinality(UnderWay')
           full == Dearest * Cardinality(Handlers)
<1>1. m \in Nat /\ n \in Nat /\ n <= m
  <2>1. UnderWay \in SUBSET Handlers
    BY DEF UnderWay
  <2>2. m \in Nat
    BY <2>1, Counts
  <2>3. n = 0 \/ n = m
    BY FS_EmptySet
  <2> QED  BY <2>2, <2>3
<1>2. Dearest * m \in Nat /\ Dearest * n \in Nat /\ Dearest * n <= Dearest * m /\ full \in Nat
  BY <1>1, LimitsTyped, Rates, Products
<1>3. spent \in Nat /\ spent' \in Nat /\ spent' <= spent
  BY DEF Typed, StoresTyped
<1>4. ASSUME NEW limit \in {KeyLimit, ProjectLimit} \ {None, 0}
      PROVE  spent' + Dearest * n < limit + full
  <2> DEFINE x == Dearest * n
             y == Dearest * m
  <2>1. /\ x \in Nat /\ y \in Nat /\ full \in Nat /\ limit \in Nat
        /\ x <= y /\ spent + y < limit + full
    BY <1>2, LimitsTyped DEF SpendInv
  <2> HIDE DEF x, y, full
  <2>2. \A a, b, l, f, u, v \in Nat : a <= b /\ u <= v /\ b + v < l + f => a + u < l + f
    OBVIOUS
  <2>3. spent' + x < limit + full
    BY <1>3, <2>1, <2>2
  <2> QED  BY <2>3 DEF x
<1> QED  BY <1>4 DEF SpendInv

LEMMA SpendStep ==
  ASSUME SpendInv, Typed, [Next]_vars, KeyLimit # 0, ProjectLimit # 0
  PROVE  SpendInv'
<1>0. pc \in [Handlers -> Places] /\ spent \in Nat
  BY DEF Typed, HandlersTyped, StoresTyped
<1>1. ASSUME NEW h \in Handlers,
             Look(h) \/ CountTurn(h) \/ Install(h) \/ Dispatch(h) \/ FallBack(h) \/ Return(h)
      PROVE  SpendInv'
  <2>1. /\ spent' = spent /\ pc[h] # "idle"
        /\ UNCHANGED pc \/ \E l \in Places \ {"idle"} : pc' = [pc EXCEPT ![h] = l]
    BY <1>1 DEF Look, CountTurn, Install, Dispatch, FallBack, Return, Goto, Places
  <2>2. UnderWay' = UnderWay
    BY <1>0, <2>1 DEF UnderWay
  <2> QED  BY <2>1, <2>2, SpendLess
<1>2. ASSUME NEW h \in Handlers, End(h), pc[h] # "idle"
      PROVE  h \in UnderWay /\ UnderWay' = UnderWay \ {h}
  BY <1>0, <1>2 DEF End, Goto, UnderWay
<1>3. ASSUME NEW h \in Handlers, Drop(h)
      PROVE  SpendInv'
  <2>1. End(h) /\ pc[h] # "idle" /\ spent' = spent + 0
    BY <1>0, <1>3 DEF Drop
  <2>2. 0 \in 0..Dearest
    BY LimitsTyped
  <2> QED  BY <1>2, <2>1, <2>2, SpendEnds
<1>4. ASSUME NEW h \in Handlers, Finish(h)
      PROVE  SpendInv'
  <2>1. End(h) /\ pc[h] = "returned"
    BY <1>4 DEF Finish
  <2>2. req[h] \in Request /\ req[h].endpoint \in Endpoints
    BY <2>1 DEF Typed, HandlersTyped, Held
  <2>3. \E more \in 0..Dearest : spent' = spent + more
    <3>1. UNCHANGED spent => spent' = spent + 0 /\ 0 \in 0..Dearest
      BY <1>0, LimitsTyped
    <3>2. UNCHANGED spent \/ \E hits \in ReportedHits : spent' = spent + EstimatedCost(h, hits)
      BY <1>4 DEF Finish
    <3> QED  BY <2>2, <3>1, <3>2, EstimateType
  <2> QED  BY <1>2, <2>1, <2>3, SpendEnds
<1>5. CASE Refuse \/ Tick \/ Midnight \/ Reload \/ Restart \/ UNCHANGED vars
  <2>1. spent' \in {0, spent}
    BY <1>5 DEF Refuse, Tick, Midnight, Reload, Restart, vars
  <2>2. UNCHANGED pc \/ \A h \in Handlers : pc'[h] = "idle"
    BY <1>5 DEF Refuse, Tick, Midnight, Reload, Restart, vars
  <2>3. UnderWay' \in {{}, UnderWay}
    BY <2>2 DEF UnderWay
  <2> QED  BY <2>1, <2>3, SpendLess
<1> QED  BY <1>1, <1>3, <1>4, <1>5, SpendAdmit DEF Next, Handle

(* With limits that are not zero, the spend exceeds neither by more than   *)
(* the requests under way cost (enforce_spend_budget, the finish hook).    *)
THEOREM SpendIsBounded ==
  ASSUME KeyLimit # 0, ProjectLimit # 0
  PROVE  Spec => []SpendBounded
<1>1. Typed /\ SpendInv => SpendBounded
  <2> SUFFICES ASSUME Typed, SpendInv, NEW limit \in {KeyLimit, ProjectLimit} \ {None, 0}
               PROVE  spent < limit + Dearest * Cardinality(Handlers)
    BY DEF SpendBounded
  <2> DEFINE x == Dearest * Cardinality(UnderWay)
             y == Dearest * Cardinality(Handlers)
  <2>1. spent + x < limit + y
    BY DEF SpendInv
  <2>2. UnderWay \in SUBSET Handlers
    BY DEF UnderWay
  <2>3. x \in Nat /\ y \in Nat /\ spent \in Nat /\ limit \in Nat
    BY <2>2, Counts, LimitsTyped, Products DEF Typed, StoresTyped
  <2> HIDE DEF x, y
  <2>4. spent < limit + y
    BY <2>1, <2>3
  <2> QED  BY <2>4 DEF y
<1>2. Typed /\ SpendInv /\ [Next]_vars => SpendInv'
  BY SpendStep
<1>3. Init => SpendInv
  BY SpendInit
<1> QED  BY <1>1, <1>2, <1>3, AlwaysTyped, PTL DEF Spec
=============================================================================
