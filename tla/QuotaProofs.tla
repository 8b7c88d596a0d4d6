---------------------------- MODULE QuotaProofs ----------------------------
(***************************************************************************)
(* Theorems about QuotaLifecycle, for every set of requests, keys and      *)
(* projects and for every limit.                                           *)
(***************************************************************************)
EXTENDS QuotaLifecycle, FunctionTheorems, FiniteSetTheorems, SequenceTheorems, WellFoundedInduction, TLAPS

----------------------------------------------------------------------------
(* The sliding window.                                                     *)

(* A set of natural numbers that is not empty has a least element.         *)
LEMMA LeastNat ==
  ASSUME NEW S \in SUBSET Nat, S # {}
  PROVE  \E i \in S : \A j \in S : i <= j
<1>1. PICK x \in S : \A y \in S : ~(<<y, x>> \in OpToRel(<, Nat))
  BY NatLessThanWellFounded, WFMin
<1>2. \A y \in S : ~(y < x)
  BY <1>1 DEF OpToRel
<1> QED  BY <1>2

(* prune_window leaves a window of instants, no longer than it was.        *)
LEMMA PruneType ==
  ASSUME NEW events \in Seq(Instants), NEW t \in Instants
  PROVE  Prune(events, t) \in Seq(Instants)
<1> DEFINE live == {i \in 1..Len(events) : t - events[i] < Window}
<1>1. CASE live = {}
  BY <1>1 DEF Prune
<1>2. CASE live # {}
  <2> DEFINE first == CHOOSE i \in live : \A j \in live : i <= j
  <2>1. live \in SUBSET Nat
    OBVIOUS
  <2>2. first \in live
    BY <1>2, <2>1, LeastNat
  <2>3. Len(events) \in Nat /\ \A i \in 1..Len(events) : events[i] \in Instants
    BY ElementOfSeq, LenProperties
  <2>4. SubSeq(events, first, Len(events)) \in Seq(Instants)
    <3>1. first \in 1..Len(events)
      BY <2>2
    <3> HIDE DEF first
    <3>2. \A i \in first..Len(events) : events[i] \in Instants
      BY <2>3, <3>1
    <3> QED  BY <2>3, <3>1, <3>2, SubSeqProperties
  <2> QED  BY <1>2, <2>4 DEF Prune
<1> QED  BY <1>1, <1>2

LEMMA EntryType ==
  ASSUME TypeOK, NEW s \in Scopes, NEW t \in Instants
  PROVE  Entry(s, t) \in RpmState /\ Prune(Entry(s, t).events, t) \in Seq(Instants)
<1>1. Entry(s, t) \in RpmState
  BY DEF TypeOK, Entry, RpmState, Option
<1> QED  BY <1>1, PruneType DEF RpmState

----------------------------------------------------------------------------
(* Type correctness.                                                       *)

LEMMA RequestType ==
  ASSUME TypeOK, NEW r \in Requests, pc[r] # "idle"
  PROVE  /\ KeyOf(r) \in Keys /\ ProjectOfRequest(r) \in Projects
         /\ KeyOf(r) \in Scopes /\ ProjectOfRequest(r) \in Scopes
         /\ req[r].now \in Instants
         /\ req[r].keyLimit \in KeyLimits /\ req[r].projectLimit \in ProjectLimits
BY QuotaAssumption DEF TypeOK, Request, KeyOf, ProjectOfRequest, Scopes

LEMMA WouldExceedRpmType ==
  ASSUME TypeOK, NEW r \in Requests, pc[r] # "idle",
         NEW s \in Scopes, NEW evict \in LimiterPc, NEW next \in LimiterPc,
         WouldExceedRpm(r, s, evict, next),
         UNCHANGED <<clock, limits, slots, own, admitted, engine, shadow, rel>>,
         evict # "idle", next # "idle"
  PROVE  TypeOK'
<1> DEFINE t == req[r].now
           events == Prune(Entry(s, t).events, t)
<1>1. t \in Instants /\ events \in Seq(Instants)
  BY RequestType, EntryType
<1>2. [events |-> events, last |-> t] \in RpmState
  BY <1>1 DEF RpmState
<1>3. window' \in [Scopes -> Option(RpmState)]
  <2> HIDE DEF events, t
  <2> QED BY <1>2 DEF WouldExceedRpm, TypeOK, Option, t, events
<1>4. /\ pc' \in [Requests -> LimiterPc \cup HandlerPc]
      /\ req' \in [Requests -> Option(Request)]
      /\ \A q \in Requests : pc'[q] # "idle" => req'[q] \in Request
  <2>1. \/ Leave(r)
        \/ UNCHANGED req /\ \E label \in {next, evict} : Goto(r, label)
    BY DEF WouldExceedRpm
  <2>2. CASE Leave(r)
    BY <2>2 DEF TypeOK, Goto, Leave, Option, LimiterPc
  <2>3. ASSUME UNCHANGED req, NEW label \in {next, evict}, Goto(r, label)
        PROVE  /\ pc' \in [Requests -> LimiterPc \cup HandlerPc]
               /\ req' \in [Requests -> Option(Request)]
               /\ \A q \in Requests : pc'[q] # "idle" => req'[q] \in Request
    BY <2>3 DEF TypeOK, Goto
  <2> QED  BY <2>1, <2>2, <2>3
<1> QED  BY <1>3, <1>4 DEF TypeOK, LimitsOf

LEMMA EvictIfEmptyType ==
  ASSUME TypeOK, NEW r \in Requests, pc[r] # "idle",
         NEW s \in Scopes, NEW next \in LimiterPc, next # "idle",
         EvictIfEmpty(r, s, next),
         UNCHANGED <<clock, limits, slots, own, admitted, engine, shadow, rel>>
  PROVE  TypeOK'
<1> DEFINE t == req[r].now
           events == Prune(Entry(s, t).events, t)
<1>1. t \in Instants /\ events \in Seq(Instants)
  BY RequestType, EntryType
<1>2. window[s] # None => [window[s] EXCEPT !.events = events] \in RpmState
  BY <1>1 DEF RpmState, TypeOK, Option
<1>3. window' \in [Scopes -> Option(RpmState)]
  <2> HIDE DEF events, t
  <2> QED BY <1>2 DEF EvictIfEmpty, TypeOK, Option, t, events
<1>4. /\ pc' \in [Requests -> LimiterPc \cup HandlerPc]
      /\ req' \in [Requests -> Option(Request)]
      /\ \A q \in Requests : pc'[q] # "idle" => req'[q] \in Request
  BY DEF EvictIfEmpty, TypeOK, Goto, Leave, Option, LimiterPc
<1> QED  BY <1>3, <1>4 DEF TypeOK, LimitsOf

LEMMA RecordRpmType ==
  ASSUME TypeOK, NEW r \in Requests, pc[r] # "idle",
         NEW s \in Scopes, NEW next \in LimiterPc, next # "idle",
         RecordRpm(r, s), Goto(r, next),
         UNCHANGED <<clock, limits, slots, req, own, engine, shadow, rel>>
  PROVE  TypeOK'
<1> DEFINE t == req[r].now
           events == Append(Prune(Entry(s, t).events, t), t)
<1>1. t \in Instants /\ events \in Seq(Instants)
  BY RequestType, EntryType, AppendProperties
<1>2. [events |-> events, last |-> t] \in RpmState
  BY <1>1 DEF RpmState
<1>3. window' \in [Scopes -> Option(RpmState)] /\ admitted' \in [Scopes -> [Instants -> Nat]]
  <2> HIDE DEF events
  <2>1. CASE LimitOf(r, s).rpm = None
    BY <2>1 DEF RecordRpm, TypeOK
  <2>2. CASE LimitOf(r, s).rpm # None
    <3>1. window' = [window EXCEPT ![s] = [events |-> events, last |-> t]]
      BY <2>2 DEF RecordRpm, events
    <3>2. admitted' = [admitted EXCEPT ![s][t] = @ + 1]
      BY <2>2 DEF RecordRpm
    <3> HIDE DEF t
    <3> QED  BY <1>1, <1>2, <3>1, <3>2 DEF TypeOK, Option
  <2> QED  BY <2>1, <2>2
<1>4. /\ pc' \in [Requests -> LimiterPc \cup HandlerPc]
      /\ \A q \in Requests : pc'[q] # "idle" => req'[q] \in Request
  BY DEF TypeOK, Goto, LimiterPc
<1> QED  BY <1>3, <1>4 DEF TypeOK, LimitsOf

LEMMA IncType ==
  ASSUME TypeOK, NEW r \in Requests, NEW s \in Scopes, Inc(r, s)
  PROVE  slots' \in [Scopes -> Nat] /\ own' \in [Requests -> SUBSET Scopes]
<1>1. slots' \in [Scopes -> Nat]
  BY DEF Inc, TypeOK
<1>2. own[r] \cup {s} \in SUBSET Scopes
  BY DEF TypeOK
<1> QED  BY <1>1, <1>2 DEF Inc, TypeOK

LEMMA DecType ==
  ASSUME TypeOK, NEW s, Dec(s)
  PROVE  slots' \in [Scopes -> Nat]
<1>1. CASE s \in Scopes
  <2>1. slots[s] \in Nat
    BY <1>1 DEF TypeOK
  <2>2. (IF slots[s] = 0 THEN 0 ELSE slots[s] - 1) \in Nat
    BY <2>1
  <2> QED  BY <2>2 DEF Dec, TypeOK
<1>2. CASE s \notin Scopes
  BY <1>2 DEF Dec, TypeOK
<1> QED  BY <1>1, <1>2

LEMMA GiveType ==
  ASSUME TypeOK, NEW r \in Requests, NEW s, own' = [own EXCEPT ![r] = @ \ {s}]
  PROVE  own' \in [Requests -> SUBSET Scopes]
<1>1. own[r] \ {s} \in SUBSET Scopes
  BY DEF TypeOK
<1> QED  BY <1>1 DEF TypeOK

LEMMA InitType == Init => TypeOK
<1> SUFFICES ASSUME Init PROVE TypeOK
  OBVIOUS
<1> USE QuotaAssumption DEF Init, LimiterInit
<1>1. clock \in Instants
  BY DEF Instants
<1>2. admitted \in [Scopes -> [Instants -> Nat]]
  OBVIOUS
<1>3. rel \in [Requests -> [Sources -> {"none", "key", "project"}]]
  OBVIOUS
<1> QED  BY <1>1, <1>2, <1>3 DEF TypeOK, LimitsOf, LimiterPc, Option

LEMMA LimiterType ==
  ASSUME TypeOK, NEW r \in Requests, Limiter(r)
  PROVE  TypeOK'
<1> USE DEF Limiter
<1>1. CASE Arrive(r)
  BY <1>1, QuotaAssumption DEF Arrive, Goto, TypeOK, Request, Option, LimiterPc, Scopes, LimitsOf
<1>2. CASE CheckProjectRpm(r)
  BY <1>2, RequestType, WouldExceedRpmType DEF CheckProjectRpm, LimiterPc
<1>3. CASE EvictProject(r)
  BY <1>3, RequestType, EvictIfEmptyType DEF EvictProject, LimiterPc
<1>4. CASE CheckKeyRpm(r)
  BY <1>4, RequestType, WouldExceedRpmType DEF CheckKeyRpm, LimiterPc
<1>5. CASE EvictKey(r)
  BY <1>5, RequestType, EvictIfEmptyType DEF EvictKey, LimiterPc
<1>6. CASE ReserveProject(r)
  <2>1. pc' \in [Requests -> LimiterPc \cup HandlerPc]
    BY <1>6 DEF ReserveProject, Goto, Leave, TypeOK, LimiterPc
  <2>2. /\ req' \in [Requests -> Option(Request)]
        /\ \A q \in Requests : pc'[q] # "idle" => req'[q] \in Request
    BY <1>6 DEF ReserveProject, Goto, Leave, TypeOK, Option
  <2>3. slots' \in [Scopes -> Nat] /\ own' \in [Requests -> SUBSET Scopes]
    BY <1>6, RequestType, IncType DEF ReserveProject, TypeOK
  <2> QED  BY <1>6, <2>1, <2>2, <2>3 DEF ReserveProject, TypeOK
<1>7. CASE ReserveKey(r)
  <2>1. pc' \in [Requests -> LimiterPc \cup HandlerPc]
    BY <1>7 DEF ReserveKey, Goto, Leave, TypeOK, LimiterPc
  <2>2. /\ req' \in [Requests -> Option(Request)]
        /\ \A q \in Requests : pc'[q] # "idle" => req'[q] \in Request
    BY <1>7 DEF ReserveKey, Goto, Leave, TypeOK, Option
  <2>3. slots' \in [Scopes -> Nat] /\ own' \in [Requests -> SUBSET Scopes]
    BY <1>7, RequestType, IncType DEF ReserveKey, TypeOK
  <2> QED  BY <1>7, <2>1, <2>2, <2>3 DEF ReserveKey, TypeOK
<1>8. CASE Rollback(r)
  <2>1. pc' \in [Requests -> LimiterPc \cup HandlerPc]
    BY <1>8 DEF Rollback, Goto, Leave, TypeOK, LimiterPc
  <2>2. /\ req' \in [Requests -> Option(Request)]
        /\ \A q \in Requests : pc'[q] # "idle" => req'[q] \in Request
    BY <1>8 DEF Rollback, Goto, Leave, TypeOK, Option
  <2>3. slots' \in [Scopes -> Nat] /\ own' \in [Requests -> SUBSET Scopes]
    BY <1>8, RequestType, DecType, GiveType DEF Rollback
  <2> QED  BY <1>8, <2>1, <2>2, <2>3 DEF Rollback, TypeOK
<1>9. CASE RecordProjectRpm(r)
  BY <1>9, RequestType, RecordRpmType DEF RecordProjectRpm, LimiterPc
<1>10. CASE RecordKeyRpm(r)
  BY <1>10, RequestType, RecordRpmType DEF RecordKeyRpm, LimiterPc
<1> QED  BY <1>1, <1>2, <1>3, <1>4, <1>5, <1>6, <1>7, <1>8, <1>9, <1>10 DEF TryAcquire

LEMMA RelType ==
  ASSUME TypeOK, NEW r \in Requests, NEW source \in Sources, NEW step \in {"none", "key", "project"},
         rel' = [rel EXCEPT ![r][source] = step]
  PROVE  rel' \in [Requests -> [Sources -> {"none", "key", "project"}]]
<1>1. [rel[r] EXCEPT ![source] = step] \in [Sources -> {"none", "key", "project"}]
  BY DEF TypeOK
<1> QED  BY <1>1 DEF TypeOK

LEMMA ReleaseType ==
  ASSUME TypeOK, NEW r \in Requests, Release(r)
  PROVE  TypeOK'
<1>1. PICK source \in Sources : ReleaseKey(r, source) \/ ReleaseProject(r, source)
  BY DEF Release
<1>2. own' \in [Requests -> SUBSET Scopes]
  BY <1>1, GiveType DEF ReleaseKey, ReleaseProject, GiveBack, TypeOK
<1>3. slots' \in [Scopes -> Nat]
  BY <1>1, DecType DEF ReleaseKey, ReleaseProject
<1>4. rel' \in [Requests -> [Sources -> {"none", "key", "project"}]]
  BY <1>1, RelType DEF ReleaseKey, ReleaseProject
<1> QED  BY <1>1, <1>2, <1>3, <1>4 DEF ReleaseKey, ReleaseProject, TypeOK

LEMMA HookType ==
  ASSUME TypeOK, NEW r \in Requests, NEW source \in Sources,
         FinishHook(r, source) \/ DropPermit(r)
  PROVE  rel' \in [Requests -> [Sources -> {"none", "key", "project"}]]
BY RelType DEF FinishHook, DropPermit, Sources

LEMMA HandlerType ==
  ASSUME TypeOK, NEW r \in Requests, Handler(r)
  PROVE  TypeOK'
<1>1. CASE Judge(r)
  BY <1>1, HookType DEF Judge, Goto, TypeOK, HandlerPc, Sources
<1>2. CASE Abandon(r)
  BY <1>2, HookType DEF Abandon, Goto, TypeOK, HandlerPc, Sources
<1>3. CASE Dispatch(r)
  BY <1>3 DEF Dispatch, Goto, TypeOK, HandlerPc
<1>4. CASE HandlerOk(r)
  BY <1>4 DEF HandlerOk, SpawnShadow, Goto, TypeOK, HandlerPc
<1>5. CASE HandlerErr(r)
  BY <1>5, HookType DEF HandlerErr, Goto, TypeOK, HandlerPc, Sources
<1>6. CASE Disconnect(r)
  BY <1>6, HookType DEF Disconnect, Goto, TypeOK, HandlerPc, Sources
<1>7. CASE Finish(r)
  BY <1>7 DEF Finish, Leave, Goto, TypeOK, LimiterPc, Option
<1> QED  BY <1>1, <1>2, <1>3, <1>4, <1>5, <1>6, <1>7 DEF Handler

LEMMA EngineType ==
  ASSUME TypeOK, NEW r \in Requests, Engine(r)
  PROVE  TypeOK'
<1> USE DEF limiterVars
<1>1. CASE EngineRespond(r)
  BY <1>1 DEF EngineRespond, TypeOK
<1>2. CASE EngineFail(r)
  BY <1>2, HookType DEF EngineFail, TypeOK, Sources
<1>3. CASE EngineReport(r)
  BY <1>3, HookType DEF EngineReport, TypeOK, Sources
<1>4. CASE ShadowReport(r)
  BY <1>4, HookType DEF ShadowReport, TypeOK, Sources
<1>5. CASE ShadowEnd(r)
  BY <1>5 DEF ShadowEnd, TypeOK
<1> QED  BY <1>1, <1>2, <1>3, <1>4, <1>5 DEF Engine

LEMMA EnvironmentType ==
  ASSUME TypeOK, Environment
  PROVE  TypeOK'
<1>1. CASE Tick /\ UNCHANGED <<engine, shadow, rel>>
  BY <1>1, QuotaAssumption DEF Tick, TypeOK, Instants
<1>2. CASE (\E s \in Scopes : SetLimits(s)) /\ UNCHANGED <<engine, shadow, rel>>
  BY <1>2 DEF SetLimits, TypeOK, LimitsOf
<1> QED  BY <1>1, <1>2 DEF Environment

LEMMA NextType ==
  ASSUME TypeOK, [Next]_vars
  PROVE  TypeOK'
<1>1. CASE UNCHANGED vars
  BY <1>1 DEF vars, limiterVars, TypeOK
<1> QED  BY <1>1, LimiterType, HandlerType, EngineType, ReleaseType, EnvironmentType DEF Next

(* The variables keep their types; in particular every window holds only   *)
(* instants, whatever prune_window drops and record_rpm appends, and no    *)
(* counter is ever below 0, whatever releases are repeated.                *)
THEOREM TypeCorrect == Spec => []TypeOK
BY InitType, NextType, PTL DEF Spec

----------------------------------------------------------------------------
(* The inductive invariant behind SlotsMatchHolders.                       *)

(* The scopes in which the admission of r takes a slot.                    *)
Taken(r) == {s \in ScopesOf(r) : LimitOf(r, s).conc # None}

Quiet(r) == \A source \in Sources : rel[r][source] = "none"

(* The slots of r have been handed to a hook or to the drop of its permit. *)
HandedOver(r) ==
  \/ pc[r] = "dispatched" /\ engine[r] = "done"
  \/ pc[r] = "returned" /\ engine[r] # "responded"

BeforeReserve == {"idle", "check_project", "evict_project", "check_key", "evict_key",
                  "reserve_project"}
Reserved == {"record_project", "record_key", "admitted", "judged", "dispatched", "returned"}

(* What a request owns follows from where it is.                           *)
Ownership(r) ==
  /\ pc[r] \in BeforeReserve => own[r] = {}
  /\ pc[r] \in {"reserve_key", "rollback"} => own[r] = Taken(r) \cap {ProjectOfRequest(r)}
  /\ pc[r] \in Reserved /\ ~HandedOver(r) => own[r] = Taken(r)
  /\ HandedOver(r) =>
       /\ Quiet(r) => own[r] = {}
       /\ \A source \in Sources :
            /\ rel[r][source] = "key" => own[r] = Taken(r)
            /\ rel[r][source] = "project" => own[r] = Taken(r) \ {KeyOf(r)}

(* One source at most releases the slots of a request, and only after they *)
(* have been handed over.                                                  *)
OneRelease(r) ==
  /\ shadow[r] = "none"
  /\ rel[r]["judge"] = "none" /\ rel[r]["shadow"] = "none"
  /\ rel[r]["main"] = "none" \/ rel[r]["permit"] = "none"
  /\ ~HandedOver(r) => Quiet(r)
  /\ pc[r] \in LimiterPc \cup {"judged"} => engine[r] = "none"
  /\ pc[r] = "dispatched" => engine[r] # "none"
  /\ pc[r] = "dispatched" /\ engine[r] = "done" => "report_inline" \in EngineMay
  /\ pc[r] = "returned" => engine[r] # "running"

SlotsInv ==
  /\ TypeOK
  /\ \A r \in Requests : Ownership(r) /\ OneRelease(r)
  /\ SlotsMatchHolders

----------------------------------------------------------------------------
(* Counters never pass the largest limit of their scope.                   *)

LEMMA LimitType ==
  ASSUME TypeOK, NEW r \in Requests, pc[r] # "idle", NEW s \in ScopesOf(r)
  PROVE  /\ s \in Scopes
         /\ LimitOf(r, s) \in LimitsOf(s)
         /\ LimitOf(r, s).conc \in Option(Nat)
         /\ LimitOf(r, s).conc # None => LimitOf(r, s).conc \in CapsOf(s)
         /\ KeyOf(r) # ProjectOfRequest(r)
         /\ LimitOf(r, ProjectOfRequest(r)) = req[r].projectLimit
         /\ LimitOf(r, KeyOf(r)) = req[r].keyLimit
<1>1. s \in Scopes /\ KeyOf(r) # ProjectOfRequest(r) /\ LimitOf(r, s) \in LimitsOf(s)
  BY RequestType, QuotaAssumption DEF ScopesOf, LimitOf, LimitsOf, Scopes
<1>2. LimitsOf(s) \subseteq Limits
  BY QuotaAssumption DEF LimitsOf
<1> QED  BY <1>1, <1>2 DEF Limits, CapsOf, LimitOf

LEMMA CapType ==
  ASSUME NEW s \in Scopes, NEW cap \in CapsOf(s)
  PROVE  cap \in Nat
BY QuotaAssumption DEF CapsOf, LimitsOf, Limits, Option

LEMMA IncWithinLimit ==
  ASSUME TypeOK, CounterWithinLimit, NEW r \in Requests, NEW s \in Scopes,
         NEW cap \in CapsOf(s), ~Reached(s, cap), Inc(r, s)
  PROVE  CounterWithinLimit'
<1> SUFFICES ASSUME NEW q \in Scopes, slots'[q] > 0
             PROVE  \E c \in CapsOf(q) : slots'[q] <= c
  BY DEF CounterWithinLimit, CapsOf
<1>1. CASE q = s
  BY <1>1, CapType DEF Inc, Reached, TypeOK
<1>2. CASE q # s
  BY <1>2 DEF Inc, TypeOK, CounterWithinLimit
<1> QED  BY <1>1, <1>2

LEMMA DecWithinLimit ==
  ASSUME TypeOK, CounterWithinLimit, NEW s, Dec(s)
  PROVE  CounterWithinLimit'
<1> SUFFICES ASSUME NEW q \in Scopes, slots'[q] > 0
             PROVE  \E c \in CapsOf(q) : slots'[q] <= c
  BY DEF CounterWithinLimit, CapsOf
<1>1. slots[q] \in Nat /\ slots'[q] <= slots[q]
  BY DEF Dec, TypeOK
<1>2. slots'[q] \in Nat
  BY DecType
<1>3. PICK c \in CapsOf(q) : slots[q] <= c
  BY <1>1, <1>2 DEF CounterWithinLimit
<1> QED  BY <1>1, <1>2, <1>3, CapType

LEMMA NextWithinLimit ==
  ASSUME TypeOK, CounterWithinLimit, [Next]_vars
  PROVE  CounterWithinLimit'
<1>1. ASSUME NEW r \in Requests, ReserveProject(r)
      PROVE  CounterWithinLimit'
  BY <1>1, LimitType, RequestType, IncWithinLimit
  DEF ReserveProject, ScopesOf, CounterWithinLimit
<1>2. ASSUME NEW r \in Requests, ReserveKey(r)
      PROVE  CounterWithinLimit'
  BY <1>2, LimitType, RequestType, IncWithinLimit
  DEF ReserveKey, ScopesOf, CounterWithinLimit
<1>3. ASSUME NEW r \in Requests, Rollback(r) \/ Release(r)
      PROVE  CounterWithinLimit'
  BY <1>3, DecWithinLimit DEF Rollback, Release, ReleaseKey, ReleaseProject
<1>4. CASE UNCHANGED slots
  BY <1>4 DEF CounterWithinLimit
<1> QED  BY <1>1, <1>2, <1>3, <1>4
         DEF Next, vars, limiterVars, Limiter, Environment, Handler, Engine, TryAcquire,
             Arrive, CheckProjectRpm, EvictProject, CheckKeyRpm, EvictKey,
             RecordProjectRpm, RecordKeyRpm, Tick, SetLimits,
             Judge, Abandon, Dispatch, HandlerOk, HandlerErr, Disconnect, Finish,
             EngineRespond, EngineFail, EngineReport, ShadowReport, ShadowEnd

(* Whatever the data plane, the shadows, the clients and the administrator *)
(* do, no counter passes the largest limit its scope can be given.         *)
THEOREM CounterBounded == Spec => []CounterWithinLimit
<1>1. Init => CounterWithinLimit
  BY DEF Init, LimiterInit, CounterWithinLimit
<1> QED  BY <1>1, TypeCorrect, NextWithinLimit, PTL DEF Spec

----------------------------------------------------------------------------
(* Counting holders.                                                       *)

LEMMA HoldersFinite ==
  ASSUME NEW s
  PROVE  IsFiniteSet(Holders(s)) /\ Cardinality(Holders(s)) \in Nat
BY FiniteRequests, FS_Subset, FS_CardinalityType DEF Holders

LEMMA TakeCounts ==
  ASSUME TypeOK, SlotsMatchHolders, NEW r \in Requests, NEW s \in Scopes,
         s \notin own[r], Inc(r, s)
  PROVE  SlotsMatchHolders'
<1> SUFFICES ASSUME NEW q \in Scopes
             PROVE  slots'[q] = Cardinality(Holders(q)')
  BY DEF SlotsMatchHolders
<1>1. CASE q = s
  <2>1. Holders(s)' = Holders(s) \cup {r} /\ r \notin Holders(s)
    BY DEF Holders, Inc, TypeOK
  <2>2. Cardinality(Holders(s)') = Cardinality(Holders(s)) + 1
    BY <2>1, HoldersFinite, FS_AddElement
  <2> QED  BY <1>1, <2>2 DEF Inc, TypeOK, SlotsMatchHolders
<1>2. CASE q # s
  <2>1. Holders(q)' = Holders(q)
    BY <1>2 DEF Holders, Inc, TypeOK
  <2> QED  BY <1>2, <2>1 DEF Inc, TypeOK, SlotsMatchHolders
<1> QED  BY <1>1, <1>2

LEMMA GiveCounts ==
  ASSUME TypeOK, SlotsMatchHolders, NEW r \in Requests, NEW s \in Scopes,
         s \in own[r] \/ slots[s] = 0,
         own' = [own EXCEPT ![r] = @ \ {s}], Dec(s)
  PROVE  SlotsMatchHolders'
<1> SUFFICES ASSUME NEW q \in Scopes
             PROVE  slots'[q] = Cardinality(Holders(q)')
  BY DEF SlotsMatchHolders
<1>1. CASE q = s
  <2>1. Holders(s)' = Holders(s) \ {r}
    BY DEF Holders, TypeOK
  <2>2. CASE r \in Holders(s)
    <3>1. Cardinality(Holders(s)') = Cardinality(Holders(s)) - 1
      BY <2>1, <2>2, HoldersFinite, FS_RemoveElement
    <3>2. Holders(s) # {}
      BY <2>2
    <3>3. Cardinality(Holders(s)) # 0
      BY <3>2, HoldersFinite, FS_EmptySet
    <3> QED  BY <1>1, <3>1, <3>3, HoldersFinite DEF Dec, TypeOK, SlotsMatchHolders
  <2>3. CASE r \notin Holders(s)
    <3>1. slots[s] = 0
      BY <2>3 DEF Holders
    <3>2. Holders(s)' = Holders(s)
      BY <2>1, <2>3
    <3> QED  BY <1>1, <3>1, <3>2 DEF Dec, TypeOK, SlotsMatchHolders
  <2> QED  BY <2>2, <2>3
<1>2. CASE q # s
  <2>1. Holders(q)' = Holders(q)
    BY <1>2 DEF Holders, TypeOK
  <2> QED  BY <1>2, <2>1 DEF Dec, TypeOK, SlotsMatchHolders
<1> QED  BY <1>1, <1>2

LEMMA NothingCounts ==
  ASSUME SlotsMatchHolders, UNCHANGED <<slots, own>>
  PROVE  SlotsMatchHolders'
BY DEF SlotsMatchHolders, Holders

(* What a request owns it took at its admission.                           *)
LEMMA OwnTaken ==
  ASSUME SlotsInv, NEW r \in Requests, own[r] # {}
  PROVE  pc[r] # "idle" /\ own[r] \subseteq Taken(r)
<1>1. Ownership(r) /\ OneRelease(r) /\ pc[r] \in LimiterPc \cup HandlerPc
  BY DEF SlotsInv, TypeOK
<1>2. CASE HandedOver(r)
  <2>1. rel[r] \in [Sources -> {"none", "key", "project"}]
    BY DEF SlotsInv, TypeOK
  <2>2. pc[r] # "idle"
    BY <1>2 DEF HandedOver
  <2> QED  BY <1>1, <1>2, <2>1, <2>2 DEF Ownership, Quiet
<1>3. CASE ~HandedOver(r)
  BY <1>1, <1>3 DEF Ownership, BeforeReserve, Reserved, LimiterPc, HandlerPc
<1> QED  BY <1>2, <1>3

(* A scope in which one request takes no slot is one in which none does.   *)
LEMMA UnlimitedScope ==
  ASSUME ReleasedOnce, SlotsInv, NEW r \in Requests, pc[r] # "idle",
         NEW s \in ScopesOf(r), s \notin Taken(r)
  PROVE  slots[s] = 0
<1> TypeOK
  BY DEF SlotsInv
<1>1. \A l \in LimitsOf(s) : l.conc = None
  <2>1. LimitOf(r, s) \in LimitsOf(s) /\ LimitOf(r, s).conc = None
    BY LimitType DEF Taken
  <2> QED  BY <2>1 DEF ReleasedOnce, LimitsOf
<1>2. ASSUME NEW q \in Requests, s \in own[q]
      PROVE  FALSE
  <2>1. pc[q] # "idle" /\ s \in Taken(q)
    BY <1>2, OwnTaken
  <2> QED  BY <1>1, <2>1, LimitType DEF Taken
<1>3. Holders(s) = {}
  BY <1>2 DEF Holders
<1> QED  BY <1>3, LimitType, FS_EmptySet DEF SlotsInv, SlotsMatchHolders

----------------------------------------------------------------------------
(* Each step preserves the invariant.                                      *)

Untouched(q) ==
  /\ pc'[q] = pc[q] /\ req'[q] = req[q] /\ own'[q] = own[q]
  /\ engine'[q] = engine[q] /\ shadow'[q] = shadow[q] /\ rel'[q] = rel[q]

LEMMA OthersKeep ==
  ASSUME NEW q \in Requests, Ownership(q), OneRelease(q), Untouched(q)
  PROVE  Ownership(q)' /\ OneRelease(q)'
<1> USE DEF Untouched
<1>1. /\ Taken(q)' = Taken(q) /\ HandedOver(q)' = HandedOver(q) /\ Quiet(q)' = Quiet(q)
      /\ KeyOf(q)' = KeyOf(q) /\ ProjectOfRequest(q)' = ProjectOfRequest(q)
  BY DEF Taken, ScopesOf, LimitOf, KeyOf, ProjectOfRequest, HandedOver, Quiet
<1>2. Ownership(q)'
  BY <1>1 DEF Ownership
<1>3. OneRelease(q)'
  BY <1>1 DEF OneRelease
<1> QED  BY <1>2, <1>3

(* The steps of one request leave the others alone.                        *)
LEMMA StepOfOne ==
  ASSUME TypeOK, NEW r \in Requests,
         Limiter(r) \/ Handler(r) \/ Engine(r) \/ Release(r)
  PROVE  \A q \in Requests : q # r => Untouched(q)
<1> SUFFICES ASSUME NEW q \in Requests, q # r PROVE Untouched(q)
  OBVIOUS
<1>1. CASE Limiter(r)
  BY <1>1 DEF Limiter, TryAcquire, Arrive, CheckProjectRpm, EvictProject, CheckKeyRpm,
              EvictKey, ReserveProject, ReserveKey, Rollback, RecordProjectRpm, RecordKeyRpm,
              WouldExceedRpm, EvictIfEmpty, Inc, Goto, Leave, TypeOK, Untouched
<1>2. CASE Handler(r)
  BY <1>2 DEF Handler, Judge, Abandon, Dispatch, HandlerOk, HandlerErr, Disconnect, Finish,
              FinishHook, DropPermit, SpawnShadow, Goto, Leave, TypeOK, Untouched
<1>3. CASE Engine(r)
  BY <1>3 DEF Engine, EngineRespond, EngineFail, EngineReport, ShadowReport, ShadowEnd,
              FinishHook, TypeOK, Untouched, limiterVars
<1>4. CASE Release(r)
  BY <1>4 DEF Release, ReleaseKey, ReleaseProject, GiveBack, TypeOK, Untouched
<1> QED  BY <1>1, <1>2, <1>3, <1>4

(* Until its slots are handed over, a request takes exactly those its      *)
(* limits ask for.                                                         *)
LEMMA LimiterOwns ==
  ASSUME ReleasedOnce, SlotsInv, NEW r \in Requests, Limiter(r)
  PROVE  Ownership(r)' /\ SlotsMatchHolders'
<1> TypeOK /\ SlotsMatchHolders /\ Ownership(r) /\ OneRelease(r)
  BY DEF SlotsInv
<1> USE DEF Limiter
<1>1. CASE Arrive(r)
  <2>1. own[r] = {} /\ own' = own /\ slots' = slots /\ pc'[r] = "check_project"
    BY <1>1 DEF Arrive, Ownership, BeforeReserve, Goto, TypeOK
  <2> QED  BY <2>1, NothingCounts DEF Ownership, BeforeReserve, Reserved, HandedOver
<1>2. CASE CheckProjectRpm(r) \/ EvictProject(r) \/ CheckKeyRpm(r) \/ EvictKey(r)
  <2>1. own[r] = {} /\ own' = own /\ slots' = slots /\ pc'[r] \in BeforeReserve
    BY <1>2 DEF CheckProjectRpm, EvictProject, CheckKeyRpm, EvictKey, WouldExceedRpm,
                EvictIfEmpty, Ownership, BeforeReserve, Goto, Leave, TypeOK
  <2> QED  BY <2>1, NothingCounts DEF Ownership, BeforeReserve, Reserved, HandedOver
<1>3. CASE ReserveProject(r)
  <2> DEFINE s == ProjectOfRequest(r)
             cap == req[r].projectLimit.conc
  <2>1. own[r] = {} /\ s \in ScopesOf(r) /\ s \in Scopes /\ LimitOf(r, s).conc = cap
    BY <1>3, LimitType DEF ReserveProject, Ownership, BeforeReserve, ScopesOf
  <2>2. CASE pc'[r] = "idle"
    BY <1>3, <2>1, <2>2, NothingCounts
    DEF ReserveProject, Goto, Leave, TypeOK, Ownership, BeforeReserve, Reserved, HandedOver
  <2>3. CASE pc'[r] # "idle"
    <3>1. pc'[r] = "reserve_key" /\ req' = req
      BY <1>3, <2>3 DEF ReserveProject, Goto, Leave, TypeOK
    <3>2. own'[r] = Taken(r) \cap {s} /\ SlotsMatchHolders'
      <4>1. CASE cap = None
        BY <1>3, <2>1, <2>3, <4>1, NothingCounts DEF ReserveProject, Taken, Goto, Leave, TypeOK
      <4>2. CASE cap # None
        <5>1. Inc(r, s)
          BY <1>3, <2>3, <4>2 DEF ReserveProject, Goto, Leave, TypeOK
        <5> QED  BY <2>1, <4>2, <5>1, TakeCounts DEF Taken, Inc, TypeOK
      <4> QED  BY <4>1, <4>2
    <3>3. Taken(r)' = Taken(r) /\ ProjectOfRequest(r)' = s
      BY <3>1 DEF Taken, ScopesOf, LimitOf, KeyOf, ProjectOfRequest
    <3> QED  BY <3>1, <3>2, <3>3 DEF Ownership, BeforeReserve, Reserved, HandedOver
  <2> QED  BY <2>2, <2>3
<1>4. CASE ReserveKey(r)
  <2> DEFINE s == KeyOf(r)
             p == ProjectOfRequest(r)
             cap == req[r].keyLimit.conc
  <2>1. /\ own[r] = Taken(r) \cap {p}
        /\ s \in ScopesOf(r) /\ p \in ScopesOf(r) /\ s \in Scopes /\ s # p
        /\ LimitOf(r, s).conc = cap /\ LimitOf(r, p).conc = req[r].projectLimit.conc
    BY <1>4, LimitType DEF ReserveKey, Ownership, ScopesOf
  <2>2. CASE pc'[r] = "idle"
    <3>1. req[r].projectLimit.conc = None /\ own' = own /\ slots' = slots
      BY <1>4, <2>2 DEF ReserveKey, Goto, Leave, TypeOK
    <3>2. own'[r] = {}
      BY <2>1, <3>1 DEF Taken
    <3> QED  BY <2>2, <3>1, <3>2, NothingCounts
             DEF Ownership, BeforeReserve, Reserved, HandedOver
  <2>3. CASE pc'[r] = "rollback"
    <3>1. req' = req /\ own' = own /\ slots' = slots
      BY <1>4, <2>3 DEF ReserveKey, Goto, Leave, TypeOK
    <3>2. Taken(r)' = Taken(r) /\ ProjectOfRequest(r)' = p
      BY <3>1 DEF Taken, ScopesOf, LimitOf, KeyOf, ProjectOfRequest
    <3> QED  BY <2>1, <2>3, <3>1, <3>2, NothingCounts
             DEF Ownership, BeforeReserve, Reserved, HandedOver
  <2>4. CASE pc'[r] \notin {"idle", "rollback"}
    <3>1. pc'[r] = "record_project" /\ req' = req
      BY <1>4, <2>4 DEF ReserveKey, Goto, Leave, TypeOK
    <3>2. own'[r] = Taken(r) /\ SlotsMatchHolders'
      <4>1. CASE cap = None
        BY <1>4, <2>1, <2>4, <4>1, NothingCounts
        DEF ReserveKey, Taken, ScopesOf, Goto, Leave, TypeOK
      <4>2. CASE cap # None
        <5>1. Inc(r, s)
          BY <1>4, <2>4, <4>2 DEF ReserveKey, Goto, Leave, TypeOK
        <5>2. s \notin own[r]
          BY <2>1
        <5> QED  BY <2>1, <4>2, <5>1, <5>2, TakeCounts DEF Taken, ScopesOf, Inc, TypeOK
      <4> QED  BY <4>1, <4>2
    <3>3. Taken(r)' = Taken(r)
      BY <3>1 DEF Taken, ScopesOf, LimitOf, KeyOf, ProjectOfRequest
    <3> QED  BY <3>1, <3>2, <3>3 DEF Ownership, BeforeReserve, Reserved, HandedOver
  <2> QED  BY <2>2, <2>3, <2>4
<1>5. CASE Rollback(r)
  <2> DEFINE p == ProjectOfRequest(r)
  <2>1. own[r] = Taken(r) \cap {p} /\ p \in ScopesOf(r) /\ p \in Scopes /\ pc[r] # "idle"
    BY <1>5, LimitType DEF Rollback, Ownership, ScopesOf
  <2>2. p \in own[r] \/ slots[p] = 0
    BY <2>1, UnlimitedScope
  <2>3. SlotsMatchHolders'
    BY <1>5, <2>1, <2>2, GiveCounts DEF Rollback
  <2>4. own'[r] = {} /\ pc'[r] = "idle"
    BY <1>5, <2>1 DEF Rollback, Leave, Goto, TypeOK
  <2> QED  BY <2>3, <2>4 DEF Ownership, BeforeReserve, Reserved, HandedOver
<1>6. CASE RecordProjectRpm(r) \/ RecordKeyRpm(r)
  <2>1. /\ own[r] = Taken(r) /\ own' = own /\ slots' = slots /\ req' = req
        /\ pc'[r] \in {"record_key", "admitted"}
    BY <1>6 DEF RecordProjectRpm, RecordKeyRpm, Ownership, Reserved, HandedOver, Goto, TypeOK
  <2>2. Taken(r)' = Taken(r)
    BY <2>1 DEF Taken, ScopesOf, LimitOf, KeyOf, ProjectOfRequest
  <2> QED  BY <2>1, <2>2, NothingCounts DEF Ownership, BeforeReserve, Reserved, HandedOver
<1> QED  BY <1>1, <1>2, <1>3, <1>4, <1>5, <1>6 DEF TryAcquire

(* The limiter knows nothing of hooks and permits.                         *)
LEMMA LimiterOneRelease ==
  ASSUME SlotsInv, NEW r \in Requests, Limiter(r)
  PROVE  OneRelease(r)'
<1>1. OneRelease(r) /\ TypeOK
  BY DEF SlotsInv
<1>2. pc[r] \in LimiterPc \ {"admitted"} /\ pc'[r] \in LimiterPc
  BY <1>1 DEF Limiter, TryAcquire, Arrive, CheckProjectRpm, EvictProject, CheckKeyRpm,
         EvictKey, ReserveProject, ReserveKey, Rollback, RecordProjectRpm, RecordKeyRpm,
         WouldExceedRpm, EvictIfEmpty, Goto, Leave, TypeOK, LimiterPc
<1>3. UNCHANGED <<engine, shadow, rel>>
  BY DEF Limiter
<1>4. Quiet(r)
  BY <1>1, <1>2 DEF OneRelease, HandedOver, LimiterPc
<1> QED  BY <1>1, <1>2, <1>3, <1>4 DEF OneRelease, HandedOver, LimiterPc, Quiet

(* The handler hands the slots over once: to the hook of an answered       *)
(* request, or to the permit it drops.                                     *)
LEMMA HandlerPreserves ==
  ASSUME ReleasedOnce, SlotsInv, NEW r \in Requests, Handler(r)
  PROVE  Ownership(r)' /\ OneRelease(r)' /\ SlotsMatchHolders'
<1> TypeOK /\ SlotsMatchHolders /\ Ownership(r) /\ OneRelease(r)
  BY DEF SlotsInv
<1>1. UNCHANGED <<slots, own>>
  BY DEF Handler, Judge, Abandon, Dispatch, HandlerOk, HandlerErr, Disconnect, Finish
<1>2. SlotsMatchHolders'
  BY <1>1, NothingCounts
<1>3. UNCHANGED req => Taken(r)' = Taken(r) /\ KeyOf(r)' = KeyOf(r) /\ ProjectOfRequest(r)' = ProjectOfRequest(r)
  BY DEF Taken, ScopesOf, LimitOf, KeyOf, ProjectOfRequest
<1>4. CASE Judge(r)
  <2>1. pc'[r] = "judged" /\ engine' = engine /\ shadow' = shadow /\ req' = req /\ rel' = rel
    BY <1>4 DEF Judge, Goto, FinishHook, QuotaReleaseZero, TypeOK, OneRelease
  <2>2. engine[r] = "none" /\ Quiet(r) /\ own[r] = Taken(r)
    BY <1>4 DEF Judge, OneRelease, Ownership, Reserved, HandedOver, LimiterPc
  <2> QED  BY <1>1, <1>2, <1>3, <2>1, <2>2
           DEF Ownership, OneRelease, HandedOver, Quiet, BeforeReserve, Reserved, LimiterPc
<1>5. CASE Abandon(r)
  <2>1. /\ pc'[r] = "returned" /\ engine' = engine /\ shadow' = shadow /\ req' = req
        /\ rel'[r] = [rel[r] EXCEPT !["permit"] = "key"]
    BY <1>5 DEF Abandon, Goto, DropPermit, TypeOK
  <2>2. engine[r] = "none" /\ Quiet(r) /\ own[r] = Taken(r)
    BY <1>5 DEF Abandon, OneRelease, Ownership, Reserved, HandedOver, LimiterPc
  <2> QED  BY <1>1, <1>2, <1>3, <2>1, <2>2
           DEF Ownership, OneRelease, HandedOver, Quiet, BeforeReserve, Reserved, LimiterPc,
               Sources, TypeOK
<1>6. CASE Dispatch(r)
  <2>1. /\ pc'[r] = "dispatched" /\ engine'[r] = "running"
        /\ shadow' = shadow /\ req' = req /\ rel' = rel
    BY <1>6 DEF Dispatch, Goto, TypeOK
  <2>2. Quiet(r) /\ own[r] = Taken(r)
    BY <1>6 DEF Dispatch, OneRelease, Ownership, Reserved, HandedOver, LimiterPc
  <2> QED  BY <1>1, <1>2, <1>3, <2>1, <2>2
           DEF Ownership, OneRelease, HandedOver, Quiet, BeforeReserve, Reserved, LimiterPc,
               Sources, TypeOK
<1>7. CASE HandlerOk(r)
  <2>1. Cardinality(ShadowsRunning) \in Nat
    BY FiniteRequests, FS_Subset, FS_CardinalityType DEF ShadowsRunning
  <2>2. shadow' = shadow
    BY <1>7, <2>1 DEF HandlerOk, SpawnShadow, ReleasedOnce
  <2>3. pc[r] = "dispatched" /\ pc'[r] = "returned" /\ engine' = engine /\ req' = req /\ rel' = rel
    BY <1>7 DEF HandlerOk, Goto, TypeOK
  <2>4. engine[r] \in {"responded", "done"}
    BY <1>7 DEF HandlerOk
  <2> QED  BY <1>1, <1>2, <1>3, <2>2, <2>3, <2>4
           DEF Ownership, OneRelease, HandedOver, Quiet, BeforeReserve, Reserved, LimiterPc,
               Sources, TypeOK
<1>8. CASE HandlerErr(r) \/ Disconnect(r)
  <2>1. /\ pc'[r] = "returned" /\ engine'[r] \in {"none", "failed"}
        /\ shadow' = shadow /\ req' = req /\ rel'[r] = [rel[r] EXCEPT !["permit"] = "key"]
    BY <1>8 DEF HandlerErr, Disconnect, Goto, DropPermit, TypeOK, OneRelease, ReleasedOnce
  <2>2. Quiet(r) /\ own[r] = Taken(r)
    BY <1>8 DEF HandlerErr, Disconnect, OneRelease, Ownership, Reserved, HandedOver, ReleasedOnce
  <2> QED  BY <1>1, <1>2, <1>3, <2>1, <2>2
           DEF Ownership, OneRelease, HandedOver, Quiet, BeforeReserve, Reserved, LimiterPc,
               Sources, TypeOK
<1>9. CASE Finish(r)
  <2>1. pc'[r] = "idle" /\ engine'[r] = "none" /\ shadow' = shadow /\ rel' = rel
    BY <1>9 DEF Finish, Leave, Goto, TypeOK
  <2>2. Quiet(r) /\ own[r] = {}
    BY <1>9 DEF Finish, Quiet, Ownership, HandedOver
  <2> QED  BY <1>1, <1>2, <2>1, <2>2
           DEF Ownership, OneRelease, HandedOver, Quiet, BeforeReserve, Reserved, LimiterPc,
               Sources, TypeOK
<1> QED  BY <1>4, <1>5, <1>6, <1>7, <1>8, <1>9 DEF Handler

(* The data plane runs at most one hook, of an answered request.           *)
LEMMA EnginePreserves ==
  ASSUME ReleasedOnce, SlotsInv, NEW r \in Requests, Engine(r)
  PROVE  Ownership(r)' /\ OneRelease(r)' /\ SlotsMatchHolders'
<1> TypeOK /\ SlotsMatchHolders /\ Ownership(r) /\ OneRelease(r)
  BY DEF SlotsInv
<1>1. UNCHANGED limiterVars
  BY DEF Engine, EngineRespond, EngineFail, EngineReport, ShadowReport, ShadowEnd
<1>2. UNCHANGED <<slots, own, pc, req>> /\ SlotsMatchHolders'
  BY <1>1, NothingCounts DEF limiterVars
<1>3. Taken(r)' = Taken(r) /\ KeyOf(r)' = KeyOf(r) /\ ProjectOfRequest(r)' = ProjectOfRequest(r)
  BY <1>2 DEF Taken, ScopesOf, LimitOf, KeyOf, ProjectOfRequest
<1>4. ~ShadowReport(r) /\ ~ShadowEnd(r)
  BY DEF ShadowReport, ShadowEnd, OneRelease
<1>5. engine[r] \in {"running", "responded"}
  BY <1>4 DEF Engine, EngineRespond, EngineFail, EngineReport
<1>6. pc[r] \in {"dispatched", "returned"} /\ ~HandedOver(r)
  BY <1>5 DEF OneRelease, HandedOver, TypeOK, HandlerPc
<1>7. own[r] = Taken(r) /\ Quiet(r)
  BY <1>6 DEF Ownership, OneRelease, Reserved
<1>8. CASE EngineRespond(r) \/ EngineFail(r)
  <2>1. /\ pc[r] = "dispatched" /\ engine'[r] \in {"responded", "failed"}
        /\ shadow' = shadow /\ rel' = rel
    BY <1>6, <1>8 DEF EngineRespond, EngineFail, OneRelease, TypeOK, ReleasedOnce
  <2> QED  BY <1>2, <1>3, <1>7, <2>1
           DEF Ownership, OneRelease, HandedOver, Quiet, BeforeReserve, Reserved, LimiterPc,
               Sources, TypeOK
<1>9. CASE EngineReport(r)
  <2>1. /\ engine'[r] = "done" /\ shadow' = shadow
        /\ rel'[r] = [rel[r] EXCEPT !["main"] = "key"]
        /\ pc[r] = "dispatched" => "report_inline" \in EngineMay
    BY <1>9 DEF EngineReport, FinishHook, QuotaReleaseZero, TypeOK
  <2> QED  BY <1>2, <1>3, <1>6, <1>7, <2>1
           DEF Ownership, OneRelease, HandedOver, Quiet, BeforeReserve, Reserved, LimiterPc,
               Sources, TypeOK
<1> QED  BY <1>4, <1>8, <1>9 DEF Engine

(* A release gives back the key's slot, then the project's.                *)
LEMMA ReleasePreserves ==
  ASSUME ReleasedOnce, SlotsInv, NEW r \in Requests, Release(r)
  PROVE  Ownership(r)' /\ OneRelease(r)' /\ SlotsMatchHolders'
<1> TypeOK /\ SlotsMatchHolders /\ Ownership(r) /\ OneRelease(r)
  BY DEF SlotsInv
<1> DEFINE k == KeyOf(r)
           p == ProjectOfRequest(r)
<1>1. PICK source \in Sources : ReleaseKey(r, source) \/ ReleaseProject(r, source)
  BY DEF Release
<1>2. HandedOver(r) /\ source \in {"main", "permit"} /\ pc[r] \in {"dispatched", "returned"}
  BY <1>1 DEF ReleaseKey, ReleaseProject, OneRelease, Quiet, Sources, HandedOver
<1>3. /\ k \in ScopesOf(r) /\ p \in ScopesOf(r) /\ k # p
      /\ k \in Scopes /\ p \in Scopes
  BY <1>2, LimitType DEF ScopesOf
<1>4. UNCHANGED <<pc, req, engine, shadow>>
  BY <1>1 DEF ReleaseKey, ReleaseProject
<1>5. Taken(r)' = Taken(r) /\ KeyOf(r)' = k /\ HandedOver(r)'
  BY <1>2, <1>4 DEF Taken, ScopesOf, LimitOf, KeyOf, ProjectOfRequest, HandedOver
<1>6. \A other \in Sources : other # source => rel[r][other] = "none"
  BY <1>1, <1>2 DEF ReleaseKey, ReleaseProject, OneRelease, Sources
<1>7. CASE ReleaseKey(r, source)
  <2>1. rel[r][source] = "key" /\ rel'[r] = [rel[r] EXCEPT ![source] = "project"]
    BY <1>7 DEF ReleaseKey, TypeOK
  <2>2. own' = [own EXCEPT ![r] = @ \ {k}] /\ Dec(k)
    BY <1>2, <1>7 DEF ReleaseKey, GiveBack
  <2>3. own[r] = Taken(r)
    BY <1>2, <2>1 DEF Ownership
  <2>4. SlotsMatchHolders'
    BY <1>2, <1>3, <2>2, <2>3, UnlimitedScope, GiveCounts
  <2>5. own'[r] = Taken(r) \ {k}
    BY <2>2, <2>3 DEF TypeOK
  <2> QED  BY <1>2, <1>4, <1>5, <1>6, <2>1, <2>4, <2>5
           DEF Ownership, OneRelease, HandedOver, Quiet, BeforeReserve, Reserved, LimiterPc,
               Sources, TypeOK
<1>8. CASE ReleaseProject(r, source)
  <2>1. rel[r][source] = "project" /\ rel'[r] = [rel[r] EXCEPT ![source] = "none"]
    BY <1>8 DEF ReleaseProject, TypeOK
  <2>2. own' = [own EXCEPT ![r] = @ \ {p}] /\ Dec(p)
    BY <1>2, <1>8 DEF ReleaseProject, GiveBack
  <2>3. own[r] = Taken(r) \ {k}
    BY <1>2, <2>1 DEF Ownership
  <2>4. SlotsMatchHolders'
    <3>1. p \in own[r] \/ slots[p] = 0
      BY <1>2, <1>3, <2>3, UnlimitedScope
    <3> QED  BY <1>3, <2>2, <3>1, GiveCounts
  <2>5. own'[r] = {}
    BY <2>2, <2>3 DEF TypeOK, Taken, ScopesOf
  <2> QED  BY <1>2, <1>4, <1>5, <1>6, <2>1, <2>4, <2>5
           DEF Ownership, OneRelease, HandedOver, Quiet, BeforeReserve, Reserved, LimiterPc,
               Sources, TypeOK
<1> QED  BY <1>1, <1>7, <1>8

LEMMA NextSlots ==
  ASSUME ReleasedOnce, SlotsInv, [Next]_vars
  PROVE  SlotsInv'
<1>1. TypeOK'
  BY NextType DEF SlotsInv
<1>2. ASSUME NEW r \in Requests, Limiter(r) \/ Handler(r) \/ Engine(r) \/ Release(r)
      PROVE  SlotsInv'
  <2>1. Ownership(r)' /\ OneRelease(r)' /\ SlotsMatchHolders'
    BY <1>2, LimiterOwns, LimiterOneRelease, HandlerPreserves, EnginePreserves, ReleasePreserves
  <2>2. \A q \in Requests : q # r => Ownership(q)' /\ OneRelease(q)'
    BY <1>2, StepOfOne, OthersKeep DEF SlotsInv
  <2> QED  BY <1>1, <2>1, <2>2 DEF SlotsInv
<1>3. CASE Environment \/ UNCHANGED vars
  <2>1. UNCHANGED <<slots, own, pc, req, engine, shadow, rel>>
    BY <1>3 DEF Environment, Tick, SetLimits, vars, limiterVars
  <2>2. \A q \in Requests : Untouched(q)
    BY <2>1 DEF Untouched
  <2> QED  BY <1>1, <2>1, <2>2, OthersKeep, NothingCounts DEF SlotsInv
<1> QED  BY <1>2, <1>3 DEF Next

LEMMA InitSlots == Init => SlotsInv
<1> SUFFICES ASSUME Init PROVE SlotsInv
  OBVIOUS
<1>1. TypeOK
  BY InitType
<1>2. \A r \in Requests : Ownership(r) /\ OneRelease(r)
  BY DEF Init, LimiterInit, Ownership, OneRelease, BeforeReserve, Reserved, HandedOver, Quiet,
         Sources
<1>3. \A s \in Scopes : Holders(s) = {} /\ slots[s] = 0
  BY DEF Init, LimiterInit, Holders
<1>4. SlotsMatchHolders
  BY <1>3, FS_EmptySet DEF SlotsMatchHolders
<1> QED  BY <1>1, <1>2, <1>4 DEF SlotsInv

----------------------------------------------------------------------------
(* What the counters mean.                                                 *)

(* The inductive invariant holds for every set of requests, keys and       *)
(* projects, and every limit, when slots are released once.                *)
THEOREM SlotsInvariant ==
  ASSUME ReleasedOnce
  PROVE  Spec => []SlotsInv
BY ReleasedOnce, InitSlots, NextSlots, PTL DEF Spec

(* When the slots of a request are released once, the counter of a scope   *)
(* is at every moment the number of requests that hold a slot of it.       *)
THEOREM SlotsCounted ==
  ASSUME ReleasedOnce
  PROVE  Spec => []SlotsMatchHolders
<1>1. SlotsInv => SlotsMatchHolders
  BY DEF SlotsInv
<1> QED  BY <1>1, SlotsInvariant, PTL

(* A request the upstream works for holds its slots.                       *)
LEMMA InFlightHolds ==
  ASSUME SlotsInv, NEW s \in Scopes
  PROVE  InFlight(s) \subseteq Holders(s)
<1> SUFFICES ASSUME NEW r \in InFlight(s) PROVE s \in own[r]
  BY DEF InFlight, Holders
<1>1. /\ r \in Requests /\ s \in Taken(r)
      /\ pc[r] \in {"admitted", "judged"} \/ engine[r] \in {"running", "responded"}
  BY DEF InFlight, Taken
<1>2. Ownership(r) /\ OneRelease(r) /\ pc[r] \in LimiterPc \cup HandlerPc
  BY <1>1 DEF SlotsInv, TypeOK
<1>3. pc[r] \in {"admitted", "judged", "dispatched", "returned"}
  BY <1>1, <1>2 DEF OneRelease, HandlerPc
<1>4. ~HandedOver(r)
  BY <1>1, <1>2, <1>3 DEF HandedOver, OneRelease
<1> QED  BY <1>1, <1>2, <1>3, <1>4 DEF Ownership, Reserved

LEMMA LimitHolds ==
  ASSUME SlotsInv, CounterWithinLimit
  PROVE  HardConcurrencyLimit
<1> SUFFICES ASSUME NEW s \in Scopes, CapsOf(s) # {}
             PROVE  \E cap \in CapsOf(s) : Cardinality(InFlight(s)) <= cap
  BY DEF HardConcurrencyLimit
<1>1. /\ Cardinality(InFlight(s)) \in Nat
      /\ Cardinality(InFlight(s)) <= Cardinality(Holders(s))
  BY InFlightHolds, HoldersFinite, FS_Subset, FS_CardinalityType
<1>2. slots[s] = Cardinality(Holders(s))
  BY DEF SlotsInv, SlotsMatchHolders
<1>3. CASE slots[s] > 0
  BY <1>1, <1>2, <1>3, HoldersFinite, CapType DEF CounterWithinLimit
<1>4. CASE slots[s] = 0
  BY <1>1, <1>2, <1>4, CapType
<1> QED  BY <1>2, <1>3, <1>4, HoldersFinite

(* When the slots of a request are released once, the upstream never works *)
(* for more requests of a key or of a project than its hard limit.         *)
THEOREM ConcurrencyLimited ==
  ASSUME ReleasedOnce
  PROVE  Spec => []HardConcurrencyLimit
BY SlotsInvariant, CounterBounded, LimitHolds, PTL

----------------------------------------------------------------------------
(* No slot is lost, also where slots may be given back twice.              *)

(* Somebody is going to give back the slot that r holds of scope s.        *)
Owed(r, s) ==
  \E source \in {"main", "permit"} :
    \/ rel[r][source] = "key"
    \/ rel[r][source] = "project" /\ s = ProjectOfRequest(r)

(* A request may own less than it took, but what it owns once its slots    *)
(* have been handed over is owed.                                          *)
Owing(r) ==
  /\ pc[r] \in BeforeReserve => own[r] = {}
  /\ pc[r] \in {"reserve_key", "rollback"} =>
       own[r] \subseteq {ProjectOfRequest(r)} /\ (own[r] # {} => req[r].projectLimit.conc # None)
  /\ pc[r] # "idle" => own[r] \subseteq ScopesOf(r)
  /\ HandedOver(r) => \A s \in own[r] : Owed(r, s)
  /\ pc[r] \in LimiterPc \cup {"judged"} => engine[r] = "none"
  /\ pc[r] = "returned" => engine[r] # "running"

(* No counter is above the number of holders.                              *)
SlotsHeld == \A s \in Scopes : slots[s] <= Cardinality(Holders(s))

LeakInv == SlotsHeld /\ \A r \in Requests : Owing(r)

LEMMA TakeHeld ==
  ASSUME TypeOK, SlotsHeld, NEW r \in Requests, NEW s \in Scopes, s \notin own[r], Inc(r, s)
  PROVE  SlotsHeld'
<1> SUFFICES ASSUME NEW q \in Scopes
             PROVE  slots'[q] <= Cardinality(Holders(q)')
  BY DEF SlotsHeld
<1>1. CASE q = s
  <2>1. Holders(s)' = Holders(s) \cup {r} /\ r \notin Holders(s)
    BY DEF Holders, Inc, TypeOK
  <2>2. Cardinality(Holders(s)') = Cardinality(Holders(s)) + 1
    BY <2>1, HoldersFinite, FS_AddElement
  <2> QED  BY <1>1, <2>2, HoldersFinite DEF Inc, TypeOK, SlotsHeld
<1>2. CASE q # s
  <2>1. Holders(q)' = Holders(q)
    BY <1>2 DEF Holders, Inc, TypeOK
  <2> QED  BY <1>2, <2>1 DEF Inc, TypeOK, SlotsHeld
<1> QED  BY <1>1, <1>2

(* A decrement may be somebody else's; it never leaves the counter above   *)
(* the number of holders.                                                  *)
LEMMA GiveHeld ==
  ASSUME TypeOK, SlotsHeld, NEW r \in Requests, NEW s \in Scopes, Dec(s),
         own' = own \/ own' = [own EXCEPT ![r] = @ \ {s}]
  PROVE  SlotsHeld'
<1> SUFFICES ASSUME NEW q \in Scopes
             PROVE  slots'[q] <= Cardinality(Holders(q)')
  BY DEF SlotsHeld
<1>1. slots[q] \in Nat /\ slots[q] <= Cardinality(Holders(q)) /\ Cardinality(Holders(q)) \in Nat
  BY HoldersFinite DEF TypeOK, SlotsHeld
<1>2. CASE Holders(q)' = Holders(q)
  BY <1>1, <1>2 DEF Dec, TypeOK
<1>3. CASE Holders(q)' # Holders(q)
  <2>1. q = s /\ Holders(q)' = Holders(q) \ {r} /\ r \in Holders(q)
    BY <1>3 DEF Holders, TypeOK
  <2>2. Cardinality(Holders(q)') = Cardinality(Holders(q)) - 1
    BY <2>1, HoldersFinite, FS_RemoveElement
  <2>3. Cardinality(Holders(q)) # 0
    <3>1. Holders(q) # {}
      BY <2>1
    <3> QED  BY <3>1, HoldersFinite, FS_EmptySet
  <2>4. slots'[q] = IF slots[q] = 0 THEN 0 ELSE slots[q] - 1
    BY <2>1 DEF Dec, TypeOK
  <2> QED  BY <1>1, <2>2, <2>3, <2>4
<1> QED  BY <1>2, <1>3

LEMMA NothingHeld ==
  ASSUME SlotsHeld, UNCHANGED <<slots, own>>
  PROVE  SlotsHeld'
BY DEF SlotsHeld, Holders

LEMMA OthersOwe ==
  ASSUME NEW q \in Requests, Owing(q), Untouched(q)
  PROVE  Owing(q)'
<1>1. /\ HandedOver(q)' = HandedOver(q) /\ ScopesOf(q)' = ScopesOf(q)
      /\ ProjectOfRequest(q)' = ProjectOfRequest(q)
  BY DEF Untouched, HandedOver, ScopesOf, KeyOf, ProjectOfRequest
<1>2. \A s : Owed(q, s)' = Owed(q, s)
  BY <1>1 DEF Untouched, Owed
<1> QED  BY <1>1, <1>2 DEF Untouched, Owing

(* Between the extractor and the permit.                                   *)
LEMMA LimiterOwes ==
  ASSUME TypeOK, LeakInv, NEW r \in Requests, Limiter(r)
  PROVE  SlotsHeld' /\ Owing(r)'
<1> SlotsHeld /\ Owing(r)
  BY DEF LeakInv
<1>1. pc[r] \in LimiterPc /\ engine' = engine /\ engine[r] = "none"
  BY DEF Limiter, Arrive, TryAcquire, CheckProjectRpm, EvictProject, CheckKeyRpm, EvictKey,
         ReserveProject, ReserveKey, Rollback, RecordProjectRpm, RecordKeyRpm, LimiterPc, Owing
<1>2. CASE Arrive(r) \/ CheckProjectRpm(r) \/ EvictProject(r) \/ CheckKeyRpm(r) \/ EvictKey(r)
  <2>1. own[r] = {} /\ own' = own /\ slots' = slots /\ pc'[r] \in BeforeReserve
    BY <1>2 DEF Arrive, CheckProjectRpm, EvictProject, CheckKeyRpm, EvictKey, WouldExceedRpm,
                EvictIfEmpty, Owing, BeforeReserve, Goto, Leave, TypeOK
  <2> QED  BY <1>1, <2>1, NothingHeld DEF Owing, BeforeReserve, HandedOver
<1>3. CASE ReserveProject(r)
  <2> DEFINE s == ProjectOfRequest(r)
  <2>1. own[r] = {} /\ s \in ScopesOf(r) /\ s \in Scopes
    BY <1>3, LimitType DEF ReserveProject, Owing, BeforeReserve, ScopesOf
  <2>2. CASE UNCHANGED <<slots, own>>
    <3>1. pc'[r] \in {"idle", "reserve_key"}
      BY <1>3 DEF ReserveProject, Goto, Leave, TypeOK
    <3> QED  BY <1>1, <2>1, <2>2, <3>1, NothingHeld DEF Owing, BeforeReserve, HandedOver
  <2>3. CASE req[r].projectLimit.conc # None /\ Inc(r, s) /\ Goto(r, "reserve_key") /\ UNCHANGED req
    <3>1. SlotsHeld'
      BY <2>1, <2>3, TakeHeld
    <3>2. own'[r] = {s} /\ pc'[r] = "reserve_key" /\ req' = req
      BY <2>1, <2>3 DEF Inc, Goto, TypeOK
    <3>3. ProjectOfRequest(r)' = s /\ ScopesOf(r)' = ScopesOf(r)
      BY <3>2 DEF ProjectOfRequest, ScopesOf, KeyOf
    <3> QED  BY <1>1, <2>1, <2>3, <3>1, <3>2, <3>3 DEF Owing, BeforeReserve, HandedOver
  <2> QED  BY <1>3, <2>2, <2>3 DEF ReserveProject
<1>4. CASE ReserveKey(r)
  <2> DEFINE s == KeyOf(r)
  <2>1. /\ own[r] \subseteq {ProjectOfRequest(r)} /\ (own[r] # {} => req[r].projectLimit.conc # None)
        /\ s \in ScopesOf(r) /\ s \in Scopes /\ s # ProjectOfRequest(r)
    BY <1>4, LimitType DEF ReserveKey, Owing, ScopesOf
  <2>2. CASE UNCHANGED <<slots, own>> /\ Leave(r) /\ req[r].projectLimit.conc = None
    <3>1. pc'[r] = "idle" /\ own'[r] = {}
      BY <2>1, <2>2 DEF Leave, Goto, TypeOK
    <3> QED  BY <1>1, <2>2, <3>1, NothingHeld DEF Owing, BeforeReserve, HandedOver
  <2>3. CASE UNCHANGED <<slots, own, req>> /\ pc'[r] \in {"record_project", "rollback"}
    <3>1. ProjectOfRequest(r)' = ProjectOfRequest(r) /\ ScopesOf(r)' = ScopesOf(r)
      BY <2>3 DEF ProjectOfRequest, ScopesOf, KeyOf
    <3> QED  BY <1>1, <2>1, <2>3, <3>1, NothingHeld DEF Owing, BeforeReserve, HandedOver, ScopesOf
  <2>4. CASE Inc(r, s) /\ pc'[r] = "record_project" /\ UNCHANGED req
    <3>1. SlotsHeld'
      BY <2>1, <2>4, TakeHeld
    <3>2. own'[r] = own[r] \cup {s} /\ ScopesOf(r)' = ScopesOf(r)
      BY <2>4 DEF Inc, TypeOK, ProjectOfRequest, ScopesOf, KeyOf
    <3> QED  BY <1>1, <2>1, <2>4, <3>1, <3>2 DEF Owing, BeforeReserve, HandedOver, ScopesOf
  <2> QED  BY <1>4, <2>2, <2>3, <2>4 DEF ReserveKey, Goto, TypeOK
<1>5. CASE Rollback(r)
  <2>1. own[r] \subseteq {ProjectOfRequest(r)} /\ ProjectOfRequest(r) \in Scopes
    BY <1>5, RequestType DEF Rollback, Owing
  <2>2. own' = [own EXCEPT ![r] = @ \ {ProjectOfRequest(r)}] /\ Dec(ProjectOfRequest(r))
    BY <1>5 DEF Rollback
  <2>3. own'[r] = {} /\ pc'[r] = "idle"
    BY <1>5, <2>1, <2>2 DEF Rollback, Leave, Goto, TypeOK
  <2>4. SlotsHeld'
    BY <2>1, <2>2, GiveHeld
  <2> QED  BY <1>1, <2>3, <2>4 DEF Owing, BeforeReserve, HandedOver
<1>6. CASE RecordProjectRpm(r) \/ RecordKeyRpm(r)
  <2>1. /\ pc[r] \in {"record_project", "record_key"} /\ pc'[r] \in {"record_key", "admitted"}
        /\ UNCHANGED <<slots, own, req>>
    BY <1>6 DEF RecordProjectRpm, RecordKeyRpm, Goto, TypeOK
  <2>2. ScopesOf(r)' = ScopesOf(r)
    BY <2>1 DEF ProjectOfRequest, ScopesOf, KeyOf
  <2> QED  BY <1>1, <2>1, <2>2, NothingHeld DEF Owing, BeforeReserve, HandedOver
<1> QED  BY <1>2, <1>3, <1>4, <1>5, <1>6 DEF Limiter, TryAcquire

(* Whatever ends a request leaves a hook or a permit that owes its slots.  *)
LEMMA HandlerOwes ==
  ASSUME TypeOK, LeakInv, NEW r \in Requests, Handler(r) \/ Engine(r)
  PROVE  SlotsHeld' /\ Owing(r)'
<1> SlotsHeld /\ Owing(r) /\ pc[r] \in LimiterPc \cup HandlerPc
  BY DEF LeakInv, TypeOK
<1> USE DEF HandlerPc
<1>1. UNCHANGED <<slots, own>> /\ SlotsHeld'
  BY NothingHeld DEF Handler, Judge, Abandon, Dispatch, HandlerOk, HandlerErr, Disconnect, Finish,
                     Engine, EngineRespond, EngineFail, EngineReport, ShadowReport, ShadowEnd,
                     limiterVars
<1>2. UNCHANGED req => ScopesOf(r)' = ScopesOf(r) /\ ProjectOfRequest(r)' = ProjectOfRequest(r)
  BY DEF ProjectOfRequest, ScopesOf, KeyOf
<1>3. CASE Judge(r) \/ Dispatch(r)
  <2>1. /\ pc[r] \in {"admitted", "judged"} /\ UNCHANGED req
        /\ \/ pc'[r] = "judged" /\ engine' = engine
           \/ pc'[r] = "dispatched" /\ engine'[r] = "running"
    BY <1>3 DEF Judge, Dispatch, Goto, TypeOK
  <2> QED  BY <1>1, <1>2, <2>1 DEF Owing, BeforeReserve, HandedOver, LimiterPc
<1>4. CASE Abandon(r) \/ HandlerErr(r) \/ Disconnect(r)
  <2>1. /\ pc[r] \in {"admitted", "judged", "dispatched"} /\ pc'[r] = "returned" /\ UNCHANGED req
        /\ engine'[r] # "running" /\ rel'[r]["permit"] = "key"
    BY <1>4 DEF Abandon, HandlerErr, Disconnect, DropPermit, Goto, TypeOK, Owing, LimiterPc, Sources
  <2> QED  BY <1>1, <1>2, <2>1 DEF Owing, BeforeReserve, HandedOver, LimiterPc, Owed
<1>5. CASE HandlerOk(r)
  <2>1. /\ pc[r] = "dispatched" /\ pc'[r] = "returned" /\ UNCHANGED <<req, engine, rel>>
        /\ engine[r] \in {"responded", "done"}
    BY <1>5 DEF HandlerOk, Goto, TypeOK
  <2> QED  BY <1>1, <1>2, <2>1 DEF Owing, BeforeReserve, HandedOver, LimiterPc, Owed
<1>6. CASE Finish(r)
  <2>1. /\ HandedOver(r) /\ pc'[r] = "idle" /\ engine'[r] = "none"
        /\ \A s \in own[r] : ~Owed(r, s)
    BY <1>6 DEF Finish, HandedOver, Owed, Sources, Leave, Goto, TypeOK
  <2>2. own[r] = {}
    BY <2>1 DEF Owing
  <2> QED  BY <1>1, <2>1, <2>2 DEF Owing, BeforeReserve, HandedOver
<1>7. CASE EngineRespond(r) \/ EngineFail(r)
  <2>1. /\ engine[r] = "running" /\ engine'[r] \in {"responded", "failed"} /\ UNCHANGED <<pc, req>>
    BY <1>7 DEF EngineRespond, EngineFail, limiterVars, TypeOK
  <2>2. pc[r] = "dispatched"
    BY <2>1 DEF Owing
  <2> QED  BY <1>1, <1>2, <2>1, <2>2 DEF Owing, BeforeReserve, HandedOver, LimiterPc
<1>8. CASE EngineReport(r)
  <2>1. /\ engine[r] = "responded" /\ engine'[r] = "done" /\ UNCHANGED <<pc, req>>
        /\ rel'[r]["main"] = "key"
    BY <1>8 DEF EngineReport, FinishHook, QuotaReleaseZero, limiterVars, TypeOK, Sources
  <2>2. pc[r] \in {"dispatched", "returned"}
    BY <2>1 DEF Owing
  <2> QED  BY <1>1, <1>2, <2>1, <2>2 DEF Owing, BeforeReserve, HandedOver, LimiterPc, Owed
<1>9. CASE ShadowReport(r) \/ ShadowEnd(r)
  <2>1. /\ UNCHANGED <<pc, req, engine>>
        /\ \A source \in {"main", "permit"} : rel'[r][source] = rel[r][source]
    BY <1>9 DEF ShadowReport, ShadowEnd, FinishHook, limiterVars, TypeOK, Sources
  <2>2. HandedOver(r)' = HandedOver(r) /\ \A s : Owed(r, s)' = Owed(r, s)
    BY <1>2, <2>1 DEF HandedOver, Owed
  <2> QED  BY <1>1, <1>2, <2>1, <2>2 DEF Owing
<1> QED  BY <1>3, <1>4, <1>5, <1>6, <1>7, <1>8, <1>9 DEF Handler, Engine

(* A release gives back the key's slot and then owes the project's only;   *)
(* one of a mirrored copy gives back what nobody held.                     *)
LEMMA ReleaseOwes ==
  ASSUME TypeOK, LeakInv, NEW r \in Requests, Release(r)
  PROVE  SlotsHeld' /\ Owing(r)'
<1> SlotsHeld /\ Owing(r)
  BY DEF LeakInv
<1>1. PICK source \in Sources : ReleaseKey(r, source) \/ ReleaseProject(r, source)
  BY DEF Release
<1>2. UNCHANGED <<pc, req, engine>>
  BY <1>1 DEF ReleaseKey, ReleaseProject
<1>3. /\ HandedOver(r)' = HandedOver(r) /\ ScopesOf(r)' = ScopesOf(r)
      /\ ProjectOfRequest(r)' = ProjectOfRequest(r)
  BY <1>2 DEF HandedOver, ScopesOf, KeyOf, ProjectOfRequest
<1>4. PICK s : /\ Dec(s) /\ GiveBack(r, source, s)
               /\ \A other \in Sources : other # source => rel'[r][other] = rel[r][other]
               /\ \/ s = KeyOf(r) /\ rel'[r][source] = "project"
                  \/ s = ProjectOfRequest(r) /\ rel[r][source] = "project"
  <2>1. CASE ReleaseKey(r, source)
    BY <2>1 DEF ReleaseKey, TypeOK
  <2>2. CASE ReleaseProject(r, source)
    BY <2>2 DEF ReleaseProject, TypeOK
  <2> QED  BY <1>1, <2>1, <2>2
<1>5. own' = own \/ own' = [own EXCEPT ![r] = @ \ {s}]
  BY <1>4 DEF GiveBack, TypeOK
<1>6. own'[r] \subseteq own[r]
  BY <1>5 DEF TypeOK
<1>7. SlotsHeld'
  <2>1. CASE s \in Scopes
    BY <1>4, <1>5, <2>1, GiveHeld
  <2>2. CASE s \notin Scopes
    <3>1. slots' = slots
      BY <1>4, <2>2 DEF Dec, TypeOK
    <3>2. \A q \in Scopes : Holders(q)' = Holders(q)
      <4>1. ASSUME NEW q \in Scopes, NEW h \in Requests
            PROVE  q \in own'[h] <=> q \in own[h]
        <5>1. q # s
          BY <2>2
        <5> QED  BY <1>5, <5>1 DEF TypeOK
      <4> QED  BY <4>1 DEF Holders
    <3> QED  BY <3>1, <3>2 DEF SlotsHeld
  <2> QED  BY <2>1, <2>2
<1>8. ASSUME HandedOver(r), NEW q \in own'[r]
      PROVE  Owed(r, q)'
  <2>1. own[r] \subseteq ScopesOf(r) /\ Owed(r, q)
    BY <1>6, <1>8 DEF Owing, HandedOver
  <2>2. PICK by \in {"main", "permit"} :
          rel[r][by] = "key" \/ (rel[r][by] = "project" /\ q = ProjectOfRequest(r))
    BY <2>1 DEF Owed
  <2>3. CASE by # source
    <3>1. rel'[r][by] = rel[r][by]
      BY <1>4, <2>3 DEF Sources
    <3> QED  BY <1>3, <2>2, <3>1 DEF Owed
  <2>4. CASE by = source
    <3>1. own'[r] = own[r] \ {s}
      BY <1>4, <2>4 DEF GiveBack, TypeOK
    <3>2. q # s
      BY <3>1
    <3>3. rel'[r][by] = "project" /\ q = ProjectOfRequest(r)
      BY <1>4, <1>6, <2>1, <2>2, <2>4, <3>2 DEF ScopesOf
    <3> QED  BY <1>3, <3>3 DEF Owed
  <2> QED  BY <2>3, <2>4
<1>9. Owing(r)'
  BY <1>2, <1>3, <1>6, <1>8 DEF Owing
<1> QED  BY <1>7, <1>9

LEMMA LeakNext ==
  ASSUME TypeOK, LeakInv, [Next]_vars
  PROVE  LeakInv'
<1>1. ASSUME NEW r \in Requests, Limiter(r) \/ Handler(r) \/ Engine(r) \/ Release(r)
      PROVE  LeakInv'
  <2>1. SlotsHeld' /\ Owing(r)'
    BY <1>1, LimiterOwes, HandlerOwes, ReleaseOwes
  <2>2. \A q \in Requests : q # r => Owing(q)'
    BY <1>1, StepOfOne, OthersOwe DEF LeakInv
  <2> QED  BY <2>1, <2>2 DEF LeakInv
<1>2. CASE Environment \/ UNCHANGED vars
  <2>1. UNCHANGED <<slots, own, pc, req, engine, shadow, rel>>
    BY <1>2 DEF Environment, Tick, SetLimits, vars, limiterVars
  <2>2. \A q \in Requests : Untouched(q)
    BY <2>1 DEF Untouched
  <2> QED  BY <2>1, <2>2, OthersOwe, NothingHeld DEF LeakInv
<1> QED  BY <1>1, <1>2 DEF Next

LEMMA LeakInit == Init => LeakInv
<1> SUFFICES ASSUME Init
             PROVE  LeakInv
  OBVIOUS
<1>1. \A s \in Scopes : slots[s] = 0
  BY DEF Init, LimiterInit
<1> QED  BY <1>1, HoldersFinite
         DEF LeakInv, SlotsHeld, Owing, Init, LimiterInit, HandedOver

(* An idle server has every slot free, whatever failed, disconnected, was  *)
(* mirrored, reported twice or changed its limits on the way.              *)
THEOREM SlotsReturned == Spec => []NoLeakedSlot
<1> DEFINE I == TypeOK /\ LeakInv
<1>1. Init => I
  BY InitType, LeakInit
<1>2. I /\ [Next]_vars => I'
  BY NextType, LeakNext
<1>3. ASSUME I
      PROVE  NoLeakedSlot
  <2> SUFFICES ASSUME \A r \in Requests : pc[r] = "idle", NEW s \in Scopes
               PROVE  slots[s] = 0
    BY DEF NoLeakedSlot
  <2>1. Holders(s) = {}
    BY <1>3 DEF LeakInv, Owing, BeforeReserve, Holders
  <2>2. slots[s] \in Nat /\ slots[s] <= 0
    BY <1>3, <2>1, FS_EmptySet DEF LeakInv, SlotsHeld, TypeOK
  <2> QED  BY <2>2
<1> QED  BY <1>1, <1>2, <1>3, PTL DEF Spec

----------------------------------------------------------------------------
(* The limiter implements one counting semaphore for each scope.           *)

LEMMA TakeStep ==
  ASSUME SlotsInv, NEW r \in Requests, NEW s \in Scopes, NEW cap \in CapsOf(s),
         s \notin own[r], ~Reached(s, cap), Inc(r, s)
  PROVE  Pool!Next
<1>1. Holders(s)' = Holders(s) \cup {r} /\ r \notin Holders(s)
  BY DEF Holders, Inc, SlotsInv, TypeOK
<1>2. \A q \in Scopes : q # s => Holders(q)' = Holders(q)
  BY DEF Holders, Inc, SlotsInv, TypeOK
<1>3. Cardinality(Holders(s)) < cap
  BY HoldersFinite, CapType DEF Reached, SlotsInv, SlotsMatchHolders
<1>4. Pool!Take(s, r)
  <2>1. \E c \in [q \in Scopes |-> CapsOf(q)][s] : Cardinality(Holders(s)) < c
    BY <1>3
  <2>2. [q \in Scopes |-> Holders(q)]' = [[q \in Scopes |-> Holders(q)] EXCEPT ![s] = @ \cup {r}]
    BY <1>1, <1>2
  <2>3. r \notin [q \in Scopes |-> Holders(q)][s]
    BY <1>1
  <2>4. \E c \in [q \in Scopes |-> CapsOf(q)][s] : Cardinality([q \in Scopes |-> Holders(q)][s]) < c
    BY <2>1
  <2> QED  BY <2>2, <2>3, <2>4 DEF Pool!Take, Pool!Cardinality, Cardinality
<1> QED  BY <1>4 DEF Pool!Next

LEMMA GiveStep ==
  ASSUME SlotsInv, NEW r \in Requests, NEW s \in Scopes,
         own' = [own EXCEPT ![r] = @ \ {s}]
  PROVE  Pool!Next \/ UNCHANGED [q \in Scopes |-> Holders(q)]
<1>1. Holders(s)' = Holders(s) \ {r}
  BY DEF Holders, SlotsInv, TypeOK
<1>2. \A q \in Scopes : q # s => Holders(q)' = Holders(q)
  BY DEF Holders, SlotsInv, TypeOK
<1>3. CASE r \in Holders(s)
  <2>1. Pool!Give(s, r)
    BY <1>1, <1>2, <1>3 DEF Pool!Give
  <2> QED  BY <2>1 DEF Pool!Next
<1>4. CASE r \notin Holders(s)
  BY <1>1, <1>2, <1>4
<1> QED  BY <1>3, <1>4

LEMMA PoolInit == Init => Pool!Init
BY DEF Init, LimiterInit, Pool!Init, Holders

LEMMA PoolStep ==
  ASSUME ReleasedOnce, SlotsInv, [Next]_vars
  PROVE  Pool!Next \/ UNCHANGED [s \in Scopes |-> Holders(s)]
<1> TypeOK
  BY DEF SlotsInv
<1>1. ASSUME NEW r \in Requests, ReserveProject(r) \/ ReserveKey(r)
      PROVE  Pool!Next \/ UNCHANGED own
  <2>1. CASE ReserveProject(r)
    <3>1. Ownership(r) /\ ProjectOfRequest(r) \in ScopesOf(r) /\ pc[r] = "reserve_project"
      BY <2>1 DEF SlotsInv, ScopesOf, ReserveProject
    <3>2. own[r] = {}
      BY <3>1 DEF Ownership, BeforeReserve
    <3> QED  BY <2>1, <3>1, <3>2, LimitType, TakeStep DEF ReserveProject
  <2>2. CASE ReserveKey(r)
    <3>1. Ownership(r) /\ KeyOf(r) \in ScopesOf(r) /\ pc[r] = "reserve_key"
      BY <2>2 DEF SlotsInv, ScopesOf, ReserveKey
    <3>2. KeyOf(r) \notin own[r]
      BY <3>1, LimitType DEF Ownership
    <3> QED  BY <2>2, <3>1, <3>2, LimitType, TakeStep DEF ReserveKey
  <2> QED  BY <1>1, <2>1, <2>2
<1>2. ASSUME NEW r \in Requests, Rollback(r) \/ Release(r)
      PROVE  Pool!Next \/ UNCHANGED [s \in Scopes |-> Holders(s)]
  <2>1. pc[r] # "idle"
    BY <1>2 DEF Rollback, Release, ReleaseKey, ReleaseProject, SlotsInv, OneRelease,
                HandedOver, Quiet
  <2>2. KeyOf(r) \in Scopes /\ ProjectOfRequest(r) \in Scopes
    BY <2>1, RequestType
  <2>3. CASE Rollback(r)
    BY <2>2, <2>3, GiveStep DEF Rollback
  <2>4. CASE Release(r)
    <3>1. PICK source \in Sources : ReleaseKey(r, source) \/ ReleaseProject(r, source)
      BY <2>4 DEF Release
    <3>2. source # "shadow"
      BY <3>1 DEF ReleaseKey, ReleaseProject, SlotsInv, OneRelease
    <3> QED  BY <2>2, <3>1, <3>2, GiveStep DEF ReleaseKey, ReleaseProject, GiveBack
  <2> QED  BY <1>2, <2>3, <2>4
<1>3. UNCHANGED own => UNCHANGED [s \in Scopes |-> Holders(s)]
  BY DEF Holders
<1> QED  BY <1>1, <1>2, <1>3
         DEF Next, vars, limiterVars, Limiter, Environment, Handler, Engine, TryAcquire,
             Arrive, CheckProjectRpm, EvictProject, CheckKeyRpm, EvictKey,
             RecordProjectRpm, RecordKeyRpm, Tick, SetLimits,
             Judge, Abandon, Dispatch, HandlerOk, HandlerErr, Disconnect, Finish,
             EngineRespond, EngineFail, EngineReport, ShadowReport, ShadowEnd

(* When the slots of a request are released once, every interleaving of    *)
(* try_acquire, release, hooks and permits is a behaviour of one counting  *)
(* semaphore for each scope.                                               *)
THEOREM SlotPoolImplemented ==
  ASSUME ReleasedOnce
  PROVE  Spec => ImplementsSlotPool
<1>1. SlotsInv /\ [Next]_vars => [Pool!Next]_[s \in Scopes |-> Holders(s)]
  BY PoolStep
<1> QED  BY <1>1, PoolInit, SlotsInvariant, PTL DEF Spec, ImplementsSlotPool, Pool!Spec

----------------------------------------------------------------------------
(* Counting in a window.                                                   *)

(* How many of the instants of a window are in S.                          *)
HitsAt(events, S) == {i \in 1..Len(events) : events[i] \in S}
Hits(events, S) == Cardinality(HitsAt(events, S))

LEMMA HitsType ==
  ASSUME NEW events \in Seq(Instants), NEW S
  PROVE  /\ Len(events) \in Nat /\ IsFiniteSet(HitsAt(events, S))
         /\ Hits(events, S) \in Nat /\ Hits(events, S) <= Len(events)
<1>1. Len(events) \in Nat
  BY LenProperties
<1>2. IsFiniteSet(1..Len(events)) /\ Cardinality(1..Len(events)) = Len(events)
  <2>1. \A n \in Nat : (IF 1 > n THEN 0 ELSE n - 1 + 1) = n
    OBVIOUS
  <2> QED  BY <1>1, <2>1, FS_Interval
<1>3. HitsAt(events, S) \in SUBSET (1..Len(events))
  BY DEF HitsAt
<1> QED  BY <1>1, <1>2, <1>3, FS_Subset, FS_CardinalityType DEF Hits

LEMMA HitsNone ==
  ASSUME NEW S
  PROVE  Hits(<<>>, S) = 0
<1>1. HitsAt(<<>>, S) = {}
  BY DEF HitsAt
<1> QED  BY <1>1, FS_EmptySet DEF Hits

LEMMA HitsMore ==
  ASSUME NEW events \in Seq(Instants), NEW S, NEW T, S \subseteq T
  PROVE  Hits(events, S) <= Hits(events, T)
<1>1. HitsAt(events, S) \in SUBSET HitsAt(events, T)
  BY DEF HitsAt
<1> QED  BY <1>1, HitsType, FS_Subset DEF Hits

LEMMA HitsAppend ==
  ASSUME NEW events \in Seq(Instants), NEW t \in Instants, NEW S
  PROVE  /\ Append(events, t) \in Seq(Instants)
         /\ Hits(Append(events, t), S) = Hits(events, S) + IF t \in S THEN 1 ELSE 0
<1> DEFINE n == Len(events)
           e == Append(events, t)
<1>1. /\ n \in Nat /\ e \in Seq(Instants) /\ Len(e) = n + 1
      /\ \A i \in 1..n : e[i] = events[i]
      /\ e[n + 1] = t
  BY LenProperties, AppendProperties
<1> HIDE DEF e
<1>2. \A i \in 1..Len(e) : i \in 1..n \/ i = n + 1
  BY <1>1
<1>3. 1..n \subseteq 1..Len(e) /\ n + 1 \in 1..Len(e) /\ n + 1 \notin 1..n
  BY <1>1
<1>4. HitsAt(e, S) = HitsAt(events, S) \cup (IF t \in S THEN {n + 1} ELSE {})
  <2> HIDE DEF n
  <2> QED  BY <1>1, <1>2, <1>3 DEF HitsAt, n
<1>5. n + 1 \notin HitsAt(events, S)
  BY <1>3 DEF HitsAt
<1> HIDE DEF n
<1>6. CASE t \in S
  <2>1. HitsAt(e, S) = HitsAt(events, S) \cup {n + 1}
    BY <1>4, <1>6
  <2>2. IsFiniteSet(HitsAt(events, S))
    BY HitsType
  <2>3. Cardinality(HitsAt(e, S)) = Cardinality(HitsAt(events, S)) + 1
    BY <1>5, <2>1, <2>2, FS_AddElement
  <2> QED  BY <1>1, <1>6, <2>3 DEF Hits, e
<1>7. CASE t \notin S
  <2>1. HitsAt(e, S) = HitsAt(events, S)
    BY <1>4, <1>7
  <2> QED  BY <1>1, <1>7, <2>1, HitsType DEF Hits, e
<1> QED  BY <1>1, <1>6, <1>7 DEF e

(* What pruning drops is in no set of instants younger than the window.    *)
LEMMA HitsPrune ==
  ASSUME NEW events \in Seq(Instants), NEW t \in Instants, NEW S \in SUBSET Instants,
         \A u \in S : t - u < Window
  PROVE  Hits(Prune(events, t), S) = Hits(events, S)
<1> DEFINE n == Len(events)
           live == {i \in 1..n : t - events[i] < Window}
           first == CHOOSE i \in live : \A j \in live : i <= j
<1>1. n \in Nat /\ \A i \in 1..n : events[i] \in Instants
  BY LenProperties, ElementOfSeq
<1>2. HitsAt(events, S) \subseteq live
  BY DEF HitsAt
<1>3. CASE live = {}
  <2>1. Prune(events, t) = <<>>
    BY <1>3 DEF Prune
  <2>2. HitsAt(events, S) = {}
    BY <1>2, <1>3
  <2> QED  BY <2>1, <2>2, HitsNone, FS_EmptySet DEF Hits
<1>4. CASE live # {}
  <2> DEFINE e == SubSeq(events, first, n)
             m == n - first + 1
             f == [i \in HitsAt(e, S) |-> first + i - 1]
  <2>1. Prune(events, t) = e
    BY <1>4 DEF Prune
  <2>2. first \in live /\ \A j \in live : first <= j
    <3>1. live \in SUBSET Nat
      OBVIOUS
    <3> QED  BY <1>4, <3>1, LeastNat
  <2>3. first \in 1..n
    BY <2>2
  <2> HIDE DEF first
  <2>4. Len(e) = m /\ m \in Nat /\ \A i \in 1..m : e[i] = events[first + i - 1]
    <3>1. first \in Int /\ n \in Int /\ \A i \in first..n : events[i] \in Instants
      BY <1>1, <2>3
    <3>2. /\ Len(e) = IF first <= n THEN m ELSE 0
          /\ \A i \in 1..m : e[i] = events[first + i - 1]
      BY <3>1, SubSeqProperties
    <3> HIDE DEF e
    <3> QED  BY <1>1, <2>3, <3>2
  <2> HIDE DEF e
  <2>5. \A i \in 1..m : first + i - 1 \in 1..n
    BY <1>1, <2>3
  <2>6. \A j \in first..n : j - first + 1 \in 1..m /\ first + (j - first + 1) - 1 = j
    BY <1>1, <2>3
  <2>7. f \in [HitsAt(e, S) -> HitsAt(events, S)]
    BY <2>4, <2>5 DEF HitsAt
  <2>8. \A i, j \in HitsAt(e, S) : f[i] = f[j] => i = j
    <3>1. HitsAt(e, S) \subseteq Nat
      BY <2>4 DEF HitsAt
    <3> QED  BY <2>3, <3>1
  <2>9. \A j \in HitsAt(events, S) : \E i \in HitsAt(e, S) : f[i] = j
    <3> SUFFICES ASSUME NEW j \in HitsAt(events, S)
                 PROVE  \E i \in HitsAt(e, S) : f[i] = j
      OBVIOUS
    <3>1. j \in first..n
      BY <1>1, <1>2, <2>2, <2>3
    <3>2. PICK i \in 1..m : i = j - first + 1
      BY <2>6, <3>1
    <3>3. first + i - 1 = j
      BY <2>6, <3>1, <3>2
    <3>4. i \in HitsAt(e, S)
      BY <2>4, <3>3 DEF HitsAt
    <3> QED  BY <3>3, <3>4
  <2>10. f \in Bijection(HitsAt(e, S), HitsAt(events, S))
    <3> HIDE DEF f
    <3> QED  BY <2>7, <2>8, <2>9, Fun_IsBij
  <2>11. e \in Seq(Instants)
    BY <2>1, PruneType
  <2>12. Hits(e, S) = Hits(events, S)
    <3> HIDE DEF f
    <3>1. ExistsBijection(HitsAt(e, S), HitsAt(events, S))
      BY <2>10, Fun_ExistsBij
    <3> QED  BY <2>11, <3>1, HitsType, FS_Bijection DEF Hits
  <2> QED  BY <2>1, <2>12
<1> QED  BY <1>3, <1>4

----------------------------------------------------------------------------
(* What a step does to the windows.                                        *)

Events(s) == IF window[s] = None THEN <<>> ELSE window[s].events

(* Requests take their instant from the clock when they arrive.            *)
Arrived == \A r \in Requests : pc[r] # "idle" => req[r].now <= clock

Pruned(s, t) == Events(s)' = Prune(Events(s), t) /\ admitted'[s] = admitted[s]

Recorded(s, t) ==
  /\ Events(s)' = Append(Prune(Events(s), t), t)
  /\ admitted'[s] = [admitted[s] EXCEPT ![t] = @ + 1]

(* A request at work on the window of s, and on no other.                  *)
Visits(r, s) ==
  /\ pc[r] # "idle" /\ s \in ScopesOf(r)
  /\ clock' = clock
  /\ \A q \in Scopes \ {s} : window'[q] = window[q] /\ admitted'[q] = admitted[q]
  /\ \/ window'[s] = window[s] /\ admitted'[s] = admitted[s]
     \/ Pruned(s, req[r].now)
     \/ Recorded(s, req[r].now)

LEMMA EventsType ==
  ASSUME TypeOK, NEW s \in Scopes
  PROVE  /\ Events(s) \in Seq(Instants) /\ Len(Events(s)) \in Nat
         /\ \A t \in Instants : /\ Entry(s, t).events = Events(s)
                                /\ Prune(Events(s), t) \in Seq(Instants)
<1>1. window[s] # None => window[s] \in RpmState
  BY DEF TypeOK, Option
<1>2. Events(s) \in Seq(Instants)
  BY <1>1 DEF Events, RpmState
<1> QED  BY <1>2, LenProperties, PruneType DEF Entry, Events

(* The steps of try_acquire on a window, and what they leave alone.        *)
LEMMA ExceedVisits ==
  ASSUME TypeOK, NEW r \in Requests, pc[r] # "idle", NEW s \in ScopesOf(r), NEW evict, NEW next,
         WouldExceedRpm(r, s, evict, next), UNCHANGED <<clock, admitted>>
  PROVE  /\ Visits(r, s)
         /\ LimitOf(r, s).rpm = None => window' = window
         /\ LimitOf(r, s).rpm # None => Pruned(s, req[r].now)
<1> DEFINE t == req[r].now
           events == Prune(Events(s), t)
<1>1. s \in Scopes /\ t \in Instants
  BY RequestType DEF ScopesOf
<1>2. Entry(s, t).events = Events(s) /\ events \in Seq(Instants)
  BY <1>1, EventsType
<1>3. CASE LimitOf(r, s).rpm = None
  BY <1>3 DEF WouldExceedRpm, Visits
<1>4. CASE LimitOf(r, s).rpm # None
  <2>1. window' = [window EXCEPT ![s] = [events |-> events, last |-> t]]
    BY <1>2, <1>4 DEF WouldExceedRpm
  <2> HIDE DEF events, t
  <2>2. [events |-> events, last |-> t] \in RpmState
    BY <1>1, <1>2 DEF RpmState
  <2>3. window'[s] = [events |-> events, last |-> t] /\ window'[s] # None
    BY <1>1, <2>1, <2>2, StateAssumption DEF TypeOK
  <2>4. Events(s)' = events
    BY <2>3 DEF Events
  <2>5. \A q \in Scopes \ {s} : window'[q] = window[q]
    BY <2>1 DEF TypeOK
  <2> QED  BY <1>4, <2>4, <2>5 DEF Visits, Pruned, events, t
<1> QED  BY <1>3, <1>4

LEMMA EvictVisits ==
  ASSUME TypeOK, NEW r \in Requests, pc[r] # "idle", NEW s \in ScopesOf(r), NEW next,
         EvictIfEmpty(r, s, next), UNCHANGED <<clock, admitted>>
  PROVE  /\ Visits(r, s)
         /\ window'[s] = window[s] \/ Pruned(s, req[r].now)
<1> DEFINE t == req[r].now
           events == Prune(Events(s), t)
           left == IF window[s] = None \/ events = <<>> THEN None ELSE [window[s] EXCEPT !.events = events]
<1>1. s \in Scopes /\ t \in Instants
  BY RequestType DEF ScopesOf
<1>2. Entry(s, t).events = Events(s) /\ events \in Seq(Instants)
  BY <1>1, EventsType
<1>3. window' = [window EXCEPT ![s] = left]
  BY <1>2 DEF EvictIfEmpty
<1> HIDE DEF events, t
<1>4. window[s] # None => window[s] \in RpmState
  BY <1>1 DEF TypeOK, Option
<1>5. window'[s] = left /\ \A q \in Scopes \ {s} : window'[q] = window[q]
  BY <1>1, <1>3 DEF TypeOK
<1>6. CASE window[s] = None
  BY <1>5, <1>6 DEF Visits
<1>7. CASE window[s] # None /\ events = <<>>
  <2>1. Events(s)' = events
    BY <1>5, <1>7 DEF Events
  <2> QED  BY <1>5, <2>1 DEF Visits, Pruned, events, t
<1>8. CASE window[s] # None /\ events # <<>>
  <2>1. left \in RpmState /\ left.events = events
    BY <1>2, <1>4, <1>8 DEF RpmState
  <2>2. Events(s)' = events
    BY <1>5, <2>1, StateAssumption DEF Events
  <2> QED  BY <1>5, <2>2 DEF Visits, Pruned, events, t
<1> QED  BY <1>6, <1>7, <1>8

LEMMA RecordVisits ==
  ASSUME TypeOK, NEW r \in Requests, pc[r] # "idle", NEW s \in ScopesOf(r),
         RecordRpm(r, s), UNCHANGED clock
  PROVE  /\ Visits(r, s)
         /\ LimitOf(r, s).rpm = None => window' = window /\ admitted' = admitted
         /\ LimitOf(r, s).rpm # None => Recorded(s, req[r].now)
<1> DEFINE t == req[r].now
           events == Append(Prune(Events(s), t), t)
<1>1. s \in Scopes /\ t \in Instants
  BY RequestType DEF ScopesOf
<1>2. Entry(s, t).events = Events(s) /\ events \in Seq(Instants)
  BY <1>1, EventsType, AppendProperties
<1>3. CASE LimitOf(r, s).rpm = None
  BY <1>3 DEF RecordRpm, Visits
<1>4. CASE LimitOf(r, s).rpm # None
  <2>1. /\ window' = [window EXCEPT ![s] = [events |-> events, last |-> t]]
        /\ admitted' = [admitted EXCEPT ![s][t] = @ + 1]
    BY <1>2, <1>4 DEF RecordRpm
  <2> HIDE DEF events, t
  <2>2. [events |-> events, last |-> t] \in RpmState
    BY <1>1, <1>2 DEF RpmState
  <2>3. window'[s] = [events |-> events, last |-> t] /\ window'[s] # None
    BY <1>1, <2>1, <2>2, StateAssumption DEF TypeOK
  <2>4. Events(s)' = events
    BY <2>3 DEF Events
  <2>5. \A q \in Scopes \ {s} : window'[q] = window[q] /\ admitted'[q] = admitted[q]
    BY <2>1 DEF TypeOK
  <2>6. admitted'[s] = [admitted[s] EXCEPT ![t] = @ + 1]
    BY <1>1, <2>1 DEF TypeOK
  <2> QED  BY <1>4, <2>4, <2>5, <2>6 DEF Visits, Recorded, events, t
<1> QED  BY <1>3, <1>4

LEMMA TryAcquireVisits ==
  ASSUME TypeOK, NEW r \in Requests, TryAcquire(r)
  PROVE  \E s \in Scopes : Visits(r, s)
<1>1. CASE CheckProjectRpm(r) \/ EvictProject(r) \/ RecordProjectRpm(r)
  <2>1. pc[r] # "idle" /\ ProjectOfRequest(r) \in ScopesOf(r)
    BY <1>1 DEF CheckProjectRpm, EvictProject, RecordProjectRpm, ScopesOf
  <2>2. Visits(r, ProjectOfRequest(r))
    BY <1>1, <2>1, ExceedVisits, EvictVisits, RecordVisits
    DEF CheckProjectRpm, EvictProject, RecordProjectRpm
  <2> QED  BY <2>1, <2>2, RequestType
<1>2. CASE CheckKeyRpm(r) \/ EvictKey(r) \/ RecordKeyRpm(r)
  <2>1. pc[r] # "idle" /\ KeyOf(r) \in ScopesOf(r)
    BY <1>2 DEF CheckKeyRpm, EvictKey, RecordKeyRpm, ScopesOf
  <2>2. Visits(r, KeyOf(r))
    BY <1>2, <2>1, ExceedVisits, EvictVisits, RecordVisits DEF CheckKeyRpm, EvictKey, RecordKeyRpm
  <2> QED  BY <2>1, <2>2, RequestType
<1>3. CASE ReserveProject(r) \/ ReserveKey(r) \/ Rollback(r)
  <2>1. pc[r] # "idle" /\ UNCHANGED <<clock, window, admitted>>
    BY <1>3 DEF ReserveProject, ReserveKey, Rollback
  <2>2. Visits(r, KeyOf(r))
    BY <2>1 DEF Visits, ScopesOf
  <2> QED  BY <2>1, <2>2, RequestType
<1> QED  BY <1>1, <1>2, <1>3 DEF TryAcquire

(* Every other step leaves the windows alone.                              *)
LEMMA WindowSteps ==
  ASSUME TypeOK, [Next]_vars
  PROVE  \/ \E r \in Requests, s \in Scopes : Visits(r, s)
         \/ UNCHANGED <<clock, window, admitted>>
         \/ clock < MaxClock /\ clock' = clock + 1 /\ UNCHANGED <<window, admitted, pc, req>>
<1>1. ASSUME NEW r \in Requests, Arrive(r) \/ Handler(r) \/ Engine(r) \/ Release(r)
      PROVE  UNCHANGED <<clock, window, admitted>>
  BY <1>1 DEF Arrive, Handler, Engine, Release, ReleaseKey, ReleaseProject, Judge, Abandon, Dispatch,
    HandlerOk, HandlerErr, Disconnect, Finish, EngineRespond, EngineFail, EngineReport,
    ShadowReport, ShadowEnd, limiterVars
<1>2. ASSUME NEW r \in Requests, TryAcquire(r)
      PROVE  \E s \in Scopes : Visits(r, s)
  BY <1>2, TryAcquireVisits
<1>3. CASE Environment
  BY <1>3 DEF Environment, Tick, SetLimits
<1>4. CASE UNCHANGED vars
  BY <1>4 DEF vars, limiterVars
<1> QED  BY <1>1, <1>2, <1>3, <1>4 DEF Next, Limiter

(* A request moves by itself, and what it carries stays until it leaves.   *)
Moves(r) ==
  /\ \A q \in Requests \ {r} : pc'[q] = pc[q] /\ req'[q] = req[q]
  /\ pc[r] # "idle"
  /\ pc'[r] # "idle" => req'[r] = req[r]

LEMMA MoveSteps ==
  ASSUME TypeOK, NEW r \in Requests, TryAcquire(r) \/ Handler(r)
  PROVE  Moves(r)
<1> USE DEF Moves, Goto, Leave, TypeOK
<1>1. CASE CheckProjectRpm(r) \/ CheckKeyRpm(r)
  BY <1>1 DEF CheckProjectRpm, CheckKeyRpm, WouldExceedRpm
<1>2. CASE EvictProject(r) \/ EvictKey(r)
  BY <1>2 DEF EvictProject, EvictKey, EvictIfEmpty
<1>3. CASE ReserveProject(r) \/ ReserveKey(r) \/ Rollback(r)
  BY <1>3 DEF ReserveProject, ReserveKey, Rollback
<1>4. CASE RecordProjectRpm(r) \/ RecordKeyRpm(r)
  BY <1>4 DEF RecordProjectRpm, RecordKeyRpm
<1>5. CASE Handler(r)
  BY <1>5 DEF Handler, Judge, Abandon, Dispatch, HandlerOk, HandlerErr, Disconnect, Finish
<1> QED  BY <1>1, <1>2, <1>3, <1>4, <1>5 DEF TryAcquire

LEMMA OtherSteps ==
  ASSUME TypeOK, [Next]_vars
  PROVE  \/ \E r \in Requests : TryAcquire(r) \/ Handler(r)
         \/ \E r \in Requests : Arrive(r)
         \/ UNCHANGED <<pc, req>>
BY DEF Next, Limiter, Engine, Release, ReleaseKey, ReleaseProject, Environment, Tick, SetLimits,
    EngineRespond, EngineFail, EngineReport, ShadowReport, ShadowEnd, vars, limiterVars

LEMMA ArrivedNext ==
  ASSUME TypeOK, Arrived, [Next]_vars
  PROVE  Arrived'
<1>1. clock \in Nat /\ \A r \in Requests : pc[r] # "idle" => req[r].now \in Nat
  BY QuotaAssumption, RequestType DEF TypeOK, Instants
<1>2. clock' = clock \/ clock' = clock + 1
  BY WindowSteps DEF Visits
<1>3. ASSUME NEW r \in Requests, Moves(r)
      PROVE  Arrived'
  BY <1>1, <1>2, <1>3 DEF Moves, Arrived
<1>4. ASSUME NEW r \in Requests, Arrive(r)
      PROVE  Arrived'
  <2>1. /\ \A q \in Requests \ {r} : pc'[q] = pc[q] /\ req'[q] = req[q]
        /\ req'[r].now = clock /\ clock' = clock
    BY <1>4 DEF Arrive, Goto, TypeOK
  <2> QED  BY <1>1, <2>1 DEF Arrived
<1>5. CASE UNCHANGED <<pc, req>>
  BY <1>1, <1>2, <1>5 DEF Arrived
<1> QED  BY <1>3, <1>4, <1>5, MoveSteps, OtherSteps

----------------------------------------------------------------------------
(* No admission is forgotten.                                              *)

Recent == {t \in Instants : clock - t < Window}

AdmittedInv ==
  /\ \A s \in Scopes : \A t \in Recent : admitted[s][t] = Hits(Events(s), {t})
  /\ \A s \in Scopes : \A t \in Instants :
       t > clock => admitted[s][t] = 0 /\ Hits(Events(s), {t}) = 0

(* A request prunes with an instant of the past: what it drops is no       *)
(* longer in the window that ends now.                                     *)
LEMMA PastPrunes ==
  ASSUME TypeOK, Arrived, NEW r \in Requests, pc[r] # "idle", NEW s \in Scopes,
         NEW S \in SUBSET Instants, \A t \in S : clock - t < Window
  PROVE  Hits(Prune(Events(s), req[r].now), S) = Hits(Events(s), S)
<1>1. req[r].now \in Instants /\ req[r].now <= clock /\ clock \in Instants
  BY RequestType DEF Arrived, TypeOK
<1>2. \A t \in S : req[r].now - t < Window
  BY <1>1, QuotaAssumption DEF Instants
<1> QED  BY <1>1, <1>2, EventsType, HitsPrune

LEMMA AdmittedVisit ==
  ASSUME TypeOK, Arrived, AdmittedInv, NEW r \in Requests, NEW s \in Scopes, Visits(r, s)
  PROVE  AdmittedInv'
<1>1. clock \in Nat /\ req[r].now \in Instants /\ req[r].now <= clock /\ Window \in Nat /\ Instants \subseteq Nat
  BY RequestType, QuotaAssumption DEF Visits, Arrived, TypeOK, Instants
<1>2. Recent' = Recent
  BY DEF Visits, Recent
<1>3. ASSUME NEW q \in Scopes, NEW t \in Instants, window'[q] = window[q], admitted'[q] = admitted[q]
      PROVE  admitted'[q][t] = admitted[q][t] /\ Hits(Events(q)', {t}) = Hits(Events(q), {t})
  BY <1>3 DEF Events
<1>4. ASSUME NEW t \in Instants, clock - t < Window
      PROVE  Hits(Prune(Events(s), req[r].now), {t}) = Hits(Events(s), {t})
  BY <1>4, PastPrunes DEF Visits
<1>5. Prune(Events(s), req[r].now) \in Seq(Instants)
  BY <1>1, EventsType
<1>6. ASSUME NEW t \in Instants, clock - t < Window, Pruned(s, req[r].now)
      PROVE  admitted'[s][t] = admitted[s][t] /\ Hits(Events(s)', {t}) = Hits(Events(s), {t})
  BY <1>4, <1>6 DEF Pruned
<1>7. ASSUME NEW t \in Instants, clock - t < Window, Recorded(s, req[r].now)
      PROVE  LET one == IF req[r].now = t THEN 1 ELSE 0
             IN  admitted'[s][t] = admitted[s][t] + one /\ Hits(Events(s)', {t}) = Hits(Events(s), {t}) + one
  <2>1. Hits(Events(s)', {t}) = Hits(Events(s), {t}) + IF req[r].now \in {t} THEN 1 ELSE 0
    <3>1. PICK e \in Seq(Instants) : e = Prune(Events(s), req[r].now)
      BY <1>5
    <3>2. PICK u \in Instants : u = req[r].now
      BY <1>1
    <3>3. Hits(Append(e, u), {t}) = Hits(e, {t}) + IF u \in {t} THEN 1 ELSE 0
      BY HitsAppend
    <3>4. Hits(e, {t}) = Hits(Events(s), {t}) /\ Events(s)' = Append(e, u)
      BY <1>4, <1>7, <3>1, <3>2 DEF Recorded
    <3> QED  BY <3>2, <3>3, <3>4
  <2>2. admitted[s] \in [Instants -> Nat]
    BY DEF TypeOK
  <2>3. admitted'[s][t] = IF req[r].now = t THEN admitted[s][t] + 1 ELSE admitted[s][t]
    BY <1>7, <2>2 DEF Recorded
  <2> QED  BY <2>1, <2>2, <2>3
<1>8. ASSUME NEW q \in Scopes, NEW t \in Recent
      PROVE  admitted'[q][t] = Hits(Events(q)', {t})
  <2>1. t \in Instants /\ clock - t < Window /\ admitted[q][t] = Hits(Events(q), {t})
    BY <1>8 DEF Recent, AdmittedInv
  <2>2. CASE window'[q] = window[q] /\ admitted'[q] = admitted[q]
    BY <1>3, <2>1, <2>2
  <2>3. CASE q = s
    BY <1>6, <1>7, <2>1, <2>2, <2>3 DEF Visits
  <2> QED  BY <2>2, <2>3 DEF Visits
<1>9. ASSUME NEW q \in Scopes, NEW t \in Instants, t > clock
      PROVE  admitted'[q][t] = 0 /\ Hits(Events(q)', {t}) = 0
  <2>1. admitted[q][t] = 0 /\ Hits(Events(q), {t}) = 0
    BY <1>9 DEF AdmittedInv
  <2>2. t # req[r].now /\ (clock - t < Window)
    BY <1>1, <1>9
  <2>3. CASE window'[q] = window[q] /\ admitted'[q] = admitted[q]
    BY <1>3, <2>1, <2>3
  <2>4. CASE q = s
    BY <1>6, <1>7, <2>1, <2>2, <2>3, <2>4 DEF Visits
  <2> QED  BY <2>3, <2>4 DEF Visits
<1>10. clock' = clock
  BY DEF Visits
<1> QED  BY <1>2, <1>8, <1>9, <1>10 DEF AdmittedInv

LEMMA AdmittedNext ==
  ASSUME TypeOK, Arrived, AdmittedInv, [Next]_vars
  PROVE  AdmittedInv'
<1>1. ASSUME NEW r \in Requests, NEW s \in Scopes, Visits(r, s)
      PROVE  AdmittedInv'
  BY <1>1, AdmittedVisit
<1>2. CASE UNCHANGED <<clock, window, admitted>>
  BY <1>2 DEF AdmittedInv, Events, Recent
<1>3. CASE clock < MaxClock /\ clock' = clock + 1 /\ UNCHANGED <<window, admitted>>
  <2>1. clock \in Nat /\ clock + 1 \in Instants /\ Instants \subseteq Nat /\ Window \in Nat
    BY <1>3, QuotaAssumption DEF TypeOK, Instants
  <2>2. \A t \in Recent' : t \in Recent \/ t > clock
    BY <1>3, <2>1 DEF Recent
  <2>3. \A t \in Instants : t > clock' => t > clock
    BY <1>3, <2>1
  <2>4. \A s \in Scopes : Events(s)' = Events(s)
    BY <1>3 DEF Events
  <2>5. Recent' \subseteq Instants
    BY DEF Recent
  <2> QED  BY <1>3, <2>2, <2>3, <2>4, <2>5 DEF AdmittedInv
<1> QED  BY <1>1, <1>2, <1>3, WindowSteps

(* Every admission younger than the window is in the window of its scope,  *)
(* and nothing else is: no request drops an admission by pruning with an   *)
(* instant it took long ago, nor by evicting an entry that was idle when   *)
(* it looked.                                                              *)
THEOREM NoAdmissionForgotten == Spec => []NoForgottenAdmission
<1> DEFINE I == TypeOK /\ Arrived /\ AdmittedInv
<1>1. Init => I
  <2> SUFFICES ASSUME Init
               PROVE  I
    OBVIOUS
  <2>1. TypeOK
    BY InitType
  <2>2. Arrived
    BY DEF Init, LimiterInit, Arrived
  <2>3. \A s \in Scopes : Events(s) = <<>> /\ \A t \in Instants : admitted[s][t] = 0
    BY DEF Init, LimiterInit, Events
  <2>4. AdmittedInv
    BY <2>3, HitsNone DEF AdmittedInv, Recent
  <2> QED  BY <2>1, <2>2, <2>4
<1>2. I /\ [Next]_vars => I'
  BY NextType, ArrivedNext, AdmittedNext
<1>3. I => NoForgottenAdmission
  <2> SUFFICES ASSUME I, NEW s \in Scopes, NEW t \in 0..clock, clock - t < Window
               PROVE  admitted[s][t] =
                        IF window[s] = None THEN 0
                        ELSE Cardinality({i \in DOMAIN window[s].events : window[s].events[i] = t})
    BY DEF NoForgottenAdmission
  <2>1. t \in Recent
    BY QuotaAssumption DEF TypeOK, Instants, Recent
  <2>2. admitted[s][t] = Hits(Events(s), {t})
    BY <2>1 DEF AdmittedInv
  <2>3. CASE window[s] = None
    BY <2>2, <2>3, HitsNone DEF Events
  <2>4. CASE window[s] # None
    <3>1. window[s].events \in Seq(Instants) /\ Events(s) = window[s].events
      BY <2>4, EventsType DEF Events
    <3>2. HitsAt(Events(s), {t}) = {i \in DOMAIN window[s].events : window[s].events[i] = t}
      BY <3>1, LenProperties DEF HitsAt
    <3> QED  BY <2>2, <2>4, <3>2 DEF Hits
  <2> QED  BY <2>3, <2>4
<1> QED  BY <1>1, <1>2, <1>3, PTL DEF Spec

----------------------------------------------------------------------------
(* The overshoot of concurrent admissions.                                 *)

(* A request that was found within the limit of s, and records in s unless *)
(* it is rejected for another reason.                                      *)
Granted(r, s) ==
  \/ /\ s = ProjectOfRequest(r)
     /\ \/ pc[r] \in {"check_key", "evict_key", "reserve_project", "reserve_key", "record_project"}
        \/ pc[r] = "evict_project" /\ LimitOf(r, s).rpm > 0
  \/ /\ s = KeyOf(r)
     /\ \/ pc[r] \in {"reserve_project", "reserve_key", "record_project", "record_key"}
        \/ pc[r] = "evict_key" /\ LimitOf(r, s).rpm > 0

Recording(s) == {r \in Requests : pc[r] # "idle" /\ Granted(r, s) /\ LimitOf(r, s).rpm # None}

(* Each request to come has been counted, or came after the others.        *)
RpmBounded(s, hits, recording) ==
  \E limit \in RpmCapsOf(s) : hits + recording <= limit + Cardinality(Requests) - 1

RpmInv ==
  \A s \in Scopes : RpmCapsOf(s) # {} =>
    RpmBounded(s, Hits(Events(s), Recent), Cardinality(Recording(s)))

LEMMA RecordingType ==
  ASSUME NEW s
  PROVE  /\ IsFiniteSet(Recording(s)) /\ Cardinality(Recording(s)) \in Nat
         /\ Cardinality(Recording(s)) <= Cardinality(Requests) /\ Cardinality(Requests) \in Nat \ {0}
<1>1. Recording(s) \in SUBSET Requests
  BY DEF Recording
<1> QED  BY <1>1, FiniteRequests, FS_Subset, FS_CardinalityType, FS_EmptySet

LEMMA RpmLimitType ==
  ASSUME TypeOK, NEW r \in Requests, pc[r] # "idle", NEW s \in ScopesOf(r), LimitOf(r, s).rpm # None
  PROVE  s \in Scopes /\ LimitOf(r, s).rpm \in RpmCapsOf(s) /\ LimitOf(r, s).rpm \in Nat
<1>1. s \in Scopes /\ LimitOf(r, s) \in LimitsOf(s)
  BY LimitType
<1>2. LimitsOf(s) \subseteq Limits
  BY QuotaAssumption DEF LimitsOf
<1> QED  BY <1>1, <1>2 DEF Limits, RpmCapsOf, Option

LEMMA RpmCapType ==
  ASSUME NEW s \in Scopes
  PROVE  RpmCapsOf(s) \subseteq Nat
BY QuotaAssumption DEF RpmCapsOf, LimitsOf, Limits, Option

LEMMA HitsRecent ==
  TypeOK => \A s \in Scopes :
    Hits(Events(s), Recent) \in Nat /\ Hits(Events(s), Recent) <= Len(Events(s))
BY EventsType, HitsType

LEMMA HitsRecentNext ==
  ASSUME TypeOK'
  PROVE  \A s \in Scopes : Hits(Events(s), Recent)' \in Nat
<1>1. (\A s \in Scopes :
         Hits(Events(s), Recent) \in Nat /\ Hits(Events(s), Recent) <= Len(Events(s)))'
  BY HitsRecent, PTL
<1> QED  BY <1>1

(* Steps after which there is no more than before in the window and ahead. *)
LEMMA NoMoreHits ==
  ASSUME TypeOK, TypeOK', RpmInv, NEW s \in Scopes,
         Hits(Events(s), Recent)' <= Hits(Events(s), Recent),
         Recording(s)' \subseteq Recording(s)
  PROVE  RpmCapsOf(s) # {} => RpmBounded(s, Hits(Events(s), Recent)', Cardinality(Recording(s)'))
<1> SUFFICES ASSUME RpmCapsOf(s) # {}
             PROVE  RpmBounded(s, Hits(Events(s), Recent)', Cardinality(Recording(s)'))
  OBVIOUS
<1>1. PICK limit \in RpmCapsOf(s) :
        Hits(Events(s), Recent) + Cardinality(Recording(s)) <= limit + Cardinality(Requests) - 1
  BY DEF RpmInv, RpmBounded
<1>2. Cardinality(Recording(s)') <= Cardinality(Recording(s)) /\ Cardinality(Recording(s)') \in Nat
  BY RecordingType, FS_Subset, FS_CardinalityType
<1>3. Hits(Events(s), Recent) \in Nat /\ Hits(Events(s), Recent)' \in Nat
  <2>1. Hits(Events(s), Recent)' \in Nat
    BY HitsRecentNext
  <2> QED  BY <2>1, HitsRecent
<1>4. limit \in Nat /\ Cardinality(Requests) \in Nat /\ Cardinality(Recording(s)) \in Nat
  BY RpmCapType, RecordingType
<1> QED  BY <1>1, <1>2, <1>3, <1>4 DEF RpmBounded

(* A request that finds the window within its limit: the others that are   *)
(* ahead, at most all the requests there can be, have not recorded yet.    *)
LEMMA FoundWithin ==
  ASSUME TypeOK, TypeOK', NEW s \in Scopes, NEW limit \in RpmCapsOf(s),
         Hits(Events(s), Recent)' < limit
  PROVE  RpmBounded(s, Hits(Events(s), Recent)', Cardinality(Recording(s)'))
<1>1. Hits(Events(s), Recent)' \in Nat
  BY HitsRecentNext
<1>2. Recording(s)' \in SUBSET Requests
  BY DEF Recording
<1>3. Cardinality(Recording(s)') <= Cardinality(Requests) /\ Cardinality(Recording(s)') \in Nat
      /\ Cardinality(Requests) \in Nat /\ limit \in Nat
  BY <1>2, FiniteRequests, FS_Subset, FS_CardinalityType, RpmCapType
<1> QED  BY <1>1, <1>3 DEF RpmBounded

(* A request that records.                                                 *)
LEMMA OneRecorded ==
  ASSUME TypeOK, TypeOK', RpmInv, NEW s \in Scopes, NEW r \in Recording(s), RpmCapsOf(s) # {},
         Hits(Events(s), Recent)' <= Hits(Events(s), Recent) + 1,
         Recording(s)' \subseteq Recording(s) \ {r}
  PROVE  RpmBounded(s, Hits(Events(s), Recent)', Cardinality(Recording(s)'))
<1>1. PICK limit \in RpmCapsOf(s) :
        Hits(Events(s), Recent) + Cardinality(Recording(s)) <= limit + Cardinality(Requests) - 1
  BY DEF RpmInv, RpmBounded
<1>2. Cardinality(Recording(s) \ {r}) = Cardinality(Recording(s)) - 1 /\ IsFiniteSet(Recording(s) \ {r})
  BY RecordingType, FS_RemoveElement
<1>3. Cardinality(Recording(s)') <= Cardinality(Recording(s) \ {r}) /\ Cardinality(Recording(s)') \in Nat
  BY <1>2, FS_Subset, FS_CardinalityType
<1>4. Hits(Events(s), Recent) \in Nat /\ Hits(Events(s), Recent)' \in Nat
  <2>1. Hits(Events(s), Recent)' \in Nat
    BY HitsRecentNext
  <2> QED  BY <2>1, HitsRecent
<1>5. limit \in Nat /\ Cardinality(Requests) \in Nat /\ Cardinality(Recording(s)) \in Nat
  BY RpmCapType, RecordingType
<1> QED  BY <1>1, <1>2, <1>3, <1>4, <1>5 DEF RpmBounded

(* The set of requests to record changes only by the one that moves.       *)
LEMMA RecordingMoves ==
  ASSUME NEW r \in Requests, Moves(r), NEW s,
         pc'[r] # "idle" /\ Granted(r, s)' /\ LimitOf(r, s).rpm # None => r \in Recording(s)
  PROVE  Recording(s)' \subseteq Recording(s)
<1> SUFFICES ASSUME NEW q \in Recording(s)'
             PROVE  q \in Recording(s)
  OBVIOUS
<1>1. q \in Requests /\ pc'[q] # "idle" /\ Granted(q, s)' /\ LimitOf(q, s)'.rpm # None
  BY DEF Recording
<1>2. req'[q] = req[q]
  BY <1>1 DEF Moves
<1>3. LimitOf(q, s)' = LimitOf(q, s)
  BY <1>2 DEF LimitOf, KeyOf
<1>4. CASE q = r
  BY <1>1, <1>3, <1>4
<1>5. CASE q # r
  <2>1. pc'[q] = pc[q]
    BY <1>1, <1>5 DEF Moves
  <2> QED  BY <1>1, <1>2, <1>3, <2>1 DEF Recording, Granted, LimitOf, KeyOf, ProjectOfRequest
<1> QED  BY <1>4, <1>5

(* What a visit does to the number of recent admissions.                   *)
LEMMA HitsVisit ==
  ASSUME TypeOK, Arrived, NEW r \in Requests, NEW s \in Scopes, Visits(r, s), NEW q \in Scopes
  PROVE  /\ q # s => Hits(Events(q), Recent)' = Hits(Events(q), Recent)
         /\ window'[s] = window[s] \/ Pruned(s, req[r].now)
              => Hits(Events(s), Recent)' = Hits(Events(s), Recent)
         /\ Hits(Events(s), Recent)' <= Hits(Events(s), Recent) + 1
<1>1. Recent' = Recent /\ Recent \in SUBSET Instants /\ \A t \in Recent : clock - t < Window
  BY DEF Visits, Recent
<1>2. \A x \in Scopes : window'[x] = window[x] => Events(x)' = Events(x)
  BY DEF Events
<1>3. pc[r] # "idle" /\ req[r].now \in Instants
  BY RequestType DEF Visits
<1>4. Hits(Prune(Events(s), req[r].now), Recent) = Hits(Events(s), Recent)
  BY <1>1, <1>3, PastPrunes
<1>5. Hits(Events(s), Recent) \in Nat
  BY HitsRecent
<1>6. ASSUME Recorded(s, req[r].now)
      PROVE  Hits(Events(s), Recent)' <= Hits(Events(s), Recent) + 1
  <2>1. PICK e \in Seq(Instants) : e = Prune(Events(s), req[r].now)
    BY <1>3, EventsType
  <2>2. PICK u \in Instants : u = req[r].now
    BY <1>3
  <2>3. PICK S : S = Recent
    OBVIOUS
  <2>4. Hits(Append(e, u), S) = Hits(e, S) + IF u \in S THEN 1 ELSE 0
    BY HitsAppend
  <2>5. Events(s)' = Append(e, u)
    BY <1>6, <2>1, <2>2 DEF Recorded
  <2> QED  BY <1>1, <1>4, <1>5, <2>1, <2>3, <2>4, <2>5
<1>7. window'[s] = window[s] \/ Pruned(s, req[r].now)
        => Hits(Events(s), Recent)' = Hits(Events(s), Recent)
  BY <1>1, <1>2, <1>4 DEF Pruned
<1>8. q # s => Hits(Events(q), Recent)' = Hits(Events(q), Recent)
  BY <1>1, <1>2 DEF Visits
<1> QED  BY <1>5, <1>6, <1>7, <1>8 DEF Visits

(* What RpmInv says of one scope after a step.                             *)
RpmNext(s) ==
  RpmCapsOf(s) # {} => RpmBounded(s, Hits(Events(s), Recent)', Cardinality(Recording(s)'))

(* The scopes that a visit does not look at.                               *)
LEMMA RpmElsewhere ==
  ASSUME TypeOK, TypeOK', Arrived, RpmInv, NEW r \in Requests, NEW s \in Scopes,
         Visits(r, s), Moves(r), NEW q \in Scopes, q # s,
         pc'[r] # "idle" /\ Granted(r, q)' => Granted(r, q)
  PROVE  RpmNext(q)
<1>1. Hits(Events(q), Recent)' = Hits(Events(q), Recent) /\ Hits(Events(q), Recent) \in Nat
  BY HitsVisit, HitsRecent
<1>2. Recording(q)' \subseteq Recording(q)
  BY RecordingMoves DEF Recording, Moves
<1> QED  BY <1>1, <1>2, NoMoreHits DEF RpmNext

LEMMA RpmExceed ==
  ASSUME TypeOK, TypeOK', Arrived, RpmInv, NEW r \in Requests, NEW s \in ScopesOf(r), Moves(r),
         NEW evict, NEW next, WouldExceedRpm(r, s, evict, next), UNCHANGED <<clock, admitted>>,
         pc'[r] = evict /\ Granted(r, s)' => LimitOf(r, s).rpm > 0,
         evict # next, evict # "idle", next # "idle"
  PROVE  RpmNext(s)
<1>1. pc[r] # "idle" /\ s \in Scopes
  BY RequestType DEF Moves, ScopesOf
<1>2. Visits(r, s)
  BY <1>1, ExceedVisits
<1>3. Hits(Events(s), Recent) \in Nat /\ Hits(Events(s), Recent)' \in Nat
  BY <1>1, HitsRecent, HitsRecentNext
<1>4. CASE LimitOf(r, s).rpm = None
  <2>1. Hits(Events(s), Recent)' = Hits(Events(s), Recent)
    BY <1>1, <1>2, <1>4, ExceedVisits, HitsVisit
  <2>2. Recording(s)' \subseteq Recording(s)
    BY <1>4, RecordingMoves
  <2> QED  BY <1>1, <1>3, <2>1, <2>2, NoMoreHits DEF RpmNext
<1>5. CASE LimitOf(r, s).rpm # None
  <2> DEFINE limit == LimitOf(r, s).rpm
             e == Prune(Events(s), req[r].now)
  <2>1. Pruned(s, req[r].now) /\ limit \in RpmCapsOf(s) /\ limit \in Nat
    BY <1>1, <1>5, ExceedVisits, RpmLimitType
  <2>2. Hits(Events(s), Recent)' = Hits(Events(s), Recent)
    BY <1>1, <1>2, <2>1, HitsVisit
  <2>3. e \in Seq(Instants) /\ Hits(Events(s), Recent)' <= Len(e) /\ Len(e) \in Nat
    <3>1. e \in Seq(Instants)
      BY <1>1, EventsType, RequestType
    <3>2. Hits(Events(s), Recent)' = Hits(e, Recent')
      BY <2>1 DEF Pruned
    <3> HIDE DEF e
    <3> QED  BY <3>1, <3>2, HitsType
  <2>4. CASE pc'[r] = "idle"
    <3>1. Recording(s)' \subseteq Recording(s)
      BY <2>4, RecordingMoves
    <3> QED  BY <1>1, <1>3, <2>2, <3>1, NoMoreHits DEF RpmNext
  <2>5. CASE pc'[r] = next
    <3>1. ~Full(e, limit)
      <4>1. e = Prune(Entry(s, req[r].now).events, req[r].now)
        BY <1>1, EventsType, RequestType
      <4>2. pc' = [pc EXCEPT ![r] = next] \/ pc' = [pc EXCEPT ![r] = evict]
              \/ pc' = [pc EXCEPT ![r] = "idle"]
        BY <1>5 DEF WouldExceedRpm, Goto, Leave
      <4> QED  BY <1>5, <2>5, <4>1 DEF WouldExceedRpm, Goto, Leave, TypeOK
    <3>2. Len(e) < limit
      BY <2>1, <2>3, <3>1 DEF Full
    <3> HIDE DEF e
    <3>3. Hits(Events(s), Recent)' < limit
      BY <1>3, <2>1, <2>3, <3>2
    <3> QED  BY <1>1, <2>1, <3>3, FoundWithin DEF RpmNext
  <2>6. CASE pc'[r] = evict
    <3>1. e = <<>>
      <4>1. e = Prune(Entry(s, req[r].now).events, req[r].now)
        BY <1>1, EventsType, RequestType
      <4> QED  BY <1>5, <2>6, <4>1 DEF WouldExceedRpm, Goto, Leave, TypeOK
    <3>2. Hits(Events(s), Recent)' = 0
      BY <1>3, <2>3, <3>1, EmptySeq
    <3>3. CASE Granted(r, s)'
      <4>1. 0 < limit
        BY <2>1, <2>6, <3>3
      <4> QED  BY <1>1, <2>1, <3>2, <4>1, FoundWithin DEF RpmNext
    <3>4. CASE ~Granted(r, s)'
      <4>1. Recording(s)' \subseteq Recording(s)
        BY <3>4, RecordingMoves
      <4> QED  BY <1>1, <1>3, <2>2, <4>1, NoMoreHits DEF RpmNext
    <3> QED  BY <3>3, <3>4
  <2>7. pc'[r] \in {"idle", next, evict}
    BY <1>5 DEF WouldExceedRpm, Goto, Leave, TypeOK
  <2> QED  BY <2>4, <2>5, <2>6, <2>7
<1> QED  BY <1>4, <1>5

LEMMA RpmEvict ==
  ASSUME TypeOK, TypeOK', Arrived, RpmInv, NEW r \in Requests, NEW s \in ScopesOf(r), Moves(r),
         NEW next, EvictIfEmpty(r, s, next), UNCHANGED <<clock, admitted>>,
         LimitOf(r, s).rpm > 0 => Granted(r, s)
  PROVE  RpmNext(s)
<1>1. pc[r] # "idle" /\ s \in Scopes
  BY RequestType DEF Moves, ScopesOf
<1>2. Visits(r, s) /\ (window'[s] = window[s] \/ Pruned(s, req[r].now))
  BY <1>1, EvictVisits
<1>3. Hits(Events(s), Recent) \in Nat /\ Hits(Events(s), Recent)' = Hits(Events(s), Recent)
  BY <1>1, <1>2, HitsRecent, HitsVisit
<1>4. pc'[r] # "idle" /\ LimitOf(r, s).rpm # None => r \in Recording(s)
  <2> SUFFICES ASSUME pc'[r] # "idle", LimitOf(r, s).rpm # None
               PROVE  r \in Recording(s)
    OBVIOUS
  <2>1. ~Full(<<>>, LimitOf(r, s).rpm)
    BY DEF EvictIfEmpty, Leave, Goto, TypeOK
  <2>2. LimitOf(r, s).rpm \in Nat
    BY <1>1, RpmLimitType
  <2>3. LimitOf(r, s).rpm > 0
    BY <2>1, <2>2, EmptySeq DEF Full
  <2> QED  BY <1>1, <2>3 DEF Recording
<1>5. Recording(s)' \subseteq Recording(s)
  BY <1>4, RecordingMoves
<1> QED  BY <1>1, <1>3, <1>5, NoMoreHits DEF RpmNext

LEMMA RpmRecord ==
  ASSUME TypeOK, TypeOK', Arrived, RpmInv, NEW r \in Requests, NEW s \in ScopesOf(r), Moves(r),
         RecordRpm(r, s), UNCHANGED clock, Granted(r, s), ~Granted(r, s)'
  PROVE  RpmNext(s)
<1>1. pc[r] # "idle" /\ s \in Scopes
  BY RequestType DEF Moves, ScopesOf
<1>2. Visits(r, s)
  BY <1>1, RecordVisits
<1>3. Recording(s)' \subseteq Recording(s)
  BY RecordingMoves
<1>4. CASE LimitOf(r, s).rpm = None
  <2>1. Hits(Events(s), Recent)' = Hits(Events(s), Recent) /\ Hits(Events(s), Recent) \in Nat
    BY <1>1, <1>2, <1>4, RecordVisits, HitsVisit, HitsRecent
  <2> QED  BY <1>1, <1>3, <2>1, NoMoreHits DEF RpmNext
<1>5. CASE LimitOf(r, s).rpm # None
  <2>1. r \in Recording(s) /\ r \notin Recording(s)'
    BY <1>1, <1>5 DEF Recording
  <2>2. Hits(Events(s), Recent)' <= Hits(Events(s), Recent) + 1
    BY <1>1, <1>2, HitsVisit
  <2> QED  BY <1>1, <1>3, <2>1, <2>2, OneRecorded DEF RpmNext
<1> QED  BY <1>4, <1>5

LEMMA RpmTryAcquire ==
  ASSUME TypeOK, TypeOK', Arrived, RpmInv, NEW r \in Requests, TryAcquire(r), Moves(r), NEW q \in Scopes
  PROVE  RpmNext(q)
<1> DEFINE p == ProjectOfRequest(r)
           k == KeyOf(r)
<1>1. /\ pc[r] # "idle" /\ p \in Scopes /\ k \in Scopes /\ p # k
      /\ p \in ScopesOf(r) /\ k \in ScopesOf(r)
  BY RequestType, LimitType DEF Moves, ScopesOf
<1>2. /\ pc'[r] # "idle" => p' = p /\ k' = k
      /\ pc'[r] # "idle" => \A s : LimitOf(r, s)' = LimitOf(r, s)
  BY DEF Moves, ProjectOfRequest, KeyOf, LimitOf
<1>3. CASE CheckProjectRpm(r)
  <2>1. /\ WouldExceedRpm(r, p, "evict_project", "check_key") /\ UNCHANGED <<clock, admitted>>
        /\ pc[r] = "check_project"
    BY <1>3 DEF CheckProjectRpm
  <2>2. pc'[r] \in {"idle", "evict_project", "check_key"}
    BY <2>1 DEF WouldExceedRpm, Goto, Leave, TypeOK
  <2>3. CASE q = p
    <3>1. pc'[r] = "evict_project" /\ Granted(r, q)' => LimitOf(r, q).rpm > 0
      BY <1>1, <1>2, <2>3 DEF Granted
    <3> QED  BY <1>1, <2>1, <2>3, <3>1, RpmExceed
  <2>4. ASSUME q # p
        PROVE  RpmNext(q)
    <3>1. pc'[r] # "idle" => ~Granted(r, q)'
      BY <1>1, <1>2, <2>2, <2>4 DEF Granted
    <3> QED  BY <1>1, <2>1, <2>4, <3>1, ExceedVisits, RpmElsewhere
  <2> QED  BY <2>3, <2>4
<1>4. CASE CheckKeyRpm(r)
  <2>1. /\ WouldExceedRpm(r, k, "evict_key", "reserve_project") /\ UNCHANGED <<clock, admitted>>
        /\ pc[r] = "check_key"
    BY <1>4 DEF CheckKeyRpm
  <2>2. pc'[r] \in {"idle", "evict_key", "reserve_project"}
    BY <2>1 DEF WouldExceedRpm, Goto, Leave, TypeOK
  <2>3. CASE q = k
    <3>1. pc'[r] = "evict_key" /\ Granted(r, q)' => LimitOf(r, q).rpm > 0
      BY <1>1, <1>2, <2>3 DEF Granted
    <3> QED  BY <1>1, <2>1, <2>3, <3>1, RpmExceed
  <2>4. ASSUME q # k
        PROVE  RpmNext(q)
    <3>1. pc'[r] # "idle" /\ Granted(r, q)' => Granted(r, q)
      BY <1>1, <1>2, <2>1, <2>2, <2>4 DEF Granted
    <3> QED  BY <1>1, <2>1, <2>4, <3>1, ExceedVisits, RpmElsewhere
  <2> QED  BY <2>3, <2>4
<1>5. CASE EvictProject(r)
  <2>1. /\ EvictIfEmpty(r, p, "check_key") /\ UNCHANGED <<clock, admitted>>
        /\ pc[r] = "evict_project"
    BY <1>5 DEF EvictProject
  <2>2. pc'[r] \in {"idle", "check_key"}
    BY <2>1 DEF EvictIfEmpty, Goto, Leave, TypeOK
  <2>3. CASE q = p
    <3>1. LimitOf(r, q).rpm > 0 => Granted(r, q)
      BY <2>1, <2>3 DEF Granted
    <3> QED  BY <1>1, <2>1, <2>3, <3>1, RpmEvict
  <2>4. ASSUME q # p
        PROVE  RpmNext(q)
    <3>1. pc'[r] # "idle" => ~Granted(r, q)'
      BY <1>1, <1>2, <2>2, <2>4 DEF Granted
    <3> QED  BY <1>1, <2>1, <2>4, <3>1, EvictVisits, RpmElsewhere
  <2> QED  BY <2>3, <2>4
<1>6. CASE EvictKey(r)
  <2>1. /\ EvictIfEmpty(r, k, "reserve_project") /\ UNCHANGED <<clock, admitted>>
        /\ pc[r] = "evict_key"
    BY <1>6 DEF EvictKey
  <2>2. pc'[r] \in {"idle", "reserve_project"}
    BY <2>1 DEF EvictIfEmpty, Goto, Leave, TypeOK
  <2>3. CASE q = k
    <3>1. LimitOf(r, q).rpm > 0 => Granted(r, q)
      BY <2>1, <2>3 DEF Granted
    <3> QED  BY <1>1, <2>1, <2>3, <3>1, RpmEvict
  <2>4. ASSUME q # k
        PROVE  RpmNext(q)
    <3>1. pc'[r] # "idle" /\ Granted(r, q)' => Granted(r, q)
      BY <1>1, <1>2, <2>1, <2>2, <2>4 DEF Granted
    <3> QED  BY <1>1, <2>1, <2>4, <3>1, EvictVisits, RpmElsewhere
  <2> QED  BY <2>3, <2>4
<1>7. CASE ReserveProject(r) \/ ReserveKey(r) \/ Rollback(r)
  <2>1. /\ UNCHANGED <<clock, window, admitted>>
        /\ pc[r] \in {"reserve_project", "reserve_key", "rollback"}
    BY <1>7 DEF ReserveProject, ReserveKey, Rollback
  <2>2. /\ pc[r] = "reserve_project" => pc'[r] \in {"idle", "reserve_key"}
        /\ pc[r] = "reserve_key" => pc'[r] \in {"idle", "record_project", "rollback"}
        /\ pc[r] = "rollback" => pc'[r] = "idle"
    BY <1>7 DEF ReserveProject, ReserveKey, Rollback, Goto, Leave, TypeOK
  <2>3. pc'[r] # "idle" /\ Granted(r, q)' => Granted(r, q)
    BY <1>1, <1>2, <2>1, <2>2 DEF Granted
  <2>4. Recording(q)' \subseteq Recording(q)
    BY <1>1, <2>3, RecordingMoves DEF Recording
  <2>5. Hits(Events(q), Recent)' = Hits(Events(q), Recent) /\ Hits(Events(q), Recent) \in Nat
    BY <2>1, HitsRecent DEF Events, Recent
  <2> QED  BY <2>4, <2>5, NoMoreHits DEF RpmNext
<1>8. CASE RecordProjectRpm(r)
  <2>1. /\ RecordRpm(r, p) /\ UNCHANGED clock
        /\ pc[r] = "record_project" /\ pc'[r] = "record_key"
    BY <1>8 DEF RecordProjectRpm, Goto, TypeOK
  <2>2. CASE q = p
    <3>1. Granted(r, q) /\ ~Granted(r, q)'
      BY <1>1, <1>2, <2>1, <2>2 DEF Granted
    <3> QED  BY <1>1, <2>1, <2>2, <3>1, RpmRecord
  <2>3. ASSUME q # p
        PROVE  RpmNext(q)
    <3>1. Granted(r, q)' => Granted(r, q)
      BY <1>1, <1>2, <2>1, <2>3 DEF Granted
    <3> QED  BY <1>1, <2>1, <2>3, <3>1, RecordVisits, RpmElsewhere
  <2> QED  BY <2>2, <2>3
<1>9. CASE RecordKeyRpm(r)
  <2>1. /\ RecordRpm(r, k) /\ UNCHANGED clock
        /\ pc[r] = "record_key" /\ pc'[r] = "admitted"
    BY <1>9 DEF RecordKeyRpm, Goto, TypeOK
  <2>2. ~Granted(r, q)'
    BY <1>2, <2>1 DEF Granted
  <2>3. CASE q = k
    <3>1. Granted(r, q) /\ ~Granted(r, q)'
      BY <1>1, <1>2, <2>1, <2>3 DEF Granted
    <3> QED  BY <1>1, <2>1, <2>3, <3>1, RpmRecord
  <2>4. ASSUME q # k
        PROVE  RpmNext(q)
    BY <1>1, <2>1, <2>2, <2>4, RecordVisits, RpmElsewhere
  <2> QED  BY <2>3, <2>4
<1> QED  BY <1>3, <1>4, <1>5, <1>6, <1>7, <1>8, <1>9 DEF TryAcquire

LEMMA RpmOtherSteps ==
  ASSUME TypeOK, TypeOK', Arrived, RpmInv, [Next]_vars, ~\E r \in Requests : TryAcquire(r), NEW s \in Scopes
  PROVE  RpmNext(s)
<1>1. Hits(Events(s), Recent)' <= Hits(Events(s), Recent) /\ Hits(Events(s), Recent) \in Nat
  <2>1. Hits(Events(s), Recent) \in Nat /\ Events(s) \in Seq(Instants)
    BY HitsRecent, EventsType
  <2>2. UNCHANGED <<window, clock>> \/ (clock' = clock + 1 /\ window' = window)
    BY DEF Next, Limiter, Arrive, Handler, Engine, Release, ReleaseKey, ReleaseProject, Judge,
      Abandon, Dispatch, HandlerOk, HandlerErr, Disconnect, Finish, EngineRespond, EngineFail,
      EngineReport, ShadowReport, ShadowEnd, Environment, Tick, SetLimits, vars, limiterVars
  <2>3. Recent' \subseteq Recent
    BY <2>2, QuotaAssumption DEF Recent, TypeOK, Instants
  <2>4. Events(s)' = Events(s)
    BY <2>2 DEF Events
  <2> QED  BY <2>1, <2>3, <2>4, HitsMore
<1>2. Recording(s)' \subseteq Recording(s)
  <2>1. ASSUME NEW r \in Requests, Handler(r)
        PROVE  Recording(s)' \subseteq Recording(s)
    <3>1. pc'[r] \in HandlerPc \cup {"idle"}
      BY <2>1 DEF TypeOK, HandlerPc, Handler, Judge, Abandon, Dispatch, HandlerOk, HandlerErr, Disconnect, Finish,
        Goto, Leave
    <3>2. ~Granted(r, s)'
      BY <3>1 DEF Granted, HandlerPc
    <3> QED  BY <2>1, <3>2, MoveSteps, RecordingMoves
  <2>2. ASSUME NEW r \in Requests, Arrive(r)
        PROVE  Recording(s)' \subseteq Recording(s)
    <3>1. pc'[r] = "check_project" /\ \A q \in Requests \ {r} : pc'[q] = pc[q] /\ req'[q] = req[q]
      BY <2>2 DEF Arrive, Goto, TypeOK
    <3>2. ~Granted(r, s)'
      BY <3>1 DEF Granted
    <3>3. \A q \in Requests \ {r} : q \in Recording(s)' => q \in Recording(s)
      BY <3>1 DEF Recording, Granted, LimitOf, KeyOf, ProjectOfRequest
    <3> QED  BY <3>2, <3>3 DEF Recording
  <2>3. CASE UNCHANGED <<pc, req>>
    BY <2>3 DEF Recording, Granted, LimitOf, KeyOf, ProjectOfRequest
  <2> QED  BY <2>1, <2>2, <2>3, OtherSteps
<1> QED  BY <1>1, <1>2, NoMoreHits DEF RpmNext

LEMMA RpmInvNext ==
  ASSUME TypeOK, Arrived, RpmInv, [Next]_vars
  PROVE  RpmInv'
<1>1. TypeOK'
  BY NextType
<1>2. \A s \in Scopes : RpmNext(s)
  BY <1>1, MoveSteps, RpmTryAcquire, RpmOtherSteps
<1> QED  BY <1>2 DEF RpmInv, RpmNext, RpmBounded, RpmCapsOf

(* However admissions interleave between the check of the window and the   *)
(* record in it, and whatever entries are evicted meanwhile, the window of *)
(* a scope holds no more than its largest limit and one admission for each *)
(* other request that can be in the server.                                *)
THEOREM RpmOvershootIsBounded == Spec => []RpmOvershootBounded
<1> DEFINE I == TypeOK /\ Arrived /\ RpmInv
<1>1. Init => I
  <2> SUFFICES ASSUME Init
               PROVE  I
    OBVIOUS
  <2>1. TypeOK
    BY InitType
  <2>2. Arrived /\ \A s \in Scopes : Recording(s) = {} /\ Events(s) = <<>>
    BY DEF Init, LimiterInit, Arrived, Recording, Events
  <2>3. RpmInv
    <3> SUFFICES ASSUME NEW s \in Scopes, NEW limit \in RpmCapsOf(s)
                 PROVE  0 + 0 <= limit + Cardinality(Requests) - 1
      BY <2>2, HitsNone, FS_EmptySet DEF RpmInv, RpmBounded
    <3>1. limit \in Nat /\ Cardinality(Requests) \in Nat \ {0}
      BY RpmCapType, RecordingType
    <3> QED  BY <3>1
  <2> QED  BY <2>1, <2>2, <2>3
<1>2. I /\ [Next]_vars => I'
  BY NextType, ArrivedNext, RpmInvNext
<1>3. I => RpmOvershootBounded
  <2> SUFFICES ASSUME I, NEW s \in Scopes, RpmCapsOf(s) # {}
               PROVE  \E limit \in RpmCapsOf(s) :
                        Cardinality(InWindow(s)) <= limit + Cardinality(Requests) - 1
    BY DEF RpmOvershootBounded
  <2>1. InWindow(s) = HitsAt(Events(s), Recent)
    <3>1. CASE window[s] = None
      BY <3>1 DEF InWindow, HitsAt, Events
    <3>2. CASE window[s] # None
      <4>1. window[s].events \in Seq(Instants) /\ Events(s) = window[s].events
        BY <3>2, EventsType DEF Events
      <4>2. \A i \in 1..Len(Events(s)) : Events(s)[i] \in Instants
        BY <4>1, ElementOfSeq
      <4> QED  BY <3>2, <4>1, <4>2, LenProperties DEF InWindow, HitsAt, Recent
    <3> QED  BY <3>1, <3>2
  <2>2. PICK limit \in RpmCapsOf(s) :
          Hits(Events(s), Recent) + Cardinality(Recording(s)) <= limit + Cardinality(Requests) - 1
    BY DEF RpmInv, RpmBounded
  <2>3. /\ Hits(Events(s), Recent) \in Nat /\ Cardinality(Recording(s)) \in Nat
        /\ limit \in Nat /\ Cardinality(Requests) \in Nat
    BY HitsRecent, RecordingType, RpmCapType
  <2>4. Hits(Events(s), Recent) <= limit + Cardinality(Requests) - 1
    BY <2>2, <2>3
  <2> QED  BY <2>1, <2>4 DEF Hits
<1> QED  BY <1>1, <1>2, <1>3, PTL DEF Spec
=============================================================================
