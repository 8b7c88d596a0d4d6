--------------------------- MODULE FreePoolProofs ---------------------------
(***************************************************************************)
(* Proofs about FreePool, for every number of handlers, models and keys:   *)
(* a granted model has all that serves it, the engine has its pool, the key*)
(* of the account agrees with the settings, and a claim that is let through*)
(* is within the limit it was compared with.                               *)
(***************************************************************************)
EXTENDS FreePool, WindowProofs

(* The state, but for the limiter and its history.                         *)
HandlersTyped ==
  /\ pc \in [Handlers -> Pc]
  /\ req \in [Handlers -> Request]
  /\ \A h \in Handlers : pc[h] \in {"settings", "settings_account"} => req[h].config \in Config

Typed ==
  /\ config \in Config
  /\ account \in ApiKeys \cup {None}
  /\ market \in [Models -> Offer]
  /\ rows \subseteq Row
  /\ loaded \subseteq Models
  /\ HandlersTyped
  /\ alone \subseteq Handlers
  /\ settled \in BOOLEAN /\ broken \in BOOLEAN

----------------------------------------------------------------------------
(* Types.                                                                  *)

LEMMA NoRequestType ==
  /\ NoRequest \in Request
  /\ NoRequest.model = None /\ NoRequest.next = 1 /\ NoRequest.then = "end"
BY DEF NoRequest, Request

(* Fields of a request changed one after the other.                        *)
LEMMA RequestWith ==
  ASSUME NEW r \in Request
  PROVE  /\ \A n \in 1..6 : [r EXCEPT !.next = n] \in Request
         /\ \A m \in Models \cup {None}, n \in 1..6 : [r EXCEPT !.model = m, !.next = n] \in Request
         /\ \A m \in Models, n \in 1..6 : \A t :
              [r EXCEPT !.model = m, !.todo = @ \ {t}, !.next = n] \in Request
         /\ \A c \in Clients, n \in Limits : [r EXCEPT !.client = c, !.limit = n] \in Request
BY DEF Request

(* A step of h to l that holds r then.                                     *)
LEMMA HandlerStep ==
  ASSUME HandlersTyped, NEW h \in Handlers, NEW l \in Pc, NEW r \in Request,
         l \in {"settings", "settings_account"} => r.config \in Config,
         pc' = [pc EXCEPT ![h] = l], req' = [req EXCEPT ![h] = r]
  PROVE  HandlersTyped'
BY DEF HandlersTyped

LEMMA EndsType ==
  ASSUME HandlersTyped, NEW h \in Handlers, Ends(h)
  PROVE  HandlersTyped'
BY NoRequestType, HandlerStep DEF Ends, Goto, Pc

LEMMA BeginsType ==
  ASSUME HandlersTyped, NEW h \in Handlers, NEW l \in Pc, NEW r \in Request,
         l # "settings_account", l = "settings" => r.config \in Config, Begins(h, l, r)
  PROVE  HandlersTyped'
BY HandlerStep DEF Begins, Goto

LEMMA GotoType ==
  ASSUME HandlersTyped, NEW h \in Handlers, NEW l \in Pc, Goto(h, l), UNCHANGED req,
         l \in {"settings", "settings_account"} => req[h].config \in Config
  PROVE  HandlersTyped'
BY DEF HandlersTyped, Goto

LEMMA HoldsType ==
  ASSUME HandlersTyped, NEW h \in Handlers, NEW r \in Request, UNCHANGED pc,
         pc[h] \notin {"settings", "settings_account"}, req' = [req EXCEPT ![h] = r]
  PROVE  HandlersTyped'
BY DEF HandlersTyped

LEMMA WritingType ==
  ASSUME alone \subseteq Handlers, NEW h \in Handlers
  PROVE  /\ StartsWriting(h) /\ settled \in BOOLEAN => alone' \subseteq Handlers /\ settled' \in BOOLEAN
         /\ \A t \in BOOLEAN :
              StopsWriting(h, t) => alone' \subseteq Handlers /\ settled' \in BOOLEAN
BY DEF StartsWriting, StopsWriting

LEMMA FreeModelsType == FreeModels \subseteq Models /\ FreeModels' \subseteq Models
BY DEF FreeModels

LEMMA PoolsType == PoolsWithMembers \subseteq Models
BY DEF PoolsWithMembers

LEMMA TypedInit == Init => Typed
<1> SUFFICES ASSUME Init PROVE Typed
  OBVIOUS
<1>1. config \in Config
  BY DEF Init, Config
<1>2. {"endpoint", "global"} \X Seeded \subseteq Row
  <2>1. Statements[1] = "endpoint" /\ Statements[4] = "global"
    BY DEF Statements
  <2> QED  BY <2>1, FreePoolAssumption DEF Row
<1>3. HandlersTyped
  BY NoRequestType DEF Init, Pc, HandlersTyped
<1> QED  BY <1>1, <1>2, <1>3 DEF Init, Typed, Offer

LEMMA TypedClaims ==
  ASSUME Typed, NEW h \in Handlers, ClaimKey(h) \/ CountClaim(h) \/ InsertKey(h)
  PROVE  Typed'
<1>1. CASE ClaimKey(h)
  <2>1. PICK c \in Clients : Begins(h, "limit", [NoRequest EXCEPT !.client = c, !.limit = config.limit])
    BY <1>1 DEF ClaimKey
  <2>2. [NoRequest EXCEPT !.client = c, !.limit = config.limit] \in Request
    BY NoRequestType, RequestWith DEF Typed, Config
  <2>3. HandlersTyped'
    BY <2>1, <2>2, BeginsType DEF Typed, Pc
  <2> QED  BY <1>1, <2>3 DEF ClaimKey, Typed, keyHistory
<1>2. CASE CountClaim(h)
  <2>1. (Goto(h, "insert") /\ UNCHANGED req) \/ Ends(h)
    BY <1>2 DEF CountClaim
  <2>2. HandlersTyped'
    BY <2>1, EndsType, GotoType DEF Pc, Typed
  <2> QED  BY <1>2, <2>2 DEF CountClaim, Typed, keyHistory
<1>3. CASE InsertKey(h)
  BY <1>3, EndsType DEF InsertKey, Typed, keyHistory
<1> QED  BY <1>1, <1>2, <1>3

LEMMA TypedKeys ==
  ASSUME Typed, NEW h \in Handlers,
         \/ UpdateSettings(h) \/ WriteSettings(h) \/ WriteAccountKey(h)
         \/ EnvironmentKey(h) \/ EnvironmentConfig(h)
         \/ SyncFreeModels(h) \/ UpsertAccount(h)
  PROVE  Typed'
<1>0. req[h] \in Request
  BY DEF Typed, HandlersTyped
<1>k. \A k \in ApiKeys \cup {None} : [NoRequest EXCEPT !.key = k] \in Request
  BY DEF NoRequest, Request
<1>1. CASE UpdateSettings(h)
  <2>1. PICK new \in Payload :
          Begins(h, "settings", [NoRequest EXCEPT !.config = [new EXCEPT !.limit = AtLeastOne(@)]])
    BY <1>1 DEF UpdateSettings
  <2> DEFINE c == [new EXCEPT !.limit = AtLeastOne(@)]
  <2>2. c \in Config
    BY FreePoolAssumption DEF Payload, AtLeastOne, Config
  <2> HIDE DEF c
  <2>3. [NoRequest EXCEPT !.config = c] \in Request /\ [NoRequest EXCEPT !.config = c].config = c
    BY <2>2 DEF NoRequest, Request
  <2>4. HandlersTyped'
    BY <2>1, <2>2, <2>3, BeginsType DEF Pc, Typed, c
  <2> QED  BY <1>1, <2>4, WritingType DEF UpdateSettings, Typed
<1>2. CASE WriteSettings(h)
  <2>1. config' \in Config /\ req[h].config \in Config
    BY <1>2 DEF WriteSettings, Typed, HandlersTyped
  <2>2. HandlersTyped'
    BY <1>2, <2>1, EndsType, GotoType DEF WriteSettings, Typed, Pc
  <2>3. alone' \subseteq Handlers /\ settled' \in BOOLEAN
    BY <1>2, WritingType DEF WriteSettings, Typed, keyHistory
  <2> QED  BY <1>2, <2>1, <2>2, <2>3 DEF WriteSettings, Typed
<1>3. CASE WriteAccountKey(h)
  <2>1. account' \in ApiKeys \cup {None}
    BY <1>3 DEF WriteAccountKey, Typed, HandlersTyped, Config
  <2> QED  BY <1>3, <2>1, EndsType, WritingType DEF WriteAccountKey, Typed
<1>4. CASE EnvironmentKey(h)
  <2>1. PICK k \in ApiKeys : Begins(h, "env_config", [NoRequest EXCEPT !.key = k]) /\ account' = k
    BY <1>4 DEF EnvironmentKey
  <2>2. HandlersTyped'
    BY <1>k, <2>1, BeginsType DEF Pc, Typed
  <2> QED  BY <1>4, <2>1, <2>2, WritingType DEF EnvironmentKey, Typed
<1>5. CASE EnvironmentConfig(h)
  <2>1. config' \in Config
    BY <1>0, <1>5 DEF EnvironmentConfig, Typed, Config, Request
  <2> QED  BY <1>5, <2>1, EndsType, WritingType DEF EnvironmentConfig, Typed
<1>6. CASE SyncFreeModels(h)
  <2>1. Begins(h, "account", [NoRequest EXCEPT !.key = config.key])
    BY <1>6 DEF SyncFreeModels
  <2>2. config.key \in ApiKeys \cup {None}
    BY DEF Typed, Config
  <2>3. HandlersTyped'
    BY <1>k, <2>1, <2>2, BeginsType DEF Pc, Typed
  <2> QED  BY <1>6, <2>3, WritingType DEF SyncFreeModels, Typed
<1>7. CASE UpsertAccount(h)
  <2>1. account' \in ApiKeys \cup {None}
    BY <1>0, <1>7 DEF UpsertAccount, Request
  <2>2. HandlersTyped'
    BY <1>7, GotoType DEF UpsertAccount, Pc, Typed
  <2> QED  BY <1>7, <2>1, <2>2, WritingType DEF UpsertAccount, Typed
<1> QED  BY <1>1, <1>2, <1>3, <1>4, <1>5, <1>6, <1>7

LEMMA TypedMarket ==
  ASSUME Typed, NEW h \in Handlers,
         \/ CountFreeModels(h) \/ SyncMarket(h) \/ Fetch(h) \/ SaveMarketModel(h)
         \/ MarketSynced(h) \/ MarketSyncFailed(h) \/ ListFreeModels(h)
  PROVE  Typed'
<1>0. req[h] \in Request
  BY DEF Typed, HandlersTyped
<1>1. CASE CountFreeModels(h)
  <2>1. [req[h] EXCEPT !.then = "seed"] \in Request
    BY <1>0 DEF Request
  <2>2. HandlersTyped'
    BY <1>1, <2>1, GotoType, HandlerStep DEF CountFreeModels, Pc, Typed, Goto
  <2> QED  BY <1>1, <2>2 DEF CountFreeModels, Typed, keyHistory
<1>2. CASE SyncMarket(h)
  <2>1. HandlersTyped'
    BY <1>2, NoRequestType, BeginsType DEF SyncMarket, Pc, Typed
  <2> QED  BY <1>2, <2>1 DEF SyncMarket, Typed, keyHistory
<1>3. CASE Fetch(h)
  <2>1. PICK answer \in [Models -> Offer] :
          req' = [req EXCEPT ![h].todo =
                    {<<m, answer[m]>> : m \in {n \in Models : answer[n] # "absent"}}]
    BY <1>3 DEF Fetch
  <2> DEFINE t == {<<m, answer[m]>> : m \in {n \in Models : answer[n] # "absent"}}
  <2>2. t \in SUBSET (Models \X Offer)
    OBVIOUS
  <2> HIDE DEF t
  <2>3. [req[h] EXCEPT !.todo = t] \in Request
    BY <1>0, <2>2 DEF Request
  <2>4. req' = [req EXCEPT ![h] = [req[h] EXCEPT !.todo = t]]
    BY <2>1 DEF Typed, HandlersTyped, t
  <2>5. HandlersTyped'
    BY <1>3, <2>3, <2>4, HandlerStep DEF Fetch, Goto, Pc, Typed
  <2> QED  BY <1>3, <2>5 DEF Fetch, Typed, keyHistory
<1>4. CASE SaveMarketModel(h)
  <2>1. PICK t \in req[h].todo :
          /\ market' = [market EXCEPT ![t[1]] = IF t[1] \in FreeNamed THEN "free" ELSE t[2]]
          /\ req' = [req EXCEPT ![h].todo = @ \ {t}]
    BY <1>4 DEF SaveMarketModel
  <2>2. t \in Models \X Offer
    BY <1>0 DEF Request
  <2>3. market' \in [Models -> Offer]
    BY <2>1, <2>2 DEF Typed, Offer
  <2>4. [req[h] EXCEPT !.todo = @ \ {t}] \in Request
    BY <1>0 DEF Request
  <2>5. req' = [req EXCEPT ![h] = [req[h] EXCEPT !.todo = @ \ {t}]]
    BY <2>1 DEF Typed, HandlersTyped
  <2>6. HandlersTyped'
    BY <1>4, <2>4, <2>5, HoldsType DEF SaveMarketModel, Typed
  <2> QED  BY <1>4, <2>3, <2>6 DEF SaveMarketModel, Typed, keyHistory
<1>5. CASE MarketSynced(h)
  <2>1. HandlersTyped'
    BY <1>5, NoRequestType, EndsType, HandlerStep DEF MarketSynced, Goto, Pc, Typed
  <2> QED  BY <1>5, <2>1 DEF MarketSynced, Typed, keyHistory
<1>6. CASE MarketSyncFailed(h)
  <2>1. HandlersTyped'
    BY <1>6, NoRequestType, HandlerStep DEF MarketSyncFailed, Goto, Pc, Typed
  <2> QED  BY <1>6, <2>1 DEF MarketSyncFailed, Typed, keyHistory
<1>7. CASE ListFreeModels(h)
  <2>1. market' \in [Models -> Offer]
    BY <1>7 DEF ListFreeModels, Typed, Offer
  <2>2. FreeModels' \X {"free"} \in SUBSET (Models \X Offer)
    BY FreeModelsType DEF Offer
  <2>3. [req[h] EXCEPT !.todo = FreeModels' \X {"free"}] \in Request
    BY <1>0, <2>2 DEF Request
  <2>4. req' = [req EXCEPT ![h] = [req[h] EXCEPT !.todo = FreeModels' \X {"free"}]]
    BY <1>7 DEF ListFreeModels, Typed, HandlersTyped
  <2>5. HandlersTyped'
    BY <1>7, <2>3, <2>4, HandlerStep DEF ListFreeModels, Goto, Pc, Typed
  <2> QED  BY <1>7, <2>1, <2>5 DEF ListFreeModels, Typed, keyHistory
<1> QED  BY <1>1, <1>2, <1>3, <1>4, <1>5, <1>6, <1>7

LEMMA TypedImport ==
  ASSUME Typed, NEW h \in Handlers,
         \/ NextModel(h) \/ ImportRow(h) \/ ModelsImported(h) \/ Reload(h) \/ Fail(h)
  PROVE  Typed'
<1>0. req[h] \in Request
  BY DEF Typed, HandlersTyped
<1>1. CASE NextModel(h)
  <2>1. PICK t \in req[h].todo :
          req' = [req EXCEPT ![h].model = t[1], ![h].todo = @ \ {t}, ![h].next = 1]
    BY <1>1 DEF NextModel
  <2>2. t[1] \in Models
    BY <1>0 DEF Request
  <2> DEFINE r == [req[h] EXCEPT !.model = t[1], !.todo = @ \ {t}, !.next = 1]
  <2>3. r \in Request
    <3>1. 1 \in 1..6
      OBVIOUS
    <3> QED  BY <1>0, <2>2, <3>1, RequestWith, Zenon DEF r
  <2>4. req' = [req EXCEPT ![h] = r]
    BY <2>1 DEF Typed, HandlersTyped
  <2>5. HandlersTyped'
    BY <1>1, <2>3, <2>4, HoldsType DEF NextModel, Typed
  <2> QED  BY <1>1, <2>5 DEF NextModel, Typed, keyHistory
<1>2. CASE ImportRow(h)
  <2>1. req[h].model \in Models /\ req[h].next \in 1..6
    BY <1>0, <1>2 DEF ImportRow, Request
  <2>2. rows' \subseteq Row
    BY <1>2, <2>1 DEF ImportRow, Row, Typed
  <2>3. PICK r \in Request : req' = [req EXCEPT ![h] = r]
    <3>1. CASE req[h].next = 6
      <4>1. [req[h] EXCEPT !.model = None, !.next = 1] \in Request
        <5>1. 1 \in 1..6 /\ None \in Models \cup {None}
          OBVIOUS
        <5> QED  BY <1>0, <5>1, RequestWith, Zenon
      <4>2. req' = [req EXCEPT ![h] = [req[h] EXCEPT !.model = None, !.next = 1]]
        BY <1>2, <3>1 DEF ImportRow, Typed, HandlersTyped
      <4> QED  BY <4>1, <4>2
    <3>2. CASE req[h].next # 6
      <4>1. [req[h] EXCEPT !.next = @ + 1] \in Request
        BY <1>0, <2>1, <3>2 DEF Request
      <4>2. req' = [req EXCEPT ![h] = [req[h] EXCEPT !.next = @ + 1]]
        BY <1>2, <3>2 DEF ImportRow, Typed, HandlersTyped
      <4> QED  BY <4>1, <4>2
    <3> QED  BY <3>1, <3>2
  <2>4. HandlersTyped'
    BY <1>2, <2>3, HoldsType DEF ImportRow, Typed
  <2> QED  BY <1>2, <2>2, <2>4 DEF ImportRow, Typed, keyHistory
<1>3. CASE ModelsImported(h)
  <2>1. HandlersTyped'
    BY <1>3, GotoType DEF ModelsImported, Pc, Typed
  <2> QED  BY <1>3, <2>1 DEF ModelsImported, Typed, keyHistory
<1>4. CASE Reload(h)
  BY <1>4, EndsType, PoolsType DEF Reload, Typed, keyHistory
<1>5. CASE Fail(h)
  <2>1. alone' \subseteq Handlers /\ settled' \in BOOLEAN
    BY <1>5, WritingType DEF Fail, Typed, keyHistory
  <2>2. broken' \in BOOLEAN
    BY <1>5 DEF Fail, Typed, Importing
  <2> QED  BY <1>5, <2>1, <2>2, EndsType DEF Fail, Typed
<1> QED  BY <1>1, <1>2, <1>3, <1>4, <1>5

LEMMA TypedStep == Typed /\ [Next]_vars => Typed'
<1> SUFFICES ASSUME Typed, [Next]_vars PROVE Typed'
  OBVIOUS
<1>1. CASE UNCHANGED vars
  BY <1>1 DEF vars, handlerVars, keyHistory, Typed, HandlersTyped
<1>2. CASE RevokeModel
  BY <1>2 DEF RevokeModel, handlerVars, keyHistory, Typed, HandlersTyped
<1>3. CASE Tick
  BY <1>3 DEF Tick, handlerVars, keyHistory, Typed, HandlersTyped
<1> QED  BY <1>1, <1>2, <1>3, TypedClaims, TypedKeys, TypedMarket, TypedImport DEF Next

(* The state is well typed at every step, the limiter's queues and their   *)
(* history aside: TypeOK for any number of handlers.                       *)
THEOREM FreePoolTyped == Spec => []Typed
BY TypedInit, TypedStep, PTL DEF Spec

----------------------------------------------------------------------------
(* Granted models are served.  An import that is at some statement for a   *)
(* model has made the rows before it, and nothing takes those away.        *)

ServedInv ==
  /\ GrantedModelsServed
  /\ \A h \in Handlers : req[h].model # None =>
       \A i \in 1..5 : i < req[h].next => <<Statements[i], req[h].model>> \in rows

LEMMA GrantIsLast == Statements[6] = "grant" /\ \A i \in 1..5 : Statements[i] # "grant"
<1>1. \A i \in 1..5 : i = 1 \/ i = 2 \/ i = 3 \/ i = 4 \/ i = 5
  OBVIOUS
<1>2. /\ Statements[1] = "endpoint" /\ Statements[2] = "pool" /\ Statements[3] = "member"
      /\ Statements[4] = "global" /\ Statements[5] = "model" /\ Statements[6] = "grant"
  BY DEF Statements
<1> QED  BY <1>1, <1>2

(* Steps that leave the rows and take up no model.                         *)
LEMMA ServedKept ==
  ASSUME Typed, ServedInv, UNCHANGED rows,
         \A h \in Handlers : \/ req'[h].model = None
                             \/ req'[h].model = req[h].model /\ req'[h].next = req[h].next
  PROVE  ServedInv'
BY DEF ServedInv, GrantedModelsServed

(* What most steps do to the request of their handler.                     *)
LEMMA ModelKept ==
  ASSUME Typed, NEW h \in Handlers,
         \/ Ends(h)
         \/ \E l, r : Begins(h, l, r) /\ r.model = None
         \/ \E r : req' = [req EXCEPT ![h] = r] /\ r.model = None
         \/ UNCHANGED req
         \/ \E t : req' = [req EXCEPT ![h].todo = t]
         \/ \E t : req' = [req EXCEPT ![h].then = t]
  PROVE  \A o \in Handlers : \/ req'[o].model = None
                             \/ req'[o].model = req[o].model /\ req'[o].next = req[o].next
<1>1. /\ req \in [Handlers -> Request] /\ NoRequest.model = None
      /\ \A o \in Handlers : req[o] \in Request
  BY NoRequestType DEF Typed, HandlersTyped
<1>2. ASSUME NEW r, req' = [req EXCEPT ![h] = r], r.model = None \/ (r.model = req[h].model /\ r.next = req[h].next)
      PROVE  \A o \in Handlers : \/ req'[o].model = None
                                 \/ req'[o].model = req[o].model /\ req'[o].next = req[o].next
  BY <1>1, <1>2
<1>3. CASE Ends(h)
  BY <1>1, <1>2, <1>3 DEF Ends
<1>4. CASE \E l, r : Begins(h, l, r) /\ r.model = None
  BY <1>2, <1>4 DEF Begins
<1>5. CASE \E r : req' = [req EXCEPT ![h] = r] /\ r.model = None
  BY <1>2, <1>5
<1>6. CASE UNCHANGED req
  BY <1>6
<1>7. CASE \E t : req' = [req EXCEPT ![h].todo = t]
  <2>1. PICK t : req' = [req EXCEPT ![h] = [req[h] EXCEPT !.todo = t]]
    BY <1>1, <1>7
  <2>2. [req[h] EXCEPT !.todo = t].model = req[h].model /\ [req[h] EXCEPT !.todo = t].next = req[h].next
    BY <1>1 DEF Request
  <2> QED  BY <1>2, <2>1, <2>2
<1>8. CASE \E t : req' = [req EXCEPT ![h].then = t]
  <2>1. PICK t : req' = [req EXCEPT ![h] = [req[h] EXCEPT !.then = t]]
    BY <1>1, <1>8
  <2>2. [req[h] EXCEPT !.then = t].model = req[h].model /\ [req[h] EXCEPT !.then = t].next = req[h].next
    BY <1>1 DEF Request
  <2> QED  BY <1>2, <2>1, <2>2
<1> QED  BY <1>3, <1>4, <1>5, <1>6, <1>7, <1>8

LEMMA KeptClaims ==
  ASSUME Typed, ServedInv, NEW h \in Handlers, ClaimKey(h) \/ CountClaim(h) \/ InsertKey(h)
  PROVE  ServedInv'
<1>1. UNCHANGED rows
  BY DEF ClaimKey, CountClaim, InsertKey
<1>2. \A c, n : [NoRequest EXCEPT !.client = c, !.limit = n].model = None
  BY DEF NoRequest
<1>3. \/ Ends(h) \/ UNCHANGED req \/ \E l, r : Begins(h, l, r) /\ r.model = None
  BY <1>2 DEF ClaimKey, CountClaim, InsertKey
<1> QED  BY <1>1, <1>3, ModelKept, ServedKept

LEMMA KeptKeys ==
  ASSUME Typed, ServedInv, NEW h \in Handlers,
         \/ UpdateSettings(h) \/ WriteSettings(h) \/ WriteAccountKey(h)
         \/ EnvironmentKey(h) \/ EnvironmentConfig(h)
         \/ SyncFreeModels(h) \/ UpsertAccount(h)
  PROVE  ServedInv'
<1>1. UNCHANGED rows
  BY DEF UpdateSettings, WriteSettings, WriteAccountKey, EnvironmentKey, EnvironmentConfig,
         SyncFreeModels, UpsertAccount
<1>2. /\ \A c : [NoRequest EXCEPT !.config = c].model = None
      /\ \A k : [NoRequest EXCEPT !.key = k].model = None
  BY DEF NoRequest
<1>3. \/ Ends(h) \/ UNCHANGED req \/ \E l, r : Begins(h, l, r) /\ r.model = None
  BY <1>2 DEF UpdateSettings, WriteSettings, WriteAccountKey, EnvironmentKey, EnvironmentConfig,
              SyncFreeModels, UpsertAccount
<1> QED  BY <1>1, <1>3, ModelKept, ServedKept

LEMMA KeptMarket ==
  ASSUME Typed, ServedInv, NEW h \in Handlers,
         \/ CountFreeModels(h) \/ SyncMarket(h) \/ Fetch(h) \/ SaveMarketModel(h)
         \/ MarketSynced(h) \/ MarketSyncFailed(h) \/ ListFreeModels(h)
  PROVE  ServedInv'
<1>1. UNCHANGED rows
  BY DEF CountFreeModels, SyncMarket, Fetch, SaveMarketModel, MarketSynced, MarketSyncFailed,
         ListFreeModels
<1>2. CASE CountFreeModels(h) \/ Fetch(h) \/ SaveMarketModel(h) \/ ListFreeModels(h)
  <2>1. \/ \E t : req' = [req EXCEPT ![h].todo = t]
        \/ \E t : req' = [req EXCEPT ![h].then = t]
        \/ UNCHANGED req
    BY <1>2 DEF CountFreeModels, Fetch, SaveMarketModel, ListFreeModels
  <2> QED  BY <1>1, <2>1, ModelKept, ServedKept
<1>3. CASE SyncMarket(h) \/ MarketSynced(h) \/ MarketSyncFailed(h)
  <2>1. \/ Ends(h)
        \/ \E l, r : Begins(h, l, r) /\ r.model = None
        \/ \E r : req' = [req EXCEPT ![h] = r] /\ r.model = None
    BY <1>3, NoRequestType DEF SyncMarket, MarketSynced, MarketSyncFailed
  <2> QED  BY <1>1, <2>1, ModelKept, ServedKept
<1> QED  BY <1>2, <1>3

LEMMA KeptImport ==
  ASSUME Typed, ServedInv, NEW h \in Handlers,
         ModelsImported(h) \/ Reload(h) \/ Fail(h)
  PROVE  ServedInv'
<1>1. UNCHANGED rows /\ (Ends(h) \/ UNCHANGED req)
  BY DEF ModelsImported, Reload, Fail
<1> QED  BY <1>1, ModelKept, ServedKept

LEMMA ServedNextModel ==
  ASSUME Typed, ServedInv, NEW h \in Handlers, NextModel(h)
  PROVE  ServedInv'
<1>1. \A o \in Handlers : req[o] \in Request
  BY DEF Typed, HandlersTyped
<1>2. UNCHANGED rows /\ req'[h].next = 1 /\ \A o \in Handlers \ {h} : req'[o] = req[o]
  BY <1>1 DEF NextModel, Typed, HandlersTyped, Request
<1>3. \A i \in 1..5 : ~(i < 1)
  OBVIOUS
<1>4. ASSUME NEW o \in Handlers, req'[o].model # None, NEW i \in 1..5, i < req'[o].next
      PROVE  <<Statements[i], req'[o].model>> \in rows'
  <2>1. o # h
    BY <1>2, <1>3, <1>4
  <2> QED  BY <1>2, <1>4, <2>1 DEF ServedInv
<1> QED  BY <1>2, <1>4 DEF ServedInv, GrantedModelsServed

LEMMA ServedImportRow ==
  ASSUME Typed, ServedInv, NEW h \in Handlers, ImportRow(h)
  PROVE  ServedInv'
<1> DEFINE m == req[h].model
           n == req[h].next
<1>1. /\ req[h] \in Request /\ m \in Models /\ m # None /\ n \in 1..6
      /\ \A o \in Handlers : req[o] \in Request /\ req[o].next \in 1..6
  BY DEF ImportRow, Typed, HandlersTyped, Request
<1>2. /\ rows' = rows \cup {<<Statements[n], m>>}
      /\ \A o \in Handlers \ {h} : req'[o] = req[o]
  BY DEF ImportRow, Typed, HandlersTyped
<1>3. /\ n = 6 => req'[h].model = None
      /\ n # 6 => req'[h].model = m /\ req'[h].next = n + 1
  BY <1>1 DEF ImportRow, Typed, HandlersTyped, Request
<1>4. \A i \in 1..5 : i < n => <<Statements[i], m>> \in rows
  BY <1>1 DEF ServedInv
<1> HIDE DEF m, n
<1>5. GrantedModelsServed'
  <2> SUFFICES ASSUME NEW k \in Models, <<"grant", k>> \in rows', NEW i \in 1..5
               PROVE  <<Statements[i], k>> \in rows'
    BY DEF GrantedModelsServed
  <2>1. CASE <<"grant", k>> \in rows
    BY <1>2, <2>1 DEF ServedInv, GrantedModelsServed
  <2>2. CASE <<"grant", k>> = <<Statements[n], m>>
    <3>1. k = m /\ Statements[n] = "grant"
      BY <2>2
    <3>2. n = 6
      BY <1>1, <3>1, GrantIsLast
    <3> QED  BY <1>2, <1>4, <3>1, <3>2
  <2> QED  BY <1>2, <2>1, <2>2
<1>6. ASSUME NEW o \in Handlers, req'[o].model # None, NEW i \in 1..5, i < req'[o].next
      PROVE  <<Statements[i], req'[o].model>> \in rows'
  <2>1. CASE o = h
    <3>1. n # 6 /\ req'[h].model = m /\ i < n + 1
      BY <1>3, <1>6, <2>1
    <3>2. i < n \/ i = n
      BY <1>1, <3>1
    <3> QED  BY <1>2, <1>4, <2>1, <3>1, <3>2
  <2>2. CASE o # h
    BY <1>2, <1>6, <2>2 DEF ServedInv
  <2> QED  BY <2>1, <2>2
<1> QED  BY <1>5, <1>6 DEF ServedInv

LEMMA ServedRevoke ==
  ASSUME Typed, ServedInv, RevokeModel
  PROVE  ServedInv'
<1>1. PICK m \in Models : rows' = rows \ {<<"grant", m>>}
  BY DEF RevokeModel
<1>2. \A i \in 1..5 : \A k : <<Statements[i], k>> \in rows => <<Statements[i], k>> \in rows'
  BY <1>1, GrantIsLast
<1>3. UNCHANGED req
  BY DEF RevokeModel, handlerVars
<1> QED  BY <1>1, <1>2, <1>3 DEF ServedInv, GrantedModelsServed

LEMMA ServedInit == Init => ServedInv
<1> SUFFICES ASSUME Init PROVE ServedInv
  OBVIOUS
<1>1. \A m : <<"grant", m>> \notin rows
  BY DEF Init
<1> QED  BY <1>1, NoRequestType DEF Init, ServedInv, GrantedModelsServed

LEMMA ServedStep == Typed /\ ServedInv /\ [Next]_vars => ServedInv'
<1> SUFFICES ASSUME Typed, ServedInv, [Next]_vars PROVE ServedInv'
  OBVIOUS
<1>1. CASE UNCHANGED vars \/ Tick
  BY <1>1, ServedKept DEF vars, handlerVars, Tick
<1> QED  BY <1>1, KeptClaims, KeptKeys, KeptMarket, KeptImport, ServedNextModel,
            ServedImportRow, ServedRevoke DEF Next

(* Whatever imports run at once, stop half way or are revoked: a granted   *)
(* model has its endpoint, pool, member, global row and model.             *)
THEOREM GrantedAreServed == Spec => []GrantedModelsServed
<1>1. ServedInv => GrantedModelsServed
  BY DEF ServedInv
<1> QED  BY <1>1, FreePoolTyped, ServedInit, ServedStep, PTL DEF Spec

----------------------------------------------------------------------------
(* What a step of h does to the others: nothing.                           *)
Others(h) == \A o \in Handlers \ {h} : pc'[o] = pc[o] /\ req'[o] = req[o]

LEMMA EndsShape ==
  ASSUME Typed, NEW h \in Handlers, Ends(h)
  PROVE  pc'[h] = "idle" /\ req'[h].then = "end" /\ Others(h)
BY NoRequestType DEF Typed, HandlersTyped, Ends, Goto, Others

LEMMA BeginsShape ==
  ASSUME Typed, NEW h \in Handlers, NEW l, NEW r, Begins(h, l, r)
  PROVE  pc[h] = "idle" /\ pc'[h] = l /\ req'[h] = r /\ Others(h)
BY DEF Typed, HandlersTyped, Begins, Goto, Others

LEMMA GotoShape ==
  ASSUME Typed, NEW h \in Handlers, NEW l, Goto(h, l), UNCHANGED req
  PROVE  pc'[h] = l /\ req'[h] = req[h] /\ Others(h)
BY DEF Typed, HandlersTyped, Goto, Others

LEMMA FieldsOfBegin ==
  /\ \A c, n : [NoRequest EXCEPT !.client = c, !.limit = n].then = "end"
  /\ \A c : [NoRequest EXCEPT !.config = c].then = "end"
  /\ \A k : [NoRequest EXCEPT !.key = k].then = "end"
BY DEF NoRequest

(* The steps of a handler that does not write the key of the account.      *)
Reading(h) ==
  \/ ClaimKey(h) \/ CountClaim(h) \/ InsertKey(h)
  \/ CountFreeModels(h) \/ SyncMarket(h) \/ Fetch(h) \/ SaveMarketModel(h)
  \/ MarketSynced(h) \/ MarketSyncFailed(h) \/ ListFreeModels(h)
  \/ NextModel(h) \/ ImportRow(h) \/ ModelsImported(h) \/ Reload(h)

(* Those of one that does.                                                 *)
KeyWriting(h) ==
  \/ UpdateSettings(h) \/ WriteSettings(h) \/ WriteAccountKey(h)
  \/ EnvironmentKey(h) \/ EnvironmentConfig(h) \/ SyncFreeModels(h) \/ UpsertAccount(h)

(* A fetch within an import says so; nothing else does.                    *)
ThenInv == \A h \in Handlers : req[h].then = "seed" => pc[h] \in {"fetch", "market"}

LEMMA ReadingShape ==
  ASSUME Typed, ThenInv, NEW h \in Handlers, Reading(h)
  PROVE  /\ Others(h)
         /\ ~Writing(h) /\ ~Writing(h)'
         /\ req'[h].then = "seed" => pc'[h] \in {"fetch", "market"}
         /\ Importing(h) => Importing(h)' \/ Reload(h)
<1>0. /\ req \in [Handlers -> Request] /\ req[h] \in Request
      /\ req[h].then = "seed" => pc[h] \in {"fetch", "market"}
      /\ pc \in [Handlers -> Pc] /\ NoRequest.then = "end"
  BY NoRequestType DEF Typed, HandlersTyped, ThenInv
<1>b. ASSUME NEW l \in {"limit", "fetch"}, NEW r, Begins(h, l, r), r.then = "end"
      PROVE  /\ Others(h) /\ ~Writing(h) /\ ~Writing(h)'
             /\ req'[h].then = "end" /\ ~Importing(h)
  <2>1. pc[h] = "idle" /\ pc'[h] = l /\ req'[h] = r /\ Others(h)
    BY <1>b, BeginsShape
  <2> QED  BY <1>0, <1>b, <2>1 DEF Importing, Writing
<1>1. CASE ClaimKey(h) \/ SyncMarket(h)
  <2>1. CASE ClaimKey(h)
    <3>1. PICK c \in Clients :
            Begins(h, "limit", [NoRequest EXCEPT !.client = c, !.limit = config.limit])
      BY <2>1 DEF ClaimKey
    <3>2. [NoRequest EXCEPT !.client = c, !.limit = config.limit].then = "end"
      BY FieldsOfBegin
    <3> QED  BY <1>b, <3>1, <3>2
  <2>2. CASE SyncMarket(h)
    BY <1>0, <1>b, <2>2 DEF SyncMarket
  <2> QED  BY <1>1, <2>1, <2>2
<1>2. CASE InsertKey(h) \/ Reload(h)
  <2>1. Ends(h) /\ pc[h] \in {"insert", "reload"}
    BY <1>2 DEF InsertKey, Reload
  <2> QED  BY <1>0, <1>2, <2>1, EndsShape DEF Importing, Writing, InsertKey
<1>3. CASE CountClaim(h)
  <2>1. pc[h] = "limit" /\ (Ends(h) \/ (Goto(h, "insert") /\ UNCHANGED req))
    BY <1>3 DEF CountClaim
  <2> QED  BY <1>0, <2>1, EndsShape, GotoShape DEF Importing, Writing
<1>4. CASE CountFreeModels(h)
  <2>1. /\ pc[h] = "count"
        /\ \/ pc' = [pc EXCEPT ![h] = "fetch"] /\ req' = [req EXCEPT ![h].then = "seed"]
           \/ pc' = [pc EXCEPT ![h] = "seed"] /\ UNCHANGED req
    BY <1>4 DEF CountFreeModels, Goto
  <2>2. Others(h) /\ pc'[h] \in {"fetch", "seed"}
    BY <1>0, <2>1 DEF Others
  <2>3. pc'[h] = "fetch" => req'[h].then = "seed"
    BY <1>0, <2>1 DEF Request
  <2>4. pc'[h] = "seed" => req'[h] = req[h]
    BY <1>0, <2>1
  <2> QED  BY <1>0, <2>1, <2>2, <2>3, <2>4 DEF Importing, Writing
<1>5. CASE Fetch(h)
  <2>1. /\ pc[h] = "fetch" /\ pc' = [pc EXCEPT ![h] = "market"]
        /\ \E t : req' = [req EXCEPT ![h].todo = t]
    BY <1>5 DEF Fetch, Goto
  <2>2. \A t : [req[h] EXCEPT !.todo = t].then = req[h].then
    BY <1>0 DEF Request
  <2> QED  BY <1>0, <2>1, <2>2 DEF Importing, Writing, Others
<1>6. CASE SaveMarketModel(h)
  <2>1. pc[h] = "market" /\ UNCHANGED pc /\ \E t : req' = [req EXCEPT ![h].todo = t]
    BY <1>6 DEF SaveMarketModel
  <2>2. \A t : [req[h] EXCEPT !.todo = t].then = req[h].then
    BY <1>0 DEF Request
  <2> QED  BY <1>0, <2>1, <2>2 DEF Importing, Writing, Others
<1>7. CASE MarketSynced(h)
  <2>1. /\ pc[h] = "market"
        /\ \/ /\ pc' = [pc EXCEPT ![h] = "seed"]
              /\ req' = [req EXCEPT ![h] = NoRequest]
           \/ Ends(h) /\ req[h].then # "seed"
    BY <1>7 DEF MarketSynced, Goto
  <2> QED  BY <1>0, <2>1, EndsShape DEF Importing, Writing, Others
<1>8. CASE MarketSyncFailed(h)
  <2>1. /\ pc[h] \in {"fetch", "market"} /\ pc' = [pc EXCEPT ![h] = "seed"]
        /\ req' = [req EXCEPT ![h] = NoRequest]
    BY <1>8 DEF MarketSyncFailed, Goto
  <2> QED  BY <1>0, <2>1 DEF Importing, Writing, Others
<1>9. CASE ListFreeModels(h)
  <2>1. /\ pc[h] = "seed" /\ pc' = [pc EXCEPT ![h] = "import"]
        /\ \E t : req' = [req EXCEPT ![h].todo = t]
    BY <1>9 DEF ListFreeModels, Goto
  <2>2. \A t : [req[h] EXCEPT !.todo = t].then = req[h].then
    BY <1>0 DEF Request
  <2> QED  BY <1>0, <2>1, <2>2 DEF Importing, Writing, Others
<1>10. CASE NextModel(h) \/ ImportRow(h)
  <2>1. pc[h] = "import" /\ UNCHANGED pc
    BY <1>10 DEF NextModel, ImportRow
  <2>2. Others(h)
    BY <1>0, <1>10, <2>1 DEF NextModel, ImportRow, Others
  <2>3. req'[h].then = req[h].then
    <3>1. CASE NextModel(h)
      BY <1>0, <3>1 DEF NextModel, Request
    <3>2. CASE ImportRow(h) /\ req[h].next = 6
      BY <1>0, <3>2 DEF ImportRow, Request
    <3>3. CASE ImportRow(h) /\ req[h].next # 6
      BY <1>0, <3>3 DEF ImportRow, Request
    <3> QED  BY <1>10, <3>1, <3>2, <3>3
  <2> QED  BY <1>0, <2>1, <2>2, <2>3 DEF Importing, Writing
<1>11. CASE ModelsImported(h)
  <2>1. pc[h] = "import" /\ Goto(h, "reload") /\ UNCHANGED req
    BY <1>11 DEF ModelsImported
  <2> QED  BY <1>0, <2>1, GotoShape DEF Importing, Writing
<1> QED  BY <1>1, <1>2, <1>3, <1>4, <1>5, <1>6, <1>7, <1>8, <1>9, <1>10, <1>11 DEF Reading

LEMMA KeyWritingShape ==
  ASSUME Typed, ThenInv, NEW h \in Handlers, KeyWriting(h)
  PROVE  /\ Others(h)
         /\ ~Importing(h)
         /\ req'[h].then = "end"
<1>0. req[h] \in Request /\ (req[h].then = "seed" => pc[h] \in {"fetch", "market"})
  BY DEF Typed, HandlersTyped, ThenInv
<1>1. CASE UpdateSettings(h) \/ EnvironmentKey(h) \/ SyncFreeModels(h)
  <2>1. PICK l, r : Begins(h, l, r) /\ r.then = "end"
    BY <1>1, FieldsOfBegin DEF UpdateSettings, EnvironmentKey, SyncFreeModels
  <2> QED  BY <1>0, <2>1, BeginsShape DEF Importing
<1>2. CASE WriteSettings(h) \/ WriteAccountKey(h) \/ EnvironmentConfig(h) \/ UpsertAccount(h)
  <2>1. pc[h] \in {"settings", "settings_account", "env_config", "account"}
    BY <1>2 DEF WriteSettings, WriteAccountKey, EnvironmentConfig, UpsertAccount
  <2>2. req[h].then = "end"
    BY <1>0, <2>1 DEF Request
  <2>3. Ends(h) \/ \E l : Goto(h, l) /\ UNCHANGED req
    BY <1>2 DEF WriteSettings, WriteAccountKey, EnvironmentConfig, UpsertAccount
  <2> QED  BY <2>1, <2>2, <2>3, EndsShape, GotoShape DEF Importing
<1> QED  BY <1>1, <1>2 DEF KeyWriting

LEMMA ThenStep == Typed /\ ThenInv /\ [Next]_vars => ThenInv'
<1> SUFFICES ASSUME Typed, ThenInv, [Next]_vars PROVE ThenInv'
  OBVIOUS
<1>1. CASE UNCHANGED vars \/ RevokeModel \/ Tick
  BY <1>1 DEF vars, handlerVars, RevokeModel, Tick, ThenInv
<1>2. ASSUME NEW h \in Handlers, Reading(h) PROVE ThenInv'
  BY <1>2, ReadingShape DEF Others, ThenInv
<1>3. ASSUME NEW h \in Handlers, KeyWriting(h) PROVE ThenInv'
  BY <1>3, KeyWritingShape DEF Others, ThenInv
<1>4. ASSUME NEW h \in Handlers, Fail(h) PROVE ThenInv'
  BY <1>4, EndsShape DEF Fail, Others, ThenInv
<1> QED  BY <1>1, <1>2, <1>3, <1>4 DEF Next, Reading, KeyWriting

LEMMA ThenInit == Init => ThenInv
BY NoRequestType DEF Init, ThenInv

----------------------------------------------------------------------------
(* The engine has the pools of the granted models.                         *)

LEMMA LoadedKept ==
  ASSUME GrantedModelsLoaded, broken => broken', UNCHANGED loaded,
         \A m \in Models : <<"grant", m>> \in rows' => <<"grant", m>> \in rows,
         \A h \in Handlers : Importing(h) => Importing(h)' \/ broken'
  PROVE  GrantedModelsLoaded'
BY DEF GrantedModelsLoaded

LEMMA LoadedReload ==
  ASSUME GrantedModelsServed, NEW h \in Handlers, Reload(h)
  PROVE  GrantedModelsLoaded'
<1>1. \A m \in Models : <<"grant", m>> \in rows => m \in PoolsWithMembers
  <2>1. Statements[2] = "pool" /\ Statements[3] = "member"
    BY DEF Statements
  <2>2. 2 \in 1..5 /\ 3 \in 1..5
    OBVIOUS
  <2>3. \A m \in Models : <<"grant", m>> \in rows => <<"pool", m>> \in rows /\ <<"member", m>> \in rows
    BY <2>1, <2>2 DEF GrantedModelsServed
  <2> QED  BY <2>3 DEF PoolsWithMembers
<1> QED  BY <1>1 DEF Reload, GrantedModelsLoaded

LEMMA LoadedStep ==
  Typed /\ ThenInv /\ GrantedModelsServed /\ GrantedModelsLoaded /\ [Next]_vars => GrantedModelsLoaded'
<1> SUFFICES ASSUME Typed, ThenInv, GrantedModelsServed, GrantedModelsLoaded, [Next]_vars
             PROVE  GrantedModelsLoaded'
  OBVIOUS
<1>1. CASE UNCHANGED vars \/ RevokeModel \/ Tick
  <2>1. UNCHANGED <<loaded, broken, pc, req>> /\ rows' \subseteq rows
    BY <1>1 DEF vars, handlerVars, RevokeModel, Tick
  <2> QED  BY <2>1, LoadedKept DEF Importing
<1>2. ASSUME NEW h \in Handlers, Reading(h), ~Reload(h), ~ImportRow(h) PROVE GrantedModelsLoaded'
  <2>1. UNCHANGED <<rows, loaded, broken>>
    BY <1>2 DEF Reading, ClaimKey, CountClaim, InsertKey, CountFreeModels, SyncMarket, Fetch,
                SaveMarketModel, MarketSynced, MarketSyncFailed, ListFreeModels, NextModel,
                ModelsImported
  <2>2. \A o \in Handlers : Importing(o) => Importing(o)'
    BY <1>2, ReadingShape DEF Others, Importing
  <2> QED  BY <2>1, <2>2, LoadedKept
<1>3. ASSUME NEW h \in Handlers, ImportRow(h) PROVE GrantedModelsLoaded'
  <2>1. Importing(h)'
    BY <1>3 DEF ImportRow, Importing
  <2> QED  BY <2>1 DEF GrantedModelsLoaded
<1>4. ASSUME NEW h \in Handlers, KeyWriting(h) PROVE GrantedModelsLoaded'
  <2>1. UNCHANGED <<rows, loaded, broken>>
    BY <1>4 DEF KeyWriting, UpdateSettings, WriteSettings, WriteAccountKey, EnvironmentKey,
                EnvironmentConfig, SyncFreeModels, UpsertAccount
  <2>2. \A o \in Handlers : Importing(o) => Importing(o)'
    BY <1>4, KeyWritingShape DEF Others, Importing
  <2> QED  BY <2>1, <2>2, LoadedKept
<1>5. ASSUME NEW h \in Handlers, Fail(h) PROVE GrantedModelsLoaded'
  <2>1. UNCHANGED <<rows, loaded>> /\ Others(h) /\ broken' = (broken \/ Importing(h))
    BY <1>5, EndsShape DEF Fail
  <2>2. \A o \in Handlers : Importing(o) => Importing(o)' \/ broken'
    BY <2>1 DEF Others, Importing
  <2> QED  BY <2>1, <2>2, LoadedKept
<1> QED  BY <1>1, <1>2, <1>3, <1>4, <1>5, LoadedReload DEF Next, Reading, KeyWriting

(* Unless an import is under way or has failed since the last reload, the  *)
(* engine has the pool of every granted model.                             *)
THEOREM GrantedAreLoaded == Spec => []GrantedModelsLoaded
<1>1. ServedInv => GrantedModelsServed
  BY DEF ServedInv
<1>2. Init => GrantedModelsLoaded
  BY DEF Init, GrantedModelsLoaded
<1>3. Spec => [](Typed /\ ServedInv /\ ThenInv)
  BY FreePoolTyped, ServedInit, ServedStep, ThenInit, ThenStep, PTL DEF Spec
<1> QED  BY <1>1, <1>2, <1>3, LoadedStep, PTL DEF Spec

----------------------------------------------------------------------------
(* The key of the account agrees with the settings.  The one handler that  *)
(* writes alone knows what the other of the two holds.                     *)

AloneInv ==
  \A h \in alone :
    /\ Writing(h) /\ \A o \in Handlers : Writing(o) => o = h
    /\ pc[h] = "settings_account" => config.key = req[h].config.key
    /\ pc[h] = "env_config" => account = req[h].key
    /\ pc[h] = "account" => config.key = req[h].key

KeysInv == AloneInv /\ KeysAgree

LEMMA KeysReading ==
  ASSUME Typed, KeysInv, NEW h \in Handlers, UNCHANGED <<config, account, keyHistory>>,
         Others(h), ~Writing(h), ~Writing(h)'
  PROVE  KeysInv'
<1>1. \A o \in Handlers : Writing(o)' <=> Writing(o)
  BY DEF Others, Writing
<1>2. \A o \in alone : o # h /\ pc'[o] = pc[o] /\ req'[o] = req[o] /\ o \in Handlers
  BY DEF KeysInv, AloneInv, Others, Typed
<1> QED  BY <1>1, <1>2 DEF KeysInv, AloneInv, KeysAgree, keyHistory

(* A handler that begins to write; what it holds fits what it has written. *)
LEMMA KeysStarts ==
  ASSUME Typed, KeysInv, NEW h \in Handlers, StartsWriting(h), Others(h), Writing(h)',
         pc'[h] # "settings_account",
         pc'[h] = "env_config" => account' = req'[h].key,
         pc'[h] = "account" => config'.key = req'[h].key
  PROVE  KeysInv'
<1>1. \A o \in Handlers \ {h} : Writing(o)' <=> Writing(o)
  BY DEF Others, Writing
<1>2. AloneInv'
  BY <1>1 DEF StartsWriting, AloneInv
<1> QED  BY <1>2 DEF KeysInv, KeysAgree

LEMMA KeysStops ==
  ASSUME Typed, KeysInv, NEW h \in Handlers, NEW t \in BOOLEAN, StopsWriting(h, t), Others(h),
         Writing(h), ~Writing(h)',
         h \in alone /\ t => account' = config'.key
  PROVE  KeysInv'
<1>1. \A o \in alone : o = h
  BY DEF KeysInv, AloneInv
<1>2. alone' = {}
  BY <1>1 DEF StopsWriting
<1> QED  BY <1>2 DEF KeysInv, AloneInv, KeysAgree, StopsWriting

LEMMA KeysStep == Typed /\ ThenInv /\ KeysInv /\ [Next]_vars => KeysInv'
<1> SUFFICES ASSUME Typed, ThenInv, KeysInv, [Next]_vars PROVE KeysInv'
  OBVIOUS
<1>1. CASE UNCHANGED vars \/ RevokeModel \/ Tick
  <2>1. UNCHANGED <<config, account, pc, req, alone, settled>>
    BY <1>1 DEF vars, handlerVars, keyHistory, RevokeModel, Tick
  <2> QED  BY <2>1 DEF KeysInv, AloneInv, KeysAgree, Writing
<1>2. ASSUME NEW h \in Handlers, Reading(h) PROVE KeysInv'
  <2>1. UNCHANGED <<config, account, keyHistory>>
    BY <1>2 DEF Reading, ClaimKey, CountClaim, InsertKey, CountFreeModels, SyncMarket, Fetch,
                SaveMarketModel, MarketSynced, MarketSyncFailed, ListFreeModels, NextModel,
                ImportRow, ModelsImported, Reload
  <2> QED  BY <1>2, <2>1, ReadingShape, KeysReading
<1>3. ASSUME NEW h \in Handlers, UpdateSettings(h) PROVE KeysInv'
  <2>1. PICK r : Begins(h, "settings", r)
    BY <1>3 DEF UpdateSettings
  <2>2. pc'[h] = "settings" /\ Others(h) /\ StartsWriting(h)
    BY <1>3, <2>1, BeginsShape DEF UpdateSettings
  <2> QED  BY <2>2, KeysStarts DEF Writing
<1>4. ASSUME NEW h \in Handlers, EnvironmentKey(h) PROVE KeysInv'
  <2>1. PICK k \in ApiKeys : Begins(h, "env_config", [NoRequest EXCEPT !.key = k]) /\ account' = k
    BY <1>4 DEF EnvironmentKey
  <2>2. pc'[h] = "env_config" /\ req'[h].key = k /\ Others(h) /\ StartsWriting(h)
    BY <1>4, <2>1, BeginsShape DEF EnvironmentKey, NoRequest
  <2> QED  BY <2>1, <2>2, KeysStarts DEF Writing
<1>5. ASSUME NEW h \in Handlers, SyncFreeModels(h) PROVE KeysInv'
  <2>1. Begins(h, "account", [NoRequest EXCEPT !.key = config.key]) /\ UNCHANGED config
    BY <1>5 DEF SyncFreeModels
  <2>2. pc'[h] = "account" /\ req'[h].key = config.key /\ Others(h) /\ StartsWriting(h)
    BY <1>5, <2>1, BeginsShape DEF SyncFreeModels, NoRequest
  <2> QED  BY <2>1, <2>2, KeysStarts DEF Writing
<1>6. ASSUME NEW h \in Handlers, WriteSettings(h) PROVE KeysInv'
  <2>1. CASE config'.key # None
    <3>1. /\ pc[h] = "settings" /\ pc'[h] = "settings_account" /\ req'[h] = req[h] /\ Others(h)
          /\ config' = req[h].config /\ UNCHANGED <<alone, settled>>
      BY <1>6, <2>1, GotoShape DEF WriteSettings, keyHistory
    <3>2. \A o \in Handlers : Writing(o)' <=> Writing(o)
      BY <3>1 DEF Others, Writing
    <3>3. \A o \in alone : o = h
      BY <3>1 DEF KeysInv, AloneInv, Writing
    <3>4. Writing(h)'
      BY <3>1 DEF Writing
    <3> QED  BY <3>1, <3>2, <3>3, <3>4 DEF KeysInv, AloneInv, KeysAgree
  <2>2. CASE config'.key = None
    <3>1. /\ pc[h] = "settings" /\ pc'[h] = "idle" /\ Others(h) /\ StopsWriting(h, FALSE)
      BY <1>6, <2>2, EndsShape DEF WriteSettings
    <3> QED  BY <3>1, KeysStops DEF Writing
  <2> QED  BY <2>1, <2>2
<1>7. ASSUME NEW h \in Handlers, WriteAccountKey(h) PROVE KeysInv'
  <2>1. /\ pc[h] = "settings_account" /\ pc'[h] = "idle" /\ Others(h) /\ StopsWriting(h, TRUE)
        /\ account' = req[h].config.key /\ UNCHANGED config
    BY <1>7, EndsShape DEF WriteAccountKey
  <2>2. h \in alone => account' = config'.key
    BY <2>1 DEF KeysInv, AloneInv
  <2> QED  BY <2>1, <2>2, KeysStops DEF Writing
<1>8. ASSUME NEW h \in Handlers, EnvironmentConfig(h) PROVE KeysInv'
  <2>1. /\ pc[h] = "env_config" /\ pc'[h] = "idle" /\ Others(h) /\ StopsWriting(h, TRUE)
        /\ config'.key = req[h].key /\ UNCHANGED account
    BY <1>8, EndsShape DEF EnvironmentConfig, Typed, Config
  <2>2. h \in alone => account' = config'.key
    BY <2>1 DEF KeysInv, AloneInv
  <2> QED  BY <2>1, <2>2, KeysStops DEF Writing
<1>9. ASSUME NEW h \in Handlers, UpsertAccount(h) PROVE KeysInv'
  <2>1. /\ pc[h] = "account" /\ pc'[h] = "count" /\ Others(h) /\ StopsWriting(h, TRUE)
        /\ account' = req[h].key /\ UNCHANGED config
    BY <1>9, GotoShape DEF UpsertAccount
  <2>2. h \in alone => account' = config'.key
    BY <2>1 DEF KeysInv, AloneInv
  <2> QED  BY <2>1, <2>2, KeysStops DEF Writing
<1>10. ASSUME NEW h \in Handlers, Fail(h) PROVE KeysInv'
  <2>1. pc'[h] = "idle" /\ Others(h) /\ UNCHANGED <<config, account>>
    BY <1>10, EndsShape DEF Fail
  <2>2. CASE Writing(h)
    <3>1. StopsWriting(h, FALSE)
      BY <1>10, <2>2 DEF Fail
    <3> QED  BY <2>1, <2>2, <3>1, KeysStops DEF Writing
  <2>3. CASE ~Writing(h)
    <3>1. UNCHANGED keyHistory
      BY <1>10, <2>3 DEF Fail
    <3> QED  BY <2>1, <2>3, <3>1, KeysReading DEF Writing
  <2> QED  BY <2>2, <2>3
<1> QED
  BY <1>1, <1>2, <1>3, <1>4, <1>5, <1>6, <1>7, <1>8, <1>9, <1>10 DEF Next, Reading

(* When the last to write the key was alone and got through, the account   *)
(* has the key of the settings: with any number of admins, servers and     *)
(* imports.                                                                *)
THEOREM KeysInAgreement == Spec => []KeysAgree
<1>1. Init => KeysInv
  BY DEF Init, KeysInv, AloneInv, KeysAgree
<1>2. KeysInv => KeysAgree
  BY DEF KeysInv
<1>3. Spec => [](Typed /\ ThenInv)
  BY FreePoolTyped, ThenInit, ThenStep, PTL DEF Spec
<1> QED  BY <1>1, <1>2, <1>3, KeysStep, PTL DEF Spec

----------------------------------------------------------------------------
(* The claims of a client within the limit.                                *)

Claim == [age : 0..Hour, limit : Limits, count : Nat]

(* The limiter's queue, and the claims it stands for.                      *)
Counted(q, claims) ==
  /\ Queue(q, Hour - 1)
  /\ claims \in Seq(Claim) /\ Len(claims) = Len(q)
  /\ \A i \in 1..Len(q) : claims[i].age = q[i] /\ claims[i].count <= claims[i].limit

ClaimsInv ==
  /\ tracker = [c \in Clients |-> tracker[c]] /\ let = [c \in Clients |-> let[c]]
  /\ \A c \in Clients : Counted(tracker[c], let[c])
  /\ \A h \in Handlers : pc[h] = "limit" => req[h].client \in Clients /\ req[h].limit \in Limits

LEMMA HourType == Hour - 1 \in Nat /\ 0 \in 0..Hour /\ Hour \in Nat /\ Limits \subseteq Nat
BY FreePoolAssumption

LEMMA CountedType ==
  ASSUME NEW q, NEW claims, Counted(q, claims)
  PROVE  /\ q \in Seq(0..Hour) /\ claims \in Seq(Claim)
         /\ \A i \in DOMAIN claims : claims[i].count <= claims[i].limit
<1>1. Len(q) \in Nat /\ claims \in Seq(Claim) /\ DOMAIN claims = 1..Len(q)
  BY LenProperties DEF Counted, Queue
<1>2. q \in Seq(0..(Hour - 1))
  BY <1>1, HourType, LimitedType DEF Limited, Counted
<1>3. q \in Seq(0..Hour)
  <2>1. 0..(Hour - 1) \subseteq 0..Hour
    BY HourType
  <2> QED  BY <1>2, <2>1, SeqMonotonic
<1> QED  BY <1>1, <1>3 DEF Counted

(* check_and_record_ip_claim: a claim it lets through is one more than all *)
(* those in the queue, so at most the limit.                               *)
LEMMA CountedCall ==
  ASSUME NEW q, NEW claims, Counted(q, claims), NEW n \in Limits
  PROVE  /\ LetThrough(q, Hour - 1, n) =>
              Counted(AfterCall(q, Hour - 1, n),
                      Append(claims, [age |-> 0, limit |-> n, count |-> Len(claims) + 1]))
         /\ ~LetThrough(q, Hour - 1, n) => Counted(AfterCall(q, Hour - 1, n), claims)
<1>1. Queue(q, Hour - 1) /\ Hour - 1 \in Nat /\ n \in Nat /\ Len(q) \in Nat /\ Len(claims) = Len(q)
      /\ claims \in Seq(Claim)
  BY HourType DEF Counted, Queue
<1>2. Within(q, Hour - 1) = q
  BY <1>1, WithinQueue
<1>3. ASSUME LetThrough(q, Hour - 1, n)
      PROVE  Counted(AfterCall(q, Hour - 1, n),
                     Append(claims, [age |-> 0, limit |-> n, count |-> Len(claims) + 1]))
  <2> DEFINE new == [age |-> 0, limit |-> n, count |-> Len(claims) + 1]
             s == Append(q, 0)
             l == Append(claims, new)
  <2>1. AfterCall(q, Hour - 1, n) = s
    BY <1>2, <1>3 DEF AfterCall
  <2>2. Len(q) < n
    BY <1>2, <1>3 DEF LetThrough
  <2>3. new \in Claim /\ new.age = 0 /\ new.count <= new.limit
    BY <1>1, <2>2, HourType DEF Claim
  <2>4. Queue(s, Hour - 1) /\ Len(s) = Len(q) + 1
    BY <1>1, AppendQueue
  <2>5. /\ \A i \in 1..Len(q) : s[i] = q[i]
        /\ s[Len(q) + 1] = 0
    BY <1>1, AppendProperties DEF Queue
  <2> HIDE DEF new, s
  <2>6. /\ l \in Seq(Claim) /\ Len(l) = Len(q) + 1
        /\ \A i \in 1..Len(q) : l[i] = claims[i]
        /\ l[Len(q) + 1] = new
    BY <1>1, <2>3, AppendProperties
  <2> HIDE DEF l
  <2>7. \A i \in 1..Len(s) : i \in 1..Len(q) \/ i = Len(q) + 1
    BY <1>1, <2>4
  <2>8. \A i \in 1..Len(s) : l[i].age = s[i] /\ l[i].count <= l[i].limit
    BY <2>3, <2>5, <2>6, <2>7 DEF Counted
  <2>9. Counted(s, l)
    BY <2>4, <2>6, <2>8 DEF Counted
  <2> QED  BY <2>1, <2>9 DEF new, l
<1>4. ASSUME ~LetThrough(q, Hour - 1, n)
      PROVE  Counted(AfterCall(q, Hour - 1, n), claims)
  BY <1>2, <1>4 DEF AfterCall
<1> QED  BY <1>3, <1>4

(* An hour passes: the same entries go from both.                          *)
LEMMA CountedOlder ==
  ASSUME NEW q, NEW claims, Counted(q, claims)
  PROVE  Counted(AllOlder(q, Hour - 1), ClaimsOlder(claims))
<1> DEFINE n == Len(q)
           k == Expired(q, Hour - 1)
           older == [i \in DOMAIN claims |-> [claims[i] EXCEPT !.age = @ + 1]]
           s == AllOlder(q, Hour - 1)
           l == SubSeq(older, k + 1, n)
<1>1. /\ Queue(q, Hour - 1) /\ Hour - 1 \in Nat /\ n \in Nat /\ claims \in Seq(Claim)
      /\ DOMAIN claims = 1..n
      /\ \A i \in 1..n : q[i] \in Nat /\ q[i] <= Hour - 1 /\ claims[i] \in Claim
      /\ \A i \in 1..n : claims[i].age = q[i] /\ claims[i].count <= claims[i].limit
  BY HourType, LenProperties, ElementOfSeq DEF Counted, Queue
<1>2. /\ Queue(s, Hour - 1) /\ k \in 0..n /\ Len(s) = n - k
      /\ \A i \in 1..(n - k) : s[i] = q[k + i] + 1
  BY <1>1, OlderQueue
<1> HIDE DEF n, k, s
<1>3. \A i \in 1..n :
        /\ older[i] \in Claim /\ older[i].age = q[i] + 1 /\ older[i].count <= older[i].limit
  <2> SUFFICES ASSUME NEW i \in 1..n
               PROVE  older[i] \in Claim /\ older[i].age = q[i] + 1 /\ older[i].count <= older[i].limit
    OBVIOUS
  <2>1. q[i] + 1 \in 0..Hour
    BY <1>1, HourType
  <2> QED  BY <1>1, <2>1 DEF Claim
<1>4. older \in Seq(Claim) /\ Len(older) = n /\ DOMAIN older = 1..n
  <2>1. older \in [1..n -> Claim]
    BY <1>1, <1>3
  <2> HIDE DEF older
  <2> QED  BY <1>1, <2>1, IsASeq, LenProperties
<1> HIDE DEF older
<1>5. ClaimsOlder(claims) = l
  <2>1. {i \in DOMAIN older : older[i].age >= Hour} = {i \in 1..n : q[i] + 1 > Hour - 1}
    BY <1>1, <1>3, <1>4, HourType
  <2>2. Cardinality({i \in DOMAIN older : older[i].age >= Hour}) = k
    BY <2>1 DEF k, n, Expired
  <2>3. ClaimsOlder(claims) = SubSeq(older, Cardinality({i \in DOMAIN older : older[i].age >= Hour}) + 1, Len(older))
    BY DEF ClaimsOlder, older
  <2> QED  BY <1>4, <2>2, <2>3
<1>6. /\ l \in Seq(Claim) /\ Len(l) = n - k
      /\ \A i \in 1..(n - k) : l[i] = older[k + i]
  <2>1. k + 1 \in Int /\ n \in Int /\ \A i \in (k + 1)..n : older[i] \in Claim
    BY <1>1, <1>2, <1>3
  <2>2. /\ l \in Seq(Claim) /\ Len(l) = IF k + 1 <= n THEN n - (k + 1) + 1 ELSE 0
        /\ \A i \in 1..(n - (k + 1) + 1) : l[i] = older[k + 1 + i - 1]
    BY <2>1, SubSeqProperties
  <2>3. n - (k + 1) + 1 = n - k /\ \A i \in 1..(n - k) : k + 1 + i - 1 = k + i
    BY <1>1, <1>2
  <2> HIDE DEF l
  <2>4. (IF k + 1 <= n THEN n - (k + 1) + 1 ELSE 0) = n - k
    BY <1>1, <1>2
  <2> QED  BY <2>2, <2>3, <2>4
<1> HIDE DEF l
<1>7. \A i \in 1..(n - k) : k + i \in 1..n
  BY <1>1, <1>2
<1>8. Counted(s, l)
  BY <1>2, <1>3, <1>6, <1>7 DEF Counted
<1> QED  BY <1>5, <1>8 DEF s

LEMMA CountedNone == Counted(<<>>, <<>>)
<1>1. <<>> \in Seq(Nat) /\ <<>> \in Seq(Claim) /\ Len(<<>>) = 0 /\ 1..0 = {}
  BY EmptySeq
<1> QED  BY <1>1 DEF Counted, Queue

LEMMA ClaimsInit == Init => ClaimsInv
BY CountedNone DEF Init, ClaimsInv

(* Steps that leave the limiter alone.                                     *)
LEMMA ClaimsKept ==
  ASSUME ClaimsInv, UNCHANGED <<tracker, let>>, NEW h \in Handlers, Others(h),
         pc'[h] = "limit" => req'[h].client \in Clients /\ req'[h].limit \in Limits
  PROVE  ClaimsInv'
BY DEF ClaimsInv, Others

LEMMA ClaimsCount ==
  ASSUME Typed, ClaimsInv, NEW h \in Handlers, CountClaim(h)
  PROVE  ClaimsInv'
<1> DEFINE c == req[h].client
           n == req[h].limit
           through == LetThrough(tracker[c], Hour - 1, n)
           new == [age |-> 0, limit |-> n, count |-> Len(let[c]) + 1]
<1>1. c \in Clients /\ n \in Limits /\ Counted(tracker[c], let[c])
  BY DEF CountClaim, ClaimsInv
<1>2. /\ tracker' = [tracker EXCEPT ![c] = AfterCall(tracker[c], Hour - 1, n)]
      /\ through => let' = [let EXCEPT ![c] = Append(let[c], new)]
      /\ ~through => let' = let
  BY <1>1 DEF CountClaim, ClaimsInv
<1>3. /\ through => Counted(AfterCall(tracker[c], Hour - 1, n), Append(let[c], new))
      /\ ~through => Counted(AfterCall(tracker[c], Hour - 1, n), let[c])
  BY <1>1, CountedCall
<1>4. Others(h) /\ pc'[h] \in {"insert", "idle"}
  <2>1. Ends(h) \/ (Goto(h, "insert") /\ UNCHANGED req)
    BY DEF CountClaim
  <2> QED  BY <2>1, EndsShape, GotoShape
<1> HIDE DEF c, n, through, new
<1>5. /\ tracker' = [x \in Clients |-> tracker'[x]] /\ let' = [x \in Clients |-> let'[x]]
      /\ \A x \in Clients \ {c} : tracker'[x] = tracker[x] /\ let'[x] = let[x]
      /\ Counted(tracker'[c], let'[c])
  BY <1>1, <1>2, <1>3 DEF ClaimsInv
<1> QED  BY <1>4, <1>5 DEF ClaimsInv, Others

LEMMA ClaimsTick ==
  ASSUME ClaimsInv, Tick
  PROVE  ClaimsInv'
<1>1. UNCHANGED <<pc, req>>
  BY DEF Tick, handlerVars
<1>2. \A c \in Clients : Counted(AllOlder(tracker[c], Hour - 1), ClaimsOlder(let[c]))
  BY CountedOlder DEF ClaimsInv
<1> QED  BY <1>1, <1>2 DEF Tick, ClaimsInv

LEMMA NotToLimit ==
  ASSUME Typed, NEW h \in Handlers,
         (Reading(h) /\ ~ClaimKey(h) /\ ~CountClaim(h)) \/ KeyWriting(h) \/ Fail(h)
  PROVE  pc'[h] # "limit" /\ UNCHANGED <<tracker, let>>
<1>1. ASSUME \/ Ends(h)
             \/ \E l : l # "limit" /\ pc' = [pc EXCEPT ![h] = l]
             \/ UNCHANGED pc /\ pc[h] # "limit"
      PROVE  pc'[h] # "limit"
  BY <1>1 DEF Ends, Goto, Typed, HandlersTyped
<1>2. CASE Reading(h) /\ ~ClaimKey(h) /\ ~CountClaim(h)
  <2>1. UNCHANGED <<tracker, let>>
    BY <1>2 DEF Reading, InsertKey, CountFreeModels, SyncMarket, Fetch, SaveMarketModel,
                MarketSynced, MarketSyncFailed, ListFreeModels, NextModel, ImportRow,
                ModelsImported, Reload
  <2>2. \/ Ends(h)
        \/ \E l : l # "limit" /\ pc' = [pc EXCEPT ![h] = l]
        \/ UNCHANGED pc /\ pc[h] # "limit"
    BY <1>2 DEF Reading, InsertKey, CountFreeModels, SyncMarket, Fetch, SaveMarketModel,
                MarketSynced, MarketSyncFailed, ListFreeModels, NextModel, ImportRow,
                ModelsImported, Reload, Begins, Goto
  <2> QED  BY <1>1, <2>1, <2>2
<1>3. CASE KeyWriting(h)
  <2>1. UNCHANGED <<tracker, let>>
    BY <1>3 DEF KeyWriting, UpdateSettings, WriteSettings, WriteAccountKey, EnvironmentKey,
                EnvironmentConfig, SyncFreeModels, UpsertAccount
  <2>2. Ends(h) \/ \E l : l # "limit" /\ pc' = [pc EXCEPT ![h] = l]
    BY <1>3 DEF KeyWriting, UpdateSettings, WriteSettings, WriteAccountKey, EnvironmentKey,
                EnvironmentConfig, SyncFreeModels, UpsertAccount, Begins, Goto
  <2> QED  BY <1>1, <2>1, <2>2
<1>4. CASE Fail(h)
  BY <1>1, <1>4 DEF Fail
<1> QED  BY <1>2, <1>3, <1>4

LEMMA ClaimsStep == Typed /\ ThenInv /\ ClaimsInv /\ [Next]_vars => ClaimsInv'
<1> SUFFICES ASSUME Typed, ThenInv, ClaimsInv, [Next]_vars PROVE ClaimsInv'
  OBVIOUS
<1>1. CASE UNCHANGED vars \/ RevokeModel
  <2>1. UNCHANGED <<tracker, let, pc, req>>
    BY <1>1 DEF vars, handlerVars, RevokeModel
  <2> QED  BY <2>1 DEF ClaimsInv
<1>2. ASSUME NEW h \in Handlers, ClaimKey(h) PROVE ClaimsInv'
  <2>1. PICK c \in Clients :
          Begins(h, "limit", [NoRequest EXCEPT !.client = c, !.limit = config.limit])
    BY <1>2 DEF ClaimKey
  <2> DEFINE r == [NoRequest EXCEPT !.client = c, !.limit = config.limit]
  <2>2. r.client = c /\ r.limit = config.limit /\ config.limit \in Limits
    BY DEF NoRequest, Typed, Config
  <2> HIDE DEF r
  <2>3. Begins(h, "limit", r)
    BY <2>1 DEF r
  <2>4. req'[h] = r /\ Others(h)
    BY <2>3, BeginsShape
  <2> QED  BY <1>2, <2>2, <2>4, ClaimsKept DEF ClaimKey
<1>3. ASSUME NEW h \in Handlers, Reading(h), ~ClaimKey(h), ~CountClaim(h) PROVE ClaimsInv'
  BY <1>3, NotToLimit, ReadingShape, ClaimsKept
<1>4. ASSUME NEW h \in Handlers, KeyWriting(h) PROVE ClaimsInv'
  BY <1>4, NotToLimit, KeyWritingShape, ClaimsKept
<1>5. ASSUME NEW h \in Handlers, Fail(h) PROVE ClaimsInv'
  <2>1. Others(h)
    BY <1>5, EndsShape DEF Fail
  <2> QED  BY <1>5, <2>1, NotToLimit, ClaimsKept
<1> QED
  BY <1>1, <1>2, <1>3, <1>4, <1>5, ClaimsCount, ClaimsTick DEF Next, Reading, KeyWriting

Started == served \in 0..MaxRequests

LEMMA StartedStep == Started /\ [Next]_vars => Started'
<1> SUFFICES ASSUME Started, [Next]_vars PROVE Started'
  OBVIOUS
<1>1. ASSUME \/ UNCHANGED served
             \/ \E h \in Handlers : Ends(h) \/ \E l, r : Begins(h, l, r)
      PROVE  Started'
  BY <1>1, FreePoolAssumption DEF Started, Ends, Begins
<1>2. ASSUME NEW h \in Handlers, Reading(h)
      PROVE  UNCHANGED served \/ Ends(h) \/ \E l, r : Begins(h, l, r)
  BY <1>2 DEF Reading, ClaimKey, CountClaim, InsertKey, CountFreeModels, SyncMarket, Fetch,
              SaveMarketModel, MarketSynced, MarketSyncFailed, ListFreeModels, NextModel, ImportRow,
              ModelsImported, Reload
<1>3. ASSUME NEW h \in Handlers, KeyWriting(h)
      PROVE  UNCHANGED served \/ Ends(h) \/ \E l, r : Begins(h, l, r)
  BY <1>3 DEF KeyWriting, UpdateSettings, WriteSettings, WriteAccountKey, EnvironmentKey,
              EnvironmentConfig, SyncFreeModels, UpsertAccount
<1>4. ASSUME NEW h \in Handlers, Fail(h)
      PROVE  Ends(h)
  BY <1>4 DEF Fail
<1>5. CASE UNCHANGED vars \/ RevokeModel \/ Tick
  BY <1>1, <1>5 DEF vars, handlerVars, RevokeModel, Tick
<1> QED  BY <1>1, <1>2, <1>3, <1>4, <1>5 DEF Next, Reading, KeyWriting

LEMMA AlwaysClaims == Spec => [](Typed /\ ClaimsInv /\ Started)
<1>1. Init => Started
  BY FreePoolAssumption DEF Init, Started
<1>2. Spec => [](Typed /\ ThenInv)
  BY FreePoolTyped, ThenInit, ThenStep, PTL DEF Spec
<1> QED  BY <1>1, <1>2, ClaimsInit, ClaimsStep, StartedStep, PTL DEF Spec

(* The state of the pool and of its limiter is well typed, whatever        *)
(* handlers interleave or fail.                                            *)
THEOREM FreePoolTypeCorrect == Spec => []TypeOK
<1>1. Typed /\ ClaimsInv /\ Started => TypeOK
  <2> SUFFICES ASSUME Typed, ClaimsInv, Started
               PROVE  TypeOK
    OBVIOUS
  <2>1. \A c \in Clients : tracker[c] \in Seq(0..Hour) /\ let[c] \in Seq(Claim)
    BY CountedType DEF ClaimsInv
  <2>2. tracker \in [Clients -> Seq(0..Hour)] /\ let \in [Clients -> Seq(Claim)]
    BY <2>1, Zenon DEF ClaimsInv
  <2> QED  BY <2>2 DEF TypeOK, Typed, HandlersTyped, Claim, Started
<1> QED  BY <1>1, AlwaysClaims, PTL

(* A claim that check_and_record_ip_claim lets through is, with those of   *)
(* the hour before it, within the limit it was compared with, however      *)
(* claims and changes of the settings interleave.                          *)
THEOREM ClaimsAreWithinLimit == Spec => []ClaimsWithinLimit
<1>1. ClaimsInv => ClaimsWithinLimit
  BY CountedType DEF ClaimsInv, ClaimsWithinLimit
<1> QED  BY <1>1, AlwaysClaims, PTL
=============================================================================
