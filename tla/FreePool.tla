------------------------------ MODULE FreePool ------------------------------
(***************************************************************************)
(* The free token pool (src/src/free_token/mod.rs): keys that anyone may   *)
(* claim, the pool's settings, and the import of OpenRouter's free models  *)
(* from the market catalog, which a worker keeps (src/src/sync/openrouter  *)
(* .rs).  None of it runs in a transaction: each statement is seen by      *)
(* others at once, and what fails half way stays.                          *)
(***************************************************************************)
EXTENDS SlidingWindow

CONSTANTS
  None,        (* No key of the upstream provider (NULL, or the empty one).*)
  Handlers,    (* Requests and background syncs under way at a time.       *)
  Clients,     (* IP addresses.                                            *)
  ApiKeys,     (* Keys of the upstream provider.                           *)
  Models,      (* Models of the market.                                    *)
  FreeNamed,   (* Those whose id ends in ":free".                          *)
  Seeded,      (* The well-known ones that stand in for an empty catalog.  *)
  Limits,      (* Values of max_keys_per_ip_per_hour.                      *)
  Hour,        (* The claim window.                                        *)
  MaxRequests  (* Requests, syncs and restarts in a run, at most.          *)

ASSUME FreePoolAssumption ==
  /\ Limits \subseteq Nat \ {0} /\ 1 \in Limits
  /\ Hour \in Nat \ {0} /\ MaxRequests \in Nat
  /\ FreeNamed \subseteq Models /\ Seeded \subseteq Models
  /\ None \notin ApiKeys

VARIABLES
  config,    (* free_token_pool_config.                                    *)
  account,   (* The api_key of the provider account pa_openrouter_free.    *)
  market,    (* openrouter_market_models.                                  *)
  rows,      (* The rows the import makes for each model.                  *)
  loaded,    (* Models whose pool the engine has.                          *)
  tracker,   (* IP_CLAIM_TRACKER, for each client.                         *)
  pc, req,   (* Where each handler is and what it holds.                   *)
  served,    (* Requests so far.                                           *)
  let,       (* History: for each client the claims let through in the last*)
             (* hour: age, limit compared with, and how many there were.   *)
  alone,     (* History: handlers writing the key without another.         *)
  settled,   (* History: whether the last to write it did so throughout.   *)
  broken     (* History: an import failed since the engine was reloaded.   *)

handlerVars == <<pc, req, served>>
keyHistory == <<alone, settled>>
vars == <<config, account, market, rows, loaded, tracker, handlerVars, let,
          keyHistory, broken>>

Offer == {"free", "priced", "absent"}
Config == [enabled : BOOLEAN, limit : Limits, key : ApiKeys \cup {None}]

(* The statements of the import for one model, in their order.             *)
Statements == <<"endpoint", "pool", "member", "global", "model", "grant">>
Row == {Statements[i] : i \in 1..6} \X Models

NoRequest == [client |-> None, limit |-> None, config |-> None, key |-> None,
              todo |-> {}, model |-> None, next |-> 1, then |-> "end"]

Request == [client : Clients \cup {None}, limit : Limits \cup {None},
            config : Config \cup {None}, key : ApiKeys \cup {None},
            todo : SUBSET (Models \X Offer), model : Models \cup {None},
            next : 1..6, then : {"end", "seed"}]

Pc == {"idle", "limit", "insert", "settings", "settings_account", "env_config",
       "account", "count", "fetch", "market", "seed", "import", "reload"}

TypeOK ==
  /\ config \in Config
  /\ account \in ApiKeys \cup {None}
  /\ market \in [Models -> Offer]
  /\ rows \subseteq Row
  /\ loaded \subseteq Models
  /\ tracker \in [Clients -> Seq(0..Hour)]
  /\ pc \in [Handlers -> Pc]
  /\ req \in [Handlers -> Request]
  /\ served \in 0..MaxRequests
  /\ let \in [Clients -> Seq([age : 0..Hour, limit : Limits, count : Nat])]
  /\ alone \subseteq Handlers
  /\ {settled, broken} \subseteq BOOLEAN

(* The migrations' rows: the pool that all share has the seeded models.    *)
Init ==
  /\ config \in [enabled : {TRUE}, limit : Limits, key : {None}]
  /\ account = None
  /\ market = [m \in Models |-> "absent"]
  /\ rows = {"endpoint", "global"} \X Seeded
  /\ loaded = {}
  /\ tracker = [c \in Clients |-> <<>>]
  /\ pc = [h \in Handlers |-> "idle"]
  /\ req = [h \in Handlers |-> NoRequest]
  /\ served = 0
  /\ let = [c \in Clients |-> <<>>]
  /\ alone = {}
  /\ settled = TRUE
  /\ broken = FALSE

----------------------------------------------------------------------------
Goto(h, l) == pc' = [pc EXCEPT ![h] = l]
Ends(h) == Goto(h, "idle") /\ req' = [req EXCEPT ![h] = NoRequest] /\ UNCHANGED served

Begins(h, l, r) ==
  /\ pc[h] = "idle"
  /\ served < MaxRequests /\ served' = served + 1
  /\ Goto(h, l)
  /\ req' = [req EXCEPT ![h] = r]

Importing(h) == pc[h] \in {"count", "seed", "import", "reload"} \/ req[h].then = "seed"
Writing(h) == pc[h] \in {"settings", "settings_account", "env_config", "account"}

(* A handler begins to write the key of the account: whether it is alone.  *)
StartsWriting(h) ==
  /\ alone' = IF \E o \in Handlers : Writing(o) THEN {} ELSE {h}
  /\ UNCHANGED settled

StopsWriting(h, throughout) ==
  /\ settled' = (h \in alone /\ throughout)
  /\ alone' = alone \ {h}

(* A failing statement or fetch, a client that goes.                       *)
Fail(h) ==
  /\ pc[h] # "idle"
  /\ Ends(h)
  /\ IF Writing(h) THEN StopsWriting(h, FALSE) ELSE UNCHANGED keyHistory
  /\ broken' = (broken \/ Importing(h))
  /\ UNCHANGED <<config, account, market, rows, loaded, tracker, let>>

----------------------------------------------------------------------------
(* claim_free_key: the settings are read, the limiter asked, the key made. *)

ClaimKey(h) ==
  /\ config.enabled
  /\ \E c \in Clients : Begins(h, "limit", [NoRequest EXCEPT !.client = c, !.limit = config.limit])
  /\ UNCHANGED <<config, account, market, rows, loaded, tracker, let, keyHistory, broken>>

FaultyCountClaim(h) ==
  LET c == req[h].client
      through == LetThrough(tracker[c], Hour - 1, req[h].limit + 1)
  IN  /\ pc[h] = "limit"
      /\ tracker' = [tracker EXCEPT ![c] = AfterCall(@, Hour - 1, req[h].limit + 1)]
      /\ IF through
           THEN /\ let' = [let EXCEPT ![c] =
                     Append(@, [age |-> 0, limit |-> req[h].limit, count |-> Len(@) + 1])]
                /\ Goto(h, "insert") /\ UNCHANGED <<req, served>>
           ELSE Ends(h) /\ UNCHANGED let
      /\ UNCHANGED <<config, account, market, rows, loaded, keyHistory, broken>>

(* check_and_record_ip_claim: what is an hour old no longer counts.        *)
CountClaim(h) ==
  LET c == req[h].client
      through == LetThrough(tracker[c], Hour - 1, req[h].limit)
  IN  /\ pc[h] = "limit"
      /\ tracker' = [tracker EXCEPT ![c] = AfterCall(@, Hour - 1, req[h].limit)]
      /\ IF through
           THEN /\ let' = [let EXCEPT ![c] =
                     Append(@, [age |-> 0, limit |-> req[h].limit, count |-> Len(@) + 1])]
                /\ Goto(h, "insert") /\ UNCHANGED <<req, served>>
           ELSE Ends(h) /\ UNCHANGED let
      /\ UNCHANGED <<config, account, market, rows, loaded, keyHistory, broken>>

(* The row of the key: nothing else here reads it.                         *)
InsertKey(h) ==
  /\ pc[h] = "insert"
  /\ Ends(h)
  /\ UNCHANGED <<config, account, market, rows, loaded, tracker, let, keyHistory, broken>>

----------------------------------------------------------------------------
(* update_admin_free_pool_settings: what it writes are the columns it has  *)
(* read with those it was given, so any values.                            *)

Payload == [enabled : BOOLEAN, limit : Limits \cup {0}, key : ApiKeys \cup {None}]
AtLeastOne(n) == IF n < 1 THEN 1 ELSE n

FaultyUpdateSettings(h) ==
  /\ \E new \in Payload : Begins(h, "settings", [NoRequest EXCEPT !.config = new])
  /\ StartsWriting(h)
  /\ UNCHANGED <<config, account, market, rows, loaded, tracker, let, broken>>

UpdateSettings(h) ==
  /\ \E new \in Payload :
       Begins(h, "settings", [NoRequest EXCEPT !.config = [new EXCEPT !.limit = AtLeastOne(@)]])
  /\ StartsWriting(h)
  /\ UNCHANGED <<config, account, market, rows, loaded, tracker, let, broken>>

FaultyWriteSettings(h) ==
  /\ pc[h] = "settings"
  /\ config' = req[h].config
  /\ Ends(h)
  /\ StopsWriting(h, config'.key # None)
  /\ UNCHANGED <<account, market, rows, loaded, tracker, let, broken>>

(* Without a key the account keeps the one it has.                         *)
WriteSettings(h) ==
  /\ pc[h] = "settings"
  /\ config' = req[h].config
  /\ IF config'.key # None
       THEN Goto(h, "settings_account") /\ UNCHANGED <<req, served, keyHistory>>
       ELSE Ends(h) /\ StopsWriting(h, FALSE)
  /\ UNCHANGED <<account, market, rows, loaded, tracker, let, broken>>

WriteAccountKey(h) ==
  /\ pc[h] = "settings_account"
  /\ account' = req[h].config.key
  /\ Ends(h)
  /\ StopsWriting(h, TRUE)
  /\ UNCHANGED <<config, market, rows, loaded, tracker, let, broken>>

(* A server that starts with OPENROUTER_API_KEY writes the account first   *)
(* and then the settings, next to other servers on the same database.      *)
EnvironmentKey(h) ==
  /\ \E k \in ApiKeys :
       /\ Begins(h, "env_config", [NoRequest EXCEPT !.key = k])
       /\ account' = k
  /\ StartsWriting(h)
  /\ UNCHANGED <<config, market, rows, loaded, tracker, let, broken>>

EnvironmentConfig(h) ==
  /\ pc[h] = "env_config"
  /\ config' = [config EXCEPT !.key = req[h].key]
  /\ Ends(h)
  /\ StopsWriting(h, TRUE)
  /\ UNCHANGED <<account, market, rows, loaded, tracker, let, broken>>

----------------------------------------------------------------------------
(* sync_openrouter_free_models.                                            *)

SyncFreeModels(h) ==
  /\ Begins(h, "account", [NoRequest EXCEPT !.key = config.key])
  /\ StartsWriting(h)
  /\ UNCHANGED <<config, account, market, rows, loaded, tracker, let, broken>>

(* The account and the shared pool are there after this.                   *)
UpsertAccount(h) ==
  /\ pc[h] = "account"
  /\ account' = req[h].key
  /\ StopsWriting(h, TRUE)
  /\ Goto(h, "count")
  /\ UNCHANGED <<config, market, rows, loaded, tracker, req, served, let, broken>>

FreeModels == {m \in Models : market[m] = "free" \/ (market[m] # "absent" /\ m \in FreeNamed)}

(* An empty catalog is fetched first, and seeded if it stays so.           *)
CountFreeModels(h) ==
  /\ pc[h] = "count"
  /\ IF FreeModels = {}
       THEN Goto(h, "fetch") /\ req' = [req EXCEPT ![h].then = "seed"]
       ELSE Goto(h, "seed") /\ UNCHANGED req
  /\ UNCHANGED <<config, account, market, rows, loaded, tracker, served, let,
                 keyHistory, broken>>

(* sync_openrouter_market, here and in the worker: whatever models         *)
(* OpenRouter offers, then one upsert for each.  None is ever deleted.     *)
SyncMarket(h) ==
  /\ Begins(h, "fetch", NoRequest)
  /\ UNCHANGED <<config, account, market, rows, loaded, tracker, let, keyHistory, broken>>

Fetch(h) ==
  /\ pc[h] = "fetch"
  /\ \E answer \in [Models -> Offer] :
       req' = [req EXCEPT ![h].todo =
                 {<<m, answer[m]>> : m \in {n \in Models : answer[n] # "absent"}}]
  /\ Goto(h, "market")
  /\ UNCHANGED <<config, account, market, rows, loaded, tracker, served, let,
                 keyHistory, broken>>

SaveMarketModel(h) ==
  /\ pc[h] = "market"
  /\ \E t \in req[h].todo :
       /\ market' = [market EXCEPT ![t[1]] = IF t[1] \in FreeNamed THEN "free" ELSE t[2]]
       /\ req' = [req EXCEPT ![h].todo = @ \ {t}]
  /\ UNCHANGED <<config, account, rows, loaded, tracker, pc, served, let,
                 keyHistory, broken>>

MarketSynced(h) ==
  /\ pc[h] = "market" /\ req[h].todo = {}
  /\ IF req[h].then = "seed"
       THEN Goto(h, "seed") /\ req' = [req EXCEPT ![h] = NoRequest] /\ UNCHANGED served
       ELSE Ends(h)
  /\ UNCHANGED <<config, account, market, rows, loaded, tracker, let, keyHistory, broken>>

(* For the import a market sync that fails is over, too.                   *)
MarketSyncFailed(h) ==
  /\ pc[h] \in {"fetch", "market"} /\ req[h].then = "seed"
  /\ Goto(h, "seed")
  /\ req' = [req EXCEPT ![h] = NoRequest]
  /\ UNCHANGED <<config, account, market, rows, loaded, tracker, served, let,
                 keyHistory, broken>>

(* The seeds, if there is still no free model, and the list to import.     *)
ListFreeModels(h) ==
  /\ pc[h] = "seed"
  /\ market' = IF FreeModels = {} THEN [m \in Models |-> IF m \in Seeded THEN "free" ELSE market[m]]
                                  ELSE market
  /\ req' = [req EXCEPT ![h].todo = FreeModels' \X {"free"}]
  /\ Goto(h, "import")
  /\ UNCHANGED <<config, account, rows, loaded, tracker, served, let, keyHistory, broken>>

NextModel(h) ==
  /\ pc[h] = "import" /\ req[h].model = None
  /\ \E t \in req[h].todo :
       req' = [req EXCEPT ![h].model = t[1], ![h].todo = @ \ {t}, ![h].next = 1]
  /\ UNCHANGED <<config, account, market, rows, loaded, tracker, pc, served, let,
                 keyHistory, broken>>

FaultyImportRow(h) ==
  /\ pc[h] = "import" /\ req[h].model # None
  /\ rows' = rows \cup {<<Statements[7 - req[h].next], req[h].model>>}
  /\ req' = IF req[h].next = 6 THEN [req EXCEPT ![h].model = None, ![h].next = 1]
                               ELSE [req EXCEPT ![h].next = @ + 1]
  /\ UNCHANGED <<config, account, market, loaded, tracker, pc, served, let,
                 keyHistory, broken>>

ImportRow(h) ==
  /\ pc[h] = "import" /\ req[h].model # None
  /\ rows' = rows \cup {<<Statements[req[h].next], req[h].model>>}
  /\ req' = IF req[h].next = 6 THEN [req EXCEPT ![h].model = None, ![h].next = 1]
                               ELSE [req EXCEPT ![h].next = @ + 1]
  /\ UNCHANGED <<config, account, market, loaded, tracker, pc, served, let,
                 keyHistory, broken>>

(* The aliases of the shared pool have been there since the migrations.    *)
ModelsImported(h) ==
  /\ pc[h] = "import" /\ req[h].model = None /\ req[h].todo = {}
  /\ Goto(h, "reload")
  /\ UNCHANGED <<config, account, market, rows, loaded, tracker, req, served, let,
                 keyHistory, broken>>

PoolsWithMembers == {m \in Models : {<<"pool", m>>, <<"member", m>>} \subseteq rows}

FaultyReload(h) ==
  /\ pc[h] = "reload"
  /\ broken' = FALSE
  /\ Ends(h)
  /\ UNCHANGED <<config, account, market, rows, loaded, tracker, let, keyHistory>>

(* sync_all_pools, in full in PoolSync.                                    *)
Reload(h) ==
  /\ pc[h] = "reload"
  /\ loaded' = PoolsWithMembers
  /\ broken' = FALSE
  /\ Ends(h)
  /\ UNCHANGED <<config, account, market, rows, tracker, let, keyHistory>>

----------------------------------------------------------------------------
(* The admin API takes a model from the project.                           *)
RevokeModel ==
  /\ \E m \in Models : <<"grant", m>> \in rows /\ rows' = rows \ {<<"grant", m>>}
  /\ UNCHANGED <<config, account, market, loaded, tracker, handlerVars, let,
                 keyHistory, broken>>

(* An hour passes for the history, which is oldest first as well.          *)
ClaimsOlder(claims) ==
  LET older == [i \in DOMAIN claims |-> [claims[i] EXCEPT !.age = @ + 1]]
      gone == {i \in DOMAIN older : older[i].age >= Hour}
  IN  SubSeq(older, Cardinality(gone) + 1, Len(older))

Tick ==
  /\ tracker' = [c \in Clients |-> AllOlder(tracker[c], Hour - 1)]
  /\ let' = [c \in Clients |-> ClaimsOlder(let[c])]
  /\ UNCHANGED <<config, account, market, rows, loaded, handlerVars, keyHistory, broken>>

Next ==
  \/ \E h \in Handlers :
       \/ ClaimKey(h) \/ CountClaim(h) \/ InsertKey(h)
       \/ UpdateSettings(h) \/ WriteSettings(h) \/ WriteAccountKey(h)
       \/ EnvironmentKey(h) \/ EnvironmentConfig(h)
       \/ SyncFreeModels(h) \/ UpsertAccount(h) \/ CountFreeModels(h) \/ SyncMarket(h)
       \/ Fetch(h) \/ SaveMarketModel(h) \/ MarketSynced(h) \/ MarketSyncFailed(h)
       \/ ListFreeModels(h) \/ NextModel(h) \/ ImportRow(h) \/ ModelsImported(h)
       \/ Reload(h) \/ Fail(h)
  \/ RevokeModel \/ Tick

Spec == Init /\ [][Next]_vars

----------------------------------------------------------------------------
(* Each claim that is let through is within the limit it was compared with,*)
(* counted over the hour before it, however the limit has changed since    *)
(* (free_token/mod.rs:24-45; the settings are read before the limiter).    *)
ClaimsWithinLimit ==
  \A c \in Clients : \A i \in DOMAIN let[c] : let[c][i].count <= let[c][i].limit

(* The account has the key of the settings when the last to write it was   *)
(* alone and got through with a key (or an import, which writes what it    *)
(* read): free_token/mod.rs:646-681 and 924-949, server/mod.rs:107-129.    *)
(* Two writers at once, a failure in between, and clearing the key leave   *)
(* them apart until the next import.                                       *)
KeysAgree ==
  settled /\ (\A h \in Handlers : ~Writing(h)) => account = config.key

(* A model is granted to the clients of the pool only when everything that *)
(* serves it is there, at every point of an import and after one that      *)
(* stopped anywhere (free_token/mod.rs:1034-1126).                         *)
GrantedModelsServed ==
  \A m \in Models : <<"grant", m>> \in rows =>
    \A i \in 1..5 : <<Statements[i], m>> \in rows

(* Unless an import is under way or failed since, the engine has the pool  *)
(* of every granted model (free_token/mod.rs:1153-1161).                   *)
GrantedModelsLoaded ==
  ~broken /\ (\A h \in Handlers : ~Importing(h)) =>
    \A m \in Models : <<"grant", m>> \in rows => m \in loaded
=============================================================================
