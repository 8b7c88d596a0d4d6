---------------------------- MODULE CatalogEdits ----------------------------
(***************************************************************************)
(* Edits of what is there: API keys with the model services they may use   *)
(* (src/src/saas/api_keys.rs), endpoints with their provider account and   *)
(* the settings of a pool (src/src/saas/model_services, src/src/api).      *)
(***************************************************************************)
EXTENDS CatalogServices

CONSTANT Settings   (* Values of a setting.                                *)

(* The columns of model_pools in two groups: those a SaaS request edits    *)
(* and those the admin API edits.                                          *)
SaasColumns == {"strategy"}
AdminColumns == {"affinity", "tool_trim"}
Columns == SaasColumns \cup AdminColumns

Request == [op : Ops, project : Projects \cup {None}, model : Models \cup {None},
            pool : Pools \cup {None}, account : Accounts \cup {None},
            endpoint : Endpoints \cup {None}, key : Keys \cup {None},
            todo : Seq(Accounts \cup {None}), list : SUBSET Row, targets : SUBSET Row,
            models : SUBSET Models, named : SUBSET Columns,
            columns : {<<>>} \cup UNION {[C -> Settings] : C \in {SaasColumns, AdminColumns}},
            base : {<<>>} \cup [Columns -> Settings]]

VARIABLES
  granted,  (* History: the models of the last request that set a key's.   *)
  revoked,  (* Keys with enabled = FALSE.                                  *)
  writer,   (* History: which edit of which endpoint last wrote the details*)
            (* of an account or an endpoint.                               *)
  setting   (* What each pool has in its columns.                          *)

editVars == <<granted, revoked, writer, setting>>

EditPc == {"key", "key_row", "clear_grants", "key_grants", "update_account",
           "update_model", "update_pool"}

(* The models out of which a key's may be chosen.                          *)
ProjectModels(rows, j) == {m \in Models : ServicePools(rows, j, m) # {}}

KeyGrants(rows, k) == {m \in Models : <<"key_grant", k, m>> \in rows}

----------------------------------------------------------------------------
(* Keys.                                                                   *)

(* The models are checked before the transaction.                          *)
CreateKey(h) ==
  /\ pc[h] = "idle"
  /\ \E j \in Projects :
       \E M \in (SUBSET ProjectModels(db, j)) \ {{}} :
         req' = [req EXCEPT ![h] = [NoRequest EXCEPT !.op = "create_key",
                   !.project = j, !.models = M]]
  /\ Goto(h, "key")
  /\ UNCHANGED <<db, used, tx, seen, editVars>>

InsertKey(h) ==
  /\ pc[h] = "key"
  /\ \E k \in Keys :
       /\ Fresh(<<"key", k>>)
       /\ Insert(h, {<<"key", k, req[h].project>>})
       /\ req' = [req EXCEPT ![h].key = k]
  /\ Goto(h, "key_grants")
  /\ UNCHANGED <<seen, editVars>>

UpdateKey(h) ==
  /\ pc[h] = "idle"
  /\ \E j \in Projects, k \in Keys :
       \E M \in (SUBSET ProjectModels(db, j)) \ {{}} :
         req' = [req EXCEPT ![h] = [NoRequest EXCEPT !.op = "update_key",
                   !.project = j, !.key = k, !.models = M]]
  /\ Goto(h, "key_row")
  /\ UNCHANGED <<db, used, tx, seen, editVars>>

FaultyUpdateKeyRow(h) ==
  /\ pc[h] = "key_row"
  /\ <<"key", req[h].key, req[h].project>> \in Visible(h)
  /\ Goto(h, "clear_grants")
  /\ UNCHANGED <<db, used, tx, req, seen, editVars>>

(* The UPDATE of the key's own columns; no row, no key of the project.     *)
UpdateKeyRow(h) ==
  /\ pc[h] = "key_row"
  /\ <<"key", req[h].key, req[h].project>> \in Visible(h)
  /\ Update(h, <<"key", req[h].key>>)
  /\ Goto(h, "clear_grants")
  /\ UNCHANGED <<req, seen, editVars>>

FaultyClearGrants(h) ==
  /\ pc[h] = "clear_grants"
  /\ db' = {r \in db : ~(r[1] = "key_grant" /\ r[2] = req[h].key)}
  /\ Goto(h, "key_grants")
  /\ UNCHANGED <<used, tx, req, seen, editVars>>

ClearGrants(h) ==
  /\ pc[h] = "clear_grants"
  /\ Delete(h, {r \in Visible(h) : r[1] = "key_grant" /\ r[2] = req[h].key})
  /\ Goto(h, "key_grants")
  /\ UNCHANGED <<req, seen, editVars>>

InsertGrants(h) ==
  /\ pc[h] = "key_grants"
  /\ Insert(h, {<<"key_grant", req[h].key, m>> : m \in req[h].models})
  /\ Goto(h, "commit")
  /\ UNCHANGED <<req, seen, editVars>>

RevokeKey ==
  /\ \E k \in Keys :
       /\ <<"key", k>> \in Names(db)
       /\ MayUpdate(Handlers, <<"key", k>>)
       /\ revoked' = revoked \cup {k}
  /\ UNCHANGED <<db, used, tx, handlerVars, granted, writer, setting>>

DeleteKey ==
  /\ \E k \in Keys, j \in Projects :
       <<"key", k, j>> \in db /\ DeleteNow({<<"key", k, j>>})
  /\ UNCHANGED <<handlerVars, editVars>>

----------------------------------------------------------------------------
(* An endpoint with its account, a provider account, a pool's settings.    *)

FaultyUpdateEndpoint(h) ==
  /\ pc[h] = "idle"
  /\ \E j \in Projects, m \in Models, e \in Endpoints :
       \E p \in ServicePools(db, j, m), a \in AccountOf(db, e) :
         req' = [req EXCEPT ![h] = [NoRequest EXCEPT !.op = "update_endpoint",
                   !.project = j, !.account = e, !.endpoint = a]]
  /\ Goto(h, "update_account")
  /\ UNCHANGED <<db, used, tx, seen, editVars>>

UpdateEndpoint(h) ==
  /\ pc[h] = "idle"
  /\ \E j \in Projects, m \in Models, e \in Endpoints :
       \E p \in ServicePools(db, j, m), a \in AccountOf(db, e) :
         /\ <<"member", p, e>> \in db
         /\ req' = [req EXCEPT ![h] = [NoRequest EXCEPT !.op = "update_endpoint",
                      !.project = j, !.account = a, !.endpoint = e]]
  /\ Goto(h, "update_account")
  /\ UNCHANGED <<db, used, tx, seen, editVars>>

(* An UPDATE of a row that is gone changes nothing and is no error.        *)
UpdateIfThere(h, n) ==
  IF n \in Names(Visible(h)) THEN Update(h, n) ELSE UNCHANGED <<db, used, tx>>

FaultyUpdateAccountRow(h) ==
  /\ pc[h] = "update_account"
  /\ writer' = [writer EXCEPT ![req[h].account] = <<h, req[h].endpoint>>]
  /\ Goto(h, "update_model")
  /\ UNCHANGED <<db, used, tx, req, seen, granted, revoked, setting>>

UpdateAccountRow(h) ==
  /\ pc[h] = "update_account"
  /\ UpdateIfThere(h, <<"account", req[h].account>>)
  /\ Goto(h, "update_model")
  /\ UNCHANGED <<req, seen, editVars>>

UpdateEndpointRow(h) ==
  /\ pc[h] = "update_model"
  /\ UpdateIfThere(h, <<"endpoint", req[h].endpoint>>)
  /\ Goto(h, "commit")
  /\ UNCHANGED <<req, seen, editVars>>

(* update_provider: its account's columns one by one in a transaction, of  *)
(* which the first takes the lock.                                         *)
UpdateProvider ==
  /\ \E j \in Projects, a \in Accounts :
       /\ <<"account", a, OrgOf[j]>> \in db
       /\ MayUpdate(Handlers, <<"account", a>>)
       /\ writer' = [writer EXCEPT ![a] = None]
  /\ UNCHANGED <<db, used, tx, handlerVars, granted, revoked, setting>>

(* What an edit writes to the columns C: the values it names, and for the  *)
(* others those it has read.                                               *)
Edit(h, op, p, C) ==
  \E N \in SUBSET C, v \in Settings :
    req' = [req EXCEPT ![h] = [NoRequest EXCEPT !.op = op, !.pool = p, !.named = N,
              !.base = setting[p],
              !.columns = [c \in C |-> IF c \in N THEN v ELSE setting[p][c]]]]

(* update_model_service reads the strategy before its transaction ...      *)
UpdateService(h) ==
  /\ pc[h] = "idle"
  /\ \E j \in Projects, m \in Models :
       \E p \in ServicePools(db, j, m) : Edit(h, "update_service", p, SaasColumns)
  /\ Goto(h, "update_pool")
  /\ UNCHANGED <<db, used, tx, seen, editVars>>

FaultyUpdatePool(h) ==
  /\ pc[h] = "idle"
  /\ \E p \in Pools, N \in SUBSET AdminColumns, v, default \in Settings :
       /\ <<"pool", p>> \in Names(db)
       /\ req' = [req EXCEPT ![h] = [NoRequest EXCEPT !.op = "update_pool", !.pool = p,
                    !.named = N, !.base = setting[p],
                    !.columns = [c \in AdminColumns |-> IF c \in N THEN v ELSE default]]]
  /\ Goto(h, "update_pool")
  /\ UNCHANGED <<db, used, tx, seen, editVars>>

(* ... and update_pool of the admin API reads the whole row.               *)
UpdatePool(h) ==
  /\ pc[h] = "idle"
  /\ \E p \in Pools : <<"pool", p>> \in Names(db) /\ Edit(h, "update_pool", p, AdminColumns)
  /\ Goto(h, "update_pool")
  /\ UNCHANGED <<db, used, tx, seen, editVars>>

UpdatePoolRow(h) ==
  /\ pc[h] = "update_pool"
  /\ UpdateIfThere(h, <<"pool", req[h].pool>>)
  /\ Goto(h, "commit")
  /\ UNCHANGED <<req, seen, editVars>>

(* What the commit of an edit leaves besides the rows.                     *)
EditsCommitted(h) ==
  LET done(n) == n \in tx[h].upd
  IN  /\ granted' = IF req[h].op \in {"create_key", "update_key"}
                      THEN [granted EXCEPT ![req[h].key] = req[h].models] ELSE granted
      /\ writer' = [x \in Accounts \cup Endpoints |->
                      IF done(<<"account", x>>) \/ done(<<"endpoint", x>>) THEN <<h, req[h].endpoint>> ELSE writer[x]]
      /\ setting' = [p \in Pools |-> [c \in Columns |->
                      IF done(<<"pool", p>>) /\ c \in DOMAIN req[h].columns
                        THEN req[h].columns[c] ELSE setting[p][c]]]
      /\ UNCHANGED revoked

=============================================================================
