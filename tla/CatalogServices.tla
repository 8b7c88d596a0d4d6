-------------------------- MODULE CatalogServices --------------------------
(***************************************************************************)
(* The model services of a SaaS project (src/src/saas/model_services and   *)
(* src/src/saas/providers.rs): creating and deleting services, endpoints   *)
(* and provider accounts.  A handler first checks, outside any             *)
(* transaction, that the service is one its project was granted; its       *)
(* transaction then goes statement by statement.  Whatever fails on the    *)
(* way rolls the transaction back.  The sync that follows a commit is in   *)
(* PoolSync.                                                               *)
(***************************************************************************)
EXTENDS CatalogTables

CONSTANT MaxBatch   (* Endpoints in one request, at most.                  *)

VARIABLES
  pc,       (* Where each handler is.                                      *)
  req,      (* Its request and what it has read.                           *)
  seen      (* History: endpoints there were when it last looked for those *)
            (* of the account it is about to delete.                       *)

handlerVars == <<pc, req, seen>>

NoRequest == [op |-> "none", project |-> None, model |-> None, pool |-> None,
              account |-> None, endpoint |-> None, key |-> None,
              todo |-> <<>>, list |-> {}, targets |-> {}, models |-> {},
              named |-> {}, columns |-> <<>>, base |-> <<>>]

Ops == {"none", "create_service", "add_endpoints", "delete_service", "delete_endpoint",
        "delete_provider", "create_key", "update_key", "update_endpoint",
        "update_service", "update_pool"}

ServicePc == {"idle", "ended", "pool", "account", "endpoint", "model", "list", "service",
              "rows", "references", "delete_account", "commit"}

Goto(h, l) == pc' = [pc EXCEPT ![h] = l]

(* The pool of a model service that project j was granted.                 *)
ServicePools(rows, j, m) ==
  {p \in Pools : /\ <<"model", m, p>> \in rows
                 /\ <<"pool", p, OrgOf[j]>> \in rows
                 /\ <<"grant", j, m>> \in rows}

AccountOf(rows, e) == {a \in Accounts : <<"endpoint", e, a>> \in rows}
EndpointsOf(rows, a) == {e \in Endpoints : <<"endpoint", e, a>> \in rows}
EndpointRows(rows) == {r \in rows : r[1] = "endpoint"}

(* A request ends: its answer is not modelled.                             *)
Ends(h) ==
  /\ Goto(h, "ended")
  /\ req' = [req EXCEPT ![h] = NoRequest]
  /\ seen' = [seen EXCEPT ![h] = {}]

(* An error inside the transaction: a failing statement, a unique name     *)
(* that is taken, a deadlock that the database breaks, a client that goes. *)
Fail(h) ==
  /\ pc[h] \notin {"idle", "ended"}
  /\ Rollback(h)
  /\ Ends(h)

CommitAndEnd(h) ==
  /\ pc[h] = "commit"
  /\ Commit(h)
  /\ Ends(h)

----------------------------------------------------------------------------
(* Creating a service and adding endpoints to one.                         *)

(* What a request names for each endpoint: an account, or None for the     *)
(* details of a new one.                                                   *)
Batches == UNION {[1..n -> Accounts \cup {None}] : n \in 0..MaxBatch}

CreateService(h) ==
  /\ pc[h] = "idle"
  /\ \E j \in Projects, p \in Pools, b \in Batches :
       /\ Fresh(<<"pool", p>>)
       /\ Insert(h, {<<"pool", p, OrgOf[j]>>})
       /\ req' = [req EXCEPT ![h] = [NoRequest EXCEPT !.op = "create_service",
                    !.project = j, !.pool = p, !.todo = b]]
  /\ Goto(h, "account")
  /\ UNCHANGED seen

AddEndpoints(h) ==
  /\ pc[h] = "idle"
  /\ \E j \in Projects, m \in Models, b \in Batches \ {<<>>} :
       \E p \in ServicePools(db, j, m) :
         req' = [req EXCEPT ![h] = [NoRequest EXCEPT !.op = "add_endpoints",
                   !.project = j, !.model = m, !.pool = p, !.todo = b]]
  /\ Goto(h, "account")
  /\ UNCHANGED <<db, used, tx, seen>>

(* The account of the next endpoint: one of the organization, else the     *)
(* request fails, or a new one.                                            *)
ChooseAccount(h) ==
  /\ pc[h] = "account" /\ req[h].todo # <<>>
  /\ \E a \in Accounts :
       LET row == <<"account", a, OrgOf[req[h].project]>>
       IN  /\ Head(req[h].todo) \in {a, None}
           /\ IF Head(req[h].todo) = None
                THEN Fresh(Name(row)) /\ Insert(h, {row})
                ELSE row \in Visible(h) /\ UNCHANGED <<db, used, tx>>
           /\ req' = [req EXCEPT ![h].account = a, ![h].todo = Tail(@)]
  /\ Goto(h, "endpoint")
  /\ UNCHANGED seen

InsertEndpoint(h) ==
  /\ pc[h] = "endpoint"
  /\ \E e \in Endpoints :
       /\ Fresh(<<"endpoint", e>>)
       /\ Insert(h, {<<"endpoint", e, req[h].account>>, <<"member", req[h].pool, e>>})
  /\ Goto(h, "account")
  /\ UNCHANGED <<req, seen>>

EndpointsInserted(h) ==
  /\ pc[h] = "account" /\ req[h].todo = <<>>
  /\ Goto(h, IF req[h].op = "create_service" THEN "model" ELSE "commit")
  /\ UNCHANGED <<db, used, tx, req, seen>>

(* The model under which clients reach the service and the project's grant.*)
InsertModel(h) ==
  /\ pc[h] = "model"
  /\ \E m \in Models :
       /\ Fresh(<<"model", m>>)
       /\ Insert(h, {<<"model", m, req[h].pool>>, <<"grant", req[h].project, m>>})
  /\ Goto(h, "commit")
  /\ UNCHANGED <<req, seen>>

----------------------------------------------------------------------------
(* Deleting an endpoint, a service, an account.                            *)

DeleteEndpoint(h) ==
  /\ pc[h] = "idle"
  /\ \E j \in Projects, m \in Models, e \in Endpoints :
       \E p \in ServicePools(db, j, m), a \in AccountOf(db, e) :
         /\ <<"member", p, e>> \in db
         /\ req' = [req EXCEPT ![h] = [NoRequest EXCEPT !.op = "delete_endpoint",
                      !.project = j, !.list = {<<"endpoint", e, a>>},
                      !.targets = {<<"endpoint", e, a>>}]]
  /\ Goto(h, "rows")
  /\ UNCHANGED <<db, used, tx, seen>>

DeleteService(h) ==
  /\ pc[h] = "idle"
  /\ \E j \in Projects, m \in Models :
       \E p \in ServicePools(db, j, m) :
         req' = [req EXCEPT ![h] = [NoRequest EXCEPT !.op = "delete_service",
                   !.project = j, !.model = m, !.pool = p]]
  /\ Goto(h, "list")
  /\ UNCHANGED <<db, used, tx, seen>>

(* The endpoints of the pool, as the transaction first sees them.          *)
ListEndpoints(h) ==
  /\ pc[h] = "list"
  /\ LET rows == {r \in EndpointRows(Visible(h)) : <<"member", req[h].pool, r[2]>> \in Visible(h)}
     IN  req' = [req EXCEPT ![h].list = rows, ![h].targets = rows]
  /\ Goto(h, "service")
  /\ UNCHANGED <<db, used, tx, seen>>

(* The grants and the model, then the members, then the pool: one step, as *)
(* what another transaction commits in between goes with the pool.         *)
DeleteServiceRows(h) ==
  LET m == req[h].model
      p == req[h].pool
  IN  /\ pc[h] = "service"
      /\ Delete(h, {r \in Visible(h) : \/ r[1] = "grant" /\ r[3] = m
                                       \/ Name(r) = <<"model", m>>
                                       \/ r[1] = "member" /\ r[2] = p
                                       \/ Name(r) = <<"pool", p>>})
      /\ Goto(h, "rows")
      /\ UNCHANGED <<req, seen>>

(* The next endpoint of the list, with its places in all pools.            *)
DeleteEndpointRows(h) ==
  /\ pc[h] = "rows" /\ req[h].list # {}
  /\ \E r \in req[h].list :
       /\ Delete(h, {r})
       /\ req' = [req EXCEPT ![h].list = @ \ {r}, ![h].account = r[3]]
  /\ Goto(h, "references")
  /\ UNCHANGED seen

EndpointsDeleted(h) ==
  /\ pc[h] = "rows" /\ req[h].list = {}
  /\ Goto(h, "commit")
  /\ UNCHANGED <<db, used, tx, req, seen>>

FaultyCountReferences(h) ==
  /\ pc[h] = "references"
  /\ seen' = [seen EXCEPT ![h] = Names(EndpointRows(Visible(h)))]
  /\ Goto(h, "delete_account")
  /\ UNCHANGED <<db, used, tx, req>>

(* DELETE FROM provider_accounts WHERE ... NOT EXISTS (...), up to the wait*)
(* for the row's lock: the condition is evaluated before the wait, and not *)
(* again after it, since a transaction that only refers to the row leaves  *)
(* it as it was.                                                           *)
CountReferences(h) ==
  /\ pc[h] = "references"
  /\ seen' = [seen EXCEPT ![h] = Names(EndpointRows(Visible(h)))]
  /\ Goto(h, IF EndpointsOf(Visible(h), req[h].account) # {} THEN "rows" ELSE "delete_account")
  /\ UNCHANGED <<db, used, tx, req>>

(* The deletion itself, with what has come to refer to the account.        *)
DeleteAccount(h) ==
  /\ pc[h] = "delete_account"
  /\ Delete(h, {r \in Visible(h) : /\ Name(r) = <<"account", req[h].account>>
                                   /\ req[h].op = "delete_provider" => r[3] = OrgOf[req[h].project]})
  /\ Goto(h, "rows")
  /\ UNCHANGED <<req, seen>>

(* delete_provider: the count of endpoints and then the deletion.          *)
DeleteProvider(h) ==
  /\ pc[h] = "idle"
  /\ \E j \in Projects, a \in Accounts :
       /\ EndpointsOf(db, a) = {}
       /\ req' = [req EXCEPT ![h] = [NoRequest EXCEPT !.op = "delete_provider",
                    !.project = j, !.account = a]]
  /\ seen' = [seen EXCEPT ![h] = Names(EndpointRows(db))]
  /\ Goto(h, "delete_account")
  /\ UNCHANGED <<db, used, tx>>

(* create_provider of an organization.                                     *)
CreateProvider ==
  /\ \E j \in Projects, a \in Accounts :
       Fresh(<<"account", a>>) /\ InsertNow({<<"account", a, OrgOf[j]>>})
  /\ UNCHANGED handlerVars

=============================================================================
