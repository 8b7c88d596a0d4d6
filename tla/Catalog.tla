------------------------------- MODULE Catalog -------------------------------
(***************************************************************************)
(* The administration of SmartGate as a whole: the handlers of the SaaS    *)
(* API, of which several are under way at a time, and the admin API        *)
(* (src/src/api/admin.rs), whose handlers are single statements that check *)
(* nothing but their foreign keys.  Which models a key may call is decided *)
(* on these tables (src/src/auth/mod.rs).                                  *)
(***************************************************************************)
EXTENDS CatalogEdits

CONSTANTS
  InitialRows,  (* The databases to start from.                            *)
  MaxDirect     (* Requests served by a single statement, at most.         *)

ASSUME CatalogAssumption ==
  /\ \A rows \in InitialRows : rows \subseteq Row /\ Consistent(rows) /\ UniqueNames(rows)
  /\ MaxDirect \in Nat /\ MaxBatch \in Nat
  /\ Settings # {}

VARIABLE direct  (* Requests served by a single statement so far.          *)

vars == <<db, used, tx, handlerVars, editVars, direct>>

Pc == ServicePc \cup EditPc

TypeOK ==
  /\ db \subseteq Row
  /\ used \subseteq Names(Row)
  /\ tx \in [Handlers -> Transaction]
  /\ pc \in [Handlers -> Pc]
  /\ req \in [Handlers -> Request]
  /\ seen \in [Handlers -> SUBSET Names(Row)]
  /\ granted \in [Keys -> SUBSET Models]
  /\ revoked \subseteq Keys
  /\ writer \in [Accounts \cup Endpoints -> (Handlers \X Endpoints) \cup {None}]
  /\ setting \in [Pools -> [Columns -> Settings]]
  /\ direct \in 0..MaxDirect

Init ==
  /\ db \in InitialRows
  /\ used = Names(db)
  /\ tx = [h \in Handlers |-> NoTx]
  /\ pc = [h \in Handlers |-> "idle"]
  /\ req = [h \in Handlers |-> NoRequest]
  /\ seen = [h \in Handlers |-> {}]
  /\ granted = [k \in Keys |-> KeyGrants(db, k)]
  /\ revoked = {}
  /\ writer = [x \in Accounts \cup Endpoints |-> None]
  /\ \E v \in Settings : setting = [p \in Pools |-> [c \in Columns |-> v]]
  /\ direct = 0

----------------------------------------------------------------------------
(* The admin API.                                                          *)

AdminInserts(R) == InsertNow(R) /\ UNCHANGED <<handlerVars, editVars>>

(* create_provider and create_pool find the organization themselves when   *)
(* there is only one.                                                      *)
AdminProvider ==
  \E a \in Accounts, o \in Orgs : Fresh(<<"account", a>>) /\ AdminInserts({<<"account", a, o>>})
AdminPool ==
  \E p \in Pools, o \in Orgs : Fresh(<<"pool", p>>) /\ AdminInserts({<<"pool", p, o>>})
AdminEndpoint ==
  \E e \in Endpoints, a \in Accounts :
    Fresh(<<"endpoint", e>>) /\ AdminInserts({<<"endpoint", e, a>>})
AdminModel ==
  \E m \in Models, p \in Pools : Fresh(<<"model", m>>) /\ AdminInserts({<<"model", m, p>>})
AdminBind ==
  \E p \in Pools, e \in Endpoints : AdminInserts({<<"member", p, e>>})
AdminGrant ==
  \E j \in Projects, m \in Models : AdminInserts({<<"grant", j, m>>})
AdminKey ==
  \E k \in Keys, j \in Projects : Fresh(<<"key", k>>) /\ AdminInserts({<<"key", k, j>>})
AdminRevoke ==
  /\ \E j \in Projects, m \in Models : <<"grant", j, m>> \in db /\ DeleteNow({<<"grant", j, m>>})
  /\ UNCHANGED <<handlerVars, editVars>>

----------------------------------------------------------------------------
Services(h) ==
  \/ CreateService(h) \/ AddEndpoints(h) \/ ChooseAccount(h) \/ InsertEndpoint(h)
  \/ EndpointsInserted(h) \/ InsertModel(h)
  \/ DeleteEndpoint(h) \/ DeleteService(h) \/ ListEndpoints(h) \/ DeleteServiceRows(h)
  \/ DeleteEndpointRows(h) \/ EndpointsDeleted(h) \/ CountReferences(h)
  \/ DeleteAccount(h) \/ DeleteProvider(h) \/ Fail(h)

Edits(h) ==
  \/ CreateKey(h) \/ InsertKey(h) \/ UpdateKey(h) \/ UpdateKeyRow(h) \/ ClearGrants(h)
  \/ InsertGrants(h) \/ UpdateEndpoint(h) \/ UpdateAccountRow(h) \/ UpdateEndpointRow(h)
  \/ UpdateService(h) \/ UpdatePool(h) \/ UpdatePoolRow(h)

AtOnce == RevokeKey \/ DeleteKey \/ UpdateProvider \/ (CreateProvider /\ UNCHANGED editVars)

Admin ==
  \/ AdminProvider \/ AdminPool \/ AdminEndpoint \/ AdminModel \/ AdminBind
  \/ AdminGrant \/ AdminKey \/ AdminRevoke

Finished == \A h \in Handlers : pc[h] = "ended"

Next ==
  \/ \E h \in Handlers : Services(h) /\ UNCHANGED <<editVars, direct>>
  \/ \E h \in Handlers : Edits(h) /\ UNCHANGED direct
  \/ \E h \in Handlers : CommitAndEnd(h) /\ EditsCommitted(h) /\ UNCHANGED direct
  \/ direct < MaxDirect /\ direct' = direct + 1 /\ (AtOnce \/ Admin)
  \/ Finished /\ UNCHANGED vars

Spec == Init /\ [][Next]_vars

----------------------------------------------------------------------------
(* resolve_authorized_virtual_model: the models a request with key k may   *)
(* name.  A key without grants may name all of its project.                *)
Reach(rows, off, k) ==
  {m \in Models : \E j \in Projects :
     /\ k \notin off /\ <<"key", k, j>> \in rows
     /\ <<"grant", j, m>> \in rows /\ <<"model", m>> \in Names(rows)
     /\ m \in KeyGrants(rows, k) \/ KeyGrants(rows, k) = {}}

ReachOf(k) == Reach(db, revoked, k)

----------------------------------------------------------------------------
DeletedEndpoints(h) == Names(EndpointRows(tx[h].del))

(* What the comments at services.rs:659-661 and endpoints.rs:308-310 say:  *)
(* deleting an account never takes along endpoints that the request does   *)
(* not delete.                                                             *)
OnlyTargetsDeleted ==
  \A h \in Handlers : DeletedEndpoints(h) \subseteq Names(req[h].targets)

(* What the condition on the account achieves: the endpoints of others that*)
(* there were when it was evaluated are safe from the cascade.             *)
SeenEndpointsSafe ==
  \A h \in Handlers : DeletedEndpoints(h) \cap seen[h] \subseteq Names(req[h].targets)

(* Whatever requests edit a key at once, its models are those of one       *)
(* request, less the ones deleted since: never a mixture of two lists, and *)
(* never the cleared list half way.                                        *)
KeyGrantsWhole ==
  \A k \in Keys : <<"key", k>> \in Names(db) =>
    KeyGrants(db, k) = {m \in granted[k] : <<"model", m>> \in Names(db)}

(* A key comes to reach more models only by a request about that key, by a *)
(* grant to a project, or by the deletion of all models it was confined to *)
(* (auth/mod.rs:87-93 lets a key without grants reach all of its project). *)
ReachGrowsKnowingly ==
  [][\A k \in Keys : ~(ReachOf(k)' \subseteq ReachOf(k)) =>
       \/ <<"key", k>> \notin Names(db)
       \/ \E h \in Handlers : pc[h] = "commit" /\ req[h].key = k /\ pc'[h] = "ended"
       \/ \E r \in db' \ db : r[1] = "grant"
       \/ \A m \in KeyGrants(db, k) : <<"model", m>> \notin Names(db')]_vars

(* Of two edits of one endpoint, one is last: its provider details and its *)
(* model are never taken from different requests.                          *)
DetailsOfOneEdit ==
  \A e \in Endpoints, a \in Accounts :
    /\ <<"endpoint", e, a>> \in db
    /\ writer[a] # None /\ writer[a][2] = e
    => writer[e] = writer[a]

(* An edit of a pool changes a column it does not name only back to what it*)
(* has read, and then only if someone wrote that column in the meantime.   *)
EditsChangeWhatTheyName ==
  [][\A p \in Pools, c \in Columns : setting'[p][c] # setting[p][c] =>
       \E h \in Handlers :
         /\ pc[h] = "commit" /\ pc'[h] = "ended"
         /\ req[h].op \in {"update_service", "update_pool"} /\ req[h].pool = p
         /\ c \in req[h].named \/ req[h].base[c] # setting[p][c]]_vars
=============================================================================
