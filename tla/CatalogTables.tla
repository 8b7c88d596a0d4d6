--------------------------- MODULE CatalogTables ---------------------------
(***************************************************************************)
(* The tables behind the administration of SmartGate and PostgreSQL's READ *)
(* COMMITTED transactions on them (src/migrations; the handlers use sqlx). *)
(*                                                                         *)
(* The database is a set of rows.  A row is a triple: its table, its key,  *)
(* and what it refers to (or, for the tables that link two others, the two *)
(* sides).  Columns without a bearing on which rows exist are left out.    *)
(* A handler's transaction keeps the rows it inserted, the rows it deleted *)
(* and the locks it took, and its commit applies them; a rollback drops    *)
(* them.  Each statement sees what is committed and its own changes.       *)
(***************************************************************************)
EXTENDS Naturals, Sequences, FiniteSets

CONSTANTS
  None,       (* No account, pool, model, ...                              *)
  Handlers,   (* Requests to the administration, each served once.         *)
  Orgs,       (* Organizations.                                            *)
  Projects,   (* Their projects.                                           *)
  OrgOf,      (* The organization of each project.                         *)
  Accounts, Endpoints, Pools, Models, Keys   (* UUIDs, old and new.        *)

ASSUME TablesAssumption ==
  /\ OrgOf \in [Projects -> Orgs]
  /\ None \notin Accounts \cup Endpoints \cup Pools \cup Models \cup Keys
  /\ Accounts \cap Endpoints = {}

Row == ({"account"} \X Accounts \X Orgs)
         \cup ({"endpoint"} \X Endpoints \X Accounts)
         \cup ({"pool"} \X Pools \X Orgs)
         \cup ({"member"} \X Pools \X Endpoints)
         \cup ({"model"} \X Models \X Pools)
         \cup ({"grant"} \X Projects \X Models)
         \cup ({"key"} \X Keys \X Projects)
         \cup ({"key_grant"} \X Keys \X Models)

(* What identifies a row: its key, or both sides for a link.               *)
Name(r) == IF r[1] \in {"member", "grant", "key_grant"} THEN r ELSE <<r[1], r[2]>>
Names(R) == {Name(r) : r \in R}

(* The rows r refers to by foreign keys.  Organizations and projects are   *)
(* never deleted.                                                          *)
Parents(r) ==
  CASE r[1] = "endpoint"  -> {<<"account", r[3]>>}
    [] r[1] = "member"    -> {<<"pool", r[2]>>, <<"endpoint", r[3]>>}
    [] r[1] = "model"     -> {<<"pool", r[3]>>}
    [] r[1] = "grant"     -> {<<"model", r[3]>>}
    [] r[1] = "key_grant" -> {<<"key", r[2]>>, <<"model", r[3]>>}
    [] OTHER              -> {}

(* ON DELETE CASCADE, three levels deep at most: account, endpoint, member.*)
WithChildren(rows, R) == R \cup {r \in rows : Parents(r) \cap Names(R) # {}}
Cascade(rows, R) == WithChildren(rows, WithChildren(rows, R))

VARIABLES
  db,       (* The committed rows.                                         *)
  used,     (* Names of rows there have ever been: UUIDs do not come back. *)
  tx        (* The open transaction of each handler.                       *)

NoTx == [ins |-> {}, del |-> {}, share |-> {}, upd |-> {}]

Transaction == [ins : SUBSET Row,                    (* rows inserted      *)
                del : SUBSET Row,                    (* rows deleted       *)
                share : SUBSET Names(Row),           (* FOR KEY SHARE      *)
                upd : SUBSET Names(Row)]             (* FOR NO KEY UPDATE  *)

Visible(h) == (db \ tx[h].del) \cup tx[h].ins

Others(h) == Handlers \ {h}
DeletedBy(h) == Names(tx[h].del)

(* A statement waits for the locks of the other transactions O.            *)
MayInsert(O, R) ==
  \A o \in O, r \in R : Parents(r) \cap DeletedBy(o) = {}
MayDelete(O, R) ==
  \A o \in O : Names(R) \cap (tx[o].share \cup tx[o].upd \cup DeletedBy(o)) = {}
MayUpdate(O, n) ==
  \A o \in O : n \notin tx[o].upd \cup DeletedBy(o)

(* The foreign keys of rows to insert refer to rows that are there.        *)
ReferencesExist(h, R) ==
  \A r \in R : Parents(r) \subseteq Names(Visible(h) \cup R)

Fresh(n) == n \notin used

(* INSERT within a transaction, and alone.                                 *)
Insert(h, R) ==
  /\ MayInsert(Others(h), R)
  /\ ReferencesExist(h, R)
  /\ tx' = [tx EXCEPT ![h].ins = @ \cup R,
                      ![h].share = @ \cup UNION {Parents(r) : r \in R}]
  /\ used' = used \cup Names(R)
  /\ UNCHANGED db

(* UPDATE of a row that is there; it keeps the row's name and references.  *)
Update(h, n) ==
  /\ MayUpdate(Others(h), n)
  /\ n \in Names(Visible(h))
  /\ tx' = [tx EXCEPT ![h].upd = @ \cup {n}]
  /\ UNCHANGED <<db, used>>

(* DELETE with its cascades within a transaction.                          *)
Delete(h, R) ==
  LET gone == Cascade(Visible(h), R \cap Visible(h))
  IN  /\ MayDelete(Others(h), gone)
      /\ tx' = [tx EXCEPT ![h].del = @ \cup gone, ![h].ins = @ \ gone]
      /\ UNCHANGED <<db, used>>

Commit(h) ==
  /\ db' = Visible(h)
  /\ tx' = [tx EXCEPT ![h] = NoTx]
  /\ UNCHANGED used

Rollback(h) ==
  /\ tx' = [tx EXCEPT ![h] = NoTx]
  /\ UNCHANGED <<db, used>>

(* Statements outside a transaction commit at once.                        *)
InsertNow(R) ==
  /\ MayInsert(Handlers, R)
  /\ \A r \in R : Parents(r) \subseteq Names(db \cup R)
  /\ db' = db \cup R
  /\ used' = used \cup Names(R)
  /\ UNCHANGED tx

DeleteNow(R) ==
  LET gone == Cascade(db, R \cap db)
  IN  /\ MayDelete(Handlers, gone)
      /\ db' = db \ gone
      /\ UNCHANGED <<used, tx>>

(* Primary keys.                                                           *)
UniqueNames(rows) == \A r, q \in rows : Name(r) = Name(q) => r = q

(* Every row refers to rows that are there.                                *)
Consistent(rows) == \A r \in rows : Parents(r) \subseteq Names(rows)
=============================================================================
