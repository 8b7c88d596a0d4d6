--------------------------- MODULE CatalogProofs ---------------------------
(***************************************************************************)
(* Proofs about Catalog, for every number of handlers, accounts,           *)
(* endpoints, pools, models, keys and statements and every database to     *)
(* start from: the state is well typed, foreign keys hold in what is       *)
(* committed and in what each transaction sees, the models of a key are    *)
(* those of one request, the deletion of an account spares the endpoints   *)
(* it has seen, an endpoint's details are those of one edit, and what a    *)
(* step may do to what a key reaches and to the settings of a pool.        *)
(***************************************************************************)
EXTENDS Catalog, TLAPS

Entities == {"account", "endpoint", "pool", "model", "key"}
Links == {"member", "grant", "key_grant"}

IsEntity(r) == r[1] \in Entities

Ins(h) == tx[h].ins
Del(h) == tx[h].del

----------------------------------------------------------------------------
(* The database and its transactions.                                      *)

TablesTyped ==
  /\ db \subseteq Row
  /\ used \subseteq Names(Row)
  /\ tx \in [Handlers -> Transaction]

(* A name that came up, and that no open transaction is about to commit.   *)
Settled(n) == n \in used /\ \A h \in Handlers : n \notin Names(Ins(h))

(* What an UPDATE locks.                                                   *)
EntityNames == Names({r \in Row : IsEntity(r)})

(* What a transaction t on the rows D sees.                                *)
View(D, t) == (D \ t.del) \cup t.ins

(* A transaction t on the rows D by itself, with the names U used so far:  *)
(* what it inserted is new and refers to rows that it sees and has locked; *)
(* to what it deleted nothing refers, and nothing takes its place.         *)
Sound(D, U, t) ==
  /\ Names(t.ins) \cup Names(t.del) \cup t.upd \subseteq U
  /\ t.upd \subseteq EntityNames
  /\ UniqueNames(t.ins)
  /\ \A r \in t.ins : IsEntity(r) => Name(r) \notin Names(D)
  /\ \A r \in t.ins : Parents(r) \subseteq t.share \cap Names(View(D, t))
  /\ \A r \in D \ t.del : Parents(r) \cap Names(t.del) = {}
  /\ \A r \in View(D, t) : IsEntity(r) => Name(r) \notin Names(t.del)

(* Two transactions: what one locked the other does not delete or update,  *)
(* and what one inserts the other has not.                                 *)
Apart(t, s) ==
  /\ t.share \cap Names(s.del) = {}
  /\ \A r \in t.ins : IsEntity(r) => Name(r) \notin Names(s.ins) \cup Names(s.del)
  /\ t.upd \cap (s.upd \cup Names(s.ins)) = {}

(* The committed rows.                                                     *)
Stored(D, U) == UniqueNames(D) /\ Names(D) \subseteq U /\ Consistent(D)

TablesInv ==
  /\ TablesTyped
  /\ Stored(db, used)
  /\ \A h \in Handlers : Sound(db, used, tx[h])
  /\ \A h, o \in Handlers : h # o => Apart(tx[h], tx[o])

----------------------------------------------------------------------------
(* The requests.                                                           *)

Creating == {"create_service", "add_endpoints"}
Deleting == {"delete_service", "delete_endpoint", "delete_provider"}
Keying == {"create_key", "update_key"}
Setting == {"update_service", "update_pool"}

PcOf(op) ==
  CASE op = "none" -> {"idle", "ended"}
    [] op = "create_service" -> {"account", "endpoint", "model", "commit"}
    [] op = "add_endpoints" -> {"account", "endpoint", "commit"}
    [] op = "delete_service" -> {"list", "service", "rows", "references", "delete_account", "commit"}
    [] op \in {"delete_endpoint", "delete_provider"} ->
         {"rows", "references", "delete_account", "commit"}
    [] op = "create_key" -> {"key", "key_grants", "commit"}
    [] op = "update_key" -> {"key_row", "clear_grants", "key_grants", "commit"}
    [] op = "update_endpoint" -> {"update_account", "update_model", "commit"}
    [] OTHER -> {"update_pool", "commit"}

(* What request q names once its handler is at l, where it needs it.       *)
Mentions(l, q) ==
  /\ l \in PcOf(q.op)
  /\ q.op \in Creating => q.project \in Projects /\ q.pool \in Pools
  /\ l = "endpoint" => q.account \in Accounts
  /\ q.op = "delete_service" => q.model \in Models /\ q.pool \in Pools
  /\ q.op \in Deleting => /\ q.list \subseteq q.targets
                          /\ \A r \in q.targets : r[1] = "endpoint"
  /\ q.op = "delete_provider" => q.project \in Projects
  /\ l \in {"references", "delete_account"} => q.account \in Accounts
  /\ q.op = "create_key" => q.project \in Projects /\ (l = "key" => q.key = None)
  /\ q.op = "update_key" \/ (q.op = "create_key" /\ l # "key") => q.key \in Keys
  /\ q.op = "update_endpoint" => q.account \in Accounts /\ q.endpoint \in Endpoints
  /\ q.op \in Setting =>
       /\ q.pool \in Pools
       /\ q.base \in [Columns -> Settings]
       /\ \A c \in DOMAIN q.columns :
            c \in Columns /\ q.columns[c] \in Settings /\ (c \in q.named \/ q.columns[c] = q.base[c])

(* What the transaction t of request q may hold: rows of its own kind, a   *)
(* key grant it deleted only with its model or as one of the key it edits, *)
(* and locks on what it edits.                                             *)
Inserts(t, q) ==
  /\ t.ins # {} => q.op \in Creating \cup Keying
  /\ q.op \in Creating => \A r \in t.ins : r[1] \notin {"key", "key_grant"}
  /\ q.op \in Keying => \A r \in t.ins : r[1] \in {"key", "key_grant"} /\ r[2] = q.key

Deletes(t, q) ==
  /\ t.del # {} => q.op \in Deleting \cup {"update_key"}
  /\ q.op \in Deleting => \A r \in t.del :
       /\ r[1] # "key"
       /\ r[1] = "key_grant" => <<"model", r[3]>> \in Names(t.del)
  /\ q.op = "update_key" => \A r \in t.del : r[1] = "key_grant" /\ r[2] = q.key

Locks(t, q) ==
  /\ t.upd # {} => q.op \in {"update_key", "update_endpoint"} \cup Setting
  /\ q.op = "update_key" => t.upd \subseteq {<<"key", q.key>>}
  /\ q.op = "update_endpoint" => t.upd \subseteq {<<"account", q.account>>, <<"endpoint", q.endpoint>>}
  /\ q.op \in Setting => t.upd \subseteq {<<"pool", q.pool>>}

Fits(l, q, t) ==
  /\ l \in Pc /\ q \in Request
  /\ q.op = "none" => q = NoRequest /\ t = NoTx
  /\ Mentions(l, q) /\ Inserts(t, q) /\ Deletes(t, q) /\ Locks(t, q)

RequestsInv == TypeOK /\ \A h \in Handlers : Fits(pc[h], req[h], tx[h])

----------------------------------------------------------------------------
(* Keys, accounts and edits.                                               *)

(* The request owns its key, and has the grants where it wants them.       *)
OwnsKey(h, k) ==
  CASE req[h].op = "update_key" -> pc[h] # "key_row" => <<"key", k>> \in tx[h].upd
    [] req[h].op = "create_key" -> pc[h] # "key" => <<"key", k>> \in Names(Ins(h))
    [] OTHER -> TRUE

KeyRequest(h) ==
  /\ OwnsKey(h, req[h].key)
  /\ req[h].op \in Keying /\ pc[h] \in {"key_grants", "commit"} =>
       /\ KeyGrants(db \ Del(h), req[h].key) = {}
       /\ KeyGrants(Ins(h), req[h].key) = IF pc[h] = "commit" THEN req[h].models ELSE {}

KeysInv ==
  /\ KeyGrantsWhole
  /\ \A k \in Keys : <<"key", k>> \notin used => granted[k] = {}
  /\ \A k \in Keys : \A m \in granted[k] : Settled(<<"model", m>>)
  /\ \A h \in Handlers : KeyRequest(h)

(* What the request saw of endpoints is of other accounts.                 *)
SeenRequest(h) ==
  /\ DeletedEndpoints(h) \cap seen[h] \subseteq Names(req[h].targets)
  /\ \A n \in seen[h] : n \in EntityNames /\ Settled(n)
  /\ pc[h] \in {"idle", "list"} => seen[h] = {}
  /\ pc[h] = "delete_account" =>
       \A r \in db : r[1] = "endpoint" /\ Name(r) \in seen[h] => r[3] # req[h].account

SeenInv == \A h \in Handlers : SeenRequest(h)

(* An edit of an endpoint: its account is the one it had, and each of both *)
(* is locked after its UPDATE unless it is gone for good.                  *)
EditRequest(h, e, a) ==
  /\ Settled(<<"endpoint", e>>) /\ Settled(<<"account", a>>)
  /\ \A r \in db : Name(r) = <<"endpoint", e>> => r[3] = a
  /\ pc[h] \in {"update_model", "commit"} =>
       <<"account", a>> \in tx[h].upd \/ <<"account", a>> \notin Names(db)
  /\ pc[h] = "commit" =>
       <<"endpoint", e>> \in tx[h].upd \/ <<"endpoint", e>> \notin Names(db)

EditsInv ==
  /\ DetailsOfOneEdit
  /\ \A a \in Accounts : writer[a] # None => Settled(<<"endpoint", writer[a][2]>>)
  /\ \A h \in Handlers : req[h].op = "update_endpoint" =>
       EditRequest(h, req[h].endpoint, req[h].account)

----------------------------------------------------------------------------
(* Rows.                                                                   *)

LEMMA RowShape ==
  ASSUME NEW r \in Row
  PROVE  /\ r = <<r[1], r[2], r[3]>>
         /\ r[1] \in Entities \cup Links
         /\ r[1] = "account" => r[2] \in Accounts /\ r[3] \in Orgs
         /\ r[1] = "endpoint" => r[2] \in Endpoints /\ r[3] \in Accounts
         /\ r[1] = "pool" => r[2] \in Pools /\ r[3] \in Orgs
         /\ r[1] = "member" => r[2] \in Pools /\ r[3] \in Endpoints
         /\ r[1] = "model" => r[2] \in Models /\ r[3] \in Pools
         /\ r[1] = "grant" => r[2] \in Projects /\ r[3] \in Models
         /\ r[1] = "key" => r[2] \in Keys /\ r[3] \in Projects
         /\ r[1] = "key_grant" => r[2] \in Keys /\ r[3] \in Models
BY DEF Row, Entities, Links

LEMMA NameOf ==
  ASSUME NEW r \in Row
  PROVE  Name(r) = IF IsEntity(r) THEN <<r[1], r[2]>> ELSE r
BY RowShape DEF Name, IsEntity, Entities, Links

(* The name of an entity is no name of a link.                             *)
LEMMA SameName ==
  ASSUME NEW r \in Row, NEW q \in Row, Name(r) = Name(q)
  PROVE  /\ IsEntity(r) <=> IsEntity(q)
         /\ r[1] = q[1] /\ r[2] = q[2]
         /\ ~IsEntity(r) => r = q
<1>1. r = <<r[1], r[2], r[3]>> /\ q = <<q[1], q[2], q[3]>>
  BY RowShape
<1>2. \A a, b, x, y, z : <<a, b>> # <<x, y, z>>
  OBVIOUS
<1>3. CASE IsEntity(r) /\ IsEntity(q)
  BY <1>3, NameOf
<1>4. CASE ~IsEntity(r) /\ ~IsEntity(q)
  BY <1>4, NameOf
<1>5. CASE IsEntity(r) /\ ~IsEntity(q)
  <2>1. <<r[1], r[2]>> = q
    BY <1>5, NameOf
  <2> QED  BY <1>1, <1>2, <2>1
<1>6. CASE ~IsEntity(r) /\ IsEntity(q)
  <2>1. r = <<q[1], q[2]>>
    BY <1>6, NameOf
  <2> QED  BY <1>1, <1>2, <2>1
<1> QED  BY <1>3, <1>4, <1>5, <1>6

(* Whose name is <<t, x>>.                                                 *)
LEMMA Named2 ==
  ASSUME NEW r \in Row, NEW t, NEW x, Name(r) = <<t, x>>
  PROVE  IsEntity(r) /\ r[1] = t /\ r[2] = x
<1>1. \A a, b, y, z, w : <<a, b>> # <<y, z, w>>
  OBVIOUS
<1>2. r = <<r[1], r[2], r[3]>>
  BY RowShape
<1>3. IsEntity(r)
  <2> SUFFICES ASSUME ~IsEntity(r)
               PROVE  FALSE
    OBVIOUS
  <2>1. r = <<t, x>>
    BY NameOf
  <2> QED  BY <1>1, <1>2, <2>1
<1> QED  BY <1>3, NameOf

LEMMA ParentsOf ==
  ASSUME NEW r \in Row
  PROVE  /\ r[1] = "endpoint" => Parents(r) = {<<"account", r[3]>>}
         /\ r[1] = "member" => Parents(r) = {<<"pool", r[2]>>, <<"endpoint", r[3]>>}
         /\ r[1] = "model" => Parents(r) = {<<"pool", r[3]>>}
         /\ r[1] = "grant" => Parents(r) = {<<"model", r[3]>>}
         /\ r[1] = "key_grant" => Parents(r) = {<<"key", r[2]>>, <<"model", r[3]>>}
         /\ r[1] \in {"account", "pool", "key"} => Parents(r) = {}
BY RowShape DEF Parents, Entities, Links

(* Rows refer to accounts, endpoints, pools, models and keys.              *)
LEMMA ParentKinds ==
  ASSUME NEW r \in Row, NEW n \in Parents(r)
  PROVE  \/ r[1] = "endpoint" /\ n = <<"account", r[3]>>
         \/ r[1] = "member" /\ n \in {<<"pool", r[2]>>, <<"endpoint", r[3]>>}
         \/ r[1] = "model" /\ n = <<"pool", r[3]>>
         \/ r[1] = "grant" /\ n = <<"model", r[3]>>
         \/ r[1] = "key_grant" /\ n \in {<<"key", r[2]>>, <<"model", r[3]>>}
BY RowShape, ParentsOf DEF Entities, Links

LEMMA ParentIsEntity ==
  ASSUME NEW r \in Row, NEW q \in Row, Name(q) \in Parents(r)
  PROVE  IsEntity(q) /\ q[1] \in {"account", "endpoint", "pool", "model", "key"}
BY ParentKinds, Named2 DEF IsEntity, Entities

----------------------------------------------------------------------------
(* ON DELETE CASCADE.                                                      *)

LEMMA NamesOfUnion ==
  ASSUME NEW S, NEW T
  PROVE  Names(S \cup T) = Names(S) \cup Names(T)
BY DEF Names

LEMMA NamesOfPart ==
  ASSUME NEW S, NEW T, S \subseteq T
  PROVE  Names(S) \subseteq Names(T)
BY DEF Names

LEMMA CascadeOf ==
  ASSUME NEW rows \in SUBSET Row, NEW R \in SUBSET rows
  PROVE  /\ R \subseteq Cascade(rows, R) /\ Cascade(rows, R) \subseteq rows
         /\ \A r \in Cascade(rows, R) :
              \/ r \in R
              \/ \E q \in R : Name(q) \in Parents(r)
              \/ \E c \in Cascade(rows, R), q \in R :
                    Name(c) \in Parents(r) /\ Name(q) \in Parents(c)
<1> DEFINE C == WithChildren(rows, R)
<1>1. R \subseteq C /\ C \subseteq rows /\ \A r \in C : r \in R \/ \E q \in R : Name(q) \in Parents(r)
  BY DEF WithChildren, Names
<1>2. \A r \in Cascade(rows, R) : r \in C \/ (r \in rows /\ \E c \in C : Name(c) \in Parents(r))
  BY DEF Cascade, WithChildren, Names
<1>3. C \subseteq Cascade(rows, R)
  BY DEF Cascade, WithChildren
<1> HIDE DEF C
<1>4. R \subseteq Cascade(rows, R) /\ Cascade(rows, R) \subseteq rows
  BY <1>1, <1>2, <1>3
<1>5. ASSUME NEW r \in Cascade(rows, R), r \notin R, ~ \E q \in R : Name(q) \in Parents(r)
      PROVE  \E c \in Cascade(rows, R), q \in R : Name(c) \in Parents(r) /\ Name(q) \in Parents(c)
  <2>1. PICK c \in C : Name(c) \in Parents(r)
    BY <1>1, <1>2, <1>5
  <2>2. c \notin R
    BY <1>5, <2>1
  <2> QED  BY <1>1, <1>3, <2>1, <2>2
<1> QED  BY <1>4, <1>5

(* Two levels are all there are: nothing that stays refers to what goes.   *)
LEMMA CascadeClosed ==
  ASSUME NEW rows \in SUBSET Row, NEW R \in SUBSET rows
  PROVE  \A r \in rows \ Cascade(rows, R) : Parents(r) \cap Names(Cascade(rows, R)) = {}
<1> DEFINE C == WithChildren(rows, R)
<1>1. \A r \in rows, q \in R : Name(q) \in Parents(r) => r \in C
  BY DEF WithChildren, Names
<1>2. \A r \in rows, c \in C : Name(c) \in Parents(r) => r \in Cascade(rows, R)
  BY DEF Cascade, WithChildren, Names
<1>3. R \subseteq C /\ C \subseteq rows
  BY DEF WithChildren
<1>4. \A r \in Cascade(rows, R) : r \in C \/ (r \in rows /\ \E c \in C : Name(c) \in Parents(r))
  BY DEF Cascade, WithChildren, Names
<1>5. \A c \in C : c \in R \/ \E q \in R : Name(q) \in Parents(c)
  BY DEF WithChildren, Names
<1> HIDE DEF C
<1> SUFFICES ASSUME NEW r \in rows, r \notin Cascade(rows, R),
                    NEW d \in Cascade(rows, R), Name(d) \in Parents(r)
             PROVE  FALSE
  BY DEF Names
<1>6. d \notin C
  BY <1>2
<1>7. PICK c \in C : d \in rows /\ Name(c) \in Parents(d)
  BY <1>4, <1>6
<1>8. c \notin R
  BY <1>1, <1>6, <1>7
<1>9. PICK q \in R : Name(q) \in Parents(c)
  BY <1>5, <1>8
<1>10. d[1] \in {"endpoint", "model"} /\ c[1] \in {"endpoint", "model"}
  <2>1. r \in Row /\ d \in Row /\ c \in Row /\ q \in Row
    BY <1>3, <1>7
  <2>2. d[1] \in {"account", "endpoint", "pool", "model", "key"}
        /\ c[1] \in {"account", "endpoint", "pool", "model", "key"}
    BY <1>7, <2>1, ParentIsEntity
  <2> QED  BY <1>7, <1>9, <2>1, <2>2, ParentKinds
<1>11. Name(c) \in {<<"account", d[3]>>, <<"pool", d[3]>>}
  BY <1>3, <1>7, <1>10, ParentKinds
<1>12. c[1] \in {"account", "pool"}
  BY <1>3, <1>11, Named2
<1> QED  BY <1>10, <1>12

(* Nothing refers to the grants of keys.                                   *)
LEMMA GrantsAlone ==
  ASSUME NEW rows \in SUBSET Row, NEW R \in SUBSET rows, \A r \in R : r[1] = "key_grant"
  PROVE  Cascade(rows, R) = R
<1>1. \A r \in rows, q \in R : Name(q) \notin Parents(r)
  <2> SUFFICES ASSUME NEW r \in rows, NEW q \in R, Name(q) \in Parents(r)
               PROVE  FALSE
    OBVIOUS
  <2>1. r \in Row /\ q \in Row
    OBVIOUS
  <2> QED  BY <2>1, ParentIsEntity
<1> QED  BY <1>1, CascadeOf

----------------------------------------------------------------------------
(* What statements make of a transaction t on rows D, with the names U     *)
(* used so far, and of another one, s.                                     *)

NewRows(U, R) ==
  /\ UniqueNames(R)
  /\ \A r \in R : IsEntity(r) => Name(r) \notin U

Inserted(t, R) == [t EXCEPT !.ins = @ \cup R, !.share = @ \cup UNION {Parents(r) : r \in R}]
Deleted(t, R) == [t EXCEPT !.del = @ \cup R, !.ins = @ \ R]

LEMMA InsertedFields ==
  ASSUME NEW t \in Transaction, NEW R
  PROVE  /\ Inserted(t, R).ins = t.ins \cup R /\ Inserted(t, R).del = t.del
         /\ Inserted(t, R).upd = t.upd
         /\ Inserted(t, R).share = t.share \cup UNION {Parents(r) : r \in R}
BY DEF Inserted, Transaction

LEMMA DeletedFields ==
  ASSUME NEW t \in Transaction, NEW R
  PROVE  /\ Deleted(t, R).ins = t.ins \ R /\ Deleted(t, R).del = t.del \cup R
         /\ Deleted(t, R).upd = t.upd /\ Deleted(t, R).share = t.share
BY DEF Deleted, Transaction

LEMMA InsertedType ==
  ASSUME NEW D \in SUBSET Row, NEW t \in Transaction, NEW R \in SUBSET Row,
         \A r \in R : Parents(r) \subseteq Names(View(D, t) \cup R)
  PROVE  Inserted(t, R) \in Transaction
<1>1. View(D, t) \cup R \subseteq Row
  BY DEF View, Transaction
<1>2. \A r \in R : Parents(r) \subseteq Names(Row)
  BY <1>1, NamesOfPart
<1>3. UNION {Parents(r) : r \in R} \subseteq Names(Row)
  BY <1>2
<1> QED  BY <1>3 DEF Inserted, Transaction

LEMMA SoundInsert ==
  ASSUME NEW D \in SUBSET Row, NEW U, NEW t \in Transaction, NEW R \in SUBSET Row,
         Stored(D, U), Sound(D, U, t), NewRows(U, R),
         \A r \in R : Parents(r) \subseteq Names(View(D, t) \cup R)
  PROVE  Sound(D, U \cup Names(R), Inserted(t, R))
<1> DEFINE t2 == Inserted(t, R)
           U2 == U \cup Names(R)
<1>1. /\ t2.ins = t.ins \cup R /\ t2.del = t.del /\ t2.upd = t.upd
      /\ t2.share = t.share \cup UNION {Parents(r) : r \in R}
  BY InsertedFields
<1>2. View(D, t2) = View(D, t) \cup R
  BY <1>1 DEF View
<1>3. t.ins \subseteq Row /\ t.del \subseteq Row
  BY DEF Transaction
<1> HIDE DEF t2
<1>4. Names(t2.ins) \cup Names(t2.del) \cup t2.upd \subseteq U2
  BY <1>1, NamesOfUnion DEF Sound
<1>10. t2.upd \subseteq EntityNames
  BY <1>1 DEF Sound
<1>5. UniqueNames(t2.ins)
  <2> SUFFICES ASSUME NEW r \in t.ins, NEW q \in R, Name(r) = Name(q)
               PROVE  r = q
    BY <1>1 DEF Sound, NewRows, UniqueNames
  <2>1. Name(r) \in U
    BY DEF Sound, Names
  <2> QED  BY <1>3, <2>1, SameName DEF NewRows
<1>6. \A r \in t2.ins : IsEntity(r) => Name(r) \notin Names(D)
  BY <1>1 DEF Sound, NewRows, Stored
<1>7. \A r \in t2.ins : Parents(r) \subseteq t2.share \cap Names(View(D, t2))
  <2>1. \A r \in R : Parents(r) \subseteq t2.share
    BY <1>1
  <2>2. Names(View(D, t2)) = Names(View(D, t)) \cup Names(R)
    BY <1>2, NamesOfUnion
  <2> QED  BY <1>1, <1>2, <2>1, <2>2 DEF Sound
<1>8. \A r \in D \ t2.del : Parents(r) \cap Names(t2.del) = {}
  BY <1>1 DEF Sound
<1>9. \A r \in View(D, t2) : IsEntity(r) => Name(r) \notin Names(t2.del)
  <2>1. \A r \in R : IsEntity(r) => Name(r) \notin Names(t.del)
    BY DEF Sound, NewRows
  <2> QED  BY <1>1, <1>2, <2>1 DEF Sound
<1> QED  BY <1>4, <1>10, <1>5, <1>6, <1>7, <1>8, <1>9 DEF Sound, t2

LEMMA ApartInsert ==
  ASSUME NEW U, NEW t \in Transaction, NEW s \in Transaction, NEW R \in SUBSET Row,
         Names(s.ins) \cup Names(s.del) \cup s.upd \subseteq U,
         Apart(t, s), Apart(s, t), NewRows(U, R),
         s.upd \subseteq EntityNames,
         \A r \in R : Parents(r) \cap Names(s.del) = {}
  PROVE  Apart(Inserted(t, R), s) /\ Apart(s, Inserted(t, R))
<1> DEFINE t2 == Inserted(t, R)
<1>1. /\ t2.ins = t.ins \cup R /\ t2.del = t.del /\ t2.upd = t.upd
      /\ t2.share = t.share \cup UNION {Parents(r) : r \in R}
  BY InsertedFields
<1>2. Names(t2.ins) = Names(t.ins) \cup Names(R)
  BY <1>1, NamesOfUnion
<1>3. s.ins \subseteq Row
  BY DEF Transaction
<1> HIDE DEF t2
<1>4. Apart(t2, s)
  BY <1>1 DEF Apart, NewRows
<1>5. \A r \in s.ins : IsEntity(r) => Name(r) \notin Names(R)
  BY <1>3, SameName DEF NewRows, Names
<1>6. s.upd \cap Names(R) = {}
  <2> SUFFICES ASSUME NEW r \in R, Name(r) \in s.upd
               PROVE  FALSE
    BY DEF Names
  <2>1. PICK q \in Row : IsEntity(q) /\ Name(r) = Name(q)
    BY DEF EntityNames, Names
  <2>2. IsEntity(r)
    BY <2>1, SameName
  <2> QED  BY <2>2 DEF NewRows
<1>7. Apart(s, t2)
  BY <1>1, <1>2, <1>5, <1>6 DEF Apart
<1> QED  BY <1>4, <1>7 DEF t2

(* Another transaction commits the rows R, or a statement by itself does.  *)
LEMMA SoundBesideNewRows ==
  ASSUME NEW D \in SUBSET Row, NEW U, NEW t \in Transaction, NEW R \in SUBSET Row,
         Sound(D, U, t),
         \A r \in R : Parents(r) \cap Names(t.del) = {},
         \A r \in R : IsEntity(r) => Name(r) \notin Names(t.ins) \cup Names(t.del)
  PROVE  Sound(D \cup R, U, t)
<1>1. t.ins \subseteq Row /\ t.del \subseteq Row
  BY DEF Transaction
<1>2. View(D, t) \subseteq View(D \cup R, t) /\ View(D \cup R, t) \subseteq View(D, t) \cup R
  BY DEF View
<1>3. \A r \in t.ins : IsEntity(r) => Name(r) \notin Names(D \cup R)
  <2> SUFFICES ASSUME NEW r \in t.ins, NEW q \in R, IsEntity(r), Name(r) = Name(q)
               PROVE  FALSE
    BY DEF Sound, Names
  <2>1. IsEntity(q)
    BY <1>1, SameName
  <2>2. Name(q) \in Names(t.ins)
    BY DEF Names
  <2> QED  BY <2>1, <2>2
<1>4. \A r \in t.ins : Parents(r) \subseteq t.share \cap Names(View(D \cup R, t))
  BY <1>2, NamesOfPart DEF Sound
<1>5. \A r \in (D \cup R) \ t.del : Parents(r) \cap Names(t.del) = {}
  BY DEF Sound
<1>6. \A r \in View(D \cup R, t) : IsEntity(r) => Name(r) \notin Names(t.del)
  BY <1>2 DEF Sound
<1> QED  BY <1>3, <1>4, <1>5, <1>6 DEF Sound

(* Rows go that t has not locked.                                          *)
LEMMA SoundBesideGoneRows ==
  ASSUME NEW D \in SUBSET Row, NEW U, NEW t \in Transaction, NEW R,
         Sound(D, U, t), t.share \cap Names(R) = {}
  PROVE  Sound(D \ R, U, t)
<1>1. \A r \in t.ins : IsEntity(r) => Name(r) \notin Names(D \ R)
  BY NamesOfPart DEF Sound
<1>2. \A r \in t.ins : Parents(r) \subseteq t.share \cap Names(View(D \ R, t))
  <2> SUFFICES ASSUME NEW r \in t.ins, NEW n \in Parents(r)
               PROVE  n \in t.share /\ n \in Names(View(D \ R, t))
    OBVIOUS
  <2>1. n \in t.share /\ n \in Names(View(D, t))
    BY DEF Sound
  <2>2. PICK q \in View(D, t) : Name(q) = n
    BY <2>1 DEF Names
  <2>3. q \notin R
    BY <2>1, <2>2 DEF Names
  <2>4. q \in View(D \ R, t)
    BY <2>2, <2>3 DEF View
  <2> QED  BY <2>1, <2>2, <2>4 DEF Names
<1>3. \A r \in (D \ R) \ t.del : Parents(r) \cap Names(t.del) = {}
  BY DEF Sound
<1>4. \A r \in View(D \ R, t) : IsEntity(r) => Name(r) \notin Names(t.del)
  BY DEF Sound, View
<1> QED  BY <1>1, <1>2, <1>3, <1>4 DEF Sound

(* More names are used.                                                    *)
LEMMA SoundMoreNames ==
  ASSUME NEW D, NEW U, NEW V, NEW t, U \subseteq V, Sound(D, U, t)
  PROVE  Sound(D, V, t)
BY DEF Sound

LEMMA SoundDelete ==
  ASSUME NEW D \in SUBSET Row, NEW U, NEW t \in Transaction, NEW R,
         Stored(D, U), Sound(D, U, t), R \subseteq View(D, t),
         \A r \in View(D, t) \ R : Parents(r) \cap Names(R) = {},
         UniqueNames(View(D, t))
  PROVE  Sound(D, U, Deleted(t, R))
<1> DEFINE t2 == Deleted(t, R)
<1>1. t2.ins = t.ins \ R /\ t2.del = t.del \cup R /\ t2.upd = t.upd /\ t2.share = t.share
  BY DeletedFields
<1>2. View(D, t2) = View(D, t) \ R
  BY <1>1 DEF View
<1>3. Names(t2.del) = Names(t.del) \cup Names(R)
  BY <1>1, NamesOfUnion
<1>4. Names(View(D, t)) \subseteq U
  BY DEF Sound, Stored, View, Names
<1> HIDE DEF t2
<1>5. Names(t2.ins) \cup Names(t2.del) \cup t2.upd \subseteq U /\ t2.upd \subseteq EntityNames
  <2>1. Names(t2.ins) \subseteq Names(t.ins) /\ Names(R) \subseteq Names(View(D, t))
    BY <1>1, NamesOfPart
  <2> QED  BY <1>1, <1>3, <1>4, <2>1 DEF Sound
<1>6. UniqueNames(t2.ins)
  BY <1>1 DEF Sound, UniqueNames
<1>7. \A r \in t2.ins : IsEntity(r) => Name(r) \notin Names(D)
  BY <1>1 DEF Sound
<1>8. \A r \in t2.ins : Parents(r) \subseteq t2.share \cap Names(View(D, t2))
  <2> SUFFICES ASSUME NEW r \in t2.ins, NEW n \in Parents(r)
               PROVE  n \in t.share /\ n \in Names(View(D, t2))
    BY <1>1
  <2>1. r \in t.ins /\ r \in View(D, t) \ R
    BY <1>1 DEF View
  <2>2. n \in t.share /\ n \in Names(View(D, t)) /\ n \notin Names(R)
    BY <2>1 DEF Sound
  <2>3. PICK q \in View(D, t) : Name(q) = n
    BY <2>2 DEF Names
  <2>4. q \notin R
    BY <2>2, <2>3 DEF Names
  <2> QED  BY <1>2, <2>2, <2>3, <2>4 DEF Names
<1>9. \A r \in D \ t2.del : Parents(r) \cap Names(t2.del) = {}
  <2> SUFFICES ASSUME NEW r \in D, r \notin t.del, r \notin R
               PROVE  Parents(r) \cap Names(t.del) = {} /\ Parents(r) \cap Names(R) = {}
    BY <1>1, <1>3
  <2>1. r \in View(D, t) \ R
    BY DEF View
  <2> QED  BY <2>1 DEF Sound
<1>10. \A r \in View(D, t2) : IsEntity(r) => Name(r) \notin Names(t2.del)
  <2> SUFFICES ASSUME NEW r \in View(D, t), r \notin R, IsEntity(r)
               PROVE  Name(r) \notin Names(t.del) /\ Name(r) \notin Names(R)
    BY <1>2, <1>3
  <2>1. Name(r) \notin Names(t.del)
    BY DEF Sound
  <2>2. Name(r) \notin Names(R)
    BY DEF UniqueNames, Names
  <2> QED  BY <2>1, <2>2
<1> QED  BY <1>5, <1>6, <1>7, <1>8, <1>9, <1>10 DEF Sound, t2

LEMMA ApartDelete ==
  ASSUME NEW D \in SUBSET Row, NEW U, NEW t \in Transaction, NEW s \in Transaction, NEW R,
         Sound(D, U, s), Apart(t, s), Apart(s, t), R \subseteq View(D, t),
         Names(R) \cap s.share = {}
  PROVE  Apart(Deleted(t, R), s) /\ Apart(s, Deleted(t, R))
<1> DEFINE t2 == Deleted(t, R)
<1>1. t2.ins = t.ins \ R /\ t2.del = t.del \cup R /\ t2.upd = t.upd /\ t2.share = t.share
  BY DeletedFields
<1>2. Names(t2.del) = Names(t.del) \cup Names(R) /\ Names(t2.ins) \subseteq Names(t.ins)
  BY <1>1, NamesOfUnion, NamesOfPart
<1> HIDE DEF t2
<1>3. Apart(t2, s)
  BY <1>1 DEF Apart
<1>4. \A r \in s.ins : IsEntity(r) => Name(r) \notin Names(R)
  <2>1. Names(R) \subseteq Names(D) \cup Names(t.ins)
    BY DEF View, Names
  <2> QED  BY <2>1 DEF Sound, Apart
<1>5. Apart(s, t2)
  BY <1>1, <1>2, <1>4 DEF Apart
<1> QED  BY <1>3, <1>5 DEF t2

LEMMA ViewUnique ==
  ASSUME NEW D \in SUBSET Row, NEW U, NEW t \in Transaction, Stored(D, U), Sound(D, U, t)
  PROVE  UniqueNames(View(D, t)) /\ Names(View(D, t)) \subseteq U /\ View(D, t) \subseteq Row
<1>1. t.ins \subseteq Row
  BY DEF Transaction
<1>2. ASSUME NEW r \in D, NEW q \in t.ins, Name(r) = Name(q)
      PROVE  r = q
  <2>1. Name(q) \in Names(D)
    BY <1>2 DEF Names
  <2> QED  BY <1>1, <1>2, <2>1, SameName DEF Sound
<1>3. UniqueNames(View(D, t))
  BY <1>2 DEF UniqueNames, View, Stored, Sound
<1>4. Names(View(D, t)) \subseteq U
  BY DEF Sound, Stored, View, Names
<1> QED  BY <1>1, <1>3, <1>4 DEF View

(* What a transaction sees is consistent, and so is what it commits.       *)
LEMMA ViewConsistent ==
  ASSUME NEW D \in SUBSET Row, NEW U, NEW t \in Transaction, Stored(D, U), Sound(D, U, t)
  PROVE  Stored(View(D, t), U)
<1>1. ASSUME NEW r \in D, r \notin t.del, NEW n \in Parents(r)
      PROVE  n \in Names(View(D, t))
  <2>1. PICK q \in D : Name(q) = n
    BY <1>1 DEF Stored, Consistent, Names
  <2>2. q \notin t.del
    BY <1>1, <2>1 DEF Sound, Names
  <2> QED  BY <2>1, <2>2 DEF View, Names
<1>2. Consistent(View(D, t))
  BY <1>1 DEF Consistent, View, Sound
<1> QED  BY <1>2, ViewUnique DEF Stored

(* Transaction s commits beside t.                                         *)
LEMMA SoundBesideCommit ==
  ASSUME NEW D \in SUBSET Row, NEW U, NEW t \in Transaction, NEW s \in Transaction,
         Sound(D, U, t), Sound(D, U, s), Apart(t, s), Apart(s, t)
  PROVE  Sound(View(D, s), U, t)
<1>1. Sound(D \ s.del, U, t)
  BY SoundBesideGoneRows DEF Apart
<1>2. \A r \in s.ins : Parents(r) \cap Names(t.del) = {}
  BY DEF Sound, Apart
<1>3. \A r \in s.ins : IsEntity(r) => Name(r) \notin Names(t.ins) \cup Names(t.del)
  BY DEF Apart
<1>4. D \ s.del \in SUBSET Row /\ s.ins \in SUBSET Row
  BY DEF Transaction
<1> QED  BY <1>1, <1>2, <1>3, <1>4, SoundBesideNewRows DEF View

LEMMA NothingOpen ==
  ASSUME NEW D, NEW U, NEW s
  PROVE  /\ NoTx \in Transaction /\ NoTx.ins = {} /\ NoTx.del = {}
         /\ NoTx.share = {} /\ NoTx.upd = {}
         /\ Names({}) = {}
         /\ Sound(D, U, NoTx) /\ Apart(NoTx, s) /\ Apart(s, NoTx)
<1>1. NoTx \in Transaction /\ NoTx.ins = {} /\ NoTx.del = {} /\ NoTx.share = {} /\ NoTx.upd = {}
  BY DEF NoTx, Transaction
<1>2. Names({}) = {}
  BY DEF Names
<1> QED  BY <1>1, <1>2 DEF Sound, Apart, UniqueNames

----------------------------------------------------------------------------
(* Every statement preserves the invariant of the tables.                  *)

LEMMA VisibleIsView == \A h \in Handlers : Visible(h) = View(db, tx[h])
BY DEF Visible, View

LEMMA OthersApart ==
  ASSUME NEW h \in Handlers, NEW t \in Transaction, NEW D, NEW U,
         tx \in [Handlers -> Transaction], Sound(D, U, t),
         \A o \in Others(h) : Sound(D, U, tx[o]) /\ Apart(t, tx[o]) /\ Apart(tx[o], t),
         \A o, p \in Others(h) : o # p => Apart(tx[o], tx[p])
  PROVE  LET x == [tx EXCEPT ![h] = t]
         IN  /\ x \in [Handlers -> Transaction]
             /\ \A o \in Handlers : Sound(D, U, x[o])
             /\ \A o, p \in Handlers : o # p => Apart(x[o], x[p])
<1> DEFINE x == [tx EXCEPT ![h] = t]
<1>1. x \in [Handlers -> Transaction] /\ x[h] = t /\ \A o \in Others(h) : x[o] = tx[o]
  BY DEF Others
<1> HIDE DEF x
<1>2. \A o \in Handlers : o = h \/ o \in Others(h)
  BY DEF Others
<1>3. \A o \in Handlers : Sound(D, U, x[o])
  BY <1>1, <1>2
<1>4. \A o, p \in Handlers : o # p => Apart(x[o], x[p])
  BY <1>1, <1>2
<1> QED  BY <1>1, <1>3, <1>4 DEF x

LEMMA InsertStep ==
  ASSUME TablesInv, NEW h \in Handlers, NEW R \in SUBSET Row, NewRows(used, R), Insert(h, R)
  PROVE  TablesInv'
<1> DEFINE t == Inserted(tx[h], R)
           U == used \cup Names(R)
<1>1. tx' = [tx EXCEPT ![h] = t] /\ used' = U /\ db' = db
  BY DEF Insert, Inserted, TablesInv, TablesTyped
<1>2. tx \in [Handlers -> Transaction] /\ db \in SUBSET Row /\ Stored(db, used)
      /\ \A o \in Handlers : tx[o] \in Transaction /\ Sound(db, used, tx[o])
  BY DEF TablesInv, TablesTyped
<1>3. \A r \in R : Parents(r) \subseteq Names(View(db, tx[h]) \cup R)
  BY VisibleIsView DEF Insert, ReferencesExist
<1>4. t \in Transaction
  BY <1>2, <1>3, InsertedType
<1>5. Sound(db, U, t)
  BY <1>2, <1>3, SoundInsert
<1>6. ASSUME NEW o \in Others(h)
      PROVE  Sound(db, U, tx[o]) /\ Apart(t, tx[o]) /\ Apart(tx[o], t)
  <2>1. o \in Handlers /\ o # h
    BY DEF Others
  <2>2. Sound(db, U, tx[o])
    BY <1>2, <2>1, SoundMoreNames
  <2>3. Apart(tx[h], tx[o]) /\ Apart(tx[o], tx[h])
    BY <2>1 DEF TablesInv
  <2>4. \A r \in R : Parents(r) \cap Names(tx[o].del) = {}
    BY DEF Insert, MayInsert, DeletedBy
  <2>5. /\ Names(tx[o].ins) \cup Names(tx[o].del) \cup tx[o].upd \subseteq used
        /\ tx[o].upd \subseteq EntityNames
    BY <1>2, <2>1 DEF Sound
  <2> QED  BY <1>2, <2>1, <2>2, <2>3, <2>4, <2>5, ApartInsert
<1>7. \A o, p \in Others(h) : o # p => Apart(tx[o], tx[p])
  BY DEF TablesInv, Others
<1>8. Stored(db, U) /\ U \subseteq Names(Row)
  BY <1>2, NamesOfPart DEF Stored, TablesInv, TablesTyped
<1> HIDE DEF t, U
<1> QED  BY <1>1, <1>2, <1>4, <1>5, <1>6, <1>7, <1>8, OthersApart DEF TablesInv, TablesTyped

LEMMA UpdateStep ==
  ASSUME TablesInv, NEW h \in Handlers, NEW n \in EntityNames, Update(h, n)
  PROVE  TablesInv'
<1> DEFINE t == [tx[h] EXCEPT !.upd = @ \cup {n}]
<1>1. tx' = [tx EXCEPT ![h] = t] /\ used' = used /\ db' = db
  BY DEF Update, TablesInv, TablesTyped
<1>2. tx \in [Handlers -> Transaction] /\ db \in SUBSET Row /\ Stored(db, used)
      /\ \A o \in Handlers : tx[o] \in Transaction /\ Sound(db, used, tx[o])
  BY DEF TablesInv, TablesTyped
<1>3. n \in Names(View(db, tx[h])) /\ n \in used /\ n \in Names(Row)
  <2>1. n \in Names(View(db, tx[h]))
    BY VisibleIsView DEF Update
  <2> QED  BY <1>2, <2>1, ViewUnique, NamesOfPart
<1>4. t \in Transaction /\ t.ins = tx[h].ins /\ t.del = tx[h].del /\ t.share = tx[h].share
      /\ t.upd = tx[h].upd \cup {n}
  BY <1>2, <1>3 DEF Transaction
<1> HIDE DEF t
<1>5. Sound(db, used, t)
  BY <1>2, <1>3, <1>4 DEF Sound, View
<1>6. ASSUME NEW o \in Others(h)
      PROVE  Sound(db, used, tx[o]) /\ Apart(t, tx[o]) /\ Apart(tx[o], t)
  <2>1. o \in Handlers /\ o # h
    BY DEF Others
  <2>2. Apart(tx[h], tx[o]) /\ Apart(tx[o], tx[h])
    BY <2>1 DEF TablesInv
  <2>3. n \notin tx[o].upd
    BY DEF Update, MayUpdate
  <2>4. n \notin Names(tx[o].ins)
    <3> SUFFICES ASSUME NEW r \in tx[o].ins, Name(r) = n
                 PROVE  FALSE
      BY DEF Names
    <3>1. IsEntity(r)
      <4>1. PICK q \in Row : IsEntity(q) /\ Name(q) = n
        BY DEF EntityNames, Names
      <4>2. r \in Row
        BY <1>2, <2>1 DEF Transaction
      <4> QED  BY <4>1, <4>2, SameName
    <3>2. n \in Names(db) \cup Names(tx[h].ins)
      BY <1>3 DEF View, Names
    <3> QED  BY <1>2, <2>1, <2>2, <3>1, <3>2 DEF Sound, Apart
  <2> QED  BY <1>2, <1>4, <2>1, <2>2, <2>3, <2>4 DEF Apart
<1>7. \A o, p \in Others(h) : o # p => Apart(tx[o], tx[p])
  BY DEF TablesInv, Others
<1> QED  BY <1>1, <1>2, <1>4, <1>5, <1>6, <1>7, OthersApart DEF TablesInv, TablesTyped

LEMMA DeleteStep ==
  ASSUME TablesInv, NEW h \in Handlers, NEW R, Delete(h, R)
  PROVE  TablesInv'
<1> DEFINE gone == Cascade(Visible(h), R \cap Visible(h))
           t == Deleted(tx[h], gone)
<1>1. tx' = [tx EXCEPT ![h] = t] /\ used' = used /\ db' = db
  BY DEF Delete, Deleted, TablesInv, TablesTyped
<1>2. tx \in [Handlers -> Transaction] /\ db \in SUBSET Row /\ Stored(db, used)
      /\ \A o \in Handlers : tx[o] \in Transaction /\ Sound(db, used, tx[o])
  BY DEF TablesInv, TablesTyped
<1>3. UniqueNames(View(db, tx[h])) /\ View(db, tx[h]) \subseteq Row
  BY <1>2, ViewUnique
<1>4. gone \subseteq View(db, tx[h]) /\ \A r \in View(db, tx[h]) \ gone : Parents(r) \cap Names(gone) = {}
  <2> DEFINE V == View(db, tx[h])
  <2>1. gone = Cascade(V, R \cap V)
    BY VisibleIsView
  <2>2. V \in SUBSET Row /\ R \cap V \in SUBSET V
    BY <1>3
  <2> HIDE DEF gone, V
  <2>3. gone \subseteq V /\ \A r \in V \ gone : Parents(r) \cap Names(gone) = {}
    <3>1. gone \subseteq V
      BY <2>1, <2>2, CascadeOf
    <3> QED  BY <2>1, <2>2, <3>1, CascadeClosed
  <2> QED  BY <2>3 DEF V
<1>5. MayDelete(Others(h), gone)
  BY DEF Delete
<1> HIDE DEF gone
<1>6. t \in Transaction
  BY <1>2, <1>3, <1>4 DEF Deleted, Transaction
<1>7. Sound(db, used, t)
  BY <1>2, <1>3, <1>4, SoundDelete
<1>8. ASSUME NEW o \in Others(h)
      PROVE  Sound(db, used, tx[o]) /\ Apart(t, tx[o]) /\ Apart(tx[o], t)
  <2>1. o \in Handlers /\ o # h
    BY DEF Others
  <2>2. Apart(tx[h], tx[o]) /\ Apart(tx[o], tx[h])
    BY <2>1 DEF TablesInv
  <2>3. Names(gone) \cap tx[o].share = {}
    BY <1>5 DEF MayDelete
  <2> QED  BY <1>2, <1>4, <2>1, <2>2, <2>3, ApartDelete
<1>9. \A o, p \in Others(h) : o # p => Apart(tx[o], tx[p])
  BY DEF TablesInv, Others
<1> HIDE DEF t
<1> QED  BY <1>1, <1>2, <1>6, <1>7, <1>8, <1>9, OthersApart DEF TablesInv, TablesTyped

LEMMA CommitStep ==
  ASSUME TablesInv, NEW h \in Handlers, Commit(h)
  PROVE  TablesInv'
<1>1. tx' = [tx EXCEPT ![h] = NoTx] /\ used' = used /\ db' = View(db, tx[h])
  BY VisibleIsView DEF Commit
<1>2. tx \in [Handlers -> Transaction] /\ db \in SUBSET Row /\ Stored(db, used)
      /\ \A o \in Handlers : tx[o] \in Transaction /\ Sound(db, used, tx[o])
  BY DEF TablesInv, TablesTyped
<1>3. View(db, tx[h]) \subseteq Row /\ Stored(View(db, tx[h]), used)
  BY <1>2, ViewUnique, ViewConsistent
<1>4. \A o \in Others(h) : /\ Sound(View(db, tx[h]), used, tx[o])
                           /\ Apart(NoTx, tx[o]) /\ Apart(tx[o], NoTx)
  BY <1>2, SoundBesideCommit, NothingOpen DEF Others, TablesInv
<1>5. \A o, p \in Others(h) : o # p => Apart(tx[o], tx[p])
  BY DEF TablesInv, Others
<1>6. NoTx \in Transaction /\ Sound(View(db, tx[h]), used, NoTx)
  BY NothingOpen
<1> QED  BY <1>1, <1>2, <1>3, <1>4, <1>5, <1>6, OthersApart DEF TablesInv, TablesTyped

LEMMA RollbackStep ==
  ASSUME TablesInv, NEW h \in Handlers, Rollback(h)
  PROVE  TablesInv'
<1>1. tx' = [tx EXCEPT ![h] = NoTx] /\ used' = used /\ db' = db
  BY DEF Rollback
<1>2. tx \in [Handlers -> Transaction] /\ db \in SUBSET Row /\ Stored(db, used)
      /\ \A o \in Handlers : tx[o] \in Transaction /\ Sound(db, used, tx[o])
  BY DEF TablesInv, TablesTyped
<1>3. \A o \in Others(h) : /\ Sound(db, used, tx[o])
                           /\ Apart(NoTx, tx[o]) /\ Apart(tx[o], NoTx)
  BY <1>2, NothingOpen DEF Others
<1>4. \A o, p \in Others(h) : o # p => Apart(tx[o], tx[p])
  BY DEF TablesInv, Others
<1>5. NoTx \in Transaction /\ Sound(db, used, NoTx)
  BY NothingOpen
<1> QED  BY <1>1, <1>2, <1>3, <1>4, <1>5, OthersApart DEF TablesInv, TablesTyped

LEMMA InsertNowStep ==
  ASSUME TablesInv, NEW R \in SUBSET Row, NewRows(used, R), InsertNow(R)
  PROVE  TablesInv'
<1> DEFINE D == db \cup R
           U == used \cup Names(R)
<1>1. tx' = tx /\ used' = U /\ db' = D
  BY DEF InsertNow
<1>2. tx \in [Handlers -> Transaction] /\ db \in SUBSET Row /\ Stored(db, used)
      /\ \A o \in Handlers : tx[o] \in Transaction /\ Sound(db, used, tx[o])
  BY DEF TablesInv, TablesTyped
<1>3. ASSUME NEW o \in Handlers
      PROVE  Sound(D, U, tx[o])
  <2>1. \A r \in R : Parents(r) \cap Names(tx[o].del) = {}
    BY DEF InsertNow, MayInsert, DeletedBy
  <2>2. \A r \in R : IsEntity(r) => Name(r) \notin Names(tx[o].ins) \cup Names(tx[o].del)
    BY <1>2 DEF NewRows, Sound
  <2>3. Sound(D, used, tx[o])
    BY <1>2, <2>1, <2>2, SoundBesideNewRows
  <2> QED  BY <2>3, SoundMoreNames
<1>4. UniqueNames(D)
  <2> SUFFICES ASSUME NEW r \in db, NEW q \in R, Name(r) = Name(q)
               PROVE  r = q
    BY <1>2 DEF Stored, NewRows, UniqueNames
  <2>1. Name(q) \in used
    BY <1>2 DEF Stored, Names
  <2> QED  BY <1>2, <2>1, SameName DEF NewRows
<1>5. Consistent(D)
  <2>1. Names(D) = Names(db) \cup Names(R)
    BY NamesOfUnion
  <2>2. \A r \in R : Parents(r) \subseteq Names(D)
    BY DEF InsertNow
  <2> QED  BY <1>2, <2>1, <2>2 DEF Consistent, Stored
<1>6. Stored(D, U) /\ D \subseteq Row /\ U \subseteq Names(Row)
  BY <1>2, <1>4, <1>5, NamesOfUnion, NamesOfPart DEF Stored, TablesInv, TablesTyped
<1> HIDE DEF D, U
<1> QED  BY <1>1, <1>2, <1>3, <1>6 DEF TablesInv, TablesTyped

LEMMA DeleteNowStep ==
  ASSUME TablesInv, NEW R, DeleteNow(R)
  PROVE  TablesInv'
<1> DEFINE gone == Cascade(db, R \cap db)
           D == db \ gone
<1>1. tx' = tx /\ used' = used /\ db' = D
  BY DEF DeleteNow
<1>2. tx \in [Handlers -> Transaction] /\ db \in SUBSET Row /\ Stored(db, used)
      /\ \A o \in Handlers : tx[o] \in Transaction /\ Sound(db, used, tx[o])
  BY DEF TablesInv, TablesTyped
<1>3. R \cap db \in SUBSET db
  OBVIOUS
<1>4. \A r \in db \ gone : Parents(r) \cap Names(gone) = {}
  BY <1>2, <1>3, CascadeClosed
<1>5. MayDelete(Handlers, gone)
  BY DEF DeleteNow
<1> HIDE DEF gone
<1>6. \A o \in Handlers : Sound(D, used, tx[o])
  BY <1>2, <1>5, SoundBesideGoneRows DEF MayDelete
<1>7. Consistent(D)
  <2> SUFFICES ASSUME NEW r \in D, NEW n \in Parents(r)
               PROVE  n \in Names(D)
    BY DEF Consistent
  <2>1. PICK q \in db : Name(q) = n
    BY <1>2 DEF Stored, Consistent, Names
  <2>2. q \notin gone
    BY <1>4, <2>1 DEF Names
  <2> QED  BY <2>1, <2>2 DEF Names
<1>8. Stored(D, used) /\ D \subseteq Row
  BY <1>2, <1>7, NamesOfPart DEF Stored, UniqueNames
<1> HIDE DEF D
<1> QED  BY <1>1, <1>2, <1>6, <1>8 DEF TablesInv, TablesTyped

(* A statement of handler h, or of a request that is one statement.        *)
Statement ==
  \/ \E h \in Handlers :
       \/ \E R \in SUBSET Row : NewRows(used, R) /\ Insert(h, R)
       \/ \E n \in EntityNames : Update(h, n)
       \/ \E R : Delete(h, R)
       \/ Commit(h) \/ Rollback(h)
  \/ \E R \in SUBSET Row : NewRows(used, R) /\ InsertNow(R)
  \/ \E R : DeleteNow(R)
  \/ UNCHANGED <<db, used, tx>>

LEMMA StatementStep == TablesInv /\ Statement => TablesInv'
<1>1. TablesInv /\ UNCHANGED <<db, used, tx>> => TablesInv'
  BY DEF TablesInv, TablesTyped
<1> QED
  BY <1>1, InsertStep, UpdateStep, DeleteStep, CommitStep, RollbackStep, InsertNowStep, DeleteNowStep
  DEF Statement

(* What is settled stays so; a settled entity does not come back.          *)
LEMMA SettledStays ==
  ASSUME TablesInv, Statement
  PROVE  /\ \A n \in EntityNames : Settled(n) => Settled(n)'
         /\ \A r \in Row : IsEntity(r) /\ Settled(Name(r)) /\ r \in db' => r \in db
<1>1. db \subseteq Row /\ tx \in [Handlers -> Transaction]
      /\ \A o \in Handlers : tx[o].ins \subseteq Row /\ tx[o] \in Transaction
  BY DEF TablesInv, TablesTyped, Transaction
<1>2. ASSUME NEW R \in SUBSET Row, NewRows(used, R), NEW n \in EntityNames, Settled(n)
      PROVE  n \notin Names(R)
  <2> SUFFICES ASSUME NEW r \in R, Name(r) = n
               PROVE  FALSE
    BY DEF Names
  <2>1. PICK q \in Row : IsEntity(q) /\ Name(q) = n
    BY DEF EntityNames, Names
  <2>2. IsEntity(r) /\ n \in used
    BY <1>2, <2>1, SameName DEF Settled
  <2> QED  BY <1>2, <2>2 DEF NewRows
<1>3. \A r \in Row : IsEntity(r) => Name(r) \in EntityNames
  BY DEF EntityNames, Names
<1>4. ASSUME NEW h \in Handlers, NEW R \in SUBSET Row, NewRows(used, R), Insert(h, R),
             NEW n \in EntityNames, Settled(n)
      PROVE  Settled(n)' /\ db' = db
  <2>1. tx'[h].ins = tx[h].ins \cup R /\ \A o \in Handlers : o # h => tx'[o] = tx[o]
    BY <1>1, <1>4 DEF Insert, Transaction
  <2>2. n \notin Names(tx[h].ins \cup R)
    BY <1>2, <1>4, NamesOfUnion DEF Settled, Ins
  <2>3. n \in used' /\ db' = db
    BY <1>4 DEF Insert, Settled
  <2> QED  BY <1>4, <2>1, <2>2, <2>3 DEF Settled, Ins
<1>5. ASSUME NEW h \in Handlers, NEW m, Update(h, m), NEW n \in EntityNames, Settled(n)
      PROVE  Settled(n)' /\ db' = db
  <2>1. \A o \in Handlers : tx'[o].ins = tx[o].ins
    BY <1>1, <1>5 DEF Update, Transaction
  <2> QED  BY <1>5, <2>1 DEF Settled, Ins, Update
<1>6. ASSUME NEW h \in Handlers, NEW R, Delete(h, R), NEW n \in EntityNames, Settled(n)
      PROVE  Settled(n)' /\ db' = db
  <2>1. \A o \in Handlers : tx'[o].ins \subseteq tx[o].ins
    BY <1>1, <1>6 DEF Delete, Transaction
  <2>2. \A o \in Handlers : n \notin Names(tx'[o].ins)
    BY <1>6, <2>1, NamesOfPart DEF Settled, Ins
  <2> QED  BY <1>6, <2>2 DEF Settled, Ins, Delete
<1>7. ASSUME NEW h \in Handlers, Commit(h) \/ Rollback(h), NEW n \in EntityNames, Settled(n)
      PROVE  Settled(n)'
  <2>1. \A o \in Handlers : tx'[o] = IF o = h THEN NoTx ELSE tx[o]
    BY <1>1, <1>7 DEF Commit, Rollback
  <2>2. n \notin Names(NoTx.ins)
    BY NothingOpen
  <2> QED  BY <1>7, <2>1, <2>2 DEF Settled, Ins, Commit, Rollback
<1>8. ASSUME NEW R \in SUBSET Row, NewRows(used, R), InsertNow(R)
      PROVE  tx' = tx /\ used \subseteq used' /\ db' = db \cup R
  BY <1>8 DEF InsertNow
<1>9. ASSUME NEW R, DeleteNow(R)
      PROVE  tx' = tx /\ used \subseteq used' /\ db' \subseteq db
  BY <1>9 DEF DeleteNow
<1>10. \A n \in EntityNames : Settled(n) => Settled(n)'
  <2> SUFFICES ASSUME NEW n \in EntityNames, Settled(n)
               PROVE  Settled(n)'
    OBVIOUS
  <2>1. tx' = tx /\ used \subseteq used' => Settled(n)'
    BY DEF Settled, Ins
  <2> QED  BY <1>4, <1>5, <1>6, <1>7, <1>8, <1>9, <2>1 DEF Statement
<1>11. ASSUME NEW r \in Row, IsEntity(r), Settled(Name(r)), r \in db'
       PROVE  r \in db
  <2>1. ASSUME NEW h \in Handlers, Commit(h)
        PROVE  r \in db
    <3>1. r \notin tx[h].ins
      BY <1>11 DEF Settled, Ins, Names
    <3> QED  BY <1>11, <2>1, <3>1 DEF Commit, Visible
  <2>2. ASSUME NEW R \in SUBSET Row, NewRows(used, R), InsertNow(R)
        PROVE  r \in db
    <3>1. r \notin R
      BY <1>2, <1>3, <1>11, <2>2 DEF Names
    <3> QED  BY <1>8, <1>11, <2>2, <3>1
  <2>3. ASSUME NEW h \in Handlers, Rollback(h)
        PROVE  r \in db
    BY <1>11, <2>3 DEF Rollback
  <2> QED  BY <1>3, <1>4, <1>5, <1>6, <1>9, <1>11, <2>1, <2>2, <2>3 DEF Statement
<1> QED  BY <1>10, <1>11

----------------------------------------------------------------------------
(* The handlers: what a step leaves of the request and its transaction.    *)

Moves(h, l, q, t) ==
  /\ pc' = [pc EXCEPT ![h] = l]
  /\ req' = [req EXCEPT ![h] = q]
  /\ tx' = [tx EXCEPT ![h] = t]
  /\ seen' \in [Handlers -> SUBSET Names(Row)]

HandlerStep(h) == Statement /\ \E l, q, t : Moves(h, l, q, t) /\ Fits(l, q, t)

LEMMA EmptyRequest ==
  /\ NoRequest \in Request
  /\ NoRequest.op = "none" /\ NoRequest.list = {} /\ NoRequest.targets = {}
BY DEF NoRequest, Request, Ops

LEMMA OpAt ==
  ASSUME NEW q \in Request, NEW l \in PcOf(q.op)
  PROVE  /\ l \in {"idle", "ended"} <=> q.op = "none"
         /\ l \in {"account", "endpoint"} => q.op \in Creating
         /\ l = "model" => q.op = "create_service"
         /\ l \in {"list", "service"} => q.op = "delete_service"
         /\ l \in {"rows", "references", "delete_account"} => q.op \in Deleting
         /\ l = "key" => q.op = "create_key"
         /\ l \in {"key_row", "clear_grants"} => q.op = "update_key"
         /\ l = "key_grants" => q.op \in Keying
         /\ l \in {"update_account", "update_model"} => q.op = "update_endpoint"
         /\ l = "update_pool" => q.op \in Setting
BY DEF PcOf, Request, Ops, Creating, Deleting, Keying, Setting

(* A handler without a request.                                            *)
LEMMA AtIdle ==
  ASSUME RequestsInv, NEW h \in Handlers, pc[h] \in {"idle", "ended"}
  PROVE  req[h] = NoRequest /\ tx[h] = NoTx
BY OpAt DEF RequestsInv, Fits, Mentions

LEMMA Stays ==
  ASSUME RequestsInv, NEW h \in Handlers
  PROVE  /\ req = [req EXCEPT ![h] = req[h]] /\ tx = [tx EXCEPT ![h] = tx[h]]
         /\ tx[h] \in Transaction /\ req[h] \in Request /\ pc[h] \in Pc
         /\ seen \in [Handlers -> SUBSET Names(Row)]
         /\ Fits(pc[h], req[h], tx[h]) /\ req[h].op \in Ops
BY DEF RequestsInv, TypeOK, Request

LEMMA Here ==
  ASSUME RequestsInv, NEW h \in Handlers
  PROVE  /\ Fits(pc[h], req[h], tx[h])
         /\ pc[h] \in {"idle", "ended"} <=> req[h].op = "none"
         /\ pc[h] \in {"account", "endpoint"} => req[h].op \in Creating
         /\ pc[h] = "model" => req[h].op = "create_service"
         /\ pc[h] \in {"list", "service"} => req[h].op = "delete_service"
         /\ pc[h] \in {"rows", "references", "delete_account"} => req[h].op \in Deleting
         /\ pc[h] = "key" => req[h].op = "create_key"
         /\ pc[h] \in {"key_row", "clear_grants"} => req[h].op = "update_key"
         /\ pc[h] = "key_grants" => req[h].op \in Keying
         /\ pc[h] \in {"update_account", "update_model"} => req[h].op = "update_endpoint"
         /\ pc[h] = "update_pool" => req[h].op \in Setting
<1>1. Fits(pc[h], req[h], tx[h]) /\ req[h] \in Request
  BY DEF RequestsInv, Fits
<1>2. pc[h] \in PcOf(req[h].op)
  BY <1>1 DEF Fits, Mentions
<1> QED  BY <1>1, <1>2, OpAt

LEMMA EmptyTx ==
  ASSUME NEW q
  PROVE  Inserts(NoTx, q) /\ Deletes(NoTx, q) /\ Locks(NoTx, q)
BY NothingOpen DEF Inserts, Deletes, Locks

LEMMA NewRowsOf ==
  ASSUME NEW R \in SUBSET Row, NEW e, \A r \in R : IsEntity(r) => r = e /\ Fresh(Name(e))
  PROVE  NewRows(used, R)
BY SameName DEF NewRows, UniqueNames, Fresh

LEMMA InsertTx ==
  ASSUME TablesInv, NEW h \in Handlers, NEW R \in SUBSET Row, NewRows(used, R), Insert(h, R)
  PROVE  Statement /\ tx' = [tx EXCEPT ![h] = Inserted(tx[h], R)]
BY DEF Statement, Insert, Inserted, TablesInv, TablesTyped

LEMMA DeleteTx ==
  ASSUME TablesInv, NEW h \in Handlers, NEW R, Delete(h, R)
  PROVE  /\ Statement
         /\ tx' = [tx EXCEPT ![h] = Deleted(tx[h], Cascade(Visible(h), R \cap Visible(h)))]
BY DEF Statement, Delete, Deleted, TablesInv, TablesTyped

Updated(t, n) == [t EXCEPT !.upd = @ \cup {n}]

LEMMA UpdateTx ==
  ASSUME TablesInv, NEW h \in Handlers, NEW t, NEW x, Update(h, <<t, x>>)
  PROVE  /\ Statement
         /\ tx' = [tx EXCEPT ![h] = Updated(tx[h], <<t, x>>)]
<1>1. <<t, x>> \in EntityNames
  <2>1. PICK r \in Visible(h) : Name(r) = <<t, x>>
    BY DEF Update, Names
  <2>2. r \in Row
    BY DEF Visible, TablesInv, TablesTyped, Transaction
  <2> QED  BY <2>1, <2>2, Named2 DEF EntityNames, Names
<1>2. tx' = [tx EXCEPT ![h] = Updated(tx[h], <<t, x>>)]
  BY DEF Update, Updated, TablesInv, TablesTyped
<1> QED  BY <1>1, <1>2 DEF Statement

----------------------------------------------------------------------------
(* Creating services.                                                      *)

LEMMA CreateServiceStep ==
  ASSUME TablesInv, RequestsInv, NEW h \in Handlers, CreateService(h)
  PROVE  HandlerStep(h)
<1>1. PICK j \in Projects, p \in Pools, b \in Batches :
        /\ Fresh(<<"pool", p>>)
        /\ Insert(h, {<<"pool", p, OrgOf[j]>>})
        /\ req' = [req EXCEPT ![h] = [NoRequest EXCEPT !.op = "create_service",
                     !.project = j, !.pool = p, !.todo = b]]
  BY DEF CreateService
<1> DEFINE q == [NoRequest EXCEPT !.op = "create_service", !.project = j, !.pool = p, !.todo = b]
           row == <<"pool", p, OrgOf[j]>>
           t == Inserted(tx[h], {row})
<1>2. row \in Row /\ Name(row) = <<"pool", p>>
  BY TablesAssumption DEF Row, Name
<1>3. Statement /\ tx' = [tx EXCEPT ![h] = t]
  BY <1>1, <1>2, NewRowsOf, InsertTx
<1>4. tx[h] = NoTx
  BY AtIdle DEF CreateService
<1>5. q \in Request /\ q.op = "create_service" /\ q.project = j /\ q.pool = p
  <2>1. b \in Seq(Accounts \cup {None})
    BY DEF Batches
  <2> QED  BY <2>1, EmptyRequest DEF NoRequest, Request, Ops
<1>6. t.ins = {row} /\ t.del = {} /\ t.upd = {}
  BY <1>4, NothingOpen, InsertedFields
<1> HIDE DEF q, t
<1>7. Mentions("account", q)
  BY <1>5 DEF Mentions, PcOf, Creating, Deleting, Setting
<1>8. Inserts(t, q) /\ Deletes(t, q) /\ Locks(t, q)
  BY <1>5, <1>6 DEF Inserts, Deletes, Locks, Creating, Deleting, Keying, Setting
<1>9. Fits("account", q, t)
  BY <1>5, <1>7, <1>8 DEF Fits, Pc, ServicePc
<1>10. Moves(h, "account", q, t)
  BY <1>1, <1>3, Stays DEF Moves, CreateService, Goto, q
<1> QED  BY <1>3, <1>9, <1>10 DEF HandlerStep

(* A step that leaves the tables alone.                                    *)
LEMMA QuietStep ==
  ASSUME RequestsInv, NEW h \in Handlers, NEW l, NEW q,
         UNCHANGED <<db, used, tx>>, seen' \in [Handlers -> SUBSET Names(Row)],
         pc' = [pc EXCEPT ![h] = l], req' = [req EXCEPT ![h] = q], Fits(l, q, tx[h])
  PROVE  HandlerStep(h)
BY Stays DEF HandlerStep, Statement, Moves

LEMMA AddEndpointsStep ==
  ASSUME TablesInv, RequestsInv, NEW h \in Handlers, AddEndpoints(h)
  PROVE  HandlerStep(h)
<1>1. PICK j \in Projects, m \in Models, b \in Batches : \E p \in ServicePools(db, j, m) :
        req' = [req EXCEPT ![h] = [NoRequest EXCEPT !.op = "add_endpoints",
                  !.project = j, !.model = m, !.pool = p, !.todo = b]]
  BY DEF AddEndpoints
<1>2. PICK p \in ServicePools(db, j, m) :
        req' = [req EXCEPT ![h] = [NoRequest EXCEPT !.op = "add_endpoints",
                  !.project = j, !.model = m, !.pool = p, !.todo = b]]
  BY <1>1
<1> DEFINE q == [NoRequest EXCEPT !.op = "add_endpoints",
                   !.project = j, !.model = m, !.pool = p, !.todo = b]
<1>3. q \in Request /\ q.op = "add_endpoints" /\ q.project = j /\ q.pool = p /\ p \in Pools
  <2>1. b \in Seq(Accounts \cup {None})
    BY DEF Batches
  <2>2. p \in Pools
    BY DEF ServicePools
  <2> QED  BY <2>1, <2>2, EmptyRequest DEF NoRequest, Request, Ops
<1>4. tx[h] = NoTx
  BY AtIdle DEF AddEndpoints
<1> HIDE DEF q
<1>5. Mentions("account", q)
  BY <1>3 DEF Mentions, PcOf, Creating, Deleting, Setting
<1>6. Fits("account", q, tx[h])
  BY <1>3, <1>4, <1>5, EmptyTx DEF Fits, Pc, ServicePc
<1> QED  BY <1>2, <1>6, QuietStep, Stays DEF AddEndpoints, Goto, q

LEMMA ChooseAccountStep ==
  ASSUME TablesInv, RequestsInv, NEW h \in Handlers, ChooseAccount(h)
  PROVE  HandlerStep(h)
<1> DEFINE row(a) == <<"account", a, OrgOf[req[h].project]>>
<1>1. PICK a \in Accounts :
        /\ IF Head(req[h].todo) = None
             THEN Fresh(Name(row(a))) /\ Insert(h, {row(a)})
             ELSE UNCHANGED <<db, used, tx>>
        /\ req' = [req EXCEPT ![h].account = a, ![h].todo = Tail(@)]
  BY DEF ChooseAccount
<1> DEFINE q == [req[h] EXCEPT !.account = a, !.todo = Tail(@)]
           t == Inserted(tx[h], {row(a)})
<1>2. /\ req[h] \in Request /\ tx[h] \in Transaction /\ req[h].todo # <<>>
      /\ Fits("account", req[h], tx[h]) /\ req[h].op \in Creating
  BY Stays, Here DEF ChooseAccount
<1>3. q \in Request /\ q.op = req[h].op /\ q.project = req[h].project /\ q.pool = req[h].pool
      /\ q.account = a
  <2>1. req[h].todo \in Seq(Accounts \cup {None})
    BY <1>2 DEF Request
  <2>2. Tail(req[h].todo) \in Seq(Accounts \cup {None})
    BY <1>2, <2>1
  <2> QED  BY <1>2, <2>2 DEF Request
<1>4. Mentions("endpoint", q)
  BY <1>2, <1>3 DEF Fits, Mentions, PcOf, Creating, Deleting, Setting
<1>5. req' = [req EXCEPT ![h] = q]
  BY <1>1 DEF RequestsInv, TypeOK
<1>6. seen' \in [Handlers -> SUBSET Names(Row)] /\ pc' = [pc EXCEPT ![h] = "endpoint"]
  BY Stays DEF ChooseAccount, Goto
<1>7. row(a) \in Row /\ row(a)[1] = "account"
  <2>1. req[h].project \in Projects
    BY <1>2 DEF Fits, Mentions
  <2> QED  BY <2>1, TablesAssumption DEF Row
<1> HIDE DEF q, row
<1>8. CASE UNCHANGED <<db, used, tx>>
  <2>1. Inserts(tx[h], q) /\ Deletes(tx[h], q) /\ Locks(tx[h], q)
    BY <1>2, <1>3 DEF Fits, Inserts, Deletes, Locks, Creating, Deleting, Keying, Setting
  <2>2. Fits("endpoint", q, tx[h])
    BY <1>2, <1>3, <1>4, <2>1 DEF Fits, Pc, ServicePc, Creating
  <2> QED  BY <1>5, <1>6, <1>8, <2>2, QuietStep
<1>9. CASE Fresh(Name(row(a))) /\ Insert(h, {row(a)})
  <2>1. Statement /\ tx' = [tx EXCEPT ![h] = t]
    BY <1>7, <1>9, NewRowsOf, InsertTx
  <2>2. t.ins = tx[h].ins \cup {row(a)} /\ t.del = tx[h].del /\ t.upd = tx[h].upd
    BY <1>2, InsertedFields
  <2> HIDE DEF t
  <2>3. Inserts(t, q) /\ Deletes(t, q) /\ Locks(t, q)
    BY <1>2, <1>3, <1>7, <2>2 DEF Fits, Inserts, Deletes, Locks, Creating, Deleting, Keying, Setting
  <2>4. Fits("endpoint", q, t)
    BY <1>2, <1>3, <1>4, <2>3 DEF Fits, Pc, ServicePc, Creating
  <2> QED  BY <1>5, <1>6, <2>1, <2>4 DEF HandlerStep, Moves
<1> QED  BY <1>1, <1>8, <1>9

(* An insert that leaves the request as it is.                             *)
LEMMA InsertingStep ==
  ASSUME TablesInv, RequestsInv, NEW h \in Handlers, NEW l \in Pc, NEW R \in SUBSET Row,
         NewRows(used, R), Insert(h, R), req[h].op \in Creating,
         \A r \in R : r[1] \notin {"key", "key_grant"},
         pc' = [pc EXCEPT ![h] = l], UNCHANGED <<req, seen>>,
         l \in PcOf(req[h].op), l \in {"account", "commit"}
  PROVE  HandlerStep(h)
<1> DEFINE t == Inserted(tx[h], R)
<1>1. req[h] \in Request /\ tx[h] \in Transaction /\ Fits(pc[h], req[h], tx[h])
  BY Stays
<1>2. Statement /\ tx' = [tx EXCEPT ![h] = t]
  BY InsertTx
<1>3. t.ins = tx[h].ins \cup R /\ t.del = tx[h].del /\ t.upd = tx[h].upd
  BY <1>1, InsertedFields
<1> HIDE DEF t
<1>4. Inserts(t, req[h]) /\ Deletes(t, req[h]) /\ Locks(t, req[h])
  BY <1>1, <1>3 DEF Fits, Inserts, Deletes, Locks, Creating, Deleting, Keying, Setting
<1>5. Mentions(l, req[h])
  BY <1>1 DEF Fits, Mentions, Creating, Deleting, Setting
<1>6. Fits(l, req[h], t)
  BY <1>1, <1>4, <1>5 DEF Fits, Creating
<1> QED  BY <1>2, <1>6, Stays DEF HandlerStep, Moves

LEMMA InsertEndpointStep ==
  ASSUME TablesInv, RequestsInv, NEW h \in Handlers, InsertEndpoint(h)
  PROVE  HandlerStep(h)
<1>1. PICK e \in Endpoints :
        /\ Fresh(<<"endpoint", e>>)
        /\ Insert(h, {<<"endpoint", e, req[h].account>>, <<"member", req[h].pool, e>>})
  BY DEF InsertEndpoint
<1> DEFINE row == <<"endpoint", e, req[h].account>>
           link == <<"member", req[h].pool, e>>
           R == {row, link}
<1>2. req[h].op \in Creating /\ req[h].account \in Accounts /\ req[h].pool \in Pools
  BY Here DEF InsertEndpoint, Fits, Mentions
<1>3. row \in Row /\ link \in Row /\ row[1] = "endpoint" /\ link[1] = "member"
  BY <1>2 DEF Row
<1>4. Name(row) = <<"endpoint", e>> /\ ~IsEntity(link)
  BY DEF Name, IsEntity, Entities
<1>5. Insert(h, R) /\ Fresh(Name(row))
  BY <1>1, <1>4
<1> HIDE DEF row, link
<1>6. NewRows(used, R)
  BY <1>3, <1>4, <1>5, NewRowsOf
<1>7. "account" \in PcOf(req[h].op) /\ "account" \in Pc
  BY <1>2 DEF PcOf, Pc, ServicePc, Creating
<1>8. pc' = [pc EXCEPT ![h] = "account"] /\ UNCHANGED <<req, seen>>
  BY DEF InsertEndpoint, Goto
<1>9. R \in SUBSET Row /\ \A r \in R : r[1] \notin {"key", "key_grant"}
  BY <1>3
<1> HIDE DEF R
<1> QED  BY <1>2, <1>5, <1>6, <1>7, <1>8, <1>9, InsertingStep

LEMMA InsertModelStep ==
  ASSUME TablesInv, RequestsInv, NEW h \in Handlers, InsertModel(h)
  PROVE  HandlerStep(h)
<1>1. PICK m \in Models :
        /\ Fresh(<<"model", m>>)
        /\ Insert(h, {<<"model", m, req[h].pool>>, <<"grant", req[h].project, m>>})
  BY DEF InsertModel
<1> DEFINE row == <<"model", m, req[h].pool>>
           link == <<"grant", req[h].project, m>>
           R == {row, link}
<1>2. req[h].op = "create_service" /\ req[h].project \in Projects /\ req[h].pool \in Pools
  BY Here DEF InsertModel, Fits, Mentions, Creating
<1>3. row \in Row /\ link \in Row /\ row[1] = "model" /\ link[1] = "grant"
  BY <1>2 DEF Row
<1>4. Name(row) = <<"model", m>> /\ ~IsEntity(link)
  BY DEF Name, IsEntity, Entities
<1>5. Insert(h, R) /\ Fresh(Name(row))
  BY <1>1, <1>4
<1> HIDE DEF row, link
<1>6. NewRows(used, R)
  BY <1>3, <1>4, <1>5, NewRowsOf
<1>7. "commit" \in PcOf(req[h].op) /\ "commit" \in Pc /\ req[h].op \in Creating
  BY <1>2 DEF PcOf, Pc, ServicePc, Creating
<1>8. pc' = [pc EXCEPT ![h] = "commit"] /\ UNCHANGED <<req, seen>>
  BY DEF InsertModel, Goto
<1>9. R \in SUBSET Row /\ \A r \in R : r[1] \notin {"key", "key_grant"}
  BY <1>3
<1> HIDE DEF R
<1> QED  BY <1>5, <1>6, <1>7, <1>8, <1>9, InsertingStep

LEMMA EndpointsInsertedStep ==
  ASSUME TablesInv, RequestsInv, NEW h \in Handlers, EndpointsInserted(h)
  PROVE  HandlerStep(h)
<1> DEFINE l == IF req[h].op = "create_service" THEN "model" ELSE "commit"
<1>1. Fits("account", req[h], tx[h]) /\ req[h].op \in Creating
  BY Here DEF EndpointsInserted
<1>2. l \in Pc /\ Mentions(l, req[h])
  BY <1>1 DEF Fits, Mentions, PcOf, Creating, Deleting, Setting, Pc, ServicePc
<1>3. Fits(l, req[h], tx[h])
  BY <1>1, <1>2 DEF Fits
<1> HIDE DEF l
<1> QED  BY <1>3, QuietStep, Stays DEF EndpointsInserted, Goto, l

----------------------------------------------------------------------------
(* Deleting endpoints, services, accounts.                                 *)

(* A cascade that starts from neither keys nor their grants takes no key,  *)
(* and a grant only with its model.                                        *)
LEMMA CascadeKeys ==
  ASSUME NEW rows \in SUBSET Row, NEW R \in SUBSET rows,
         \A r \in R : r[1] \notin {"key", "key_grant"}
  PROVE  \A r \in Cascade(rows, R) :
           /\ r[1] # "key"
           /\ r[1] = "key_grant" => <<"model", r[3]>> \in Names(Cascade(rows, R))
<1> DEFINE gone == Cascade(rows, R)
<1>1. R \subseteq gone /\ gone \subseteq rows
  BY CascadeOf
<1>2. ASSUME NEW r \in gone, r \notin R
      PROVE  \E c \in gone : Name(c) \in Parents(r) /\ (c \in R \/ Parents(c) # {})
  BY <1>1, <1>2, CascadeOf
<1> HIDE DEF gone
<1>3. ASSUME NEW r \in gone, r \notin R
      PROVE  /\ r[1] # "key"
             /\ r[1] = "key_grant" => <<"model", r[3]>> \in Names(gone)
  <2>1. PICK c \in gone : Name(c) \in Parents(r) /\ (c \in R \/ Parents(c) # {})
    BY <1>2, <1>3
  <2>2. r \in Row /\ c \in Row
    BY <1>1
  <2>3. c[1] # "key"
    BY <2>1, <2>2, ParentsOf
  <2>4. r[1] # "key"
    BY <2>1, <2>2, ParentsOf
  <2>5. r[1] = "key_grant" => Name(c) = <<"model", r[3]>>
    BY <2>1, <2>2, <2>3, ParentsOf, Named2
  <2> QED  BY <2>4, <2>5 DEF Names
<1> QED  BY <1>3 DEF gone

LEMMA DeletingStep ==
  ASSUME TablesInv, RequestsInv, NEW h \in Handlers, NEW R, Delete(h, R),
         \A r \in R : r[1] \notin {"key", "key_grant"},
         NEW l \in {"rows", "references"}, NEW q \in Request,
         req[h].op \in Deleting, q.op = req[h].op, Mentions(l, q),
         pc' = [pc EXCEPT ![h] = l], req' = [req EXCEPT ![h] = q], seen' = seen
  PROVE  HandlerStep(h)
<1> DEFINE V == Visible(h)
           gone == Cascade(V, R \cap V)
           t == Deleted(tx[h], gone)
<1>1. Statement /\ tx' = [tx EXCEPT ![h] = t]
  BY DeleteTx
<1>2. tx[h] \in Transaction /\ Fits(pc[h], req[h], tx[h])
  BY Stays
<1>3. t.ins = tx[h].ins \ gone /\ t.del = tx[h].del \cup gone /\ t.upd = tx[h].upd
  BY <1>2, DeletedFields
<1>4. \A r \in gone : /\ r[1] # "key"
                      /\ r[1] = "key_grant" => <<"model", r[3]>> \in Names(gone)
  <2>1. V \in SUBSET Row /\ R \cap V \in SUBSET V
    BY <1>2 DEF Visible, Transaction, TablesInv, TablesTyped
  <2> HIDE DEF V
  <2> QED  BY <2>1, CascadeKeys
<1> HIDE DEF V, gone, t
<1>5. Names(t.del) = Names(tx[h].del) \cup Names(gone)
  BY <1>3, NamesOfUnion
<1>6. Deletes(t, q)
  <2>1. \A r \in tx[h].del : /\ r[1] # "key"
                             /\ r[1] = "key_grant" => <<"model", r[3]>> \in Names(tx[h].del)
    BY <1>2 DEF Fits, Deletes
  <2>2. \A r \in t.del : /\ r[1] # "key"
                         /\ r[1] = "key_grant" => <<"model", r[3]>> \in Names(t.del)
    <3>1. t.del = tx[h].del \cup gone
      BY <1>3
    <3>2. \A r \in gone : /\ r[1] # "key"
                          /\ r[1] = "key_grant" => <<"model", r[3]>> \in Names(t.del)
      BY <1>4, <1>5
    <3> QED  BY <1>5, <2>1, <3>1, <3>2
  <2> QED  BY <2>2 DEF Deletes, Deleting
<1>7. Inserts(t, q) /\ Locks(t, q)
  BY <1>2, <1>3 DEF Fits, Inserts, Locks, Creating, Deleting, Keying, Setting
<1>8. Fits(l, q, t)
  BY <1>6, <1>7 DEF Fits, Pc, ServicePc, Deleting
<1> QED  BY <1>1, <1>8, Stays DEF HandlerStep, Moves

LEMMA DeleteEndpointStep ==
  ASSUME TablesInv, RequestsInv, NEW h \in Handlers, DeleteEndpoint(h)
  PROVE  HandlerStep(h)
<1>1. PICK j \in Projects, m \in Models, e \in Endpoints :
        \E p \in ServicePools(db, j, m), a \in AccountOf(db, e) :
          req' = [req EXCEPT ![h] = [NoRequest EXCEPT !.op = "delete_endpoint",
                      !.project = j, !.list = {<<"endpoint", e, a>>},
                      !.targets = {<<"endpoint", e, a>>}]]
  BY DEF DeleteEndpoint
<1>2. PICK a \in AccountOf(db, e) :
          req' = [req EXCEPT ![h] = [NoRequest EXCEPT !.op = "delete_endpoint",
                      !.project = j, !.list = {<<"endpoint", e, a>>},
                      !.targets = {<<"endpoint", e, a>>}]]
  BY <1>1
<1> DEFINE q == [NoRequest EXCEPT !.op = "delete_endpoint",
                      !.project = j, !.list = {<<"endpoint", e, a>>},
                      !.targets = {<<"endpoint", e, a>>}]
<1>3. q \in Request /\ q.op = "delete_endpoint" /\ q.list = q.targets /\ \A r \in q.targets : r[1] = "endpoint"
  <2>1. <<"endpoint", e, a>> \in Row
    BY DEF AccountOf, Row
  <2> DEFINE r == <<"endpoint", e, a>>
  <2>2. {r} \in SUBSET Row /\ r[1] = "endpoint"
    BY <2>1
  <2> HIDE DEF r
  <2>3. q \in Request /\ q.op = "delete_endpoint" /\ q.list = {r} /\ q.targets = {r}
    BY <2>2, EmptyRequest DEF NoRequest, Request, Ops, r
  <2> QED  BY <2>2, <2>3
<1>4. tx[h] = NoTx
  BY AtIdle DEF DeleteEndpoint
<1> HIDE DEF q
<1>5. Mentions("rows", q)
  BY <1>3 DEF Mentions, PcOf, Creating, Deleting, Setting
<1>6. Fits("rows", q, tx[h])
  BY <1>3, <1>4, <1>5, EmptyTx DEF Fits, Pc, ServicePc
<1> QED  BY <1>2, <1>6, QuietStep, Stays DEF DeleteEndpoint, Goto, q

LEMMA DeleteServiceStep ==
  ASSUME TablesInv, RequestsInv, NEW h \in Handlers, DeleteService(h)
  PROVE  HandlerStep(h)
<1>1. PICK j \in Projects, m \in Models : \E p \in ServicePools(db, j, m) :
        req' = [req EXCEPT ![h] = [NoRequest EXCEPT !.op = "delete_service",
                  !.project = j, !.model = m, !.pool = p]]
  BY DEF DeleteService
<1>2. PICK p \in Pools :
        req' = [req EXCEPT ![h] = [NoRequest EXCEPT !.op = "delete_service",
                  !.project = j, !.model = m, !.pool = p]]
  BY <1>1 DEF ServicePools
<1> DEFINE q == [NoRequest EXCEPT !.op = "delete_service", !.project = j, !.model = m, !.pool = p]
<1>3. /\ q \in Request /\ q.op = "delete_service" /\ q.model = m /\ q.pool = p
      /\ q.list = {} /\ q.targets = {}
  BY EmptyRequest DEF NoRequest, Request, Ops
<1>4. tx[h] = NoTx
  BY AtIdle DEF DeleteService
<1> HIDE DEF q
<1>5. Mentions("list", q)
  BY <1>3 DEF Mentions, PcOf, Creating, Deleting, Setting
<1>6. Fits("list", q, tx[h])
  BY <1>3, <1>4, <1>5, EmptyTx DEF Fits, Pc, ServicePc
<1> QED  BY <1>2, <1>6, QuietStep, Stays DEF DeleteService, Goto, q

LEMMA ListEndpointsStep ==
  ASSUME TablesInv, RequestsInv, NEW h \in Handlers, ListEndpoints(h)
  PROVE  HandlerStep(h)
<1> DEFINE rows == {r \in EndpointRows(Visible(h)) : <<"member", req[h].pool, r[2]>> \in Visible(h)}
           q == [req[h] EXCEPT !.list = rows, !.targets = rows]
<1>1. req' = [req EXCEPT ![h] = q]
  BY DEF ListEndpoints, RequestsInv, TypeOK
<1>2. Fits("list", req[h], tx[h]) /\ req[h].op = "delete_service" /\ req[h] \in Request
  BY Here, Stays DEF ListEndpoints
<1>3. rows \subseteq Row /\ \A r \in rows : r[1] = "endpoint"
  BY Stays DEF EndpointRows, Visible, Transaction, TablesInv, TablesTyped
<1> HIDE DEF rows
<1>4. /\ q \in Request /\ q.op = req[h].op /\ q.list = rows /\ q.targets = rows
      /\ q.model = req[h].model /\ q.pool = req[h].pool
  BY <1>2, <1>3 DEF Request
<1> HIDE DEF q
<1>5. Mentions("service", q)
  BY <1>2, <1>3, <1>4 DEF Fits, Mentions, PcOf, Creating, Deleting, Setting
<1>6. Inserts(tx[h], q) /\ Deletes(tx[h], q) /\ Locks(tx[h], q)
  BY <1>2, <1>4 DEF Fits, Inserts, Deletes, Locks, Creating, Deleting, Keying, Setting
<1>7. Fits("service", q, tx[h])
  BY <1>2, <1>4, <1>5, <1>6 DEF Fits, Pc, ServicePc
<1> QED  BY <1>1, <1>7, QuietStep, Stays DEF ListEndpoints, Goto

LEMMA DeleteServiceRowsStep ==
  ASSUME TablesInv, RequestsInv, NEW h \in Handlers, DeleteServiceRows(h)
  PROVE  HandlerStep(h)
<1> DEFINE R == {r \in Visible(h) : \/ r[1] = "grant" /\ r[3] = req[h].model
                                    \/ Name(r) = <<"model", req[h].model>>
                                    \/ r[1] = "member" /\ r[2] = req[h].pool
                                    \/ Name(r) = <<"pool", req[h].pool>>}
<1>1. Delete(h, R) /\ pc[h] = "service" /\ pc' = [pc EXCEPT ![h] = "rows"] /\ req' = req /\ seen' = seen
  BY DEF DeleteServiceRows, Goto
<1>2. Fits("service", req[h], tx[h]) /\ req[h].op = "delete_service"
  BY <1>1, Here
<1>3. \A r \in R : r[1] \notin {"key", "key_grant"}
  <2>1. \A r \in Visible(h) : r \in Row
    BY Stays DEF Visible, Transaction, TablesInv, TablesTyped
  <2> QED  BY <2>1, Named2
<1>4. Mentions("rows", req[h])
  BY <1>2 DEF Fits, Mentions, PcOf, Creating, Deleting, Setting
<1> HIDE DEF R
<1> QED  BY <1>1, <1>2, <1>3, <1>4, DeletingStep, Stays DEF Deleting

LEMMA DeleteEndpointRowsStep ==
  ASSUME TablesInv, RequestsInv, NEW h \in Handlers, DeleteEndpointRows(h)
  PROVE  HandlerStep(h)
<1>1. PICK r \in req[h].list :
        /\ Delete(h, {r})
        /\ req' = [req EXCEPT ![h].list = @ \ {r}, ![h].account = r[3]]
  BY DEF DeleteEndpointRows
<1> DEFINE q == [req[h] EXCEPT !.list = @ \ {r}, !.account = r[3]]
<1>2. Fits("rows", req[h], tx[h]) /\ req[h].op \in Deleting /\ req[h] \in Request
  BY Here, Stays DEF DeleteEndpointRows
<1>3. r[1] = "endpoint" /\ r[3] \in Accounts
  <2>1. r \in Row /\ r[1] = "endpoint"
    BY <1>2 DEF Fits, Mentions, Request
  <2> QED  BY <2>1, RowShape
<1>4. /\ q \in Request /\ q.op = req[h].op /\ q.list = req[h].list \ {r} /\ q.targets = req[h].targets
      /\ q.account = r[3] /\ q.model = req[h].model /\ q.pool = req[h].pool /\ q.project = req[h].project
  BY <1>2, <1>3 DEF Request
<1>5. req' = [req EXCEPT ![h] = q]
  BY <1>1 DEF RequestsInv, TypeOK
<1> HIDE DEF q
<1>6. Mentions("references", q)
  BY <1>2, <1>3, <1>4 DEF Fits, Mentions, PcOf, Creating, Deleting, Setting
<1> QED  BY <1>1, <1>2, <1>3, <1>4, <1>5, <1>6, DeletingStep DEF DeleteEndpointRows, Goto

LEMMA EndpointsDeletedStep ==
  ASSUME TablesInv, RequestsInv, NEW h \in Handlers, EndpointsDeleted(h)
  PROVE  HandlerStep(h)
<1>1. Fits("rows", req[h], tx[h]) /\ req[h].op \in Deleting
  BY Here DEF EndpointsDeleted
<1>2. Mentions("commit", req[h])
  BY <1>1 DEF Fits, Mentions, PcOf, Creating, Deleting, Setting
<1>3. Fits("commit", req[h], tx[h])
  BY <1>1, <1>2 DEF Fits, Pc, ServicePc
<1> QED  BY <1>3, QuietStep, Stays DEF EndpointsDeleted, Goto

LEMMA CountReferencesStep ==
  ASSUME TablesInv, RequestsInv, NEW h \in Handlers, CountReferences(h)
  PROVE  HandlerStep(h)
<1> DEFINE l == IF EndpointsOf(Visible(h), req[h].account) # {} THEN "rows" ELSE "delete_account"
<1>1. Fits("references", req[h], tx[h]) /\ req[h].op \in Deleting
  BY Here DEF CountReferences
<1>2. l \in {"rows", "delete_account"}
  OBVIOUS
<1>3. pc' = [pc EXCEPT ![h] = l] /\ req' = [req EXCEPT ![h] = req[h]] /\ UNCHANGED <<db, used, tx>>
  BY Stays DEF CountReferences, Goto
<1> HIDE DEF l
<1>4. Mentions(l, req[h]) /\ l \in Pc
  BY <1>1, <1>2 DEF Fits, Mentions, PcOf, Creating, Deleting, Setting, Pc, ServicePc
<1>5. Fits(l, req[h], tx[h])
  BY <1>1, <1>4 DEF Fits
<1>6. seen' \in [Handlers -> SUBSET Names(Row)]
  <2>1. EndpointRows(Visible(h)) \subseteq Row
    BY Stays DEF EndpointRows, Visible, Transaction, TablesInv, TablesTyped
  <2>2. Names(EndpointRows(Visible(h))) \subseteq Names(Row)
    BY <2>1, NamesOfPart
  <2> QED  BY <2>2, Stays DEF CountReferences
<1> QED  BY <1>3, <1>5, <1>6, QuietStep

LEMMA DeleteAccountStep ==
  ASSUME TablesInv, RequestsInv, NEW h \in Handlers, DeleteAccount(h)
  PROVE  HandlerStep(h)
<1> DEFINE R == {r \in Visible(h) : /\ Name(r) = <<"account", req[h].account>>
                                    /\ req[h].op = "delete_provider" => r[3] = OrgOf[req[h].project]}
<1>1. Delete(h, R) /\ pc[h] = "delete_account" /\ pc' = [pc EXCEPT ![h] = "rows"]
      /\ req' = req /\ seen' = seen
  BY DEF DeleteAccount, Goto
<1>2. Fits("delete_account", req[h], tx[h]) /\ req[h].op \in Deleting
  BY <1>1, Here
<1>3. \A r \in R : r[1] \notin {"key", "key_grant"}
  <2>1. \A r \in Visible(h) : r \in Row
    BY Stays DEF Visible, Transaction, TablesInv, TablesTyped
  <2> QED  BY <2>1, Named2
<1>4. Mentions("rows", req[h])
  BY <1>2 DEF Fits, Mentions, PcOf, Creating, Deleting, Setting
<1> HIDE DEF R
<1> QED  BY <1>1, <1>2, <1>3, <1>4, DeletingStep, Stays

LEMMA DeleteProviderStep ==
  ASSUME TablesInv, RequestsInv, NEW h \in Handlers, DeleteProvider(h)
  PROVE  HandlerStep(h)
<1>1. PICK j \in Projects, a \in Accounts :
        req' = [req EXCEPT ![h] = [NoRequest EXCEPT !.op = "delete_provider",
                  !.project = j, !.account = a]]
  BY DEF DeleteProvider
<1> DEFINE q == [NoRequest EXCEPT !.op = "delete_provider", !.project = j, !.account = a]
<1>2. /\ q \in Request /\ q.op = "delete_provider" /\ q.project = j /\ q.account = a
      /\ q.list = {} /\ q.targets = {}
  BY EmptyRequest DEF NoRequest, Request, Ops
<1>3. tx[h] = NoTx
  BY AtIdle DEF DeleteProvider
<1> HIDE DEF q
<1>4. Mentions("delete_account", q)
  BY <1>2 DEF Mentions, PcOf, Creating, Deleting, Setting
<1>5. Fits("delete_account", q, tx[h])
  BY <1>2, <1>3, <1>4, EmptyTx DEF Fits, Pc, ServicePc
<1>6. seen' \in [Handlers -> SUBSET Names(Row)]
  <2>1. Names(EndpointRows(db)) \subseteq Names(Row)
    BY NamesOfPart DEF EndpointRows, TablesInv, TablesTyped
  <2> QED  BY <2>1, Stays DEF DeleteProvider
<1> QED  BY <1>1, <1>5, <1>6, QuietStep DEF DeleteProvider, Goto, q

LEMMA EndStep ==
  ASSUME TablesInv, RequestsInv, NEW h \in Handlers, Commit(h) \/ Rollback(h), Ends(h)
  PROVE  HandlerStep(h)
<1>1. NoTx \in Transaction /\ tx' = [tx EXCEPT ![h] = NoTx] /\ Statement
  BY NothingOpen DEF Commit, Rollback, Statement
<1>2. Mentions("ended", NoRequest)
  BY EmptyRequest DEF Mentions, PcOf, Creating, Deleting, Setting
<1>3. Fits("ended", NoRequest, NoTx)
  BY <1>2, EmptyRequest, EmptyTx DEF Fits, Pc, ServicePc
<1>4. seen' \in [Handlers -> SUBSET Names(Row)]
  BY Stays DEF Ends
<1> QED  BY <1>1, <1>3, <1>4 DEF HandlerStep, Moves, Ends, Goto

----------------------------------------------------------------------------
(* Keys.                                                                   *)

LEMMA CreateKeyStep ==
  ASSUME TablesInv, RequestsInv, NEW h \in Handlers, CreateKey(h)
  PROVE  HandlerStep(h)
<1>1. PICK j \in Projects : \E M \in (SUBSET ProjectModels(db, j)) \ {{}} :
        req' = [req EXCEPT ![h] = [NoRequest EXCEPT !.op = "create_key",
                  !.project = j, !.models = M]]
  BY DEF CreateKey
<1>2. PICK M \in SUBSET Models :
        req' = [req EXCEPT ![h] = [NoRequest EXCEPT !.op = "create_key",
                  !.project = j, !.models = M]]
  BY <1>1 DEF ProjectModels
<1> DEFINE q == [NoRequest EXCEPT !.op = "create_key", !.project = j, !.models = M]
<1>3. q \in Request /\ q.op = "create_key" /\ q.project = j /\ q.key = None
  BY EmptyRequest DEF NoRequest, Request, Ops
<1>4. tx[h] = NoTx
  BY AtIdle DEF CreateKey
<1> HIDE DEF q
<1>5. Mentions("key", q)
  BY <1>3 DEF Mentions, PcOf, Creating, Deleting, Setting
<1>6. Fits("key", q, tx[h])
  BY <1>3, <1>4, <1>5, EmptyTx DEF Fits, Pc, EditPc
<1> QED  BY <1>2, <1>6, QuietStep, Stays DEF CreateKey, Goto, q

LEMMA UpdateKeyStep ==
  ASSUME TablesInv, RequestsInv, NEW h \in Handlers, UpdateKey(h)
  PROVE  HandlerStep(h)
<1>1. PICK j \in Projects, k \in Keys : \E M \in (SUBSET ProjectModels(db, j)) \ {{}} :
        req' = [req EXCEPT ![h] = [NoRequest EXCEPT !.op = "update_key",
                  !.project = j, !.key = k, !.models = M]]
  BY DEF UpdateKey
<1>2. PICK M \in SUBSET Models :
        req' = [req EXCEPT ![h] = [NoRequest EXCEPT !.op = "update_key",
                  !.project = j, !.key = k, !.models = M]]
  BY <1>1 DEF ProjectModels
<1> DEFINE q == [NoRequest EXCEPT !.op = "update_key", !.project = j, !.key = k, !.models = M]
<1>3. q \in Request /\ q.op = "update_key" /\ q.project = j /\ q.key = k
  BY EmptyRequest DEF NoRequest, Request, Ops
<1>4. tx[h] = NoTx
  BY AtIdle DEF UpdateKey
<1> HIDE DEF q
<1>5. Mentions("key_row", q)
  BY <1>3 DEF Mentions, PcOf, Creating, Deleting, Setting
<1>6. Fits("key_row", q, tx[h])
  BY <1>3, <1>4, <1>5, EmptyTx DEF Fits, Pc, EditPc
<1> QED  BY <1>2, <1>6, QuietStep, Stays DEF UpdateKey, Goto, q

(* An insert of rows of the request's key.                                 *)
LEMMA KeyingStep ==
  ASSUME TablesInv, RequestsInv, NEW h \in Handlers, NEW R \in SUBSET Row,
         NewRows(used, R), Insert(h, R),
         NEW l \in Pc, NEW q \in Request, req[h].op \in Keying, q.op = req[h].op, Mentions(l, q),
         q.key = req[h].key \/ (q.op = "create_key" /\ tx[h].ins = {}),
         \A r \in R : r[1] \in {"key", "key_grant"} /\ r[2] = q.key,
         pc' = [pc EXCEPT ![h] = l], req' = [req EXCEPT ![h] = q], seen' = seen
  PROVE  HandlerStep(h)
<1> DEFINE t == Inserted(tx[h], R)
<1>1. tx[h] \in Transaction /\ Fits(pc[h], req[h], tx[h])
  BY Stays
<1>2. Statement /\ tx' = [tx EXCEPT ![h] = t]
  BY InsertTx
<1>3. t.ins = tx[h].ins \cup R /\ t.del = tx[h].del /\ t.upd = tx[h].upd
  BY <1>1, InsertedFields
<1>4. Inserts(tx[h], q) /\ Deletes(tx[h], q) /\ Locks(tx[h], q)
  BY <1>1 DEF Fits, Inserts, Deletes, Locks, Keying, Setting, Creating, Deleting
<1> HIDE DEF t
<1>5. Inserts(t, q) /\ Deletes(t, q) /\ Locks(t, q)
  BY <1>3, <1>4 DEF Inserts, Deletes, Locks, Keying, Setting, Creating, Deleting
<1>6. Fits(l, q, t)
  BY <1>5 DEF Fits, Keying
<1> QED  BY <1>2, <1>6, Stays DEF HandlerStep, Moves

LEMMA InsertKeyStep ==
  ASSUME TablesInv, RequestsInv, NEW h \in Handlers, InsertKey(h)
  PROVE  HandlerStep(h)
<1>1. PICK k \in Keys :
        /\ Fresh(<<"key", k>>)
        /\ Insert(h, {<<"key", k, req[h].project>>})
        /\ req' = [req EXCEPT ![h].key = k]
  BY DEF InsertKey
<1> DEFINE q == [req[h] EXCEPT !.key = k]
           row == <<"key", k, req[h].project>>
<1>2. /\ Fits("key", req[h], tx[h]) /\ req[h].op = "create_key" /\ req[h] \in Request
      /\ tx[h] \in Transaction
  BY Here, Stays DEF InsertKey
<1>3. req[h].project \in Projects /\ req[h].key = None
  BY <1>2 DEF Fits, Mentions
<1>4. row \in Row /\ Name(row) = <<"key", k>> /\ row[1] = "key" /\ row[2] = k
  BY <1>3 DEF Row, Name
<1>5. req' = [req EXCEPT ![h] = q] /\ q \in Request /\ q.op = "create_key" /\ q.key = k
      /\ q.project = req[h].project
  <2>1. q \in Request /\ q.op = "create_key" /\ q.key = k /\ q.project = req[h].project
    BY <1>2 DEF Request
  <2>2. req' = [req EXCEPT ![h] = q]
    BY <1>1
  <2> QED  BY <2>1, <2>2
<1>6. tx[h].ins = {}
  <2> SUFFICES ASSUME NEW r \in tx[h].ins
               PROVE  FALSE
    OBVIOUS
  <2>1. r \in Row /\ r[1] \in {"key", "key_grant"} /\ r[2] = None
    BY <1>2, <1>3 DEF Fits, Inserts, Keying, Transaction
  <2>2. r[2] \in Keys
    BY <2>1, RowShape
  <2> QED  BY <2>1, <2>2, TablesAssumption
<1>7. NewRows(used, {row})
  BY <1>1, <1>4, NewRowsOf
<1>8. Insert(h, {row}) /\ pc' = [pc EXCEPT ![h] = "key_grants"] /\ seen' = seen
  BY <1>1 DEF InsertKey, Goto
<1> HIDE DEF q, row
<1>9. Mentions("key_grants", q) /\ "key_grants" \in Pc
  BY <1>3, <1>5 DEF Mentions, PcOf, Creating, Deleting, Setting, Pc, EditPc
<1>10. /\ {row} \in SUBSET Row /\ \A r \in {row} : r[1] \in {"key", "key_grant"} /\ r[2] = q.key
       /\ req[h].op \in Keying /\ q.op = req[h].op
  BY <1>2, <1>4, <1>5 DEF Keying
<1> HIDE DEF row
<1> QED  BY <1>5, <1>6, <1>7, <1>8, <1>9, <1>10, KeyingStep

LEMMA InsertGrantsStep ==
  ASSUME TablesInv, RequestsInv, NEW h \in Handlers, InsertGrants(h)
  PROVE  HandlerStep(h)
<1> DEFINE R == {<<"key_grant", req[h].key, m>> : m \in req[h].models}
<1>1. Fits("key_grants", req[h], tx[h]) /\ req[h].op \in Keying /\ req[h] \in Request
  BY Here, Stays DEF InsertGrants
<1>2. req[h].key \in Keys /\ req[h].models \subseteq Models
  BY <1>1 DEF Fits, Mentions, Keying, Request
<1>3. \A r \in R : r \in Row /\ r[1] = "key_grant" /\ r[2] = req[h].key
  BY <1>2 DEF Row
<1>4. Insert(h, R) /\ pc' = [pc EXCEPT ![h] = "commit"] /\ req' = req /\ seen' = seen
  BY DEF InsertGrants, Goto
<1> HIDE DEF R
<1>5. R \in SUBSET Row /\ NewRows(used, R)
  <2>1. \A r \in R : ~IsEntity(r)
    BY <1>3 DEF IsEntity, Entities
  <2> QED  BY <1>3, <2>1, NewRowsOf
<1>6. Mentions("commit", req[h]) /\ "commit" \in Pc
  BY <1>1 DEF Fits, Mentions, PcOf, Keying, Creating, Deleting, Setting, Pc, ServicePc
<1> QED  BY <1>1, <1>3, <1>4, <1>5, <1>6, KeyingStep, Stays

LEMMA ClearGrantsStep ==
  ASSUME TablesInv, RequestsInv, NEW h \in Handlers, ClearGrants(h)
  PROVE  HandlerStep(h)
<1> DEFINE V == Visible(h)
           R == {r \in V : r[1] = "key_grant" /\ r[2] = req[h].key}
           gone == Cascade(V, R)
           t == Deleted(tx[h], gone)
<1>1. Fits("clear_grants", req[h], tx[h]) /\ req[h].op = "update_key" /\ tx[h] \in Transaction
  BY Here, Stays DEF ClearGrants
<1>2. V \in SUBSET Row /\ R \in SUBSET V
  BY <1>1 DEF Visible, Transaction, TablesInv, TablesTyped
<1>3. Delete(h, R) /\ pc' = [pc EXCEPT ![h] = "key_grants"] /\ req' = req /\ seen' = seen
  BY DEF ClearGrants, Goto
<1>4. Statement /\ tx' = [tx EXCEPT ![h] = t]
  <2>1. R \cap V = R
    OBVIOUS
  <2> QED  BY <1>3, <2>1, DeleteTx
<1>5. t.ins = tx[h].ins \ gone /\ t.del = tx[h].del \cup gone /\ t.upd = tx[h].upd
  BY <1>1, DeletedFields
<1>6. gone = R
  BY <1>2, GrantsAlone
<1>7. \A r \in gone : r[1] = "key_grant" /\ r[2] = req[h].key
  BY <1>6
<1> HIDE DEF t, gone, R, V
<1>8. Inserts(t, req[h]) /\ Deletes(t, req[h]) /\ Locks(t, req[h])
  BY <1>1, <1>5, <1>7 DEF Fits, Inserts, Deletes, Locks, Keying, Setting, Creating, Deleting
<1>9. Mentions("key_grants", req[h]) /\ "key_grants" \in Pc
  BY <1>1 DEF Fits, Mentions, PcOf, Creating, Deleting, Setting, Pc, EditPc
<1>10. Fits("key_grants", req[h], t)
  BY <1>1, <1>8, <1>9 DEF Fits
<1> QED  BY <1>3, <1>4, <1>10, Stays DEF HandlerStep, Moves

----------------------------------------------------------------------------
(* Updates: of a key, of an endpoint with its account, of a pool.          *)

LEMMA LockingStep ==
  ASSUME TablesInv, RequestsInv, NEW h \in Handlers, NEW t, NEW x, UpdateIfThere(h, <<t, x>>),
         NEW l \in Pc, Mentions(l, req[h]),
         \/ req[h].op = "update_key" /\ <<t, x>> = <<"key", req[h].key>>
         \/ req[h].op = "update_endpoint"
              /\ <<t, x>> \in {<<"account", req[h].account>>, <<"endpoint", req[h].endpoint>>}
         \/ req[h].op \in Setting /\ <<t, x>> = <<"pool", req[h].pool>>,
         pc' = [pc EXCEPT ![h] = l], req' = req, seen' = seen
  PROVE  HandlerStep(h)
<1>1. Fits(pc[h], req[h], tx[h]) /\ tx[h] \in Transaction
  BY Stays
<1>2. CASE UNCHANGED <<db, used, tx>>
  <2>1. Fits(l, req[h], tx[h])
    BY <1>1 DEF Fits, Setting
  <2> QED  BY <1>2, <2>1, QuietStep, Stays
<1>3. CASE Update(h, <<t, x>>)
  <2> DEFINE u == Updated(tx[h], <<t, x>>)
  <2>1. Statement /\ tx' = [tx EXCEPT ![h] = u]
    BY <1>3, UpdateTx
  <2>2. u.ins = tx[h].ins /\ u.del = tx[h].del /\ u.upd = tx[h].upd \cup {<<t, x>>}
    BY <1>1 DEF Updated, Transaction
  <2> HIDE DEF u
  <2>3. Locks(u, req[h])
    BY <1>1, <2>2 DEF Fits, Locks, Setting
  <2>4. Inserts(u, req[h]) /\ Deletes(u, req[h])
    BY <1>1, <2>2 DEF Fits, Inserts, Deletes
  <2>5. Fits(l, req[h], u)
    BY <1>1, <2>3, <2>4 DEF Fits, Setting
  <2> QED  BY <2>1, <2>5, Stays DEF HandlerStep, Moves
<1> QED  BY <1>2, <1>3 DEF UpdateIfThere

LEMMA UpdateKeyRowStep ==
  ASSUME TablesInv, RequestsInv, NEW h \in Handlers, UpdateKeyRow(h)
  PROVE  HandlerStep(h)
<1>1. Fits("key_row", req[h], tx[h]) /\ req[h].op = "update_key"
  BY Here DEF UpdateKeyRow
<1>2. Mentions("clear_grants", req[h]) /\ "clear_grants" \in Pc
  BY <1>1 DEF Fits, Mentions, PcOf, Creating, Deleting, Setting, Pc, EditPc
<1>3. UpdateIfThere(h, <<"key", req[h].key>>)
  BY DEF UpdateKeyRow, UpdateIfThere, Update
<1>4. pc' = [pc EXCEPT ![h] = "clear_grants"] /\ req' = req /\ seen' = seen
  BY DEF UpdateKeyRow, Goto
<1> QED  BY <1>1, <1>2, <1>3, <1>4, LockingStep

LEMMA UpdateEndpointStep ==
  ASSUME TablesInv, RequestsInv, NEW h \in Handlers, UpdateEndpoint(h)
  PROVE  HandlerStep(h)
<1>1. PICK j \in Projects, m \in Models, e \in Endpoints :
        \E p \in ServicePools(db, j, m), a \in AccountOf(db, e) :
          req' = [req EXCEPT ![h] = [NoRequest EXCEPT !.op = "update_endpoint",
                    !.project = j, !.account = a, !.endpoint = e]]
  BY DEF UpdateEndpoint
<1>2. PICK a \in Accounts :
          req' = [req EXCEPT ![h] = [NoRequest EXCEPT !.op = "update_endpoint",
                    !.project = j, !.account = a, !.endpoint = e]]
  BY <1>1 DEF AccountOf
<1> DEFINE q == [NoRequest EXCEPT !.op = "update_endpoint", !.project = j, !.account = a, !.endpoint = e]
<1>3. q \in Request /\ q.op = "update_endpoint" /\ q.account = a /\ q.endpoint = e
  BY EmptyRequest DEF NoRequest, Request, Ops
<1>4. tx[h] = NoTx
  BY AtIdle DEF UpdateEndpoint
<1> HIDE DEF q
<1>5. Mentions("update_account", q)
  BY <1>3 DEF Mentions, PcOf, Creating, Deleting, Setting
<1>6. Fits("update_account", q, tx[h])
  BY <1>3, <1>4, <1>5, EmptyTx DEF Fits, Pc, EditPc
<1> QED  BY <1>2, <1>6, QuietStep, Stays DEF UpdateEndpoint, Goto, q

LEMMA UpdateAccountRowStep ==
  ASSUME TablesInv, RequestsInv, NEW h \in Handlers, UpdateAccountRow(h)
  PROVE  HandlerStep(h)
<1>1. Fits("update_account", req[h], tx[h]) /\ req[h].op = "update_endpoint"
  BY Here DEF UpdateAccountRow
<1>2. Mentions("update_model", req[h]) /\ "update_model" \in Pc
  BY <1>1 DEF Fits, Mentions, PcOf, Creating, Deleting, Setting, Pc, EditPc
<1> QED  BY <1>1, <1>2, LockingStep DEF UpdateAccountRow, Goto

LEMMA UpdateEndpointRowStep ==
  ASSUME TablesInv, RequestsInv, NEW h \in Handlers, UpdateEndpointRow(h)
  PROVE  HandlerStep(h)
<1>1. Fits("update_model", req[h], tx[h]) /\ req[h].op = "update_endpoint"
  BY Here DEF UpdateEndpointRow
<1>2. Mentions("commit", req[h]) /\ "commit" \in Pc
  BY <1>1 DEF Fits, Mentions, PcOf, Creating, Deleting, Setting, Pc, ServicePc
<1> QED  BY <1>1, <1>2, LockingStep DEF UpdateEndpointRow, Goto

LEMMA UpdatePoolRowStep ==
  ASSUME TablesInv, RequestsInv, NEW h \in Handlers, UpdatePoolRow(h)
  PROVE  HandlerStep(h)
<1>1. Fits("update_pool", req[h], tx[h]) /\ req[h].op \in Setting
  BY Here DEF UpdatePoolRow
<1>2. Mentions("commit", req[h]) /\ "commit" \in Pc
  BY <1>1 DEF Fits, Mentions, PcOf, Creating, Deleting, Setting, Pc, ServicePc
<1> QED  BY <1>1, <1>2, LockingStep DEF UpdatePoolRow, Goto

LEMMA EditStep ==
  ASSUME TablesInv, RequestsInv, NEW h \in Handlers, pc[h] = "idle",
         NEW op \in Setting, NEW p \in Pools, NEW C \in {SaasColumns, AdminColumns},
         Edit(h, op, p, C), pc' = [pc EXCEPT ![h] = "update_pool"],
         UNCHANGED <<db, used, tx, seen>>
  PROVE  HandlerStep(h)
<1>1. PICK N \in SUBSET C, v \in Settings :
        req' = [req EXCEPT ![h] = [NoRequest EXCEPT !.op = op, !.pool = p, !.named = N,
                  !.base = setting[p],
                  !.columns = [c \in C |-> IF c \in N THEN v ELSE setting[p][c]]]]
  BY DEF Edit
<1> DEFINE columns == [c \in C |-> IF c \in N THEN v ELSE setting[p][c]]
           base == setting[p]
           q == [NoRequest EXCEPT !.op = op, !.pool = p, !.named = N,
                   !.base = base, !.columns = columns]
<1>2. C \subseteq Columns
  BY DEF Columns
<1>3. base \in [Columns -> Settings]
  BY DEF RequestsInv, TypeOK
<1>4. /\ columns \in [C -> Settings]
      /\ \A c \in C : c \in N \/ columns[c] = base[c]
  BY <1>2, <1>3
<1>5. req' = [req EXCEPT ![h] = q]
  BY <1>1
<1> HIDE DEF columns, base
<1>6. columns \in {<<>>} \cup UNION {[B -> Settings] : B \in {SaasColumns, AdminColumns}}
  BY <1>4
<1>7. q \in Request /\ q.op = op /\ q.pool = p /\ q.named = N /\ q.base = base /\ q.columns = columns
  <2>1. op \in Ops
    BY DEF Setting, Ops
  <2> QED  BY <1>2, <1>3, <1>6, <2>1, EmptyRequest DEF NoRequest, Request
<1>8. tx[h] = NoTx
  BY AtIdle
<1> HIDE DEF q
<1>9. Mentions("update_pool", q)
  <2>1. \A c \in DOMAIN q.columns :
          c \in Columns /\ q.columns[c] \in Settings /\ (c \in q.named \/ q.columns[c] = q.base[c])
    BY <1>2, <1>4, <1>7
  <2> QED  BY <1>3, <1>7, <2>1 DEF Mentions, PcOf, Creating, Deleting, Setting
<1>10. Fits("update_pool", q, tx[h])
  BY <1>7, <1>8, <1>9, EmptyTx DEF Fits, Pc, EditPc, Setting
<1> QED  BY <1>5, <1>10, QuietStep, Stays

LEMMA UpdateServiceStep ==
  ASSUME TablesInv, RequestsInv, NEW h \in Handlers, UpdateService(h)
  PROVE  HandlerStep(h)
<1>1. PICK p \in Pools : Edit(h, "update_service", p, SaasColumns)
  BY DEF UpdateService, ServicePools
<1>2. pc[h] = "idle" /\ pc' = [pc EXCEPT ![h] = "update_pool"] /\ UNCHANGED <<db, used, tx, seen>>
  BY DEF UpdateService, Goto
<1>3. "update_service" \in Setting /\ SaasColumns \in {SaasColumns, AdminColumns}
  BY DEF Setting
<1> QED  BY <1>1, <1>2, <1>3, EditStep

LEMMA UpdatePoolStep ==
  ASSUME TablesInv, RequestsInv, NEW h \in Handlers, UpdatePool(h)
  PROVE  HandlerStep(h)
<1>1. PICK p \in Pools : Edit(h, "update_pool", p, AdminColumns)
  BY DEF UpdatePool
<1>2. pc[h] = "idle" /\ pc' = [pc EXCEPT ![h] = "update_pool"] /\ UNCHANGED <<db, used, tx, seen>>
  BY DEF UpdatePool, Goto
<1>3. "update_pool" \in Setting /\ AdminColumns \in {SaasColumns, AdminColumns}
  BY DEF Setting
<1> QED  BY <1>1, <1>2, <1>3, EditStep

----------------------------------------------------------------------------
(* Every step.                                                             *)

LEMMA HandlerSteps ==
  ASSUME TablesInv, RequestsInv, NEW h \in Handlers,
         Services(h) \/ Edits(h) \/ CommitAndEnd(h)
  PROVE  HandlerStep(h)
<1>1. Services(h) => HandlerStep(h)
  BY CreateServiceStep, AddEndpointsStep, ChooseAccountStep, InsertEndpointStep,
     EndpointsInsertedStep, InsertModelStep, DeleteEndpointStep, DeleteServiceStep,
     ListEndpointsStep, DeleteServiceRowsStep, DeleteEndpointRowsStep, EndpointsDeletedStep,
     CountReferencesStep, DeleteAccountStep, DeleteProviderStep, EndStep
  DEF Services, Fail
<1>2. Edits(h) => HandlerStep(h)
  BY CreateKeyStep, InsertKeyStep, UpdateKeyStep, UpdateKeyRowStep, ClearGrantsStep,
     InsertGrantsStep, UpdateEndpointStep, UpdateAccountRowStep, UpdateEndpointRowStep,
     UpdateServiceStep, UpdatePoolStep, UpdatePoolRowStep
  DEF Edits
<1>3. CommitAndEnd(h) => HandlerStep(h)
  BY EndStep DEF CommitAndEnd
<1> QED  BY <1>1, <1>2, <1>3

(* Requests that are one statement: what they insert is one row, and if    *)
(* that is an entity its name is new.                                      *)
Alone ==
  \/ \E r \in Row : r[1] # "key_grant" /\ (IsEntity(r) => Fresh(Name(r))) /\ InsertNow({r})
  \/ \E r \in db : r[1] \in {"grant", "key"} /\ DeleteNow({r})
  \/ UNCHANGED <<db, used, tx>>

LEMMA AloneStatement ==
  ASSUME TablesInv, Alone
  PROVE  Statement /\ tx' = tx
<1>1. ASSUME NEW r \in Row, IsEntity(r) => Fresh(Name(r)), InsertNow({r})
      PROVE  Statement /\ tx' = tx
  <2>1. {r} \in SUBSET Row /\ NewRows(used, {r})
    BY <1>1, NewRowsOf
  <2> QED  BY <1>1, <2>1 DEF Statement, InsertNow
<1>2. ASSUME NEW r \in db, DeleteNow({r})
      PROVE  Statement /\ tx' = tx
  BY <1>2 DEF Statement, DeleteNow
<1> QED  BY <1>1, <1>2 DEF Alone, Statement

LEMMA AloneSteps ==
  ASSUME TablesInv, AtOnce \/ Admin
  PROVE  Alone /\ UNCHANGED handlerVars
<1>1. AtOnce => Alone /\ UNCHANGED handlerVars
  <2>1. ASSUME DeleteKey
        PROVE  Alone
    <3>1. PICK k \in Keys, j \in Projects : <<"key", k, j>> \in db /\ DeleteNow({<<"key", k, j>>})
      BY <2>1 DEF DeleteKey
    <3> DEFINE row == <<"key", k, j>>
    <3>2. row \in db /\ row[1] = "key" /\ DeleteNow({row})
      BY <3>1
    <3> HIDE DEF row
    <3> QED  BY <3>2 DEF Alone
  <2>2. ASSUME CreateProvider
        PROVE  Alone
    <3>1. PICK j \in Projects, a \in Accounts :
            Fresh(<<"account", a>>) /\ InsertNow({<<"account", a, OrgOf[j]>>})
      BY <2>2 DEF CreateProvider
    <3> DEFINE row == <<"account", a, OrgOf[j]>>
    <3>2. row \in Row /\ row[1] # "key_grant" /\ Fresh(Name(row)) /\ InsertNow({row})
      BY <3>1, TablesAssumption DEF Row, Name
    <3> HIDE DEF row
    <3> QED  BY <3>2 DEF Alone
  <2> QED  BY <2>1, <2>2 DEF AtOnce, RevokeKey, DeleteKey, UpdateProvider, CreateProvider, Alone
<1>2. ASSUME NEW r, AdminInserts({r}), r \in Row, IsEntity(r) => Fresh(Name(r)), r[1] # "key_grant"
      PROVE  Alone /\ UNCHANGED handlerVars
  BY <1>2 DEF AdminInserts, Alone
<1>3. AdminProvider => Alone /\ UNCHANGED handlerVars
  <2> SUFFICES ASSUME NEW a \in Accounts, NEW o \in Orgs, Fresh(<<"account", a>>),
                      AdminInserts({<<"account", a, o>>})
               PROVE  Alone /\ UNCHANGED handlerVars
    BY DEF AdminProvider
  <2> DEFINE row == <<"account", a, o>>
  <2>1. row \in Row /\ row[1] # "key_grant" /\ Name(row) = <<"account", a>> /\ AdminInserts({row})
    BY DEF Row, Name
  <2> HIDE DEF row
  <2> QED  BY <1>2, <2>1
<1>4. AdminPool => Alone /\ UNCHANGED handlerVars
  <2> SUFFICES ASSUME NEW p \in Pools, NEW o \in Orgs, Fresh(<<"pool", p>>),
                      AdminInserts({<<"pool", p, o>>})
               PROVE  Alone /\ UNCHANGED handlerVars
    BY DEF AdminPool
  <2> DEFINE row == <<"pool", p, o>>
  <2>1. row \in Row /\ row[1] # "key_grant" /\ Name(row) = <<"pool", p>> /\ AdminInserts({row})
    BY DEF Row, Name
  <2> HIDE DEF row
  <2> QED  BY <1>2, <2>1
<1>5. AdminEndpoint => Alone /\ UNCHANGED handlerVars
  <2> SUFFICES ASSUME NEW e \in Endpoints, NEW a \in Accounts, Fresh(<<"endpoint", e>>),
                      AdminInserts({<<"endpoint", e, a>>})
               PROVE  Alone /\ UNCHANGED handlerVars
    BY DEF AdminEndpoint
  <2> DEFINE row == <<"endpoint", e, a>>
  <2>1. row \in Row /\ row[1] # "key_grant" /\ Name(row) = <<"endpoint", e>> /\ AdminInserts({row})
    BY DEF Row, Name
  <2> HIDE DEF row
  <2> QED  BY <1>2, <2>1
<1>6. AdminModel => Alone /\ UNCHANGED handlerVars
  <2> SUFFICES ASSUME NEW m \in Models, NEW p \in Pools, Fresh(<<"model", m>>),
                      AdminInserts({<<"model", m, p>>})
               PROVE  Alone /\ UNCHANGED handlerVars
    BY DEF AdminModel
  <2> DEFINE row == <<"model", m, p>>
  <2>1. row \in Row /\ row[1] # "key_grant" /\ Name(row) = <<"model", m>> /\ AdminInserts({row})
    BY DEF Row, Name
  <2> HIDE DEF row
  <2> QED  BY <1>2, <2>1
<1>7. AdminBind => Alone /\ UNCHANGED handlerVars
  <2> SUFFICES ASSUME NEW p \in Pools, NEW e \in Endpoints, AdminInserts({<<"member", p, e>>})
               PROVE  Alone /\ UNCHANGED handlerVars
    BY DEF AdminBind
  <2> DEFINE row == <<"member", p, e>>
  <2>1. row \in Row /\ row[1] # "key_grant" /\ ~IsEntity(row) /\ AdminInserts({row})
    BY DEF Row, IsEntity, Entities
  <2> HIDE DEF row
  <2> QED  BY <1>2, <2>1
<1>8. AdminGrant => Alone /\ UNCHANGED handlerVars
  <2> SUFFICES ASSUME NEW j \in Projects, NEW m \in Models, AdminInserts({<<"grant", j, m>>})
               PROVE  Alone /\ UNCHANGED handlerVars
    BY DEF AdminGrant
  <2> DEFINE row == <<"grant", j, m>>
  <2>1. row \in Row /\ row[1] # "key_grant" /\ ~IsEntity(row) /\ AdminInserts({row})
    BY DEF Row, IsEntity, Entities
  <2> HIDE DEF row
  <2> QED  BY <1>2, <2>1
<1>9. AdminKey => Alone /\ UNCHANGED handlerVars
  <2> SUFFICES ASSUME NEW k \in Keys, NEW j \in Projects, Fresh(<<"key", k>>),
                      AdminInserts({<<"key", k, j>>})
               PROVE  Alone /\ UNCHANGED handlerVars
    BY DEF AdminKey
  <2> DEFINE row == <<"key", k, j>>
  <2>1. row \in Row /\ row[1] # "key_grant" /\ Name(row) = <<"key", k>> /\ AdminInserts({row})
    BY DEF Row, Name
  <2> HIDE DEF row
  <2> QED  BY <1>2, <2>1
<1>10. AdminRevoke => Alone /\ UNCHANGED handlerVars
  <2> SUFFICES ASSUME NEW j \in Projects, NEW m \in Models, <<"grant", j, m>> \in db,
                      DeleteNow({<<"grant", j, m>>}), UNCHANGED handlerVars
               PROVE  Alone /\ UNCHANGED handlerVars
    BY DEF AdminRevoke
  <2> DEFINE row == <<"grant", j, m>>
  <2>1. row \in db /\ row[1] = "grant" /\ DeleteNow({row})
    OBVIOUS
  <2> HIDE DEF row
  <2> QED  BY <2>1 DEF Alone
<1> QED  BY <1>1, <1>3, <1>4, <1>5, <1>6, <1>7, <1>8, <1>9, <1>10 DEF Admin

(* What the edits of one statement are: of a key's enabled, of an account. *)
LEMMA AloneEdits ==
  ASSUME AtOnce \/ Admin, RequestsInv
  PROVE  /\ granted' = granted /\ setting' = setting
         /\ revoked \subseteq revoked'
         /\ \/ writer' = writer /\ revoked' \in SUBSET Keys
            \/ revoked' = revoked /\ UNCHANGED <<db, used, tx>>
                 /\ \E a \in Accounts : writer' = [writer EXCEPT ![a] = None]
<1>1. revoked \subseteq Keys
  BY DEF RequestsInv, TypeOK
<1>4. AtOnce \/ Admin => revoked \subseteq revoked'
  BY DEF AtOnce, RevokeKey, DeleteKey, UpdateProvider, editVars,
         Admin, AdminProvider, AdminPool, AdminEndpoint, AdminModel, AdminBind, AdminGrant,
         AdminKey, AdminRevoke, AdminInserts
<1>2. AtOnce => \/ granted' = granted /\ setting' = setting /\ writer' = writer /\ revoked' \in SUBSET Keys
                \/ /\ granted' = granted /\ setting' = setting
                   /\ revoked' = revoked /\ UNCHANGED <<db, used, tx>>
                   /\ \E a \in Accounts : writer' = [writer EXCEPT ![a] = None]
  BY <1>1 DEF AtOnce, RevokeKey, DeleteKey, UpdateProvider, editVars
<1>3. Admin => UNCHANGED editVars
  BY DEF Admin, AdminProvider, AdminPool, AdminEndpoint, AdminModel, AdminBind, AdminGrant,
         AdminKey, AdminRevoke, AdminInserts
<1> QED  BY <1>1, <1>2, <1>3, <1>4 DEF editVars

LEMMA EditsKeepHistory ==
  ASSUME NEW h \in Handlers, Edits(h)
  PROVE  UNCHANGED editVars
BY DEF Edits, CreateKey, InsertKey, UpdateKey, UpdateKeyRow, ClearGrants, InsertGrants,
       UpdateEndpoint, UpdateAccountRow, UpdateEndpointRow, UpdateService, UpdatePool, UpdatePoolRow

(* A step is one of a handler or a request of one statement.               *)
LEMMA Steps ==
  ASSUME TablesInv, RequestsInv, [Next]_vars
  PROVE  \/ \E h \in Handlers :
              /\ HandlerStep(h)
              /\ direct' = direct
              /\ \/ (Services(h) \/ Edits(h)) /\ UNCHANGED editVars
                 \/ CommitAndEnd(h) /\ EditsCommitted(h)
         \/ /\ Alone /\ UNCHANGED handlerVars /\ (AtOnce \/ Admin)
            /\ direct < MaxDirect /\ direct' = direct + 1
         \/ UNCHANGED vars
<1>1. ASSUME NEW h \in Handlers, Services(h), UNCHANGED <<editVars, direct>>
      PROVE  HandlerStep(h) /\ direct' = direct /\ UNCHANGED editVars
  BY <1>1, HandlerSteps
<1>2. ASSUME NEW h \in Handlers, Edits(h), UNCHANGED direct
      PROVE  HandlerStep(h) /\ direct' = direct /\ UNCHANGED editVars
  BY <1>2, HandlerSteps, EditsKeepHistory
<1>3. ASSUME NEW h \in Handlers, CommitAndEnd(h)
      PROVE  HandlerStep(h)
  BY <1>3, HandlerSteps
<1> QED  BY <1>1, <1>2, <1>3, AloneSteps DEF Next

LEMMA TablesNext ==
  ASSUME TablesInv, RequestsInv, [Next]_vars
  PROVE  Statement /\ TablesInv'
<1>1. UNCHANGED vars => Statement
  BY DEF vars, Statement
<1>2. Statement
  BY <1>1, Steps, AloneStatement DEF HandlerStep
<1> QED  BY <1>2, StatementStep

(* The types of what an edit leaves behind.                                *)
LEMMA EditsCommittedTypes ==
  ASSUME RequestsInv, NEW h \in Handlers, pc[h] = "commit", EditsCommitted(h)
  PROVE  /\ granted' \in [Keys -> SUBSET Models] /\ revoked' \subseteq Keys
         /\ writer' \in [Accounts \cup Endpoints -> (Handlers \X Endpoints) \cup {None}]
         /\ setting' \in [Pools -> [Columns -> Settings]]
<1>1. Fits("commit", req[h], tx[h]) /\ req[h] \in Request
  BY Here, Stays
<1>2. /\ granted \in [Keys -> SUBSET Models] /\ revoked \subseteq Keys
      /\ writer \in [Accounts \cup Endpoints -> (Handlers \X Endpoints) \cup {None}]
      /\ setting \in [Pools -> [Columns -> Settings]]
  BY DEF RequestsInv, TypeOK
<1>3. granted' \in [Keys -> SUBSET Models] /\ revoked' \subseteq Keys
  <2>1. req[h].op \in Keying => req[h].key \in Keys
    BY <1>1 DEF Fits, Mentions, Keying
  <2>2. req[h].models \subseteq Models
    BY <1>1 DEF Request
  <2> QED  BY <1>2, <2>1, <2>2 DEF EditsCommitted, Keying
<1>4. writer' \in [Accounts \cup Endpoints -> (Handlers \X Endpoints) \cup {None}]
  <2>1. ASSUME NEW x, <<"account", x>> \in tx[h].upd \/ <<"endpoint", x>> \in tx[h].upd
        PROVE  req[h].endpoint \in Endpoints
    <3>1. req[h].op = "update_endpoint"
      BY <1>1, <2>1 DEF Fits, Locks, Setting
    <3> QED  BY <1>1, <3>1 DEF Fits, Mentions
  <2> QED  BY <1>2, <2>1 DEF EditsCommitted
<1>5. setting' \in [Pools -> [Columns -> Settings]]
  <2>1. ASSUME NEW p \in Pools, NEW c, <<"pool", p>> \in tx[h].upd, c \in DOMAIN req[h].columns
        PROVE  req[h].columns[c] \in Settings
    <3>1. req[h].op \in Setting
      BY <1>1, <2>1 DEF Fits, Locks, Setting
    <3> QED  BY <1>1, <2>1, <3>1 DEF Fits, Mentions
  <2> QED  BY <1>2, <2>1 DEF EditsCommitted
<1> QED  BY <1>3, <1>4, <1>5

LEMMA RequestsNext ==
  ASSUME TablesInv, RequestsInv, [Next]_vars
  PROVE  RequestsInv'
<1>1. db' \subseteq Row /\ used' \subseteq Names(Row) /\ tx' \in [Handlers -> Transaction]
  BY TablesNext DEF TablesInv, TablesTyped
<1>2. TypeOK /\ MaxDirect \in Nat
  BY CatalogAssumption DEF RequestsInv
<1>3. ASSUME NEW h \in Handlers, HandlerStep(h)
      PROVE  /\ pc' \in [Handlers -> Pc] /\ req' \in [Handlers -> Request]
             /\ seen' \in [Handlers -> SUBSET Names(Row)]
             /\ \A o \in Handlers : Fits(pc'[o], req'[o], tx'[o])
  <2>1. PICK l, q, t : Moves(h, l, q, t) /\ Fits(l, q, t)
    BY <1>3 DEF HandlerStep
  <2>2. pc \in [Handlers -> Pc] /\ req \in [Handlers -> Request] /\ tx \in [Handlers -> Transaction]
    BY <1>2 DEF TypeOK
  <2>3. l \in Pc /\ q \in Request
    BY <2>1 DEF Fits
  <2>4. \A o \in Handlers : Fits(pc'[o], req'[o], tx'[o])
    <3>1. ASSUME NEW o \in Handlers, o # h
          PROVE  Fits(pc'[o], req'[o], tx'[o])
      BY <2>1, <2>2, <3>1, Stays DEF Moves
    <3>2. Fits(pc'[h], req'[h], tx'[h])
      BY <2>1, <2>2 DEF Moves
    <3> QED  BY <3>1, <3>2
  <2> QED  BY <2>1, <2>2, <2>3, <2>4 DEF Moves
<1>4. ASSUME NEW h \in Handlers, HandlerStep(h), direct' = direct,
             \/ UNCHANGED editVars
             \/ CommitAndEnd(h) /\ EditsCommitted(h)
      PROVE  RequestsInv'
  <2>1. /\ granted' \in [Keys -> SUBSET Models] /\ revoked' \subseteq Keys
        /\ writer' \in [Accounts \cup Endpoints -> (Handlers \X Endpoints) \cup {None}]
        /\ setting' \in [Pools -> [Columns -> Settings]]
    <3>1. CASE UNCHANGED editVars
      BY <1>2, <3>1 DEF TypeOK, editVars
    <3>2. CASE CommitAndEnd(h) /\ EditsCommitted(h)
      BY <3>2, EditsCommittedTypes DEF CommitAndEnd
    <3> QED  BY <1>4, <3>1, <3>2
  <2>2. direct' \in 0..MaxDirect
    BY <1>2, <1>4 DEF TypeOK
  <2>3. TypeOK'
    BY <1>1, <1>3, <1>4, <2>1, <2>2 DEF TypeOK
  <2> QED  BY <1>3, <1>4, <2>3 DEF RequestsInv
<1>5. ASSUME Alone, UNCHANGED handlerVars, AtOnce \/ Admin, direct < MaxDirect, direct' = direct + 1
      PROVE  RequestsInv'
  <2>1. /\ granted' \in [Keys -> SUBSET Models] /\ revoked' \subseteq Keys
        /\ writer' \in [Accounts \cup Endpoints -> (Handlers \X Endpoints) \cup {None}]
        /\ setting' \in [Pools -> [Columns -> Settings]]
    BY <1>2, <1>5, AloneEdits DEF TypeOK
  <2>2. direct' \in 0..MaxDirect
    BY <1>2, <1>5 DEF TypeOK
  <2>3. pc' = pc /\ req' = req /\ seen' = seen /\ tx' = tx
    BY <1>5, AloneStatement DEF handlerVars
  <2>4. TypeOK'
    BY <1>1, <1>2, <2>1, <2>2, <2>3 DEF TypeOK
  <2> QED  BY <2>3, <2>4 DEF RequestsInv
<1>6. ASSUME UNCHANGED vars
      PROVE  RequestsInv'
  BY <1>6 DEF RequestsInv, TypeOK, vars, handlerVars, editVars
<1> QED  BY <1>4, <1>5, <1>6, Steps

LEMMA CatalogInit == Init => TablesInv /\ RequestsInv
<1> SUFFICES ASSUME Init
             PROVE  TablesInv /\ RequestsInv
  OBVIOUS
<1>1. db \subseteq Row /\ Consistent(db) /\ UniqueNames(db) /\ used = Names(db)
  BY CatalogAssumption DEF Init
<1>2. tx \in [Handlers -> Transaction] /\ \A h \in Handlers : tx[h] = NoTx
  BY NothingOpen DEF Init
<1>3. TablesTyped /\ Stored(db, used)
  BY <1>1, <1>2, NamesOfPart DEF TablesTyped, Stored
<1>4. TablesInv
  BY <1>2, <1>3, NothingOpen DEF TablesInv
<1>5. granted \in [Keys -> SUBSET Models]
  BY DEF Init, KeyGrants
<1>6. setting \in [Pools -> [Columns -> Settings]]
  BY DEF Init
<1>7. pc \in [Handlers -> Pc] /\ req \in [Handlers -> Request] /\ seen \in [Handlers -> SUBSET Names(Row)]
  BY EmptyRequest DEF Init, Pc, ServicePc
<1>8. direct \in 0..MaxDirect /\ revoked \subseteq Keys
      /\ writer \in [Accounts \cup Endpoints -> (Handlers \X Endpoints) \cup {None}]
  BY CatalogAssumption DEF Init
<1>9. TypeOK
  BY <1>3, <1>5, <1>6, <1>7, <1>8 DEF TypeOK, TablesTyped
<1>10. Fits("idle", NoRequest, NoTx)
  <2>1. Mentions("idle", NoRequest)
    BY EmptyRequest DEF Mentions, PcOf, Creating, Deleting, Setting
  <2> QED  BY <2>1, EmptyRequest, EmptyTx DEF Fits, Pc, ServicePc
<1>11. RequestsInv
  BY <1>2, <1>9, <1>10 DEF RequestsInv, Init
<1> QED  BY <1>4, <1>11

(* A catalog's state is well typed, whatever its handlers do.              *)
THEOREM CatalogTypeCorrect == Spec => []TypeOK
<1> DEFINE I == TablesInv /\ RequestsInv
<1>1. Init => I
  BY CatalogInit
<1>2. I /\ [Next]_vars => I'
  BY TablesNext, RequestsNext
<1>3. I => TypeOK
  BY DEF RequestsInv
<1> QED  BY <1>1, <1>2, <1>3, PTL DEF Spec

(* Every row refers to rows that are there, and each has a name of its own.*)
ForeignKeys(rows) == Consistent(rows) /\ UniqueNames(rows)

(* Foreign keys and primary keys hold among the committed rows, and among  *)
(* the rows that each open transaction sees and may commit, although each  *)
(* statement was checked against what was there when it ran: the locks on  *)
(* parents keep them from being deleted in between.                        *)
THEOREM ForeignKeysHold ==
  Spec => [](ForeignKeys(db) /\ \A h \in Handlers : ForeignKeys(Visible(h)))
<1> DEFINE I == TablesInv /\ RequestsInv
<1>1. Init => I
  BY CatalogInit
<1>2. I /\ [Next]_vars => I'
  BY TablesNext, RequestsNext
<1>3. I => ForeignKeys(db) /\ \A h \in Handlers : ForeignKeys(Visible(h))
  BY VisibleIsView, ViewConsistent DEF ForeignKeys, TablesInv, TablesTyped, Stored
<1> QED  BY <1>1, <1>2, <1>3, PTL DEF Spec

----------------------------------------------------------------------------
(* The models of a key.                                                    *)

LEMMA KeyGrantRow ==
  ASSUME NEW k \in Keys, NEW m \in Models, NEW r, r = <<"key_grant", k, m>>
  PROVE  /\ r \in Row /\ r[1] = "key_grant" /\ r[2] = k /\ r[3] = m
         /\ ~IsEntity(r) /\ Name(r) = r
         /\ Parents(r) = {<<"key", k>>, <<"model", m>>}
BY ParentsOf DEF Row, IsEntity, Entities, Name

LEMMA EntityNamed ==
  ASSUME NEW rows \in SUBSET Row, NEW t, NEW x, <<t, x>> \in Names(rows)
  PROVE  <<t, x>> \in EntityNames /\ \E r \in rows : IsEntity(r) /\ Name(r) = <<t, x>>
BY Named2 DEF Names, EntityNames

(* A committed entity is settled.                                          *)
LEMMA CommittedSettled ==
  ASSUME TablesInv, NEW t, NEW x, <<t, x>> \in Names(db)
  PROVE  Settled(<<t, x>>)
<1>1. PICK r \in db : IsEntity(r) /\ Name(r) = <<t, x>>
  BY EntityNamed DEF TablesInv, TablesTyped
<1>2. r \in Row /\ <<t, x>> \in used
  BY <1>1 DEF TablesInv, TablesTyped, Stored, Names
<1>3. ASSUME NEW h \in Handlers, <<t, x>> \in Names(Ins(h))
      PROVE  FALSE
  <2>1. PICK q \in tx[h].ins : Name(q) = <<t, x>>
    BY <1>3 DEF Names, Ins
  <2>2. q \in Row
    BY <2>1 DEF TablesInv, TablesTyped, Transaction
  <2>3. IsEntity(q)
    BY <2>1, <2>2, Named2
  <2>4. Name(q) \notin Names(db)
    BY <2>1, <2>3 DEF TablesInv, Sound
  <2> QED  BY <1>1, <2>1, <2>4 DEF Names
<1> QED  BY <1>2, <1>3 DEF Settled

Confined(k) == KeyGrants(db, k) = {m \in granted[k] : <<"model", m>> \in Names(db)}

(* A key whose grants are lost only with their models.                     *)
LEMMA StaysConfined ==
  ASSUME TablesInv, TablesInv', Statement, NEW k \in Keys,
         Confined(k), granted'[k] = granted[k], granted[k] \subseteq Models,
         \A m \in granted[k] : Settled(<<"model", m>>),
         \A m \in Models : <<"key_grant", k, m>> \in db' => <<"key_grant", k, m>> \in db,
         \A m \in Models : <<"key_grant", k, m>> \in db /\ <<"model", m>> \in Names(db')
                             => <<"key_grant", k, m>> \in db'
  PROVE  Confined(k)'
<1>1. \A m \in Models : <<"key_grant", k, m>> \in db' => <<"model", m>> \in Names(db')
  BY KeyGrantRow DEF TablesInv, Stored, Consistent
<1>2. \A m \in granted[k] : <<"model", m>> \in Names(db') => <<"model", m>> \in Names(db)
  <2> SUFFICES ASSUME NEW m \in granted[k], <<"model", m>> \in Names(db')
               PROVE  <<"model", m>> \in Names(db)
    OBVIOUS
  <2>1. db' \subseteq Row
    BY DEF TablesInv, TablesTyped
  <2>2. PICK r \in db' : IsEntity(r) /\ Name(r) = <<"model", m>>
    BY <2>1, EntityNamed
  <2>3. r \in db
    BY <2>1, <2>2, SettledStays
  <2> QED  BY <2>2, <2>3 DEF Names
<1> QED  BY <1>1, <1>2 DEF Confined, KeyGrants

LEMMA UnusedKey ==
  ASSUME TablesInv, NEW k \in Keys, <<"key", k>> \notin used
  PROVE  KeyGrants(db, k) = {}
<1> SUFFICES ASSUME NEW m \in Models, <<"key_grant", k, m>> \in db
             PROVE  FALSE
  BY DEF KeyGrants
<1>1. <<"key", k>> \in Names(db)
  BY KeyGrantRow DEF TablesInv, Stored, Consistent
<1> QED  BY <1>1 DEF TablesInv, Stored

(* Two requests do not own the same key.                                   *)
Owning(h) == req[h].op \in Keying /\ pc[h] \notin {"key", "key_row"}

LEMMA OneOwner ==
  ASSUME TablesInv, KeysInv, NEW h \in Handlers, NEW o \in Handlers, h # o, Owning(h), Owning(o)
  PROVE  req[h].key # req[o].key
<1> SUFFICES ASSUME req[h].key = req[o].key
             PROVE  FALSE
  OBVIOUS
<1> DEFINE n == <<"key", req[h].key>>
<1>1. n \in tx[h].upd \/ n \in Names(tx[h].ins)
  BY DEF Owning, Keying, KeysInv, KeyRequest, OwnsKey, Ins
<1>2. n \in tx[o].upd \/ n \in Names(tx[o].ins)
  BY DEF Owning, Keying, KeysInv, KeyRequest, OwnsKey, Ins
<1>3. Apart(tx[h], tx[o]) /\ Apart(tx[o], tx[h])
  BY DEF TablesInv
<1>4. ~(n \in Names(tx[h].ins) /\ n \in Names(tx[o].ins))
  <2> SUFFICES ASSUME NEW r \in tx[h].ins, Name(r) = n, n \in Names(tx[o].ins)
               PROVE  FALSE
    BY DEF Names
  <2>1. r \in Row
    BY DEF TablesInv, TablesTyped, Transaction
  <2>2. IsEntity(r)
    BY <2>1, Named2
  <2> QED  BY <1>3, <2>2 DEF Apart
<1> HIDE DEF n
<1> QED  BY <1>1, <1>2, <1>3, <1>4 DEF Apart

LEMMA ServicesAreNoKeying ==
  ASSUME RequestsInv, NEW h \in Handlers, Services(h)
  PROVE  db' = db /\ req'[h].op \notin Keying /\ req'[h].op \notin {"update_endpoint"} \cup Setting
<1>1. db' = db
  BY DEF Services, CreateService, AddEndpoints, ChooseAccount, InsertEndpoint, EndpointsInserted,
         InsertModel, DeleteEndpoint, DeleteService, ListEndpoints, DeleteServiceRows,
         DeleteEndpointRows, EndpointsDeleted, CountReferences, DeleteAccount, DeleteProvider,
         Fail, Insert, Delete, Rollback
<1>2. req \in [Handlers -> Request]
  BY DEF RequestsInv, TypeOK
<1>3. CASE CreateService(h) \/ AddEndpoints(h) \/ DeleteEndpoint(h) \/ DeleteService(h) \/ DeleteProvider(h)
  <2>1. req'[h].op \in Creating \cup Deleting
    <3>1. CASE CreateService(h)
      BY <1>2, <3>1 DEF CreateService, NoRequest, Creating
    <3>2. CASE AddEndpoints(h)
      BY <1>2, <3>2 DEF AddEndpoints, NoRequest, Creating
    <3>3. CASE DeleteEndpoint(h)
      BY <1>2, <3>3 DEF DeleteEndpoint, NoRequest, Deleting
    <3>4. CASE DeleteService(h)
      BY <1>2, <3>4 DEF DeleteService, NoRequest, Deleting
    <3>5. CASE DeleteProvider(h)
      BY <1>2, <3>5 DEF DeleteProvider, NoRequest, Deleting
    <3> QED  BY <1>3, <3>1, <3>2, <3>3, <3>4, <3>5
  <2> QED  BY <1>1, <2>1 DEF Creating, Deleting, Keying, Setting
<1>4. CASE \/ ChooseAccount(h) \/ InsertEndpoint(h) \/ EndpointsInserted(h) \/ InsertModel(h)
           \/ ListEndpoints(h) \/ DeleteServiceRows(h) \/ DeleteEndpointRows(h)
           \/ EndpointsDeleted(h) \/ CountReferences(h) \/ DeleteAccount(h)
  <2>1. req[h].op \in Creating \cup Deleting
    <3>1. pc[h] \in {"account", "endpoint", "model", "list", "service", "rows", "references",
                     "delete_account"}
      BY <1>4 DEF ChooseAccount, InsertEndpoint, EndpointsInserted, InsertModel, ListEndpoints,
        DeleteServiceRows, DeleteEndpointRows, EndpointsDeleted, CountReferences, DeleteAccount
    <3> QED  BY <3>1, Here DEF Creating, Deleting
  <2>2. req'[h].op = req[h].op
    <3>1. CASE ChooseAccount(h)
      BY <1>2, <3>1 DEF ChooseAccount, Request
    <3>2. CASE ListEndpoints(h)
      BY <1>2, <3>2 DEF ListEndpoints, Request
    <3>3. CASE DeleteEndpointRows(h)
      BY <1>2, <3>3 DEF DeleteEndpointRows, Request
    <3>4. CASE \/ InsertEndpoint(h) \/ EndpointsInserted(h) \/ InsertModel(h) \/ DeleteServiceRows(h)
               \/ EndpointsDeleted(h) \/ CountReferences(h) \/ DeleteAccount(h)
      BY <3>4 DEF InsertEndpoint, EndpointsInserted, InsertModel, DeleteServiceRows,
        EndpointsDeleted, CountReferences, DeleteAccount
    <3> QED  BY <1>4, <3>1, <3>2, <3>3, <3>4
  <2> QED  BY <1>1, <2>1, <2>2 DEF Creating, Deleting, Keying, Setting
<1>5. CASE Fail(h)
  BY <1>1, <1>2, <1>5, EmptyRequest DEF Fail, Ends, Keying, Setting
<1> QED  BY <1>1, <1>3, <1>4, <1>5 DEF Services

LEMMA KeyRequestKept ==
  ASSUME NEW o \in Handlers, KeyRequest(o), tx'[o] = tx[o], req'[o] = req[o], pc'[o] = pc[o],
         Owning(o) => \A m \in Models : <<"key_grant", req[o].key, m>> \in db'
                                          => <<"key_grant", req[o].key, m>> \in db
  PROVE  KeyRequest(o)'
<1>1. OwnsKey(o, req[o].key)'
  BY DEF KeyRequest, OwnsKey, Ins
<1>2. ASSUME req[o].op \in Keying, pc[o] \in {"key_grants", "commit"}
      PROVE  /\ KeyGrants(db' \ Del(o), req[o].key) = {}
             /\ KeyGrants(Ins(o), req[o].key) = IF pc[o] = "commit" THEN req[o].models ELSE {}
  BY <1>2 DEF KeyRequest, KeyGrants, Owning
<1> QED  BY <1>1, <1>2 DEF KeyRequest, OwnsKey, Ins, Del

LEMMA InsertKeyOwns ==
  ASSUME TablesInv, RequestsInv, NEW h \in Handlers, InsertKey(h)
  PROVE  KeyRequest(h)'
<1>1. PICK k \in Keys :
        /\ Fresh(<<"key", k>>)
        /\ Insert(h, {<<"key", k, req[h].project>>})
        /\ req' = [req EXCEPT ![h].key = k]
  BY DEF InsertKey
<1> DEFINE row == <<"key", k, req[h].project>>
<1>2. /\ Fits("key", req[h], tx[h]) /\ req[h].op = "create_key" /\ req[h] \in Request
      /\ tx[h] \in Transaction
  BY Here, Stays DEF InsertKey
<1>3. Name(row) = <<"key", k>> /\ row[1] = "key"
  BY DEF Name
<1>4. tx'[h].ins = tx[h].ins \cup {row} /\ tx'[h].del = tx[h].del /\ db' = db
  BY <1>1, <1>2 DEF Insert, TablesInv, TablesTyped, Transaction
<1>5. tx[h].ins = {}
  <2> SUFFICES ASSUME NEW r \in tx[h].ins
               PROVE  FALSE
    OBVIOUS
  <2>1. r \in Row /\ r[1] \in {"key", "key_grant"} /\ r[2] = None
    BY <1>2 DEF Fits, Mentions, Inserts, Keying, Transaction
  <2>2. r[2] \in Keys
    BY <2>1, RowShape
  <2> QED  BY <2>1, <2>2, TablesAssumption
<1>6. req'[h].op = "create_key" /\ req'[h].key = k /\ pc'[h] = "key_grants"
  BY <1>1, <1>2 DEF InsertKey, Goto, Request, RequestsInv, TypeOK
<1>7. KeyGrants(tx'[h].ins, k) = {}
  <2> SUFFICES ASSUME NEW m \in Models, <<"key_grant", k, m>> = row
               PROVE  FALSE
    BY <1>4, <1>5 DEF KeyGrants
  <2> QED  BY <1>3, KeyGrantRow
<1>8. KeyGrants(db' \ tx'[h].del, k) = {}
  BY <1>1, <1>4, UnusedKey DEF KeyGrants, Fresh
<1>9. <<"key", k>> \in Names(tx'[h].ins)
  <2> HIDE DEF row
  <2> QED  BY <1>3, <1>4 DEF Names
<1> QED  BY <1>6, <1>7, <1>8, <1>9 DEF KeyRequest, OwnsKey, Ins, Del, Keying

LEMMA ClearGrantsOwns ==
  ASSUME TablesInv, RequestsInv, NEW h \in Handlers, KeyRequest(h), ClearGrants(h)
  PROVE  KeyRequest(h)'
<1> DEFINE V == Visible(h)
           R == {r \in V : r[1] = "key_grant" /\ r[2] = req[h].key}
           gone == Cascade(V, R \cap V)
<1>1. /\ Fits("clear_grants", req[h], tx[h]) /\ req[h].op = "update_key"
      /\ tx[h] \in Transaction /\ pc[h] = "clear_grants" /\ pc'[h] = "key_grants" /\ req' = req
  BY Here, Stays DEF ClearGrants, Goto, RequestsInv, TypeOK
<1>2. V \in SUBSET Row /\ R \cap V \in SUBSET V /\ R \cap V = R
  BY <1>1 DEF Visible, Transaction, TablesInv, TablesTyped
<1>3. tx'[h].ins = tx[h].ins \ gone /\ tx'[h].del = tx[h].del \cup gone /\ tx'[h].upd = tx[h].upd
      /\ db' = db
  BY <1>1 DEF ClearGrants, Delete, TablesInv, TablesTyped, Transaction
<1>4. R \subseteq gone
  <2> HIDE DEF V, R
  <2> QED  BY <1>2, CascadeOf
<1>5. \A m \in Models : <<"key_grant", req[h].key, m>> \in V => <<"key_grant", req[h].key, m>> \in gone
  <2>1. req[h].key \in Keys
    BY <1>1 DEF Fits, Mentions
  <2> HIDE DEF gone
  <2> SUFFICES ASSUME NEW m \in Models, <<"key_grant", req[h].key, m>> \in V
               PROVE  <<"key_grant", req[h].key, m>> \in R
    BY <1>4
  <2> QED  BY <2>1, KeyGrantRow
<1>6. tx[h].ins \subseteq V /\ db \ tx[h].del \subseteq V
  BY DEF Visible
<1> HIDE DEF gone, V
<1>7. KeyGrants(tx'[h].ins, req[h].key) = {} /\ KeyGrants(db' \ tx'[h].del, req[h].key) = {}
  BY <1>3, <1>5, <1>6 DEF KeyGrants
<1>8. <<"key", req[h].key>> \in tx'[h].upd
  BY <1>1, <1>3 DEF KeyRequest, OwnsKey
<1> QED  BY <1>1, <1>7, <1>8 DEF KeyRequest, OwnsKey, Ins, Del, Keying

LEMMA InsertGrantsOwns ==
  ASSUME TablesInv, RequestsInv, NEW h \in Handlers, KeyRequest(h), InsertGrants(h)
  PROVE  KeyRequest(h)'
<1> DEFINE k == req[h].key
           R == {<<"key_grant", k, m>> : m \in req[h].models}
<1>1. /\ Fits("key_grants", req[h], tx[h]) /\ req[h].op \in Keying /\ req[h] \in Request
      /\ tx[h] \in Transaction /\ pc[h] = "key_grants" /\ pc'[h] = "commit" /\ req' = req
  BY Here, Stays DEF InsertGrants, Goto, RequestsInv, TypeOK
<1>2. k \in Keys /\ req[h].models \subseteq Models
  BY <1>1 DEF Fits, Mentions, Keying, Request
<1>3. tx'[h].ins = tx[h].ins \cup R /\ tx'[h].del = tx[h].del /\ tx'[h].upd = tx[h].upd /\ db' = db
  BY <1>1 DEF InsertGrants, Insert, TablesInv, TablesTyped, Transaction
<1>4. KeyGrants(tx[h].ins, k) = {} /\ KeyGrants(db \ tx[h].del, k) = {}
  BY <1>1 DEF KeyRequest, Ins, Del
<1>5. \A m \in Models : <<"key_grant", k, m>> \in R <=> m \in req[h].models
  OBVIOUS
<1>6. OwnsKey(h, k)
  BY DEF KeyRequest
<1> HIDE DEF k, R
<1>7. KeyGrants(tx'[h].ins, k) = req[h].models
  BY <1>2, <1>3, <1>4, <1>5 DEF KeyGrants
<1>8. \/ req[h].op = "update_key" /\ <<"key", k>> \in tx'[h].upd
      \/ req[h].op = "create_key" /\ <<"key", k>> \in Names(tx'[h].ins)
  BY <1>1, <1>3, <1>6, NamesOfUnion DEF OwnsKey, Ins, Keying
<1>9. OwnsKey(h, k)'
  BY <1>1, <1>8 DEF OwnsKey, Ins, k
<1> QED  BY <1>1, <1>3, <1>4, <1>7, <1>9 DEF KeyRequest, Ins, Del, k

LEMMA EditsOwn ==
  ASSUME TablesInv, RequestsInv, NEW h \in Handlers, KeyRequest(h), Edits(h)
  PROVE  db' = db /\ KeyRequest(h)'
<1>1. db' = db
  BY DEF Edits, CreateKey, InsertKey, UpdateKey, UpdateKeyRow, ClearGrants, InsertGrants,
         UpdateEndpoint, UpdateAccountRow, UpdateEndpointRow, UpdateService, UpdatePool,
         UpdatePoolRow, UpdateIfThere, Insert, Update, Delete
<1>2. req \in [Handlers -> Request] /\ pc \in [Handlers -> Pc] /\ tx \in [Handlers -> Transaction]
  BY DEF RequestsInv, TypeOK
<1>3. CASE CreateKey(h)
  <2>1. req'[h].op = "create_key" /\ pc'[h] = "key"
    BY <1>2, <1>3 DEF CreateKey, Goto, NoRequest
  <2> QED  BY <1>1, <2>1 DEF KeyRequest, OwnsKey
<1>4. CASE UpdateKey(h)
  <2>1. req'[h].op = "update_key" /\ pc'[h] = "key_row"
    BY <1>2, <1>4 DEF UpdateKey, Goto, NoRequest
  <2> QED  BY <1>1, <2>1 DEF KeyRequest, OwnsKey
<1>5. CASE UpdateKeyRow(h)
  <2>1. req' = req /\ req[h].op = "update_key" /\ pc'[h] = "clear_grants"
    BY <1>2, <1>5, Here DEF UpdateKeyRow, Goto
  <2>2. <<"key", req[h].key>> \in tx'[h].upd
    BY <1>2, <1>5 DEF UpdateKeyRow, Update, Transaction
  <2> QED  BY <1>1, <2>1, <2>2 DEF KeyRequest, OwnsKey
<1>6. CASE UpdateEndpoint(h) \/ UpdateService(h) \/ UpdatePool(h)
  <2>1. req'[h].op \in {"update_endpoint", "update_service", "update_pool"}
    <3>1. CASE UpdateEndpoint(h)
      BY <1>2, <3>1 DEF UpdateEndpoint, NoRequest
    <3>2. CASE UpdateService(h)
      BY <1>2, <3>2 DEF UpdateService, Edit, NoRequest
    <3>3. CASE UpdatePool(h)
      BY <1>2, <3>3 DEF UpdatePool, Edit, NoRequest
    <3> QED  BY <1>6, <3>1, <3>2, <3>3
  <2> QED  BY <1>1, <2>1 DEF KeyRequest, OwnsKey, Keying
<1>7. CASE UpdateAccountRow(h) \/ UpdateEndpointRow(h) \/ UpdatePoolRow(h)
  <2>1. req' = req /\ req[h].op \in {"update_endpoint", "update_service", "update_pool"}
    BY <1>7, Here DEF UpdateAccountRow, UpdateEndpointRow, UpdatePoolRow, Setting
  <2> QED  BY <1>1, <2>1 DEF KeyRequest, OwnsKey, Keying
<1> QED
  BY <1>1, <1>3, <1>4, <1>5, <1>6, <1>7, InsertKeyOwns, ClearGrantsOwns, InsertGrantsOwns DEF Edits

LEMMA NoKeyRequest ==
  ASSUME NEW h \in Handlers, req'[h].op \notin Keying
  PROVE  KeyRequest(h)'
BY DEF KeyRequest, OwnsKey, Keying

LEMMA OthersStay ==
  ASSUME RequestsInv, NEW h \in Handlers, HandlerStep(h), NEW o \in Handlers, o # h
  PROVE  tx'[o] = tx[o] /\ req'[o] = req[o] /\ pc'[o] = pc[o]
BY Stays DEF HandlerStep, Moves, RequestsInv, TypeOK

LEMMA UsedGrows == Statement => used \subseteq used'
BY DEF Statement, Insert, Update, Delete, Commit, Rollback, InsertNow, DeleteNow

LEMMA GrantedSettled ==
  ASSUME TablesInv, RequestsInv, Statement, KeysInv
  PROVE  \A k \in Keys : \A m \in granted[k] : Settled(<<"model", m>>)'
<1> SUFFICES ASSUME NEW k \in Keys, NEW m \in granted[k]
             PROVE  Settled(<<"model", m>>)'
  OBVIOUS
<1>1. Settled(<<"model", m>>)
  BY DEF KeysInv
<1>2. <<"model", m>> \in EntityNames
  BY <1>1, EntityNamed DEF Settled, TablesInv, TablesTyped
<1> QED  BY <1>1, <1>2, SettledStays

(* Steps that commit nothing.                                              *)
LEMMA KeysQuiet ==
  ASSUME TablesInv, RequestsInv, KeysInv, NEW h \in Handlers, HandlerStep(h),
         db' = db, granted' = granted, KeyRequest(h)'
  PROVE  KeysInv'
<1>1. Statement
  BY DEF HandlerStep
<1>2. KeyGrantsWhole'
  BY DEF KeysInv, KeyGrantsWhole
<1>3. \A k \in Keys : <<"key", k>> \notin used' => granted'[k] = {}
  BY <1>1, UsedGrows DEF KeysInv
<1>4. \A k \in Keys : \A m \in granted'[k] : Settled(<<"model", m>>)'
  BY <1>1, GrantedSettled
<1>5. \A o \in Handlers : KeyRequest(o)'
  <2> SUFFICES ASSUME NEW o \in Handlers, o # h
               PROVE  KeyRequest(o)'
    OBVIOUS
  <2> QED  BY OthersStay, KeyRequestKept DEF KeysInv
<1> QED  BY <1>2, <1>3, <1>4, <1>5 DEF KeysInv

LEMMA ModelsSettled ==
  TablesInv => \A m \in Models : <<"model", m>> \in Names(db) => Settled(<<"model", m>>)
BY CommittedSettled

LEMMA Committing ==
  ASSUME TablesInv, RequestsInv, NEW h \in Handlers, CommitAndEnd(h)
  PROVE  /\ HandlerStep(h) /\ Statement /\ TablesInv'
         /\ pc[h] = "commit" /\ Fits("commit", req[h], tx[h]) /\ tx[h] \in Transaction
         /\ db' = (db \ tx[h].del) \cup tx[h].ins /\ used' = used
         /\ pc'[h] = "ended" /\ req'[h].op = "none" /\ seen'[h] = {}
<1>1. HandlerStep(h)
  BY HandlerSteps
<1>2. Statement /\ TablesInv'
  BY <1>1, StatementStep DEF HandlerStep
<1>3. pc'[h] = "ended" /\ req'[h].op = "none" /\ seen'[h] = {}
  BY EmptyRequest DEF CommitAndEnd, Ends, Goto, RequestsInv, TypeOK
<1> QED  BY <1>1, <1>2, <1>3, Here, Stays DEF CommitAndEnd, Commit, Visible

(* A commit and the grants of a key other than the one it edits.           *)
LEMMA GrantsOfOthers ==
  ASSUME TablesInv, RequestsInv, NEW h \in Handlers, CommitAndEnd(h),
         NEW k \in Keys, req[h].op \in Keying => k # req[h].key
  PROVE  /\ \A m \in Models : <<"key_grant", k, m>> \in db' => <<"key_grant", k, m>> \in db
         /\ \A m \in Models : <<"key_grant", k, m>> \in db /\ <<"model", m>> \in Names(db')
                                => <<"key_grant", k, m>> \in db'
         /\ <<"key", k>> \in Names(db') => <<"key", k>> \in Names(db)
<1>1. /\ Fits("commit", req[h], tx[h]) /\ db' = (db \ tx[h].del) \cup tx[h].ins
      /\ tx[h] \in Transaction
  BY Committing
<1>2. \A r \in tx[h].ins : ~(r[1] \in {"key", "key_grant"} /\ r[2] = k)
  BY <1>1 DEF Fits, Inserts
<1>3. \A m \in Models : <<"key_grant", k, m>> \in db' => <<"key_grant", k, m>> \in db
  <2> SUFFICES ASSUME NEW m \in Models, <<"key_grant", k, m>> \in tx[h].ins
               PROVE  FALSE
    BY <1>1
  <2> QED  BY <1>2, KeyGrantRow
<1>4. ASSUME NEW m \in Models, <<"key_grant", k, m>> \in tx[h].del, <<"model", m>> \in Names(db')
      PROVE  FALSE
  <2> DEFINE r == <<"key_grant", k, m>>
  <2>1. r \in tx[h].del /\ r[1] = "key_grant" /\ r[2] = k /\ r[3] = m
    BY <1>4, KeyGrantRow
  <2> HIDE DEF r
  <2>2. <<"model", m>> \in Names(tx[h].del)
    <3>1. req[h].op \in Deleting
      BY <1>1, <2>1 DEF Fits, Deletes, Keying
    <3> QED  BY <1>1, <2>1, <3>1 DEF Fits, Deletes
  <2>3. db' \subseteq Row
    BY Committing DEF TablesInv, TablesTyped
  <2>4. PICK q \in db' : IsEntity(q) /\ Name(q) = <<"model", m>>
    BY <1>4, <2>3, EntityNamed
  <2>5. q \in View(db, tx[h])
    BY <1>1, <2>4 DEF View
  <2> QED  BY <2>2, <2>4, <2>5 DEF TablesInv, Sound
<1>5. ASSUME <<"key", k>> \in Names(db')
      PROVE  <<"key", k>> \in Names(db)
  <2>1. PICK q \in db' : Name(q) = <<"key", k>>
    BY <1>5 DEF Names
  <2>2. q \in Row
    BY <2>1, Committing DEF TablesInv, TablesTyped
  <2>3. q[1] = "key" /\ q[2] = k
    BY <2>1, <2>2, Named2
  <2> QED  BY <1>1, <1>2, <2>1, <2>3 DEF Names
<1> QED  BY <1>1, <1>3, <1>4, <1>5

LEMMA KeysCommit ==
  ASSUME TablesInv, RequestsInv, KeysInv, NEW h \in Handlers, CommitAndEnd(h), EditsCommitted(h)
  PROVE  KeysInv'
<1> DEFINE K == req[h].key
<1>1. /\ HandlerStep(h) /\ Statement /\ TablesInv'
      /\ pc[h] = "commit" /\ Fits("commit", req[h], tx[h]) /\ tx[h] \in Transaction
      /\ db' = (db \ tx[h].del) \cup tx[h].ins /\ used' = used
      /\ req'[h].op = "none"
  BY Committing
<1>2. granted \in [Keys -> SUBSET Models] /\ req[h].models \subseteq Models
  BY Stays DEF RequestsInv, TypeOK, Request
<1>3. req[h].op \in Keying => K \in Keys /\ Owning(h)
  BY <1>1 DEF Fits, Mentions, Keying, Owning
<1>4. \A k \in Keys : granted'[k] = IF req[h].op \in Keying /\ k = K THEN req[h].models ELSE granted[k]
  BY <1>2, <1>3 DEF EditsCommitted, Keying
<1>5. ASSUME NEW k \in Keys, req[h].op \in Keying /\ k = K
      PROVE  Confined(k)' /\ \A m \in granted'[k] : Settled(<<"model", m>>)'
  <2>1. KeyGrants(db \ tx[h].del, k) = {} /\ KeyGrants(tx[h].ins, k) = req[h].models
    BY <1>1, <1>5 DEF KeysInv, KeyRequest, Ins, Del
  <2>2. KeyGrants(db', k) = req[h].models
    BY <1>1, <2>1 DEF KeyGrants
  <2>3. \A m \in req[h].models : m \in Models /\ <<"key_grant", k, m>> \in db'
    BY <2>2 DEF KeyGrants
  <2>4. \A m \in req[h].models : <<"model", m>> \in Names(db')
    <3>1. Consistent(db')
      BY <1>1 DEF TablesInv, Stored
    <3> SUFFICES ASSUME NEW m \in req[h].models
                 PROVE  <<"model", m>> \in Names(db')
      OBVIOUS
    <3>2. PICK r \in db' : r = <<"key_grant", k, m>>
      BY <2>3
    <3>3. Parents(r) = {<<"key", k>>, <<"model", m>>}
      BY <2>3, <3>2, KeyGrantRow
    <3> QED  BY <3>1, <3>2, <3>3 DEF Consistent
  <2>5. granted'[k] = req[h].models
    BY <1>4, <1>5
  <2>6. \A m \in Models : <<"model", m>> \in Names(db') => Settled(<<"model", m>>)'
    <3>1. TablesInv' => (\A m \in Models : <<"model", m>> \in Names(db) => Settled(<<"model", m>>))'
      BY ModelsSettled, PTL
    <3> QED  BY <1>1, <3>1
  <2> HIDE DEF K
  <2> QED  BY <2>2, <2>3, <2>4, <2>5, <2>6 DEF Confined
<1>6. ASSUME NEW k \in Keys, ~(req[h].op \in Keying /\ k = K), <<"key", k>> \in Names(db')
      PROVE  Confined(k)'
  <2>1. /\ \A m \in Models : <<"key_grant", k, m>> \in db' => <<"key_grant", k, m>> \in db
        /\ \A m \in Models : <<"key_grant", k, m>> \in db /\ <<"model", m>> \in Names(db')
                                => <<"key_grant", k, m>> \in db'
        /\ <<"key", k>> \in Names(db)
    BY <1>6, GrantsOfOthers
  <2>2. Confined(k)
    BY <2>1 DEF KeysInv, KeyGrantsWhole, Confined
  <2>3. granted'[k] = granted[k] /\ granted[k] \subseteq Models
    BY <1>2, <1>4, <1>6
  <2>4. \A m \in granted[k] : Settled(<<"model", m>>)
    BY DEF KeysInv
  <2> QED  BY <1>1, <2>1, <2>2, <2>3, <2>4, StaysConfined
<1>7. KeyGrantsWhole'
  BY <1>5, <1>6 DEF KeyGrantsWhole, Confined
<1>8. \A k \in Keys : <<"key", k>> \notin used' => granted'[k] = {}
  <2>1. ASSUME req[h].op \in Keying
        PROVE  <<"key", K>> \in used
    <3>1. <<"key", K>> \in tx[h].upd \cup Names(tx[h].ins)
      BY <1>1, <2>1 DEF KeysInv, KeyRequest, OwnsKey, Keying, Ins
    <3> HIDE DEF K
    <3> QED  BY <3>1 DEF TablesInv, Sound
  <2> QED  BY <1>1, <1>4, <2>1 DEF KeysInv
<1>9. \A k \in Keys : \A m \in granted'[k] : Settled(<<"model", m>>)'
  <2>1. \A k \in Keys : \A m \in granted[k] : Settled(<<"model", m>>)'
    BY <1>1, GrantedSettled
  <2> QED  BY <1>4, <1>5, <2>1
<1>10. \A o \in Handlers : KeyRequest(o)'
  <2>1. KeyRequest(h)'
    BY <1>1, NoKeyRequest DEF Keying
  <2>2. ASSUME NEW o \in Handlers, o # h
        PROVE  KeyRequest(o)'
    <3>1. ASSUME Owning(o)
          PROVE  \A m \in Models : <<"key_grant", req[o].key, m>> \in db'
                                     => <<"key_grant", req[o].key, m>> \in db
      <4>1. Fits(pc[o], req[o], tx[o])
        BY Stays
      <4>2. req[o].key \in Keys
        BY <3>1, <4>1 DEF Owning, Fits, Mentions, Keying
      <4>3. req[h].op \in Keying => req[o].key # K
        BY <1>3, <2>2, <3>1, OneOwner
      <4> QED  BY <4>2, <4>3, GrantsOfOthers
    <3> QED  BY <1>1, <2>2, <3>1, OthersStay, KeyRequestKept DEF KeysInv
  <2> QED  BY <2>1, <2>2
<1> QED  BY <1>7, <1>8, <1>9, <1>10 DEF KeysInv

(* What the deletion of a key or of a grant to a project takes along.      *)
LEMMA DeletedAlone ==
  ASSUME TablesInv, NEW r \in db, r[1] \in {"grant", "key"}, DeleteNow({r})
  PROVE  \A g \in db : g \in db' \/ g = r \/ (g[1] = "key_grant" /\ Name(r) = <<"key", g[2]>>)
<1> DEFINE gone == Cascade(db, {r} \cap db)
<1>1. db \in SUBSET Row /\ {r} \cap db \in SUBSET db /\ {r} \cap db = {r}
  BY DEF TablesInv, TablesTyped
<1>2. \A g \in gone : \/ g = r
                      \/ Name(r) \in Parents(g)
                      \/ \E c \in gone : Name(c) \in Parents(g) /\ Name(r) \in Parents(c)
  BY <1>1, CascadeOf
<1>3. gone \subseteq Row
  BY <1>1, CascadeOf
<1>4. db' = db \ gone
  BY DEF DeleteNow
<1> HIDE DEF gone
<1>5. ASSUME NEW g \in Row, Name(r) \in Parents(g)
      PROVE  g[1] = "key_grant" /\ Name(r) = <<"key", g[2]>>
  <2>1. IsEntity(r) /\ r \in Row
    BY <1>1, <1>5, ParentIsEntity
  <2>2. Name(r) = <<"key", r[2]>>
    BY <2>1, NameOf DEF IsEntity, Entities
  <2> QED  BY <1>5, <2>2, ParentKinds
<1>6. ASSUME NEW g \in gone, NEW c \in gone, Name(c) \in Parents(g), Name(r) \in Parents(c)
      PROVE  FALSE
  <2>1. c[1] = "key_grant"
    BY <1>3, <1>5, <1>6
  <2> QED  BY <1>3, <1>6, <2>1, ParentIsEntity
<1> QED  BY <1>2, <1>3, <1>4, <1>5, <1>6

(* Only handlers set the grants of a key, and they go with the key.        *)
LEMMA AloneGrants ==
  ASSUME TablesInv, Alone
  PROVE  /\ \A k \in Keys, m \in Models : <<"key_grant", k, m>> \in db' => <<"key_grant", k, m>> \in db
         /\ \A k \in Keys, m \in Models :
              <<"key", k>> \in Names(db') /\ <<"key_grant", k, m>> \in db => <<"key_grant", k, m>> \in db'
<1>1. \A k \in Keys, m \in Models : <<"key_grant", k, m>> \in db' => <<"key_grant", k, m>> \in db
  <2> SUFFICES ASSUME NEW k \in Keys, NEW m \in Models
               PROVE  <<"key_grant", k, m>> \in db' => <<"key_grant", k, m>> \in db
    OBVIOUS
  <2>1. PICK g : g = <<"key_grant", k, m>>
    OBVIOUS
  <2>2. g[1] = "key_grant"
    BY <2>1
  <2>3. g \in db' => g \in db
    BY <2>2 DEF Alone, InsertNow, DeleteNow
  <2> QED  BY <2>1, <2>3
<1>2. ASSUME NEW k \in Keys, <<"key", k>> \in Names(db'), NEW m \in Models,
             <<"key_grant", k, m>> \in db
      PROVE  <<"key_grant", k, m>> \in db'
  <2>1. PICK g \in db : g = <<"key_grant", k, m>>
    BY <1>2
  <2>2. g[1] = "key_grant" /\ g[2] = k
    BY <2>1
  <2>3. ASSUME NEW r \in db, r[1] \in {"grant", "key"}, DeleteNow({r}), g \notin db'
        PROVE  FALSE
    <3>1. Name(r) = <<"key", k>>
      BY <2>2, <2>3, DeletedAlone
    <3>2. PICK q \in db' : Name(q) = <<"key", k>>
      BY <1>2 DEF Names
    <3>3. q \in db
      BY <2>3, <3>2 DEF DeleteNow
    <3>4. q = r
      BY <3>1, <3>2, <3>3 DEF TablesInv, Stored, UniqueNames
    <3>5. r \notin db'
      <4>1. db \in SUBSET Row /\ {r} \cap db \in SUBSET db
        BY DEF TablesInv, TablesTyped
      <4>2. r \in Cascade(db, {r} \cap db)
        BY <4>1, CascadeOf
      <4> QED  BY <2>3, <4>2 DEF DeleteNow
    <3> QED  BY <3>2, <3>4, <3>5
  <2>4. g \in db'
    BY <2>3 DEF Alone, InsertNow
  <2> QED  BY <2>1, <2>4
<1> QED  BY <1>1, <1>2

LEMMA KeysAlone ==
  ASSUME TablesInv, RequestsInv, KeysInv, Alone, granted' = granted, UNCHANGED handlerVars
  PROVE  KeysInv'
<1>1. Statement /\ tx' = tx /\ TablesInv'
  BY AloneStatement, StatementStep
<1>2. granted \in [Keys -> SUBSET Models]
  BY DEF RequestsInv, TypeOK
<1>3. \A k \in Keys, m \in Models : <<"key_grant", k, m>> \in db' => <<"key_grant", k, m>> \in db
  BY AloneGrants
<1>4. \A k \in Keys, m \in Models :
        <<"key", k>> \in Names(db') /\ <<"key_grant", k, m>> \in db => <<"key_grant", k, m>> \in db'
  BY AloneGrants
<1>5. ASSUME NEW k \in Keys, <<"key", k>> \in Names(db')
      PROVE  Confined(k)
  <2>1. CASE <<"key", k>> \in Names(db)
    BY <2>1 DEF KeysInv, KeyGrantsWhole, Confined
  <2>2. CASE <<"key", k>> \notin used
    BY <2>2, UnusedKey DEF KeysInv, Confined
  <2>3. <<"key", k>> \in Names(db) \/ <<"key", k>> \notin used
    <3>1. PICK q \in db' : Name(q) = <<"key", k>>
      BY <1>5 DEF Names
    <3>2. q \in Row
      BY <1>1, <3>1 DEF TablesInv, TablesTyped
    <3>3. IsEntity(q)
      BY <3>1, <3>2, Named2
    <3>4. q \in db \/ Fresh(Name(q))
      BY <3>1, <3>3 DEF Alone, InsertNow, DeleteNow
    <3> QED  BY <3>1, <3>4 DEF Names, Fresh
  <2> QED  BY <2>1, <2>2, <2>3
<1>6. KeyGrantsWhole'
  <2> SUFFICES ASSUME NEW k \in Keys, <<"key", k>> \in Names(db')
               PROVE  Confined(k)'
    BY DEF KeyGrantsWhole, Confined
  <2>1. granted'[k] = granted[k] /\ granted[k] \subseteq Models
    BY <1>2
  <2>2. \A m \in granted[k] : Settled(<<"model", m>>)
    BY DEF KeysInv
  <2> QED  BY <1>1, <1>3, <1>4, <1>5, <2>1, <2>2, StaysConfined
<1>7. \A k \in Keys : <<"key", k>> \notin used' => granted'[k] = {}
  BY <1>1, UsedGrows DEF KeysInv
<1>8. \A k \in Keys : \A m \in granted'[k] : Settled(<<"model", m>>)'
  BY <1>1, GrantedSettled
<1>9. \A o \in Handlers : KeyRequest(o)'
  <2> SUFFICES ASSUME NEW o \in Handlers
               PROVE  KeyRequest(o)'
    OBVIOUS
  <2>1. Owning(o) => req[o].key \in Keys
    BY Stays DEF Owning, Fits, Mentions, Keying
  <2>2. tx'[o] = tx[o] /\ req'[o] = req[o] /\ pc'[o] = pc[o] /\ KeyRequest(o)
    BY <1>1 DEF handlerVars, KeysInv
  <2> QED  BY <1>3, <2>1, <2>2, KeyRequestKept
<1> QED  BY <1>6, <1>7, <1>8, <1>9 DEF KeysInv

LEMMA KeysNext ==
  ASSUME TablesInv, RequestsInv, KeysInv, [Next]_vars
  PROVE  KeysInv'
<1>1. ASSUME NEW h \in Handlers, HandlerStep(h), Services(h), UNCHANGED editVars
      PROVE  KeysInv'
  BY <1>1, ServicesAreNoKeying, NoKeyRequest, KeysQuiet DEF editVars
<1>2. ASSUME NEW h \in Handlers, HandlerStep(h), Edits(h), UNCHANGED editVars
      PROVE  KeysInv'
  <2>1. KeyRequest(h)
    BY DEF KeysInv
  <2> QED  BY <1>2, <2>1, EditsOwn, KeysQuiet DEF editVars
<1>3. ASSUME Alone, UNCHANGED handlerVars, AtOnce \/ Admin
      PROVE  KeysInv'
  BY <1>3, AloneEdits, KeysAlone
<1>4. ASSUME UNCHANGED vars
      PROVE  KeysInv'
  BY <1>4 DEF vars, handlerVars, editVars, KeysInv, KeyGrantsWhole, Settled, KeyRequest, OwnsKey,
              Ins, Del
<1> QED  BY <1>1, <1>2, <1>3, <1>4, Steps, KeysCommit

LEMMA KeysInit == Init => KeysInv
<1> SUFFICES ASSUME Init
             PROVE  KeysInv
  OBVIOUS
<1>1. TablesInv /\ \A k \in Keys : granted[k] = KeyGrants(db, k)
  BY CatalogInit DEF Init
<1>2. \A k \in Keys, m \in Models : <<"key_grant", k, m>> \in db => <<"model", m>> \in Names(db)
  BY <1>1, KeyGrantRow DEF TablesInv, Stored, Consistent
<1>3. KeyGrantsWhole
  BY <1>1, <1>2 DEF KeyGrantsWhole, KeyGrants
<1>4. \A k \in Keys : <<"key", k>> \notin used => granted[k] = {}
  BY <1>1, UnusedKey
<1>5. \A k \in Keys : \A m \in granted[k] : Settled(<<"model", m>>)
  BY <1>1, <1>2, CommittedSettled DEF KeyGrants
<1>6. \A h \in Handlers : KeyRequest(h)
  BY EmptyRequest DEF Init, KeyRequest, OwnsKey, Keying
<1> QED  BY <1>3, <1>4, <1>5, <1>6 DEF KeysInv

(* Whatever requests edit a key at once, while others delete models, the   *)
(* models a key is confined to are those of the last request that set them *)
(* and that are still there: the UPDATE of the key's row makes the second  *)
(* request wait, although the DELETE of its grants alone would not.        *)
THEOREM KeyGrantsAreWhole == Spec => []KeyGrantsWhole
<1> DEFINE I == TablesInv /\ RequestsInv /\ KeysInv
<1>1. Init => I
  BY CatalogInit, KeysInit
<1>2. I /\ [Next]_vars => I'
  BY TablesNext, RequestsNext, KeysNext
<1>3. I => KeyGrantsWhole
  BY DEF KeysInv
<1> QED  BY <1>1, <1>2, <1>3, PTL DEF Spec

----------------------------------------------------------------------------
(* Endpoints that a request has seen.                                      *)

(* What has seen nothing, and what has done nothing.                       *)
LEMMA SeenNothing ==
  ASSUME NEW h \in Handlers, seen'[h] = {}
  PROVE  SeenRequest(h)'
BY DEF SeenRequest

LEMMA SeenSettled ==
  ASSUME TablesInv, Statement, NEW h \in Handlers, SeenRequest(h)
  PROVE  \A n \in seen[h] : n \in EntityNames /\ Settled(n)'
BY SettledStays DEF SeenRequest

LEMMA SeenKept ==
  ASSUME TablesInv, TablesInv', Statement, NEW o \in Handlers, SeenRequest(o),
         tx'[o] = tx[o], req'[o] = req[o], pc'[o] = pc[o], seen'[o] = seen[o]
  PROVE  SeenRequest(o)'
<1>1. \A n \in seen'[o] : n \in EntityNames /\ Settled(n)'
  BY SeenSettled
<1>2. ASSUME pc[o] = "delete_account", NEW r \in db', r[1] = "endpoint", Name(r) \in seen[o]
      PROVE  r[3] # req[o].account
  <2>1. r \in Row /\ IsEntity(r) /\ Settled(Name(r))
    BY <1>2 DEF IsEntity, Entities, SeenRequest, TablesInv, TablesTyped
  <2>2. r \in db
    BY <2>1, SettledStays
  <2> QED  BY <1>2, <2>2 DEF SeenRequest
<1> QED  BY <1>1, <1>2 DEF SeenRequest, DeletedEndpoints

(* A step of the handler that neither looks nor deletes what it has seen.  *)
LEMMA SeenQuiet ==
  ASSUME TablesInv, Statement, NEW h \in Handlers, SeenRequest(h), seen'[h] = seen[h],
         pc'[h] \notin {"idle", "list", "delete_account"}, req'[h].targets = req[h].targets,
         \A r \in tx'[h].del : r[1] = "endpoint" /\ Name(r) \in seen[h]
                                 => r \in tx[h].del \/ r \in req[h].targets
  PROVE  SeenRequest(h)'
<1>1. \A n \in seen'[h] : n \in EntityNames /\ Settled(n)'
  BY SeenSettled
<1>2. DeletedEndpoints(h)' \cap seen'[h] \subseteq Names(req'[h].targets)
  BY DEF SeenRequest, DeletedEndpoints, EndpointRows, Names
<1> QED  BY <1>1, <1>2 DEF SeenRequest

(* An endpoint goes by itself or with its account.                         *)
LEMMA CascadeEndpoints ==
  ASSUME NEW rows \in SUBSET Row, NEW R \in SUBSET rows
  PROVE  \A r \in Cascade(rows, R) :
           r[1] = "endpoint" => r \in rows /\ (r \in R \/ <<"account", r[3]>> \in Names(R))
<1> SUFFICES ASSUME NEW r \in Cascade(rows, R), r[1] = "endpoint", r \notin R
             PROVE  r \in rows /\ <<"account", r[3]>> \in Names(R)
  OBVIOUS
<1>1. Cascade(rows, R) \subseteq rows
  BY CascadeOf
<1>2. r \in Row /\ Parents(r) = {<<"account", r[3]>>}
  BY <1>1, ParentsOf
<1>3. ASSUME NEW c \in Cascade(rows, R), NEW q \in R, Name(c) \in Parents(r), Name(q) \in Parents(c)
      PROVE  FALSE
  <2>1. c \in Row
    BY <1>1
  <2>2. c[1] = "account"
    BY <1>2, <1>3, <2>1, Named2
  <2> QED  BY <1>3, <2>1, <2>2, ParentsOf
<1>4. \E q \in R : Name(q) \in Parents(r)
  BY <1>3, CascadeOf
<1> QED  BY <1>1, <1>2, <1>4 DEF Names

LEMMA DeletedSeen ==
  ASSUME TablesInv, RequestsInv, NEW h \in Handlers, SeenRequest(h), NEW R, Delete(h, R),
         \A r \in R : ~IsEntity(r) \/ r[1] \in {"pool", "model"} \/ r \in req[h].targets
                        \/ (/\ pc[h] = "delete_account" /\ Name(r) = <<"account", req[h].account>>
                            /\ r[1] = "account"),
         \A r \in R \cap req[h].targets : r[1] = "endpoint"
  PROVE  \A r \in tx'[h].del : r[1] = "endpoint" /\ Name(r) \in seen[h]
                                 => r \in tx[h].del \/ r \in req[h].targets
<1> DEFINE V == Visible(h)
           gone == Cascade(V, R \cap V)
<1>1. V \in SUBSET Row /\ R \cap V \in SUBSET V /\ tx[h] \in Transaction
  BY Stays DEF Visible, Transaction, TablesInv, TablesTyped
<1>2. tx'[h].del = tx[h].del \cup gone
  BY <1>1 DEF Delete, TablesInv, TablesTyped, Transaction
<1>3. \A r \in gone : r[1] = "endpoint" =>
        r \in V /\ (r \in R \cap V \/ <<"account", r[3]>> \in Names(R \cap V))
  <2> HIDE DEF V
  <2> QED  BY <1>1, CascadeEndpoints
<1> HIDE DEF gone
<1>4. ASSUME NEW r \in gone, r[1] = "endpoint", Name(r) \in seen[h], r \notin req[h].targets
      PROVE  FALSE
  <2>1. r \in Row /\ IsEntity(r)
    BY <1>1, <1>3, <1>4 DEF IsEntity, Entities
  <2>2. r \notin R
    BY <1>4, <2>1
  <2>3. PICK q \in R \cap V : Name(q) = <<"account", r[3]>>
    BY <1>3, <1>4, <2>2 DEF Names
  <2>4. IsEntity(q) /\ q[1] = "account"
    BY <1>1, <2>3, Named2
  <2>5. pc[h] = "delete_account" /\ Name(q) = <<"account", req[h].account>>
    BY <2>3, <2>4
  <2>6. r[3] = req[h].account
    BY <2>3, <2>5
  <2>7. r \in db
    <3>1. r \notin tx[h].ins
      BY <1>4 DEF SeenRequest, Settled, Ins, Names
    <3> QED  BY <1>3, <1>4, <3>1 DEF Visible
  <2> QED  BY <1>4, <2>5, <2>6, <2>7 DEF SeenRequest
<1> QED  BY <1>2, <1>4

LEMMA DeleteServiceRowsSeen ==
  ASSUME TablesInv, RequestsInv, NEW h \in Handlers, SeenRequest(h), Statement, DeleteServiceRows(h)
  PROVE  SeenRequest(h)'
<1> DEFINE R == {r \in Visible(h) : \/ r[1] = "grant" /\ r[3] = req[h].model
                                    \/ Name(r) = <<"model", req[h].model>>
                                    \/ r[1] = "member" /\ r[2] = req[h].pool
                                    \/ Name(r) = <<"pool", req[h].pool>>}
<1>1. /\ Delete(h, R) /\ pc[h] = "service" /\ pc'[h] = "rows" /\ req' = req /\ seen' = seen
      /\ Fits(pc[h], req[h], tx[h]) /\ req[h].op = "delete_service"
  BY Here DEF DeleteServiceRows, Goto, RequestsInv, TypeOK
<1>2. \A r \in R : ~IsEntity(r) \/ r[1] \in {"pool", "model"}
  <2>1. \A r \in Visible(h) : r \in Row
    BY Stays DEF Visible, Transaction, TablesInv, TablesTyped
  <2>2. \A r \in R : r[1] \in {"grant", "member"} => ~IsEntity(r)
    BY DEF IsEntity, Entities
  <2> QED  BY <2>1, <2>2, Named2
<1>3. \A r \in R \cap req[h].targets : r[1] = "endpoint"
  BY <1>1 DEF Fits, Mentions, Deleting
<1> HIDE DEF R
<1> QED  BY <1>1, <1>2, <1>3, DeletedSeen, SeenQuiet

LEMMA DeleteEndpointRowsSeen ==
  ASSUME TablesInv, RequestsInv, NEW h \in Handlers, SeenRequest(h), Statement, DeleteEndpointRows(h)
  PROVE  SeenRequest(h)'
<1>1. PICK r \in req[h].list :
        /\ Delete(h, {r})
        /\ req' = [req EXCEPT ![h].list = @ \ {r}, ![h].account = r[3]]
  BY DEF DeleteEndpointRows
<1>2. Fits(pc[h], req[h], tx[h]) /\ req[h].op \in Deleting /\ req[h] \in Request
  BY Here, Stays DEF DeleteEndpointRows
<1>3. r \in req[h].targets /\ \A q \in req[h].targets : q[1] = "endpoint"
  BY <1>2 DEF Fits, Mentions
<1>4. req'[h].targets = req[h].targets /\ pc'[h] = "references" /\ seen' = seen
  BY <1>1, <1>2 DEF DeleteEndpointRows, Goto, Request, RequestsInv, TypeOK
<1> DEFINE R == {r}
<1>5. /\ Delete(h, R) /\ \A q \in R : q \in req[h].targets
      /\ \A q \in R \cap req[h].targets : q[1] = "endpoint"
  BY <1>1, <1>3
<1> HIDE DEF R
<1>6. \A q \in tx'[h].del : q[1] = "endpoint" /\ Name(q) \in seen[h]
                               => q \in tx[h].del \/ q \in req[h].targets
  BY <1>5, DeletedSeen
<1> QED  BY <1>4, <1>6, SeenQuiet

LEMMA DeleteAccountSeen ==
  ASSUME TablesInv, RequestsInv, NEW h \in Handlers, SeenRequest(h), Statement, DeleteAccount(h)
  PROVE  SeenRequest(h)'
<1> DEFINE R == {r \in Visible(h) : /\ Name(r) = <<"account", req[h].account>>
                                    /\ req[h].op = "delete_provider" => r[3] = OrgOf[req[h].project]}
<1>1. /\ Delete(h, R) /\ pc[h] = "delete_account" /\ pc'[h] = "rows" /\ req' = req /\ seen' = seen
      /\ Fits(pc[h], req[h], tx[h]) /\ req[h].op \in Deleting
  BY Here DEF DeleteAccount, Goto, RequestsInv, TypeOK
<1>2. \A r \in R : Name(r) = <<"account", req[h].account>> /\ r[1] = "account"
  <2>1. \A r \in Visible(h) : r \in Row
    BY Stays DEF Visible, Transaction, TablesInv, TablesTyped
  <2> QED  BY <2>1, Named2
<1>3. \A r \in R \cap req[h].targets : r[1] = "endpoint"
  BY <1>1 DEF Fits, Mentions
<1> HIDE DEF R
<1> QED  BY <1>1, <1>2, <1>3, DeletedSeen, SeenQuiet

LEMMA ClearGrantsSeen ==
  ASSUME TablesInv, RequestsInv, NEW h \in Handlers, SeenRequest(h), Statement, ClearGrants(h)
  PROVE  SeenRequest(h)'
<1> DEFINE V == Visible(h)
           R == {r \in V : r[1] = "key_grant" /\ r[2] = req[h].key}
           gone == Cascade(V, R \cap V)
<1>1. tx[h] \in Transaction /\ pc'[h] = "key_grants" /\ req' = req /\ seen' = seen /\ Delete(h, R)
  BY Stays DEF ClearGrants, Goto, RequestsInv, TypeOK
<1>2. V \in SUBSET Row /\ R \in SUBSET V /\ R \cap V = R
  BY <1>1 DEF Visible, Transaction, TablesInv, TablesTyped
<1>3. gone = R
  BY <1>2, GrantsAlone
<1>4. tx'[h].del = tx[h].del \cup gone
  BY <1>1 DEF Delete, TablesInv, TablesTyped, Transaction
<1>5. \A r \in gone : r[1] # "endpoint"
  BY <1>3
<1> HIDE DEF V, gone, R
<1> QED  BY <1>1, <1>4, <1>5, SeenQuiet

(* What the SELECT finds is committed: a request that deletes inserts      *)
(* nothing.                                                                *)
LEMMA CountReferencesSeen ==
  ASSUME TablesInv, RequestsInv, NEW h \in Handlers, SeenRequest(h), Statement, CountReferences(h)
  PROVE  SeenRequest(h)'
<1> DEFINE V == Visible(h)
           found == Names(EndpointRows(V))
           l == IF EndpointsOf(V, req[h].account) # {} THEN "rows" ELSE "delete_account"
<1>1. /\ Fits("references", req[h], tx[h]) /\ req[h].op \in Deleting
      /\ tx[h] \in Transaction
  BY Here, Stays DEF CountReferences
<1>2. seen'[h] = found /\ pc'[h] = l /\ req' = req /\ tx' = tx /\ db' = db /\ used' = used
  BY DEF CountReferences, Goto, RequestsInv, TypeOK
<1>3. tx[h].ins = {}
  BY <1>1 DEF Fits, Inserts, Creating, Keying, Deleting
<1>4. V \subseteq db /\ V = View(db, tx[h]) /\ db \subseteq Row
  BY <1>3 DEF Visible, View, TablesInv, TablesTyped
<1>5. \A n \in found : \E r \in V : r[1] = "endpoint" /\ Name(r) = n /\ IsEntity(r) /\ r \in Row
  BY <1>4 DEF EndpointRows, Names, IsEntity, Entities
<1> HIDE DEF found, V
<1>6. ASSUME NEW n \in found
      PROVE  n \in EntityNames /\ Settled(n)' /\ n \notin DeletedEndpoints(h)'
  <2>1. PICK r \in V : r[1] = "endpoint" /\ Name(r) = n /\ IsEntity(r) /\ r \in Row
    BY <1>5
  <2>2. n = <<"endpoint", r[2]>>
    BY <2>1, NameOf
  <2>3. n \in Names(db) /\ n \in EntityNames
    BY <1>4, <2>1 DEF Names, EntityNames
  <2>4. Settled(n)
    BY <2>2, <2>3, CommittedSettled
  <2>5. n \notin Names(tx[h].del)
    BY <1>4, <2>1 DEF TablesInv, Sound
  <2>6. n \notin DeletedEndpoints(h)
    BY <2>5 DEF DeletedEndpoints, EndpointRows, Names
  <2> QED  BY <1>2, <2>3, <2>4, <2>6 DEF Settled, Ins, DeletedEndpoints
<1>7. ASSUME l = "delete_account", NEW r \in db, r[1] = "endpoint", Name(r) \in found
      PROVE  r[3] # req[h].account
  <2>1. PICK q \in V : q[1] = "endpoint" /\ Name(q) = Name(r)
    BY <1>5, <1>7
  <2>2. q = r
    BY <1>4, <2>1 DEF TablesInv, Stored, UniqueNames
  <2>3. r = <<"endpoint", r[2], r[3]>> /\ r[2] \in Endpoints /\ r \in V
    BY <1>4, <1>7, <2>1, <2>2, RowShape
  <2>4. EndpointsOf(V, req[h].account) = {}
    BY <1>7
  <2> QED  BY <2>3, <2>4 DEF EndpointsOf
<1>8. l \in {"rows", "delete_account"}
  OBVIOUS
<1> HIDE DEF l
<1> QED  BY <1>2, <1>6, <1>7, <1>8 DEF SeenRequest

LEMMA DeleteProviderSeen ==
  ASSUME TablesInv, RequestsInv, NEW h \in Handlers, SeenRequest(h), Statement, DeleteProvider(h)
  PROVE  SeenRequest(h)'
<1>1. PICK j \in Projects, a \in Accounts :
       /\ EndpointsOf(db, a) = {}
       /\ req' = [req EXCEPT ![h] = [NoRequest EXCEPT !.op = "delete_provider",
                    !.project = j, !.account = a]]
  BY DEF DeleteProvider
<1> DEFINE found == Names(EndpointRows(db))
<1>2. seen'[h] = found /\ pc'[h] = "delete_account" /\ tx' = tx /\ db' = db /\ used' = used
  BY DEF DeleteProvider, Goto, RequestsInv, TypeOK
<1>3. req'[h].account = a /\ tx[h] = NoTx
  BY <1>1, AtIdle DEF DeleteProvider, NoRequest, RequestsInv, TypeOK
<1>4. \A n \in found : \E r \in db : r[1] = "endpoint" /\ Name(r) = n /\ IsEntity(r) /\ r \in Row
  BY DEF EndpointRows, Names, IsEntity, Entities, TablesInv, TablesTyped
<1> HIDE DEF found
<1>5. ASSUME NEW n \in found
      PROVE  n \in EntityNames /\ Settled(n)'
  <2>1. PICK r \in db : r[1] = "endpoint" /\ Name(r) = n /\ IsEntity(r) /\ r \in Row
    BY <1>4
  <2>2. n = <<"endpoint", r[2]>>
    BY <2>1, NameOf
  <2>3. n \in Names(db) /\ n \in EntityNames
    BY <2>1 DEF Names, EntityNames
  <2>4. Settled(n)
    BY <2>2, <2>3, CommittedSettled
  <2> QED  BY <1>2, <2>3, <2>4 DEF Settled, Ins
<1>6. ASSUME NEW r \in db, r[1] = "endpoint"
      PROVE  r[3] # a
  <2>1. r = <<"endpoint", r[2], r[3]>> /\ r[2] \in Endpoints
    BY <1>6, RowShape DEF TablesInv, TablesTyped
  <2> QED  BY <1>1, <2>1 DEF EndpointsOf
<1>7. DeletedEndpoints(h)' = {}
  BY <1>2, <1>3, NothingOpen DEF DeletedEndpoints, EndpointRows, Names
<1> QED  BY <1>2, <1>3, <1>5, <1>6, <1>7 DEF SeenRequest

LEMMA InsertDeletesNothing ==
  ASSUME tx \in [Handlers -> Transaction], NEW h \in Handlers, NEW R, Insert(h, R)
  PROVE  tx'[h].del = tx[h].del
BY DEF Insert, Transaction

LEMMA ServicesSeen ==
  ASSUME TablesInv, RequestsInv, NEW h \in Handlers, SeenRequest(h), Statement, Services(h)
  PROVE  SeenRequest(h)'
<1>1. seen \in [Handlers -> SUBSET Names(Row)] /\ tx \in [Handlers -> Transaction]
      /\ pc \in [Handlers -> Pc] /\ req \in [Handlers -> Request]
  BY DEF RequestsInv, TypeOK
<1>2. CASE \/ CreateService(h) \/ AddEndpoints(h) \/ DeleteEndpoint(h) \/ DeleteService(h)
           \/ ListEndpoints(h)
  <2>1. seen'[h] = {}
    BY <1>2 DEF CreateService, AddEndpoints, DeleteEndpoint, DeleteService, ListEndpoints, SeenRequest
  <2> QED  BY <2>1, SeenNothing
<1>3. CASE Fail(h)
  <2>1. seen'[h] = {}
    BY <1>1, <1>3 DEF Fail, Ends
  <2> QED  BY <2>1, SeenNothing
<1>4. CASE ChooseAccount(h) \/ InsertEndpoint(h) \/ InsertModel(h)
  <2>1. seen' = seen /\ req'[h].targets = req[h].targets /\ pc'[h] \in {"endpoint", "account", "commit"}
    <3>1. CASE ChooseAccount(h)
      BY <1>1, <3>1 DEF ChooseAccount, Goto, Request
    <3>2. CASE InsertEndpoint(h) \/ InsertModel(h)
      BY <1>1, <3>2 DEF InsertEndpoint, InsertModel, Goto
    <3> QED  BY <1>4, <3>1, <3>2
  <2>2. tx'[h].del = tx[h].del
    BY <1>1, <1>4, InsertDeletesNothing DEF ChooseAccount, InsertEndpoint, InsertModel
  <2> QED  BY <2>1, <2>2, SeenQuiet
<1>5. CASE EndpointsInserted(h) \/ EndpointsDeleted(h)
  <2>1. seen' = seen /\ req' = req /\ tx' = tx /\ pc'[h] \in {"model", "commit"}
    BY <1>1, <1>5 DEF EndpointsInserted, EndpointsDeleted, Goto
  <2> QED  BY <2>1, SeenQuiet
<1> QED
  BY <1>2, <1>3, <1>4, <1>5, DeleteServiceRowsSeen, DeleteEndpointRowsSeen, CountReferencesSeen,
     DeleteAccountSeen, DeleteProviderSeen
  DEF Services

LEMMA EditsSeen ==
  ASSUME TablesInv, RequestsInv, NEW h \in Handlers, SeenRequest(h), Statement, Edits(h)
  PROVE  SeenRequest(h)'
<1>1. seen \in [Handlers -> SUBSET Names(Row)] /\ tx \in [Handlers -> Transaction]
      /\ pc \in [Handlers -> Pc] /\ req \in [Handlers -> Request]
  BY DEF RequestsInv, TypeOK
<1>2. CASE CreateKey(h) \/ UpdateKey(h) \/ UpdateEndpoint(h) \/ UpdateService(h) \/ UpdatePool(h)
  <2>1. seen'[h] = {}
    BY <1>2 DEF CreateKey, UpdateKey, UpdateEndpoint, UpdateService, UpdatePool, SeenRequest
  <2> QED  BY <2>1, SeenNothing
<1>3. CASE InsertKey(h) \/ InsertGrants(h)
  <2>1. seen' = seen /\ req'[h].targets = req[h].targets /\ pc'[h] \in {"key_grants", "commit"}
    <3>1. CASE InsertKey(h)
      BY <1>1, <3>1 DEF InsertKey, Goto, Request
    <3>2. CASE InsertGrants(h)
      BY <1>1, <3>2 DEF InsertGrants, Goto
    <3> QED  BY <1>3, <3>1, <3>2
  <2>2. tx'[h].del = tx[h].del
    BY <1>1, <1>3, InsertDeletesNothing DEF InsertKey, InsertGrants
  <2> QED  BY <2>1, <2>2, SeenQuiet
<1>4. CASE UpdateKeyRow(h) \/ UpdateAccountRow(h) \/ UpdateEndpointRow(h) \/ UpdatePoolRow(h)
  <2>1. seen' = seen /\ req' = req /\ pc'[h] \in {"clear_grants", "update_model", "commit"}
    BY <1>1, <1>4 DEF UpdateKeyRow, UpdateAccountRow, UpdateEndpointRow, UpdatePoolRow, Goto
  <2>2. tx'[h].del = tx[h].del
    BY <1>1, <1>4 DEF UpdateKeyRow, UpdateAccountRow, UpdateEndpointRow, UpdatePoolRow, UpdateIfThere,
                 Update, Transaction
  <2> QED  BY <2>1, <2>2, SeenQuiet
<1> QED  BY <1>2, <1>3, <1>4, ClearGrantsSeen DEF Edits

LEMMA SeenElsewhere ==
  ASSUME NEW h \in Handlers, Services(h) \/ Edits(h) \/ CommitAndEnd(h), RequestsInv
  PROVE  \A o \in Handlers : o # h => seen'[o] = seen[o]
<1>1. seen \in [Handlers -> SUBSET Names(Row)]
  BY DEF RequestsInv, TypeOK
<1>2. Services(h) => \A o \in Handlers : o # h => seen'[o] = seen[o]
  BY <1>1 DEF Services, CreateService, AddEndpoints, ChooseAccount, InsertEndpoint, EndpointsInserted,
         InsertModel, DeleteEndpoint, DeleteService, ListEndpoints, DeleteServiceRows,
         DeleteEndpointRows, EndpointsDeleted, CountReferences, DeleteAccount, DeleteProvider,
         Fail, Ends
<1>3. Edits(h) => seen' = seen
  BY DEF Edits, CreateKey, InsertKey, UpdateKey, UpdateKeyRow, ClearGrants, InsertGrants,
         UpdateEndpoint, UpdateAccountRow, UpdateEndpointRow, UpdateService, UpdatePool, UpdatePoolRow
<1>4. CommitAndEnd(h) => \A o \in Handlers : o # h => seen'[o] = seen[o]
  BY <1>1 DEF CommitAndEnd, Ends
<1> QED  BY <1>2, <1>3, <1>4

LEMMA SeenNext ==
  ASSUME TablesInv, RequestsInv, SeenInv, [Next]_vars
  PROVE  SeenInv'
<1>1. Statement /\ TablesInv'
  BY TablesNext
<1>2. ASSUME NEW h \in Handlers, HandlerStep(h), Services(h) \/ Edits(h) \/ CommitAndEnd(h)
      PROVE  SeenInv'
  <2>1. SeenRequest(h)'
    <3>1. CommitAndEnd(h) => SeenRequest(h)'
      BY Committing, SeenNothing
    <3> QED  BY <1>1, <1>2, <3>1, ServicesSeen, EditsSeen DEF SeenInv
  <2>2. ASSUME NEW o \in Handlers, o # h
        PROVE  SeenRequest(o)'
    BY <1>1, <1>2, <2>2, OthersStay, SeenElsewhere, SeenKept DEF SeenInv
  <2> QED  BY <2>1, <2>2 DEF SeenInv
<1>3. ASSUME Alone, UNCHANGED handlerVars
      PROVE  SeenInv'
  <2>1. tx' = tx
    BY <1>3, AloneStatement
  <2> QED  BY <1>1, <1>3, <2>1, SeenKept DEF SeenInv, handlerVars
<1>4. ASSUME UNCHANGED vars
      PROVE  SeenInv'
  BY <1>1, <1>4, SeenKept DEF vars, handlerVars, SeenInv
<1> QED  BY <1>2, <1>3, <1>4, Steps

(* The comments at services.rs:659-661 and endpoints.rs:308-310: of the    *)
(* endpoints there were when the condition on an account was evaluated,    *)
(* its deletion takes along none that the request was not to delete.  An   *)
(* endpoint that another request adds afterwards is not among them.        *)
THEOREM SeenEndpointsAreSafe == Spec => []SeenEndpointsSafe
<1> DEFINE I == TablesInv /\ RequestsInv /\ SeenInv
<1>1. Init => I
  BY CatalogInit, EmptyRequest DEF Init, SeenInv, SeenRequest
<1>2. I /\ [Next]_vars => I'
  BY TablesNext, RequestsNext, SeenNext
<1>3. I => SeenEndpointsSafe
  BY DEF SeenInv, SeenRequest, SeenEndpointsSafe
<1> QED  BY <1>1, <1>2, <1>3, PTL DEF Spec

----------------------------------------------------------------------------
(* Edits of endpoints.                                                     *)

(* A settled entity that is gone does not come back.                       *)
LEMMA GoneForGood ==
  ASSUME TablesInv, TablesInv', Statement, NEW t, NEW x, Settled(<<t, x>>), <<t, x>> \in Names(db')
  PROVE  <<t, x>> \in Names(db)
<1>1. PICK r \in db' : IsEntity(r) /\ Name(r) = <<t, x>>
  BY EntityNamed DEF TablesInv, TablesTyped
<1>2. r \in Row
  BY <1>1 DEF TablesInv, TablesTyped
<1>3. r \in db
  BY <1>1, <1>2, SettledStays
<1> QED  BY <1>1, <1>3 DEF Names

LEMMA SettledNames ==
  ASSUME TablesInv, Statement, NEW t, NEW x, Settled(<<t, x>>)
  PROVE  Settled(<<t, x>>)'
<1>1. <<t, x>> \in EntityNames
  BY EntityNamed DEF Settled, TablesInv, TablesTyped
<1> QED  BY <1>1, SettledStays

LEMMA EndpointSettledRow ==
  ASSUME TablesInv, TablesInv', Statement, NEW e, Settled(<<"endpoint", e>>), NEW r \in db',
         Name(r) = <<"endpoint", e>>
  PROVE  r \in db
<1>1. r \in Row
  BY DEF TablesInv, TablesTyped
<1>2. IsEntity(r)
  BY <1>1, Named2
<1> QED  BY <1>1, <1>2, SettledStays

LEMMA EditKept ==
  ASSUME TablesInv, TablesInv', Statement, NEW o \in Handlers, NEW e, NEW a, EditRequest(o, e, a),
         tx'[o] = tx[o], pc'[o] = pc[o]
  PROVE  EditRequest(o, e, a)'
<1>1. Settled(<<"endpoint", e>>) /\ Settled(<<"account", a>>)
  BY DEF EditRequest
<1>2. Settled(<<"endpoint", e>>)' /\ Settled(<<"account", a>>)'
  BY <1>1, SettledNames
<1>3. \A r \in db' : Name(r) = <<"endpoint", e>> => r[3] = a
  BY <1>1, EndpointSettledRow DEF EditRequest
<1>4. /\ <<"account", a>> \in Names(db') => <<"account", a>> \in Names(db)
      /\ <<"endpoint", e>> \in Names(db') => <<"endpoint", e>> \in Names(db)
  BY <1>1, GoneForGood
<1> QED  BY <1>2, <1>3, <1>4 DEF EditRequest

LEMMA EndpointRow ==
  ASSUME NEW e \in Endpoints, NEW a \in Accounts, NEW r, r = <<"endpoint", e, a>>
  PROVE  /\ r \in Row /\ r[1] = "endpoint" /\ r[2] = e /\ r[3] = a
         /\ IsEntity(r) /\ Name(r) = <<"endpoint", e>> /\ Parents(r) = {<<"account", a>>}
<1>1. r \in Row /\ r[1] = "endpoint" /\ r[2] = e /\ r[3] = a
  BY DEF Row
<1>2. IsEntity(r)
  BY <1>1 DEF IsEntity, Entities
<1> QED  BY <1>1, <1>2, NameOf, ParentsOf

(* An endpoint whose account was last written by an edit of it was there   *)
(* then.                                                                   *)
LEMMA WrittenBefore ==
  ASSUME TablesInv, TablesInv', Statement, EditsInv, NEW e \in Endpoints, NEW a \in Accounts,
         <<"endpoint", e, a>> \in db', writer[a] # None, writer[a][2] = e
  PROVE  <<"endpoint", e, a>> \in db /\ writer[e] = writer[a]
<1>1. Settled(<<"endpoint", e>>)
  BY DEF EditsInv
<1>2. PICK r \in db' : r = <<"endpoint", e, a>>
  OBVIOUS
<1>3. Name(r) = <<"endpoint", e>>
  BY <1>2, EndpointRow
<1>4. r \in db
  BY <1>1, <1>2, <1>3, EndpointSettledRow
<1> QED  BY <1>2, <1>4 DEF EditsInv, DetailsOfOneEdit

LEMMA WriterKept ==
  ASSUME TablesInv, TablesInv', Statement, EditsInv, writer' = writer
  PROVE  /\ DetailsOfOneEdit'
         /\ \A a \in Accounts : writer'[a] # None => Settled(<<"endpoint", writer[a][2]>>)'
<1>1. DetailsOfOneEdit'
  BY WrittenBefore DEF DetailsOfOneEdit
<1>2. ASSUME NEW a \in Accounts, writer[a] # None
      PROVE  Settled(<<"endpoint", writer[a][2]>>)'
  <2>1. PICK e : e = writer[a][2]
    OBVIOUS
  <2>2. Settled(<<"endpoint", e>>)
    BY <1>2, <2>1 DEF EditsInv
  <2>3. Settled(<<"endpoint", e>>)'
    BY <2>2, SettledNames
  <2>4. writer'[a][2] = e
    BY <2>1
  <2> QED  BY <2>3, <2>4 DEF Settled, Ins
<1> QED  BY <1>1, <1>2

LEMMA UpdateEndpointEdits ==
  ASSUME TablesInv, RequestsInv, NEW h \in Handlers, UpdateEndpoint(h),
         NEW e, NEW a, e = req'[h].endpoint, a = req'[h].account
  PROVE  EditRequest(h, e, a)'
<1>1. PICK j \in Projects, m \in Models, f \in Endpoints :
        \E p \in ServicePools(db, j, m), b \in AccountOf(db, f) :
          req' = [req EXCEPT ![h] = [NoRequest EXCEPT !.op = "update_endpoint",
                    !.project = j, !.account = b, !.endpoint = f]]
  BY DEF UpdateEndpoint
<1>2. PICK b \in Accounts :
        /\ <<"endpoint", f, b>> \in db
        /\ req' = [req EXCEPT ![h] = [NoRequest EXCEPT !.op = "update_endpoint",
                     !.project = j, !.account = b, !.endpoint = f]]
  BY <1>1 DEF AccountOf
<1>3. req'[h].endpoint = f /\ req'[h].account = b
  BY <1>2 DEF NoRequest, RequestsInv, TypeOK
<1>4. PICK row \in db : row = <<"endpoint", f, b>>
  BY <1>2
<1>5. row[3] = b /\ Name(row) = <<"endpoint", f>> /\ Parents(row) = {<<"account", b>>}
  BY <1>4, EndpointRow
<1>6. <<"endpoint", f>> \in Names(db) /\ <<"account", b>> \in Names(db)
  BY <1>4, <1>5 DEF Names, TablesInv, Stored, Consistent
<1>7. Settled(<<"endpoint", f>>) /\ Settled(<<"account", b>>)
  BY <1>6, CommittedSettled
<1>8. \A r \in db : Name(r) = <<"endpoint", f>> => r[3] = b
  BY <1>5 DEF TablesInv, Stored, UniqueNames
<1>9. tx' = tx /\ used' = used /\ db' = db /\ pc'[h] = "update_account"
  BY DEF UpdateEndpoint, Goto, RequestsInv, TypeOK
<1>10. e = f /\ a = b
  BY <1>3
<1> QED  BY <1>7, <1>8, <1>9, <1>10 DEF EditRequest, Settled, Ins

(* An UPDATE locks the row unless it is gone: nobody deletes in an edit.   *)
LEMMA LockedOrGone ==
  ASSUME RequestsInv, NEW h \in Handlers, req[h].op = "update_endpoint", NEW n, UpdateIfThere(h, n)
  PROVE  /\ n \in tx'[h].upd \/ n \notin Names(db)
         /\ tx[h].upd \subseteq tx'[h].upd /\ db' = db
<1>1. tx[h] \in Transaction /\ tx \in [Handlers -> Transaction] /\ Fits(pc[h], req[h], tx[h])
  BY Stays DEF RequestsInv, TypeOK
<1>2. tx[h].del = {}
  BY <1>1 DEF Fits, Deletes, Deleting
<1>3. n \in Names(db) => n \in Names(Visible(h))
  BY <1>2 DEF Visible, Names
<1>4. Update(h, n) => tx'[h].upd = tx[h].upd \cup {n} /\ db' = db
  BY <1>1 DEF Update, Transaction
<1> QED  BY <1>3, <1>4 DEF UpdateIfThere

LEMMA UpdateRowsEdit ==
  ASSUME TablesInv, RequestsInv, Statement, NEW h \in Handlers,
         UpdateAccountRow(h) \/ UpdateEndpointRow(h),
         NEW e, NEW a, e = req[h].endpoint, a = req[h].account, EditRequest(h, e, a)
  PROVE  EditRequest(h, e, a)'
<1>1. Settled(<<"endpoint", e>>)' /\ Settled(<<"account", a>>)'
  BY SettledNames DEF EditRequest
<1>2. req[h].op = "update_endpoint" /\ pc \in [Handlers -> Pc]
  BY Here DEF UpdateAccountRow, UpdateEndpointRow, RequestsInv, TypeOK
<1>3. CASE UpdateAccountRow(h)
  <2>1. pc'[h] = "update_model"
    BY <1>2, <1>3 DEF UpdateAccountRow, Goto
  <2>2. (<<"account", a>> \in tx'[h].upd \/ <<"account", a>> \notin Names(db)) /\ db' = db
    BY <1>2, <1>3, LockedOrGone DEF UpdateAccountRow
  <2> QED  BY <1>1, <2>1, <2>2 DEF EditRequest
<1>4. CASE UpdateEndpointRow(h)
  <2>1. pc[h] = "update_model" /\ pc'[h] = "commit"
    BY <1>2, <1>4 DEF UpdateEndpointRow, Goto
  <2>2. /\ <<"endpoint", e>> \in tx'[h].upd \/ <<"endpoint", e>> \notin Names(db)
        /\ tx[h].upd \subseteq tx'[h].upd /\ db' = db
    BY <1>2, <1>4, LockedOrGone DEF UpdateEndpointRow
  <2> QED  BY <1>1, <2>1, <2>2 DEF EditRequest
<1> QED  BY <1>3, <1>4

(* What an edit leaves of endpoint, while the request goes on.             *)
LEMMA EditsEdit ==
  ASSUME TablesInv, RequestsInv, EditsInv, Statement, NEW h \in Handlers, Edits(h),
         req'[h].op = "update_endpoint", NEW e, NEW a, e = req'[h].endpoint, a = req'[h].account
  PROVE  EditRequest(h, e, a)'
<1>1. req \in [Handlers -> Request]
  BY DEF RequestsInv, TypeOK
<1>2. CASE CreateKey(h) \/ UpdateKey(h) \/ UpdateService(h) \/ UpdatePool(h)
  <2>1. req'[h].op # "update_endpoint"
    BY <1>1, <1>2 DEF CreateKey, UpdateKey, UpdateService, UpdatePool, Edit, NoRequest
  <2> QED  BY <2>1
<1>3. CASE InsertKey(h) \/ InsertGrants(h) \/ UpdateKeyRow(h) \/ ClearGrants(h) \/ UpdatePoolRow(h)
  <2>1. req[h].op # "update_endpoint"
    BY <1>3, Here DEF InsertKey, InsertGrants, UpdateKeyRow, ClearGrants, UpdatePoolRow, Keying, Setting
  <2>2. req'[h].op = req[h].op
    BY <1>1, <1>3 DEF InsertKey, InsertGrants, UpdateKeyRow, ClearGrants, UpdatePoolRow, Request
  <2> QED  BY <2>1, <2>2
<1>4. CASE UpdateAccountRow(h) \/ UpdateEndpointRow(h)
  <2>1. req' = req
    BY <1>4 DEF UpdateAccountRow, UpdateEndpointRow
  <2>2. e = req[h].endpoint /\ a = req[h].account /\ req[h].op = "update_endpoint"
    BY <2>1
  <2>3. EditRequest(h, e, a)
    BY <2>2 DEF EditsInv
  <2> QED  BY <1>4, <2>2, <2>3, UpdateRowsEdit
<1> QED  BY <1>2, <1>3, <1>4, UpdateEndpointEdits DEF Edits

(* The commit of an edit, and of anything else.                            *)
LEMMA EditsCommit ==
  ASSUME TablesInv, RequestsInv, EditsInv, NEW h \in Handlers, CommitAndEnd(h), EditsCommitted(h)
  PROVE  /\ DetailsOfOneEdit'
         /\ \A a \in Accounts : writer'[a] # None => Settled(<<"endpoint", writer[a][2]>>)'
<1>1. /\ Statement /\ TablesInv' /\ pc[h] = "commit" /\ Fits("commit", req[h], tx[h])
  BY Committing
<1>2. \A x \in Accounts \cup Endpoints :
        writer'[x] = IF <<"account", x>> \in tx[h].upd \/ <<"endpoint", x>> \in tx[h].upd
                       THEN <<h, req[h].endpoint>> ELSE writer[x]
  BY DEF EditsCommitted
<1>3. ASSUME NEW x, <<"account", x>> \in tx[h].upd \/ <<"endpoint", x>> \in tx[h].upd
      PROVE  /\ req[h].op = "update_endpoint"
             /\ req[h].account \in Accounts /\ req[h].endpoint \in Endpoints
             /\ <<"account", x>> \in tx[h].upd => x = req[h].account
             /\ <<"endpoint", x>> \in tx[h].upd => x = req[h].endpoint
             /\ EditRequest(h, req[h].endpoint, req[h].account)
  <2>1. req[h].op = "update_endpoint"
    BY <1>1, <1>3 DEF Fits, Locks, Setting
  <2>2. /\ req[h].account \in Accounts /\ req[h].endpoint \in Endpoints
        /\ <<"account", x>> \in tx[h].upd => x = req[h].account
        /\ <<"endpoint", x>> \in tx[h].upd => x = req[h].endpoint
    BY <1>1, <2>1 DEF Fits, Mentions, Locks
  <2> QED  BY <2>1, <2>2 DEF EditsInv
<1>4. \A x \in Accounts : <<"endpoint", x>> \notin tx[h].upd
  BY <1>3, TablesAssumption
<1>5. \A x \in Endpoints : <<"account", x>> \notin tx[h].upd
  BY <1>3, TablesAssumption
<1>6. ASSUME NEW a \in Accounts, <<"account", a>> \in tx[h].upd
      PROVE  writer'[a] = <<h, req[h].endpoint>> /\ a = req[h].account
  BY <1>2, <1>3, <1>6
<1>7. ASSUME NEW a \in Accounts, <<"account", a>> \notin tx[h].upd
      PROVE  writer'[a] = writer[a]
  BY <1>2, <1>4, <1>7
<1>8. ASSUME NEW e \in Endpoints, NEW a \in Accounts, <<"endpoint", e, a>> \in db',
             writer'[a] # None, writer'[a][2] = e
      PROVE  writer'[e] = writer'[a]
  <2>1. CASE <<"account", a>> \in tx[h].upd
    <3>1. e = req[h].endpoint /\ EditRequest(h, e, a)
      <4>1. a = req[h].account /\ EditRequest(h, req[h].endpoint, req[h].account)
        BY <1>3, <2>1
      <4>2. e = req[h].endpoint
        BY <1>6, <1>8, <2>1
      <4> QED  BY <4>1, <4>2
    <3>2. PICK r \in db' : r = <<"endpoint", e, a>>
      BY <1>8
    <3>3. Name(r) = <<"endpoint", e>>
      BY <3>2, EndpointRow
    <3>4. r \in db
      BY <1>1, <3>1, <3>3, EndpointSettledRow DEF EditRequest
    <3>5. <<"endpoint", e>> \in tx[h].upd
      BY <1>1, <3>1, <3>3, <3>4 DEF EditRequest, Names
    <3> QED  BY <1>2, <1>6, <2>1, <3>1, <3>5
  <2>2. CASE <<"account", a>> \notin tx[h].upd
    <3>1. writer'[a] = writer[a] /\ <<"endpoint", e, a>> \in db /\ writer[e] = writer[a]
      BY <1>1, <1>7, <1>8, <2>2, WrittenBefore
    <3>2. <<"endpoint", e>> \notin tx[h].upd
      <4> SUFFICES ASSUME <<"endpoint", e>> \in tx[h].upd
                   PROVE  FALSE
        OBVIOUS
      <4>1. PICK r \in db : r = <<"endpoint", e, a>>
        BY <3>1
      <4>2. r[3] = a /\ Name(r) = <<"endpoint", e>> /\ Parents(r) = {<<"account", a>>}
        BY <4>1, EndpointRow
      <4>3. e = req[h].endpoint /\ EditRequest(h, e, req[h].account)
        BY <1>3
      <4>4. req[h].account = a
        BY <4>1, <4>2, <4>3 DEF EditRequest
      <4>5. <<"account", a>> \in Names(db)
        BY <4>1, <4>2 DEF TablesInv, Stored, Consistent
      <4> QED  BY <1>1, <2>2, <4>3, <4>4, <4>5 DEF EditRequest
    <3> QED  BY <1>2, <1>5, <3>1, <3>2
  <2> QED  BY <2>1, <2>2
<1>9. ASSUME NEW a \in Accounts, writer'[a] # None
      PROVE  Settled(<<"endpoint", writer[a][2]>>)'
  <2>1. PICK e : e = writer'[a][2]
    OBVIOUS
  <2>2. Settled(<<"endpoint", e>>)
    <3>1. CASE <<"account", a>> \in tx[h].upd
      <4>1. e = req[h].endpoint
        BY <1>6, <2>1, <3>1
      <4>2. Settled(<<"endpoint", req[h].endpoint>>)
        BY <1>3, <3>1 DEF EditRequest
      <4> QED  BY <4>1, <4>2
    <3>2. CASE <<"account", a>> \notin tx[h].upd
      BY <1>7, <1>9, <2>1, <3>2 DEF EditsInv
    <3> QED  BY <3>1, <3>2
  <2>3. Settled(<<"endpoint", e>>)'
    BY <1>1, <2>2, SettledNames
  <2> QED  BY <2>1, <2>3 DEF Settled, Ins
<1> QED  BY <1>8, <1>9 DEF DetailsOfOneEdit

LEMMA EditsNext ==
  ASSUME TablesInv, RequestsInv, EditsInv, [Next]_vars
  PROVE  EditsInv'
<1>1. Statement /\ TablesInv'
  BY TablesNext
<1>2. ASSUME NEW o \in Handlers, tx'[o] = tx[o], req'[o] = req[o], pc'[o] = pc[o],
             req[o].op = "update_endpoint"
      PROVE  EditRequest(o, req[o].endpoint, req[o].account)'
  <2>1. PICK e, a : e = req[o].endpoint /\ a = req[o].account
    OBVIOUS
  <2>2. EditRequest(o, e, a)
    BY <1>2, <2>1 DEF EditsInv
  <2>3. EditRequest(o, e, a)'
    BY <1>1, <1>2, <2>2, EditKept
  <2> QED  BY <1>2, <2>1, <2>3 DEF EditRequest, Settled, Ins
<1>3. ASSUME NEW h \in Handlers, HandlerStep(h), Services(h) \/ Edits(h) \/ CommitAndEnd(h),
             req'[h].op = "update_endpoint"
      PROVE  EditRequest(h, req[h].endpoint, req[h].account)'
  <2>1. Edits(h)
    BY <1>3, ServicesAreNoKeying, Committing
  <2>2. PICK e, a : e = req'[h].endpoint /\ a = req'[h].account
    OBVIOUS
  <2>3. EditRequest(h, e, a)'
    BY <1>1, <1>3, <2>1, <2>2, EditsEdit
  <2> QED  BY <2>2, <2>3 DEF EditRequest, Settled, Ins
<1>4. ASSUME NEW h \in Handlers, HandlerStep(h), Services(h) \/ Edits(h) \/ CommitAndEnd(h)
      PROVE  \A o \in Handlers : req'[o].op = "update_endpoint" =>
               EditRequest(o, req[o].endpoint, req[o].account)'
  <2> SUFFICES ASSUME NEW o \in Handlers, o # h, req'[o].op = "update_endpoint"
               PROVE  EditRequest(o, req[o].endpoint, req[o].account)'
    BY <1>3, <1>4
  <2> QED  BY <1>2, <1>4, OthersStay
<1>5. ASSUME UNCHANGED handlerVars, tx' = tx
      PROVE  \A o \in Handlers : req'[o].op = "update_endpoint" =>
               EditRequest(o, req[o].endpoint, req[o].account)'
  BY <1>2, <1>5 DEF handlerVars
<1>6. ASSUME NEW h \in Handlers, HandlerStep(h), Services(h) \/ Edits(h), UNCHANGED editVars
      PROVE  EditsInv'
  BY <1>1, <1>4, <1>6, WriterKept DEF EditsInv, editVars
<1>7. ASSUME NEW h \in Handlers, HandlerStep(h), CommitAndEnd(h), EditsCommitted(h)
      PROVE  EditsInv'
  BY <1>4, <1>7, EditsCommit DEF EditsInv
<1>8. ASSUME Alone, UNCHANGED handlerVars, AtOnce \/ Admin
      PROVE  EditsInv'
  <2>1. tx' = tx
    BY <1>8, AloneStatement
  <2>2. CASE writer' = writer
    BY <1>1, <1>5, <1>8, <2>1, <2>2, WriterKept DEF EditsInv
  <2>3. ASSUME NEW b \in Accounts, writer' = [writer EXCEPT ![b] = None], UNCHANGED <<db, used, tx>>
        PROVE  EditsInv'
    <3>1. writer \in [Accounts \cup Endpoints -> (Handlers \X Endpoints) \cup {None}]
      BY DEF RequestsInv, TypeOK
    <3>2. \A a \in Accounts : writer'[a] # None => writer'[a] = writer[a]
      BY <2>3, <3>1
    <3>3. \A e \in Endpoints : writer'[e] = writer[e]
      BY <2>3, <3>1, TablesAssumption
    <3>4. DetailsOfOneEdit'
      BY <2>3, <3>2, <3>3 DEF EditsInv, DetailsOfOneEdit
    <3>5. \A a \in Accounts : writer'[a] # None => Settled(<<"endpoint", writer[a][2]>>)'
      BY <2>3, <3>2 DEF EditsInv, Settled, Ins
    <3> QED  BY <1>5, <1>8, <2>1, <3>4, <3>5 DEF EditsInv
  <2> QED  BY <1>8, <2>2, <2>3, AloneEdits
<1>9. ASSUME UNCHANGED vars
      PROVE  EditsInv'
  BY <1>1, <1>5, <1>9, WriterKept DEF EditsInv, vars, editVars
<1> QED  BY <1>6, <1>7, <1>8, <1>9, Steps

(* Of two edits of one endpoint and its account, whatever else deletes,    *)
(* creates or edits in between, one is last in both: an endpoint's         *)
(* provider details and its model are never those of different requests.   *)
THEOREM DetailsAreOfOneEdit == Spec => []DetailsOfOneEdit
<1> DEFINE I == TablesInv /\ RequestsInv /\ EditsInv
<1>1. Init => I
  <2> SUFFICES ASSUME Init
               PROVE  I
    OBVIOUS
  <2>1. \A a \in Accounts : writer[a] = None
    BY DEF Init
  <2>2. \A h \in Handlers : req[h].op = "none"
    BY EmptyRequest DEF Init
  <2> QED  BY <2>1, <2>2, CatalogInit DEF EditsInv, DetailsOfOneEdit
<1>2. I /\ [Next]_vars => I'
  BY TablesNext, RequestsNext, EditsNext
<1>3. I => DetailsOfOneEdit
  BY DEF EditsInv
<1> QED  BY <1>1, <1>2, <1>3, PTL DEF Spec

----------------------------------------------------------------------------
(* What a step may do.                                                     *)

(* An edit changes a column it does not name only back to what it has      *)
(* read, and only if someone wrote the column since: update_model_service  *)
(* and update_pool write whole groups of columns from what they read       *)
(* before their transaction.                                               *)
THEOREM EditsChangeNamedColumns == Spec => EditsChangeWhatTheyName
<1> DEFINE I == TablesInv /\ RequestsInv
           A == \A p \in Pools, c \in Columns : setting'[p][c] # setting[p][c] =>
                  \E h \in Handlers :
                    /\ pc[h] = "commit" /\ pc'[h] = "ended"
                    /\ req[h].op \in {"update_service", "update_pool"} /\ req[h].pool = p
                    /\ c \in req[h].named \/ req[h].base[c] # setting[p][c]
<1>1. Init => I
  BY CatalogInit
<1>2. I /\ [Next]_vars => I'
  BY TablesNext, RequestsNext
<1>3. I /\ [Next]_vars => [A]_vars
  <2> SUFFICES ASSUME I, [Next]_vars, NEW p \in Pools, NEW c \in Columns, setting'[p][c] # setting[p][c]
               PROVE  \E h \in Handlers :
                    /\ pc[h] = "commit" /\ pc'[h] = "ended"
                    /\ req[h].op \in {"update_service", "update_pool"} /\ req[h].pool = p
                    /\ c \in req[h].named \/ req[h].base[c] # setting[p][c]
    OBVIOUS
  <2>1. PICK h \in Handlers : CommitAndEnd(h) /\ EditsCommitted(h)
    BY Steps, AloneEdits DEF editVars, vars
  <2>2. Fits("commit", req[h], tx[h]) /\ pc[h] = "commit" /\ pc'[h] = "ended"
    BY <2>1, Committing
  <2>3. <<"pool", p>> \in tx[h].upd /\ c \in DOMAIN req[h].columns /\ setting'[p][c] = req[h].columns[c]
    BY <2>1 DEF EditsCommitted
  <2>4. req[h].op \in Setting
    BY <2>2, <2>3 DEF Fits, Locks, Setting
  <2>5. req[h].pool = p
    BY <2>2, <2>3, <2>4 DEF Fits, Locks
  <2>6. c \in req[h].named \/ req[h].columns[c] = req[h].base[c]
    BY <2>2, <2>3, <2>4 DEF Fits, Mentions
  <2> QED  BY <2>2, <2>3, <2>4, <2>5, <2>6 DEF Setting
<1> HIDE DEF A
<1>4. Spec => [][A]_vars
  BY <1>1, <1>2, <1>3, PTL DEF Spec
<1> QED  BY <1>4 DEF EditsChangeWhatTheyName, A

(* What a key comes to reach by a step that adds no grant to a project and *)
(* takes from its own grants only those of deleted models.                 *)
LEMMA ReachFrom ==
  ASSUME TablesInv, TablesInv', Statement, NEW k \in Keys, revoked \subseteq revoked',
         <<"key", k>> \in Names(db),
         \A r \in db' : r[1] = "grant" => r \in db,
         \A m \in Models : <<"key_grant", k, m>> \in db' => <<"key_grant", k, m>> \in db,
         \A m \in Models :
           /\ <<"key", k>> \in Names(db') /\ <<"model", m>> \in Names(db')
           /\ <<"key_grant", k, m>> \in db
           => <<"key_grant", k, m>> \in db',
         ~(ReachOf(k)' \subseteq ReachOf(k))
  PROVE  \A m \in KeyGrants(db, k) : <<"model", m>> \notin Names(db')
<1>1. PICK m \in Models : m \in ReachOf(k)' /\ m \notin ReachOf(k)
  BY DEF ReachOf, Reach
<1>2. PICK j \in Projects :
        /\ k \notin revoked' /\ <<"key", k, j>> \in db'
        /\ <<"grant", j, m>> \in db' /\ <<"model", m>> \in Names(db')
        /\ m \in KeyGrants(db', k) \/ KeyGrants(db', k) = {}
  BY <1>1 DEF ReachOf, Reach
<1>3. PICK q \in db' : q = <<"key", k, j>>
  BY <1>2
<1>4. PICK g \in db' : g = <<"grant", j, m>>
  BY <1>2
<1>5. q[1] = "key" /\ q[2] = k /\ g[1] = "grant" /\ g[3] = m
  BY <1>3, <1>4
<1>6. q \in Row /\ g \in Row
  BY DEF TablesInv, TablesTyped
<1>7. IsEntity(q) /\ Name(q) = <<"key", k>>
  BY <1>5 DEF IsEntity, Entities, Name
<1>8. q \in db
  BY <1>6, <1>7, CommittedSettled, SettledStays
<1>9. g \in db
  BY <1>5
<1>10. <<"model", m>> \in Names(db)
  <2>1. Parents(g) = {<<"model", m>>}
    BY <1>5, <1>6, ParentsOf
  <2> QED  BY <1>9, <2>1 DEF TablesInv, Stored, Consistent
<1>11. k \notin revoked
  BY <1>2
<1>12. ~(m \in KeyGrants(db, k) \/ KeyGrants(db, k) = {})
  BY <1>1, <1>3, <1>4, <1>8, <1>9, <1>10, <1>11 DEF ReachOf, Reach
<1>13. KeyGrants(db', k) = {}
  BY <1>2, <1>12 DEF KeyGrants
<1>14. <<"key", k>> \in Names(db')
  BY <1>7 DEF Names
<1> QED  BY <1>13, <1>14 DEF KeyGrants

(* A key comes to reach more models only by a request about it, by a grant *)
(* to a project, or when the last of the models it was confined to goes:   *)
(* whatever else is created, edited, revoked or deleted in between, no key *)
(* gains a model.                                                          *)
THEOREM KeysReachNoMore == Spec => ReachGrowsKnowingly
<1> DEFINE I == TablesInv /\ RequestsInv /\ KeysInv
           Known(k) ==
             \/ <<"key", k>> \notin Names(db)
             \/ \E h \in Handlers : pc[h] = "commit" /\ req[h].key = k /\ pc'[h] = "ended"
             \/ \E r \in db' \ db : r[1] = "grant"
             \/ \A m \in KeyGrants(db, k) : <<"model", m>> \notin Names(db')
           A == \A k \in Keys : ~(ReachOf(k)' \subseteq ReachOf(k)) => Known(k)
<1>1. Init => I
  BY CatalogInit, KeysInit
<1>2. I /\ [Next]_vars => I'
  BY TablesNext, RequestsNext, KeysNext
<1>3. I /\ [Next]_vars => [A]_vars
  <2> SUFFICES ASSUME I, [Next]_vars, NEW k \in Keys, ~(ReachOf(k)' \subseteq ReachOf(k))
               PROVE  Known(k)
    OBVIOUS
  <2>1. Statement /\ TablesInv'
    BY TablesNext
  <2>2. SUFFICES ASSUME <<"key", k>> \in Names(db), \A r \in db' : r[1] = "grant" => r \in db
                 PROVE  Known(k)
    OBVIOUS
  <2>3. ~(db' = db /\ revoked' = revoked)
    BY DEF ReachOf
  <2>4. CASE Alone /\ (AtOnce \/ Admin)
    <3>1. revoked \subseteq revoked'
      BY <2>4, AloneEdits
    <3>2. \A m \in Models : <<"key_grant", k, m>> \in db' => <<"key_grant", k, m>> \in db
      BY <2>4, AloneGrants
    <3>3. \A m \in Models :
            <<"key", k>> \in Names(db') /\ <<"key_grant", k, m>> \in db => <<"key_grant", k, m>> \in db'
      BY <2>4, AloneGrants
    <3> QED  BY <2>1, <2>2, <3>1, <3>2, <3>3, ReachFrom
  <2>5. ASSUME NEW h \in Handlers, Services(h) \/ Edits(h), UNCHANGED editVars
        PROVE  FALSE
    <3>1. db' = db
      BY <2>5, ServicesAreNoKeying, EditsOwn DEF KeysInv
    <3> QED  BY <2>3, <2>5, <3>1 DEF editVars
  <2>6. ASSUME NEW h \in Handlers, CommitAndEnd(h), EditsCommitted(h)
        PROVE  Known(k)
    <3>1. pc[h] = "commit" /\ pc'[h] = "ended"
      BY <2>6, Committing
    <3>2. CASE req[h].key = k
      BY <3>1, <3>2
    <3>3. CASE req[h].key # k
      <4>1. revoked \subseteq revoked'
        BY <2>6 DEF EditsCommitted
      <4>2. \A m \in Models : <<"key_grant", k, m>> \in db' => <<"key_grant", k, m>> \in db
        BY <2>6, <3>3, GrantsOfOthers
      <4>3. \A m \in Models : <<"key_grant", k, m>> \in db /\ <<"model", m>> \in Names(db')
                                => <<"key_grant", k, m>> \in db'
        BY <2>6, <3>3, GrantsOfOthers
      <4> QED  BY <2>1, <2>2, <4>1, <4>2, <4>3, ReachFrom
    <3> QED  BY <3>2, <3>3
  <2>7. CASE UNCHANGED vars
    BY <2>3, <2>7 DEF vars, editVars
  <2> QED  BY <2>4, <2>5, <2>6, <2>7, Steps
<1> HIDE DEF A
<1>4. Spec => [][A]_vars
  BY <1>1, <1>2, <1>3, PTL DEF Spec
<1> QED  BY <1>4 DEF ReachGrowsKnowingly, A
=============================================================================
