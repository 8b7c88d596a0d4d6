--------------------------- MODULE AccountsProofs ---------------------------
(***************************************************************************)
(* Proofs about Accounts, for every number of handlers, users, emails and  *)
(* codes and every limit and window: the state is well typed, a code       *)
(* registers one account and only that of the email it was mailed to, an   *)
(* account has its workspace, the limiters let through no more than their  *)
(* limit in a window, and a password changes when that was asked for.      *)
(***************************************************************************)
EXTENDS Accounts, WindowProofs

----------------------------------------------------------------------------
(* Types.                                                                  *)

UserRow == [email : Emails, password : Passwords, legacy : BOOLEAN]
CodeRow == [code : Codes, age : 0..CodeTtl, used : BOOLEAN]

(* Emails with a verification row.                                         *)
Coded == {e \in Emails : row[e] \in CodeRow}

(* What a handler has when it is at l, if the users ws are registered and  *)
(* the emails es have a verification row.                                  *)
Holds(l, r, ws, es) ==
  /\ l \in {"resend", "mail", "save", "claimed", "inserted"} => r.email \in Emails
  /\ l \in {"save", "claimed", "inserted"} => r.code \in Codes
  /\ l \in {"claimed", "inserted", "upgrade"} => r.password \in Passwords
  /\ l \in {"claimed", "inserted"} => r.email \in es
  /\ l = "inserted" => r.user \in Users
  /\ l \in {"upgrade", "profile", "session"} => r.user \in ws

HandlersTyped ==
  /\ pc \in [Handlers -> Pc]
  /\ req \in [Handlers -> Request]
  /\ \A h \in Handlers : Holds(pc[h], req[h], workspace, Coded)

TablesTyped ==
  /\ user \in [Users -> UserRow \cup {None}]
  /\ workspace \subseteq Users
  /\ row \in [Emails -> CodeRow \cup {None}]
  /\ session \in [Tokens -> Users \cup {None}]
  /\ mailed \in [Codes -> Emails \cup {None}]
  /\ registered \subseteq Codes \X Emails \X Users

(* Registered users have a row, and only they have sessions.               *)
UsersKnown ==
  /\ \A u \in workspace : user[u] \in UserRow
  /\ \A u \in Users : user[u] # None => u \in workspace
  /\ \A t \in Tokens : session[t] # None => session[t] \in workspace

Typed == HandlersTyped /\ TablesTyped /\ UsersKnown

LEMMA NoRequestType ==
  /\ NoRequest \in Request
  /\ \A u \in Users : [NoRequest EXCEPT !.user = u] \in Request
  /\ \A u : [NoRequest EXCEPT !.user = u].user = u
BY DEF NoRequest, Request

LEMMA RequestWith ==
  ASSUME NEW r \in Request
  PROVE  /\ \A e \in Emails : [r EXCEPT !.email = e] \in Request /\ [r EXCEPT !.email = e].email = e
         /\ \A c \in Codes : /\ [r EXCEPT !.code = c] \in Request
                             /\ [r EXCEPT !.code = c].code = c
                             /\ [r EXCEPT !.code = c].email = r.email
         /\ \A u \in Users : /\ [r EXCEPT !.user = u] \in Request
                             /\ [r EXCEPT !.user = u].user = u
                             /\ [r EXCEPT !.user = u].code = r.code
                             /\ [r EXCEPT !.user = u].email = r.email
                             /\ [r EXCEPT !.user = u].password = r.password
BY DEF Request

(* Users and verification rows are never deleted.                          *)
Growing == workspace \subseteq workspace' /\ Coded \subseteq Coded'

LEMMA HandlerStep ==
  ASSUME HandlersTyped, NEW h \in Handlers, NEW l \in Pc, NEW r \in Request,
         pc' = [pc EXCEPT ![h] = l], req' = [req EXCEPT ![h] = r],
         Growing, Holds(l, r, workspace', Coded')
  PROVE  HandlersTyped'
<1>1. \A o \in Handlers : Holds(pc[o], req[o], workspace, Coded) => Holds(pc[o], req[o], workspace', Coded')
  BY DEF Holds, Growing
<1>2. \A o \in Handlers : Holds(pc'[o], req'[o], workspace', Coded')
  BY <1>1 DEF HandlersTyped
<1> QED  BY <1>2 DEF HandlersTyped

LEMMA QuietType ==
  ASSUME HandlersTyped, UNCHANGED <<pc, req>>, Growing
  PROVE  HandlersTyped'
<1>1. \A o \in Handlers : Holds(pc[o], req[o], workspace, Coded) => Holds(pc[o], req[o], workspace', Coded')
  BY DEF Holds, Growing
<1> QED  BY <1>1 DEF HandlersTyped

LEMMA EndsType ==
  ASSUME HandlersTyped, NEW h \in Handlers, Ends(h), Growing
  PROVE  HandlersTyped'
<1>1. Holds("idle", NoRequest, workspace', Coded') /\ "idle" \in Pc
  BY DEF Holds, Pc
<1> QED  BY <1>1, NoRequestType, HandlerStep DEF Ends, Goto

LEMMA AcceptedType ==
  ASSUME HandlersTyped, NEW h \in Handlers, NEW u \in Users, Accepted(h, u), Growing, u \in workspace'
  PROVE  HandlersTyped'
<1> DEFINE r == [NoRequest EXCEPT !.user = u]
<1>1. r \in Request /\ r.user = u
  BY NoRequestType
<1> HIDE DEF r
<1>2. Holds("session", r, workspace', Coded') /\ "session" \in Pc
  BY <1>1 DEF Holds, Pc
<1>3. pc' = [pc EXCEPT ![h] = "session"] /\ req' = [req EXCEPT ![h] = r]
  BY DEF Accepted, Goto, r
<1> QED  BY <1>1, <1>2, <1>3, HandlerStep

LEMMA TypedInit == Init => Typed
<1> SUFFICES ASSUME Init PROVE Typed
  OBVIOUS
<1>1. user \in [Users -> UserRow \cup {None}]
  BY DEF Init, UserRow
<1>2. HandlersTyped
  BY NoRequestType DEF Init, HandlersTyped, Pc, Holds
<1>3. workspace \subseteq Users /\ \A u \in Users : user[u] # None <=> u \in workspace
  BY DEF Init
<1>4. TablesTyped
  BY <1>1, <1>3 DEF Init, TablesTyped
<1>5. UsersKnown
  BY <1>1, <1>3 DEF Init, UsersKnown
<1> QED  BY <1>2, <1>4, <1>5 DEF Typed

(* The codes: send_verification_code, the claim of one, the insert.        *)
LEMMA TypedCodes ==
  ASSUME Typed, NEW h \in Handlers,
         SendCode(h) \/ CheckResend(h) \/ MailCode(h) \/ SaveCode(h) \/ Claim(h) \/ InsertUser(h)
  PROVE  Typed'
<1>0. /\ req[h] \in Request /\ Holds(pc[h], req[h], workspace, Coded) /\ HandlersTyped /\ TablesTyped
      /\ req \in [Handlers -> Request]
  BY DEF Typed, HandlersTyped
<1>1. UNCHANGED <<user, workspace, session, registered>>
  BY DEF SendCode, CheckResend, MailCode, SaveCode, Claim, InsertUser, tables, history
<1>2. UsersKnown'
  BY <1>1 DEF Typed, UsersKnown
<1>g. UNCHANGED row => Growing /\ Coded' = Coded
  BY <1>1 DEF Growing, Coded
<1>3. CASE SendCode(h)
  <2>0. UNCHANGED <<row, mailed>> /\ pc[h] = "idle"
    BY <1>3 DEF SendCode, tables
  <2>1. PICK e \in Emails :
          \/ Goto(h, "resend") /\ req' = [req EXCEPT ![h].email = e]
          \/ UNCHANGED <<pc, req>>
    BY <1>3 DEF SendCode
  <2>2. CASE Goto(h, "resend") /\ req' = [req EXCEPT ![h].email = e]
    <3> DEFINE r == [req[h] EXCEPT !.email = e]
    <3>1. req' = [req EXCEPT ![h] = r]
      BY <1>0, <2>2
    <3>2. r \in Request /\ r.email = e
      BY <1>0, RequestWith
    <3> HIDE DEF r
    <3>3. Holds("resend", r, workspace', Coded') /\ "resend" \in Pc
      BY <3>2 DEF Holds, Pc
    <3> QED  BY <1>0, <1>1, <1>2, <1>g, <2>0, <2>2, <3>1, <3>2, <3>3, HandlerStep DEF Goto, Typed, TablesTyped
  <2>3. CASE UNCHANGED <<pc, req>>
    BY <1>0, <1>1, <1>2, <1>g, <2>0, <2>3, QuietType DEF Typed, TablesTyped
  <2> QED  BY <2>1, <2>2, <2>3
<1>4. CASE CheckResend(h)
  <2>0. UNCHANGED <<row, mailed>> /\ pc[h] = "resend"
    BY <1>4 DEF CheckResend, tables, history
  <2>1. Ends(h) \/ (Goto(h, "mail") /\ UNCHANGED req)
    BY <1>4 DEF CheckResend
  <2>2. CASE Ends(h)
    BY <1>0, <1>1, <1>2, <1>g, <2>0, <2>2, EndsType DEF Typed, TablesTyped
  <2>3. CASE Goto(h, "mail") /\ UNCHANGED req
    <3>1. Holds("mail", req[h], workspace', Coded') /\ "mail" \in Pc
      BY <1>0, <2>0 DEF Holds, Pc
    <3>2. req' = [req EXCEPT ![h] = req[h]]
      BY <1>0, <2>3
    <3> QED  BY <1>0, <1>1, <1>2, <1>g, <2>0, <2>3, <3>1, <3>2, HandlerStep DEF Goto, Typed, TablesTyped
  <2> QED  BY <2>1, <2>2, <2>3
<1>5. CASE MailCode(h)
  <2>0. UNCHANGED row /\ pc[h] = "mail" /\ Goto(h, "save") /\ req[h].email \in Emails
    BY <1>0, <1>5 DEF MailCode, tables, Holds
  <2>1. PICK c \in Codes :
          mailed' = [mailed EXCEPT ![c] = req[h].email] /\ req' = [req EXCEPT ![h].code = c]
    BY <1>5 DEF MailCode
  <2> DEFINE r == [req[h] EXCEPT !.code = c]
  <2>2. req' = [req EXCEPT ![h] = r]
    BY <1>0, <2>1
  <2>3. r \in Request /\ r.code = c /\ r.email = req[h].email
    BY <1>0, RequestWith
  <2> HIDE DEF r
  <2>4. Holds("save", r, workspace', Coded') /\ "save" \in Pc
    BY <2>0, <2>3 DEF Holds, Pc
  <2>5. mailed' \in [Codes -> Emails \cup {None}]
    BY <1>0, <2>0, <2>1 DEF TablesTyped
  <2>6. HandlersTyped'
    BY <1>0, <1>g, <2>0, <2>2, <2>3, <2>4, HandlerStep DEF Goto
  <2> QED  BY <1>0, <1>1, <1>2, <2>0, <2>5, <2>6 DEF Typed, TablesTyped
<1>6. CASE SaveCode(h)
  <2>1. req[h].code \in Codes /\ req[h].email \in Emails /\ UNCHANGED mailed /\ Ends(h)
    BY <1>0, <1>6 DEF SaveCode, Holds, history
  <2>2. [code |-> req[h].code, age |-> 0, used |-> FALSE] \in CodeRow
    BY <2>1, AccountsAssumption DEF CodeRow
  <2>3. row' \in [Emails -> CodeRow \cup {None}] /\ Coded \subseteq Coded'
    BY <1>0, <1>6, <2>1, <2>2 DEF SaveCode, TablesTyped, Coded
  <2>4. HandlersTyped'
    BY <1>0, <1>1, <2>1, <2>3, EndsType DEF Growing
  <2> QED  BY <1>0, <1>1, <1>2, <2>1, <2>3, <2>4 DEF TablesTyped, Typed
<1>7. CASE Claim(h)
  <2>0. UNCHANGED <<row, mailed>> /\ Goto(h, "claimed")
    BY <1>7 DEF Claim, tables, history
  <2>1. PICK e \in Emails, p \in Passwords :
          /\ row[e] # None
          /\ req' = [req EXCEPT ![h] = [NoRequest EXCEPT !.email = e, !.code = row[e].code,
                                                         !.password = p]]
    BY <1>7 DEF Claim
  <2> DEFINE r == [NoRequest EXCEPT !.email = e, !.code = row[e].code, !.password = p]
  <2>2. row[e] \in CodeRow /\ row[e].code \in Codes /\ e \in Coded
    BY <1>0, <2>1 DEF TablesTyped, CodeRow, Coded
  <2>3. r \in Request /\ r.email = e /\ r.code = row[e].code /\ r.password = p
    BY <2>2 DEF NoRequest, Request
  <2>4. req' = [req EXCEPT ![h] = r]
    BY <2>1
  <2> HIDE DEF r
  <2>5. Holds("claimed", r, workspace', Coded') /\ "claimed" \in Pc
    BY <1>g, <2>0, <2>2, <2>3 DEF Holds, Pc
  <2>6. HandlersTyped'
    BY <1>0, <1>g, <2>0, <2>3, <2>4, <2>5, HandlerStep DEF Goto
  <2> QED  BY <1>0, <1>1, <1>2, <2>0, <2>6 DEF TablesTyped, Typed
<1>8. CASE InsertUser(h)
  <2>0. UNCHANGED <<row, mailed>> /\ pc[h] = "claimed" /\ Goto(h, "inserted")
    BY <1>8 DEF InsertUser, tables, history
  <2>1. PICK u \in Users : req' = [req EXCEPT ![h].user = u]
    BY <1>8 DEF InsertUser
  <2> DEFINE r == [req[h] EXCEPT !.user = u]
  <2>2. req' = [req EXCEPT ![h] = r]
    BY <1>0, <2>1
  <2>3. r \in Request /\ r.user = u /\ r.code = req[h].code /\ r.email = req[h].email
        /\ r.password = req[h].password
    BY <1>0, RequestWith
  <2> HIDE DEF r
  <2>4. Holds("inserted", r, workspace', Coded') /\ "inserted" \in Pc
    BY <1>0, <1>g, <2>0, <2>3 DEF Holds, Pc
  <2>5. HandlersTyped'
    BY <1>0, <1>g, <2>0, <2>2, <2>3, <2>4, HandlerStep DEF Goto
  <2> QED  BY <1>0, <1>1, <1>2, <2>0, <2>5 DEF TablesTyped, Typed
<1> QED  BY <1>3, <1>4, <1>5, <1>6, <1>7, <1>8

(* A row of a user that is changed.                                        *)
LEMMA UserChanged ==
  ASSUME TablesTyped, UsersKnown, NEW u \in Users, NEW r \in UserRow, user' = [user EXCEPT ![u] = r],
         workspace' = workspace \cup {u}, UNCHANGED session
  PROVE  UsersKnown' /\ user' \in [Users -> UserRow \cup {None}] /\ workspace' \subseteq Users
BY DEF TablesTyped, UsersKnown

LEMMA TypedUsers ==
  ASSUME Typed, NEW h \in Handlers,
         CommitRegistration(h) \/ StartSession(h) \/ Login(h) \/ UpgradeHash(h)
           \/ UpdateProfile(h) \/ WriteProfile(h) \/ Fail(h)
  PROVE  Typed'
<1>0. /\ req[h] \in Request /\ Holds(pc[h], req[h], workspace, Coded) /\ HandlersTyped /\ TablesTyped
      /\ UsersKnown /\ req \in [Handlers -> Request]
  BY DEF Typed, HandlersTyped
<1>g. UNCHANGED <<row, workspace>> => Growing /\ Coded' = Coded
  BY DEF Growing, Coded
<1> DEFINE u == req[h].user
<1>1. CASE CommitRegistration(h)
  <2>1. /\ u \in Users /\ req[h].email \in Emails /\ req[h].password \in Passwords
        /\ req[h].code \in Codes /\ req[h].email \in Coded
    BY <1>0, <1>1 DEF CommitRegistration, Holds
  <2> DEFINE r == [email |-> req[h].email, password |-> req[h].password, legacy |-> FALSE]
  <2>2. r \in UserRow
    BY <2>1 DEF UserRow
  <2>3. /\ user' = [user EXCEPT ![u] = r] /\ workspace' = workspace \cup {u}
        /\ row' = [row EXCEPT ![req[h].email].used = TRUE]
        /\ registered' = registered \cup {<<req[h].code, req[h].email, u>>}
        /\ Accepted(h, u) /\ UNCHANGED <<session, mailed>>
    BY <1>1 DEF CommitRegistration
  <2> HIDE DEF r
  <2>4. UsersKnown' /\ user' \in [Users -> UserRow \cup {None}] /\ workspace' \subseteq Users
    BY <1>0, <2>1, <2>2, <2>3, UserChanged
  <2>5. row' \in [Emails -> CodeRow \cup {None}] /\ Coded \subseteq Coded'
    <3>1. [row[req[h].email] EXCEPT !.used = TRUE] \in CodeRow
      BY <2>1 DEF Coded, CodeRow
    <3>2. row' = [row EXCEPT ![req[h].email] = [row[req[h].email] EXCEPT !.used = TRUE]]
      BY <1>0, <2>1, <2>3 DEF TablesTyped
    <3> QED  BY <1>0, <2>1, <3>1, <3>2 DEF TablesTyped, Coded
  <2>6. HandlersTyped'
    BY <1>0, <2>1, <2>3, <2>5, AcceptedType DEF Growing
  <2>7. registered' \subseteq Codes \X Emails \X Users
    BY <1>0, <2>1, <2>3 DEF TablesTyped
  <2> QED  BY <1>0, <2>3, <2>4, <2>5, <2>6, <2>7 DEF Typed, TablesTyped
<1>2. CASE StartSession(h)
  <2>1. u \in workspace /\ u \in Users /\ Ends(h) /\ UNCHANGED <<user, workspace, row, mailed, registered>>
    BY <1>0, <1>2 DEF StartSession, Holds, TablesTyped, history
  <2>2. PICK t \in Tokens : session' = [session EXCEPT ![t] = u]
    BY <1>2 DEF StartSession, CreateSession
  <2>3. UsersKnown' /\ session' \in [Tokens -> Users \cup {None}]
    BY <1>0, <2>1, <2>2 DEF UsersKnown, TablesTyped
  <2>4. HandlersTyped'
    BY <1>0, <1>g, <2>1, EndsType
  <2> QED  BY <1>0, <2>1, <2>3, <2>4 DEF TablesTyped, Typed
<1>3. CASE Login(h)
  <2>0. UNCHANGED <<user, workspace, row, session, mailed, registered>>
    BY <1>3 DEF Login, tables
  <2>1. PICK e \in Emails, p \in Passwords :
          \/ UNCHANGED <<pc, req>>
          \/ \E v \in UsersWith(e) :
               \/ Accepted(h, v)
               \/ /\ req' = [req EXCEPT ![h] = [NoRequest EXCEPT !.user = v, !.password = p,
                                                                 !.legacy = TRUE]]
                  /\ Goto(h, "upgrade")
    BY <1>3 DEF Login
  <2>2. \A v \in UsersWith(e) : v \in Users /\ v \in workspace
    BY <1>0 DEF UsersWith, UsersKnown
  <2>3. HandlersTyped'
    <3>1. CASE UNCHANGED <<pc, req>>
      BY <1>0, <1>g, <2>0, <3>1, QuietType
    <3>2. ASSUME NEW v \in UsersWith(e), Accepted(h, v) PROVE HandlersTyped'
      BY <1>0, <1>g, <2>0, <2>2, <3>2, AcceptedType
    <3>3. ASSUME NEW v \in UsersWith(e), Goto(h, "upgrade"),
                 req' = [req EXCEPT ![h] = [NoRequest EXCEPT !.user = v, !.password = p, !.legacy = TRUE]]
          PROVE  HandlersTyped'
      <4> DEFINE r == [NoRequest EXCEPT !.user = v, !.password = p, !.legacy = TRUE]
      <4>1. r \in Request /\ r.user = v /\ r.password = p
        BY <2>2 DEF NoRequest, Request
      <4>2. req' = [req EXCEPT ![h] = r]
        BY <3>3
      <4> HIDE DEF r
      <4>3. Holds("upgrade", r, workspace', Coded') /\ "upgrade" \in Pc
        BY <2>0, <2>2, <4>1 DEF Holds, Pc
      <4> QED  BY <1>0, <1>g, <2>0, <3>3, <4>1, <4>2, <4>3, HandlerStep DEF Goto
    <3> QED  BY <2>1, <3>1, <3>2, <3>3
  <2> QED  BY <1>0, <2>0, <2>3 DEF Typed, TablesTyped, UsersKnown
<1>4. CASE UpgradeHash(h)
  <2>1. /\ u \in workspace /\ u \in Users /\ user[u] \in UserRow /\ req[h].password \in Passwords
        /\ UNCHANGED <<workspace, row, session, mailed, registered>> /\ Accepted(h, u)
    BY <1>0, <1>4 DEF UpgradeHash, Holds, TablesTyped, UsersKnown, history
  <2> DEFINE r == [user[u] EXCEPT !.password = req[h].password, !.legacy = FALSE]
  <2>2. r \in UserRow
    BY <2>1 DEF UserRow
  <2>3. user' = [user EXCEPT ![u] = r]
    BY <1>0, <1>4, <2>1 DEF UpgradeHash, TablesTyped, UserRow
  <2> HIDE DEF r
  <2>4. workspace' = workspace \cup {u}
    BY <2>1
  <2>5. UsersKnown' /\ user' \in [Users -> UserRow \cup {None}]
    BY <1>0, <2>1, <2>2, <2>3, <2>4, UserChanged
  <2>6. HandlersTyped'
    BY <1>0, <1>g, <2>1, AcceptedType
  <2> QED  BY <1>0, <2>1, <2>5, <2>6 DEF Typed, TablesTyped
<1>5. CASE UpdateProfile(h)
  <2>0. UNCHANGED <<user, workspace, row, session, mailed, registered>> /\ Goto(h, "profile")
    BY <1>5 DEF UpdateProfile, tables, history
  <2>1. PICK t \in Tokens, e \in Emails \cup {None}, p \in Passwords \cup {None} :
          /\ session[t] # None
          /\ req' = [req EXCEPT ![h] = [NoRequest EXCEPT !.email = e, !.password = p,
                                                         !.user = session[t]]]
    BY <1>5 DEF UpdateProfile
  <2> DEFINE r == [NoRequest EXCEPT !.email = e, !.password = p, !.user = session[t]]
  <2>2. session[t] \in Users /\ session[t] \in workspace
    BY <1>0, <2>1 DEF UsersKnown, TablesTyped
  <2>3. r \in Request /\ r.user = session[t]
    BY <2>2 DEF NoRequest, Request
  <2>4. req' = [req EXCEPT ![h] = r]
    BY <2>1
  <2> HIDE DEF r
  <2>5. Holds("profile", r, workspace', Coded') /\ "profile" \in Pc
    BY <2>0, <2>2, <2>3 DEF Holds, Pc
  <2>6. HandlersTyped'
    BY <1>0, <1>g, <2>0, <2>3, <2>4, <2>5, HandlerStep DEF Goto
  <2> QED  BY <1>0, <2>0, <2>6 DEF Typed, TablesTyped, UsersKnown
<1>6. CASE WriteProfile(h)
  <2>1. /\ u \in workspace /\ u \in Users /\ user[u] \in UserRow
        /\ req[h].email \in Emails \cup {None} /\ req[h].password \in Passwords \cup {None}
        /\ UNCHANGED <<workspace, row, session, mailed, registered>> /\ Ends(h)
    BY <1>0, <1>6 DEF WriteProfile, Holds, TablesTyped, UsersKnown, history, Request
  <2> DEFINE r == [email |-> IF req[h].email = None THEN user[u].email ELSE req[h].email,
                   password |-> IF req[h].password = None THEN user[u].password ELSE req[h].password,
                   legacy |-> user[u].legacy /\ req[h].password = None]
  <2>2. r \in UserRow
    BY <2>1 DEF UserRow
  <2>3. user' = [user EXCEPT ![u] = r]
    BY <1>0, <1>6, <2>1 DEF WriteProfile, TablesTyped
  <2> HIDE DEF r
  <2>4. workspace' = workspace \cup {u}
    BY <2>1
  <2>5. UsersKnown' /\ user' \in [Users -> UserRow \cup {None}]
    BY <1>0, <2>1, <2>2, <2>3, <2>4, UserChanged
  <2>6. HandlersTyped'
    BY <1>0, <1>g, <2>1, EndsType
  <2> QED  BY <1>0, <2>1, <2>5, <2>6 DEF Typed, TablesTyped
<1>7. CASE Fail(h)
  <2>1. UNCHANGED <<user, workspace, row, session, mailed, registered>> /\ Ends(h)
    BY <1>7 DEF Fail, tables, history
  <2>2. HandlersTyped'
    BY <1>0, <1>g, <2>1, EndsType
  <2> QED  BY <1>0, <2>1, <2>2 DEF Typed, TablesTyped, UsersKnown
<1> QED  BY <1>1, <1>2, <1>3, <1>4, <1>5, <1>6, <1>7

LEMMA TypedTick == Typed /\ Tick => Typed'
<1> SUFFICES ASSUME Typed, Tick PROVE Typed'
  OBVIOUS
<1>1. UNCHANGED <<user, workspace, session, pc, req, mailed, registered>>
  BY DEF Tick
<1>2. \A n \in 0..CodeTtl : (IF n < CodeTtl THEN n + 1 ELSE n) \in 0..CodeTtl
  BY AccountsAssumption
<1>3. \A r \in CodeRow : [r EXCEPT !.age = IF @ < CodeTtl THEN @ + 1 ELSE @] \in CodeRow
  BY <1>2 DEF CodeRow
<1>4. row' \in [Emails -> CodeRow \cup {None}] /\ Coded \subseteq Coded'
  BY <1>3 DEF Tick, Typed, TablesTyped, Coded
<1>5. HandlersTyped'
  BY <1>1, <1>4, QuietType DEF Typed, Growing
<1> QED  BY <1>1, <1>4, <1>5 DEF Typed, TablesTyped, UsersKnown

LEMMA TypedStep == Typed /\ [Next]_vars => Typed'
<1> SUFFICES ASSUME Typed, [Next]_vars PROVE Typed'
  OBVIOUS
<1>1. CASE UNCHANGED vars
  <2>1. UNCHANGED <<user, workspace, row, session, pc, req, mailed, registered>>
    BY <1>1 DEF vars, tables, history
  <2> QED  BY <2>1, QuietType DEF Typed, TablesTyped, UsersKnown, Growing, Coded
<1>2. CASE Logout
  <2>1. /\ UNCHANGED <<user, workspace, row, pc, req, mailed, registered>>
        /\ \E t \in Tokens : session' = [session EXCEPT ![t] = None]
    BY <1>2 DEF Logout, history
  <2>2. HandlersTyped'
    BY <2>1, QuietType DEF Typed, Growing, Coded
  <2> QED  BY <2>1, <2>2 DEF Typed, TablesTyped, UsersKnown
<1> QED  BY <1>1, <1>2, TypedCodes, TypedUsers, TypedTick DEF Next

LEMMA AlwaysTyped == Spec => []Typed
BY TypedInit, TypedStep, PTL DEF Spec

(* No account without a workspace, whatever registrations fail half way:   *)
(* the lookup by which a session's requests start finds one.               *)
THEOREM WorkspacesComplete == Spec => []WorkspaceComplete
<1>1. Typed => WorkspaceComplete
  BY DEF Typed, UsersKnown, WorkspaceComplete
<1> QED  BY <1>1, AlwaysTyped, PTL

----------------------------------------------------------------------------
(* The limiters.                                                           *)

LimitsInv ==
  /\ logins \in [Emails -> Seq(Nat)] /\ checks = logins
  /\ sends \in [Emails -> Seq(Nat)] /\ requests = sends
  /\ \A e \in Emails : /\ Limited(logins[e], LoginWindow, MaxLogins)
                       /\ Limited(sends[e], SendWindow, MaxSends)

LEMMA LimitsAssumption ==
  /\ MaxLogins \in Nat /\ LoginWindow \in Nat /\ MaxSends \in Nat /\ SendWindow \in Nat
BY AccountsAssumption

LEMMA LimitsInit == Init => LimitsInv
<1>1. \A w, max \in Nat : Limited(<<>>, w, max)
  <2> SUFFICES ASSUME NEW w \in Nat, NEW max \in Nat PROVE Limited(<<>>, w, max)
    OBVIOUS
  <2>1. <<>> \in Seq(Nat) /\ Len(<<>>) = 0
    BY EmptySeq
  <2>2. 1..0 = {} /\ 0 <= max
    OBVIOUS
  <2> QED  BY <2>1, <2>2 DEF Limited, Queue
<1>2. <<>> \in Seq(Nat)
  OBVIOUS
<1> QED  BY <1>1, <1>2, LimitsAssumption DEF Init, LimitsInv

LEMMA LimitsSend ==
  ASSUME LimitsInv, NEW h \in Handlers, SendCode(h)
  PROVE  LimitsInv'
<1>1. PICK e \in Emails :
        /\ sends' = [sends EXCEPT ![e] = AfterCall(@, SendWindow, MaxSends)]
        /\ requests' = IF LetThrough(sends[e], SendWindow, MaxSends)
                       THEN [requests EXCEPT ![e] = Append(Within(@, SendWindow), 0)]
                       ELSE requests
  BY DEF SendCode
<1> DEFINE q == AfterCall(sends[e], SendWindow, MaxSends)
<1>2. /\ Limited(q, SendWindow, MaxSends)
      /\ LetThrough(sends[e], SendWindow, MaxSends) => q = Append(Within(sends[e], SendWindow), 0)
      /\ ~LetThrough(sends[e], SendWindow, MaxSends) => q = sends[e]
  BY LimitsAssumption, CallLimited DEF LimitsInv
<1>3. sends' = [sends EXCEPT ![e] = q]
  BY <1>1
<1>4. requests = sends /\ sends \in [Emails -> Seq(Nat)]
  BY DEF LimitsInv
<1> HIDE DEF q
<1>5. requests' = sends'
  <2>1. CASE LetThrough(sends[e], SendWindow, MaxSends)
    BY <1>1, <1>2, <1>3, <1>4, <2>1
  <2>2. CASE ~LetThrough(sends[e], SendWindow, MaxSends)
    BY <1>1, <1>2, <1>3, <1>4, <2>2
  <2> QED  BY <2>1, <2>2
<1>6. q \in Seq(Nat)
  BY <1>2 DEF Limited, Queue
<1>7. UNCHANGED <<logins, checks>>
  BY DEF SendCode
<1> QED  BY <1>2, <1>3, <1>5, <1>6, <1>7 DEF LimitsInv

LEMMA LimitsLogin ==
  ASSUME LimitsInv, NEW h \in Handlers, Login(h)
  PROVE  LimitsInv'
<1>1. PICK e \in Emails :
        /\ logins' = [logins EXCEPT ![e] = AfterCall(@, LoginWindow, MaxLogins)]
        /\ checks' = IF LetThrough(logins[e], LoginWindow, MaxLogins)
                     THEN [checks EXCEPT ![e] = Append(Within(@, LoginWindow), 0)]
                     ELSE checks
  BY DEF Login
<1> DEFINE q == AfterCall(logins[e], LoginWindow, MaxLogins)
<1>2. /\ Limited(q, LoginWindow, MaxLogins)
      /\ LetThrough(logins[e], LoginWindow, MaxLogins) => q = Append(Within(logins[e], LoginWindow), 0)
      /\ ~LetThrough(logins[e], LoginWindow, MaxLogins) => q = logins[e]
  BY LimitsAssumption, CallLimited DEF LimitsInv
<1>3. logins' = [logins EXCEPT ![e] = q]
  BY <1>1
<1>4. checks = logins /\ logins \in [Emails -> Seq(Nat)]
  BY DEF LimitsInv
<1> HIDE DEF q
<1>5. checks' = logins'
  <2>1. CASE LetThrough(logins[e], LoginWindow, MaxLogins)
    BY <1>1, <1>2, <1>3, <1>4, <2>1
  <2>2. CASE ~LetThrough(logins[e], LoginWindow, MaxLogins)
    BY <1>1, <1>2, <1>3, <1>4, <2>2
  <2> QED  BY <2>1, <2>2
<1>6. q \in Seq(Nat)
  BY <1>2 DEF Limited, Queue
<1>7. UNCHANGED <<sends, requests>>
  BY DEF Login
<1> QED  BY <1>2, <1>3, <1>5, <1>6, <1>7 DEF LimitsInv

LEMMA LimitsTick ==
  ASSUME LimitsInv, Tick
  PROVE  LimitsInv'
<1>1. /\ logins' = [e \in Emails |-> AllOlder(logins[e], LoginWindow)]
      /\ sends' = [e \in Emails |-> AllOlder(sends[e], SendWindow)]
      /\ checks' = logins' /\ requests' = sends'
  BY DEF Tick, LimitsInv
<1>2. \A e \in Emails : /\ Limited(AllOlder(logins[e], LoginWindow), LoginWindow, MaxLogins)
                        /\ Limited(AllOlder(sends[e], SendWindow), SendWindow, MaxSends)
  BY LimitsAssumption, OlderLimited DEF LimitsInv
<1>3. \A e \in Emails : /\ AllOlder(logins[e], LoginWindow) \in Seq(Nat)
                        /\ AllOlder(sends[e], SendWindow) \in Seq(Nat)
  BY <1>2 DEF Limited, Queue
<1> QED  BY <1>1, <1>2, <1>3 DEF LimitsInv

LEMMA LimitsStep == LimitsInv /\ [Next]_vars => LimitsInv'
<1> SUFFICES ASSUME LimitsInv, [Next]_vars PROVE LimitsInv'
  OBVIOUS
<1>1. CASE UNCHANGED <<logins, sends, checks, requests>>
  BY <1>1 DEF LimitsInv
<1>2. ASSUME NEW h \in Handlers,
             \/ CheckResend(h) \/ MailCode(h) \/ SaveCode(h) \/ Claim(h) \/ InsertUser(h)
             \/ CommitRegistration(h) \/ StartSession(h) \/ UpgradeHash(h) \/ UpdateProfile(h)
             \/ WriteProfile(h) \/ Fail(h)
      PROVE  UNCHANGED <<logins, sends, checks, requests>>
  BY <1>2 DEF CheckResend, MailCode, SaveCode, Claim, InsertUser, CommitRegistration, StartSession,
              UpgradeHash, UpdateProfile, WriteProfile, Fail, limiters, history
<1>3. UNCHANGED vars \/ Logout => UNCHANGED <<logins, sends, checks, requests>>
  BY DEF vars, Logout, limiters, history
<1> QED  BY <1>1, <1>2, <1>3, LimitsSend, LimitsLogin, LimitsTick DEF Next

LEMMA AlwaysLimits == Spec => []LimitsInv
<1>1. Init => LimitsInv
  BY LimitsInit
<1> QED  BY <1>1, LimitsStep, PTL DEF Spec

(* No stretch of time as long as a window sees more attempts than its      *)
(* limit, for every limit and window.                                      *)
THEOREM AttemptsAreLimited == Spec => []AttemptsLimited
<1>1. LimitsInv => AttemptsLimited
  BY LimitsAssumption, LimitedType DEF LimitsInv, AttemptsLimited
<1> QED  BY <1>1, AlwaysLimits, PTL

(* The state is well typed at every step.                                  *)
THEOREM AccountsTypeCorrect == Spec => []TypeOK
<1>1. Typed /\ LimitsInv => TypeOK
  <2> SUFFICES ASSUME Typed, LimitsInv PROVE TypeOK
    OBVIOUS
  <2>1. \A e \in Emails : logins[e] \in Seq(0..LoginWindow) /\ sends[e] \in Seq(0..SendWindow)
    BY LimitsAssumption, LimitedType DEF LimitsInv
  <2>2. /\ {logins, checks} \subseteq [Emails -> Seq(0..LoginWindow)]
        /\ {sends, requests} \subseteq [Emails -> Seq(0..SendWindow)]
    BY <2>1 DEF LimitsInv
  <2> QED  BY <2>2 DEF TypeOK, Typed, TablesTyped, HandlersTyped, UserRow, CodeRow
<1> QED  BY <1>1, AlwaysTyped, AlwaysLimits, PTL

----------------------------------------------------------------------------
(* Verification codes.                                                     *)

(* The code of a row was mailed to the row's email.                        *)
RowsMailed == \A e \in Emails : row[e] # None => mailed[row[e].code] = e

(* A code that is about to be saved is nowhere yet.                        *)
Fresh(h) ==
  /\ mailed[req[h].code] = req[h].email
  /\ \A e \in Emails : row[e] # None => row[e].code # req[h].code
  /\ \A r \in registered : r[1] # req[h].code
  /\ \A o \in Handlers \ {h} : pc[o] = "save" => req[o].code # req[h].code

SavesFresh == \A h \in Handlers : pc[h] = "save" => Fresh(h)

(* A locked row has the code it was claimed with, unused, and one holder.  *)
LocksHeld ==
  \A h \in Handlers, e \in Emails : Locks(h, e) =>
    /\ row[e] # None /\ row[e].code = req[h].code /\ ~row[e].used
    /\ \A o \in Handlers : Locks(o, e) => o = h

(* A code that registered an account is used where it still is.            *)
RegisteredUsed ==
  \A r \in registered :
    /\ mailed[r[1]] = r[2]
    /\ row[r[2]] # None /\ row[r[2]].code = r[1] => row[r[2]].used

CodesInv == RowsMailed /\ SavesFresh /\ LocksHeld /\ RegisteredUsed /\ CodeUsedOnce

Others(h) == \A o \in Handlers \ {h} : pc'[o] = pc[o] /\ req'[o] = req[o]

LEMMA CodesInit == Init => CodesInv
<1> SUFFICES ASSUME Init PROVE CodesInv
  OBVIOUS
<1>1. /\ \A e \in Emails : row[e] = None
      /\ registered = {} /\ \A h \in Handlers : pc[h] = "idle"
  BY DEF Init
<1> QED  BY <1>1 DEF CodesInv, RowsMailed, SavesFresh, LocksHeld, RegisteredUsed, CodeUsedOnce, Locks

(* Steps that leave the rows, and h without a code.                        *)
LEMMA CodesQuiet ==
  ASSUME CodesInv, NEW h \in Handlers, Others(h), UNCHANGED <<row, mailed, registered>>,
         pc'[h] \notin {"save", "claimed", "inserted"}
  PROVE  CodesInv'
<1>1. \A o \in Handlers, e \in Emails : Locks(o, e)' => o # h /\ Locks(o, e)
  BY DEF Locks, Others
<1>2. \A o \in Handlers : pc'[o] = "save" => o # h /\ pc[o] = "save" /\ req'[o] = req[o]
  BY DEF Others
<1>3. RowsMailed' /\ RegisteredUsed' /\ CodeUsedOnce'
  BY DEF CodesInv, RowsMailed, RegisteredUsed, CodeUsedOnce
<1>4. SavesFresh'
  BY <1>2 DEF CodesInv, SavesFresh, Fresh
<1>5. LocksHeld'
  <2> SUFFICES ASSUME NEW o \in Handlers, NEW e \in Emails, Locks(o, e)'
               PROVE  /\ row'[e] # None /\ row'[e].code = req'[o].code /\ ~row'[e].used
                      /\ \A x \in Handlers : Locks(x, e)' => x = o
    BY DEF LocksHeld
  <2>1. o # h /\ Locks(o, e) /\ req'[o] = req[o]
    BY <1>1 DEF Others
  <2> QED  BY <1>1, <2>1 DEF CodesInv, LocksHeld
<1> QED  BY <1>3, <1>4, <1>5 DEF CodesInv

(* Steps that change neither a handler nor what CodesInv speaks of.        *)
LEMMA CodesStill ==
  ASSUME CodesInv, UNCHANGED <<row, mailed, registered, pc, req>>
  PROVE  CodesInv'
BY DEF CodesInv, RowsMailed, SavesFresh, Fresh, LocksHeld, RegisteredUsed, CodeUsedOnce, Locks

LEMMA RowsTyped ==
  ASSUME Typed
  PROVE  \A e \in Emails : row[e] # None <=> row[e] \in CodeRow
BY AccountsAssumption DEF Typed, TablesTyped, CodeRow

(* Time passes: a row ages, and keeps its code and whether it was used.    *)
LEMMA CodesTick ==
  ASSUME Typed, CodesInv, Tick
  PROVE  CodesInv'
<1>1. UNCHANGED <<mailed, registered, pc, req>> /\ \A h \in Handlers, e \in Emails : Locks(h, e)' <=> Locks(h, e)
  BY DEF Tick, Locks
<1>2. ASSUME NEW e \in Emails
      PROVE  /\ row'[e] # None <=> row[e] # None
             /\ row[e] # None => row'[e].code = row[e].code /\ row'[e].used = row[e].used
  <2>1. CASE row[e] = None
    BY <2>1 DEF Tick
  <2>2. CASE row[e] # None
    <3>1. row[e] \in CodeRow /\ row'[e] = [row[e] EXCEPT !.age = IF @ < CodeTtl THEN @ + 1 ELSE @]
      BY <2>2, RowsTyped DEF Tick
    <3>2. \A n \in 0..CodeTtl : (IF n < CodeTtl THEN n + 1 ELSE n) \in 0..CodeTtl
      BY AccountsAssumption
    <3>3. row'[e] \in CodeRow /\ row'[e].code = row[e].code /\ row'[e].used = row[e].used
      BY <3>1, <3>2 DEF CodeRow
    <3>4. None \notin CodeRow
      BY AccountsAssumption DEF CodeRow
    <3> QED  BY <2>2, <3>3, <3>4
  <2> QED  BY <2>1, <2>2
<1>3. RowsMailed'
  BY <1>1, <1>2 DEF CodesInv, RowsMailed
<1>4. SavesFresh'
  BY <1>1, <1>2 DEF CodesInv, SavesFresh, Fresh
<1>5. LocksHeld'
  BY <1>1, <1>2 DEF CodesInv, LocksHeld
<1>6. RegisteredUsed' /\ CodeUsedOnce'
  <2>1. \A r \in registered : r[2] \in Emails
    BY DEF Typed, TablesTyped
  <2> QED  BY <1>1, <1>2, <2>1 DEF CodesInv, RegisteredUsed, CodeUsedOnce
<1> QED  BY <1>3, <1>4, <1>5, <1>6 DEF CodesInv

(* What a step of h does to its own place and to the others'.              *)
LEMMA Shapes ==
  ASSUME Typed, NEW h \in Handlers
  PROVE  /\ Ends(h) => Others(h) /\ pc'[h] = "idle"
         /\ \A u \in Users : Accepted(h, u) => Others(h) /\ pc'[h] = "session"
         /\ \A l : Goto(h, l) => pc'[h] = l /\ \A o \in Handlers \ {h} : pc'[o] = pc[o]
         /\ \A r : req' = [req EXCEPT ![h] = r] => req'[h] = r /\ \A o \in Handlers \ {h} : req'[o] = req[o]
         /\ req[h] \in Request /\ Holds(pc[h], req[h], workspace, Coded)
BY DEF Typed, HandlersTyped, Ends, Accepted, Goto, Others

LEMMA CodesMail ==
  ASSUME Typed, CodesInv, NEW h \in Handlers, MailCode(h)
  PROVE  CodesInv'
<1>1. PICK c \in Codes : /\ mailed[c] = None
                         /\ mailed' = [mailed EXCEPT ![c] = req[h].email]
                         /\ req' = [req EXCEPT ![h].code = c]
  BY DEF MailCode
<1>2. /\ pc[h] = "mail" /\ pc'[h] = "save" /\ Others(h)
      /\ req'[h].code = c /\ req'[h].email = req[h].email /\ req[h].email \in Emails
      /\ UNCHANGED <<row, registered>>
  <2>1. req' = [req EXCEPT ![h] = [req[h] EXCEPT !.code = c]]
    BY <1>1 DEF Typed, HandlersTyped
  <2>2. pc[h] = "mail" /\ Goto(h, "save") /\ UNCHANGED <<row, registered>>
    BY DEF MailCode, tables
  <2>3. Others(h)
    BY <2>1, <2>2, Shapes DEF Others
  <2>4. req[h].email \in Emails
    BY <2>2, Shapes DEF Holds
  <2>5. req'[h] = [req[h] EXCEPT !.code = c] /\ req[h] \in Request
    BY <2>1, Shapes
  <2>6. req'[h].code = c /\ req'[h].email = req[h].email
    BY <2>5, RequestWith
  <2>7. pc'[h] = "save"
    BY <2>2, Shapes
  <2> QED  BY <2>2, <2>3, <2>4, <2>6, <2>7
<1>3. mailed \in [Codes -> Emails \cup {None}] /\ None \notin Emails
  BY AccountsAssumption DEF Typed, TablesTyped
<1>4. \A d \in Codes : mailed[d] # None => d # c /\ mailed'[d] = mailed[d]
  BY <1>1, <1>3
<1>5. \A e \in Emails : row[e] # None => /\ row[e].code \in Codes /\ mailed[row[e].code] = e
                                         /\ row[e].code # c
  BY <1>3, <1>4, RowsTyped DEF CodesInv, RowsMailed, CodeRow
<1>6. \A r \in registered : r[1] \in Codes /\ r[2] \in Emails /\ mailed[r[1]] = r[2] /\ r[1] # c
  BY <1>3, <1>4 DEF CodesInv, RegisteredUsed, Typed, TablesTyped
<1>7. \A o \in Handlers : pc[o] = "save" =>
        /\ o # h /\ req[o].code \in Codes /\ req[o].email \in Emails
        /\ mailed[req[o].code] = req[o].email /\ req[o].code # c
  <2> SUFFICES ASSUME NEW o \in Handlers, pc[o] = "save"
               PROVE  /\ o # h /\ req[o].code \in Codes /\ req[o].email \in Emails
                      /\ mailed[req[o].code] = req[o].email /\ req[o].code # c
    OBVIOUS
  <2>1. o # h /\ req[o].code \in Codes /\ req[o].email \in Emails
    BY <1>2, Shapes DEF Holds
  <2>2. mailed[req[o].code] = req[o].email
    BY DEF CodesInv, SavesFresh, Fresh
  <2> QED  BY <1>3, <1>4, <2>1, <2>2
<1>8. RowsMailed'
  BY <1>2, <1>3, <1>4, <1>5 DEF RowsMailed
<1>9. SavesFresh'
  <2> SUFFICES ASSUME NEW o \in Handlers, pc'[o] = "save" PROVE Fresh(o)'
    BY DEF SavesFresh
  <2>1. CASE o = h
    <3>1. mailed'[c] = req[h].email
      BY <1>1, <1>3
    <3>2. \A x \in Handlers \ {h} : pc'[x] = "save" => req'[x].code # c
      BY <1>2, <1>7 DEF Others
    <3> QED  BY <1>2, <1>5, <1>6, <2>1, <3>1, <3>2 DEF Fresh
  <2>2. CASE o # h
    <3>1. pc[o] = "save" /\ req'[o] = req[o] /\ Fresh(o)
      BY <1>2, <2>2 DEF Others, CodesInv, SavesFresh
    <3>2. mailed'[req[o].code] = req[o].email /\ req[o].code # c
      BY <1>3, <1>4, <1>7, <3>1
    <3>3. \A x \in Handlers \ {o} : pc'[x] = "save" => req'[x].code # req[o].code
      BY <1>2, <3>1, <3>2 DEF Others, Fresh
    <3> QED  BY <1>2, <3>1, <3>2, <3>3 DEF Fresh
  <2> QED  BY <2>1, <2>2
<1>10. LocksHeld'
  <2>1. \A o \in Handlers, e \in Emails : Locks(o, e)' => o # h /\ Locks(o, e) /\ req'[o] = req[o]
    BY <1>2 DEF Locks, Others
  <2> QED  BY <1>2, <2>1 DEF CodesInv, LocksHeld
<1>11. RegisteredUsed' /\ CodeUsedOnce'
  BY <1>2, <1>3, <1>4, <1>6 DEF CodesInv, RegisteredUsed, CodeUsedOnce
<1> QED  BY <1>8, <1>9, <1>10, <1>11 DEF CodesInv

LEMMA CodesSave ==
  ASSUME Typed, CodesInv, NEW h \in Handlers, SaveCode(h)
  PROVE  CodesInv'
<1> DEFINE c == req[h].code
           e == req[h].email
<1>1. /\ pc[h] = "save" /\ pc'[h] = "idle" /\ Others(h) /\ UNCHANGED <<mailed, registered>>
      /\ row' = [row EXCEPT ![e] = [code |-> c, age |-> 0, used |-> FALSE]]
      /\ \A o \in Handlers : ~Locks(o, e)
  BY Shapes DEF SaveCode, history
<1>2. c \in Codes /\ e \in Emails
  BY <1>1, Shapes DEF Holds
<1>3. Fresh(h)
  BY <1>1 DEF CodesInv, SavesFresh
<1>4. /\ \A f \in Emails \ {e} : row'[f] = row[f]
      /\ row'[e].code = c
  BY <1>1, <1>2 DEF Typed, TablesTyped
<1>5. RowsMailed'
  BY <1>1, <1>2, <1>3, <1>4 DEF CodesInv, RowsMailed, Fresh
<1>6. SavesFresh'
  <2> SUFFICES ASSUME NEW o \in Handlers, pc'[o] = "save" PROVE Fresh(o)'
    BY DEF SavesFresh
  <2>1. o # h /\ pc[o] = "save" /\ req'[o] = req[o] /\ Fresh(o)
    BY <1>1 DEF Others, CodesInv, SavesFresh
  <2>2. req[o].code # c
    BY <1>1, <2>1 DEF Fresh
  <2>3. \A f \in Emails : row'[f] # None => row'[f].code # req[o].code
    BY <1>4, <2>1, <2>2 DEF Fresh
  <2>4. \A x \in Handlers \ {o} : pc'[x] = "save" => req'[x].code # req[o].code
    BY <1>1, <2>1 DEF Others, Fresh
  <2> QED  BY <1>1, <2>1, <2>3, <2>4 DEF Fresh
<1>7. LocksHeld'
  <2>1. \A o \in Handlers, f \in Emails : Locks(o, f)' => o # h /\ Locks(o, f) /\ req'[o] = req[o] /\ f # e
    BY <1>1 DEF Locks, Others
  <2> QED  BY <1>4, <2>1 DEF CodesInv, LocksHeld
<1>8. RegisteredUsed'
  <2>1. \A r \in registered : r[2] \in Emails /\ r[1] # c
    BY <1>3 DEF Fresh, Typed, TablesTyped
  <2> QED  BY <1>1, <1>4, <2>1 DEF CodesInv, RegisteredUsed
<1>9. CodeUsedOnce'
  BY <1>1 DEF CodesInv, CodeUsedOnce
<1> QED  BY <1>5, <1>6, <1>7, <1>8, <1>9 DEF CodesInv

LEMMA CodesClaim ==
  ASSUME Typed, CodesInv, NEW h \in Handlers, Claim(h)
  PROVE  CodesInv'
<1>1. PICK e \in Emails, p \in Passwords :
        /\ \A o \in Handlers : ~Locks(o, e)
        /\ row[e] # None /\ ~row[e].used
        /\ req' = [req EXCEPT ![h] = [NoRequest EXCEPT !.email = e, !.code = row[e].code,
                                                       !.password = p]]
  BY DEF Claim
<1>2. /\ pc'[h] = "claimed" /\ Others(h) /\ UNCHANGED <<row, mailed, registered>>
      /\ req'[h].email = e /\ req'[h].code = row[e].code
  <2>1. Goto(h, "claimed") /\ UNCHANGED <<row, mailed, registered>>
    BY DEF Claim, tables, history
  <2>2. /\ req'[h] = [NoRequest EXCEPT !.email = e, !.code = row[e].code, !.password = p]
        /\ Others(h)
    BY <1>1, <2>1, Shapes DEF Others
  <2> QED  BY <2>1, <2>2, Shapes DEF NoRequest
<1>3. RowsMailed' /\ RegisteredUsed' /\ CodeUsedOnce'
  BY <1>2 DEF CodesInv, RowsMailed, RegisteredUsed, CodeUsedOnce
<1>4. SavesFresh'
  <2>1. \A o \in Handlers : pc'[o] = "save" => o # h /\ pc[o] = "save" /\ req'[o] = req[o]
    BY <1>2 DEF Others
  <2> QED  BY <1>2, <2>1 DEF CodesInv, SavesFresh, Fresh
<1>5. LocksHeld'
  <2>1. \A o \in Handlers, f \in Emails : Locks(o, f)' =>
          \/ o = h /\ f = e
          \/ o # h /\ f # e /\ Locks(o, f) /\ req'[o] = req[o]
    BY <1>1, <1>2 DEF Locks, Others
  <2> QED  BY <1>1, <1>2, <2>1 DEF CodesInv, LocksHeld
<1> QED  BY <1>3, <1>4, <1>5 DEF CodesInv

LEMMA CodesInsert ==
  ASSUME Typed, CodesInv, NEW h \in Handlers, InsertUser(h)
  PROVE  CodesInv'
<1>1. /\ pc[h] = "claimed" /\ pc'[h] = "inserted" /\ Others(h)
      /\ UNCHANGED <<row, mailed, registered>>
      /\ req'[h].email = req[h].email /\ req'[h].code = req[h].code
  <2>1. pc[h] = "claimed" /\ Goto(h, "inserted") /\ UNCHANGED <<row, mailed, registered>>
    BY DEF InsertUser, tables, history
  <2>2. PICK u \in Users : req' = [req EXCEPT ![h].user = u]
    BY DEF InsertUser
  <2>3. req' = [req EXCEPT ![h] = [req[h] EXCEPT !.user = u]]
    BY <2>2 DEF Typed, HandlersTyped
  <2>4. Others(h)
    BY <2>1, <2>3, Shapes DEF Others
  <2> QED  BY <2>1, <2>3, <2>4, Shapes, RequestWith
<1>2. \A o \in Handlers, e \in Emails : Locks(o, e)' <=> Locks(o, e)
  BY <1>1 DEF Locks, Others
<1>3. \A o \in Handlers : req'[o].code = req[o].code
  BY <1>1 DEF Others
<1>4. \A o \in Handlers : pc'[o] = "save" => o # h /\ pc[o] = "save" /\ req'[o] = req[o]
  BY <1>1 DEF Others
<1>5. RowsMailed' /\ RegisteredUsed' /\ CodeUsedOnce'
  BY <1>1 DEF CodesInv, RowsMailed, RegisteredUsed, CodeUsedOnce
<1>6. SavesFresh'
  BY <1>1, <1>4 DEF CodesInv, SavesFresh, Fresh
<1>7. LocksHeld'
  BY <1>1, <1>2, <1>3 DEF CodesInv, LocksHeld
<1> QED  BY <1>5, <1>6, <1>7 DEF CodesInv

LEMMA CodesCommit ==
  ASSUME Typed, CodesInv, NEW h \in Handlers, CommitRegistration(h)
  PROVE  CodesInv'
<1> DEFINE c == req[h].code
           e == req[h].email
           u == req[h].user
<1>1. /\ pc[h] = "inserted" /\ UNCHANGED mailed /\ Accepted(h, u)
      /\ row' = [row EXCEPT ![e].used = TRUE]
      /\ registered' = registered \cup {<<c, e, u>>}
  BY DEF CommitRegistration
<1>2. c \in Codes /\ e \in Emails /\ u \in Users
  BY <1>1, Shapes DEF Holds
<1>3. pc'[h] = "session" /\ Others(h)
  BY <1>1, <1>2, Shapes
<1>4. /\ row[e] # None /\ row[e].code = c /\ ~row[e].used
      /\ \A o \in Handlers : Locks(o, e) => o = h
  BY <1>1, <1>2 DEF CodesInv, LocksHeld, Locks
<1>5. /\ \A f \in Emails \ {e} : row'[f] = row[f]
      /\ row'[e].code = c /\ row'[e].used
  BY <1>1, <1>2, <1>4, RowsTyped DEF Typed, TablesTyped, CodeRow
<1>6. mailed[c] = e
  BY <1>2, <1>4 DEF CodesInv, RowsMailed
<1>7. \A r \in registered : r[1] # c /\ r[2] \in Emails
  BY <1>2, <1>4, <1>6 DEF CodesInv, RegisteredUsed, Typed, TablesTyped
<1>8. RowsMailed'
  BY <1>1, <1>5, <1>6 DEF CodesInv, RowsMailed
<1>9. SavesFresh'
  <2> SUFFICES ASSUME NEW o \in Handlers, pc'[o] = "save" PROVE Fresh(o)'
    BY DEF SavesFresh
  <2>1. o # h /\ pc[o] = "save" /\ req'[o] = req[o] /\ Fresh(o)
    BY <1>3 DEF Others, CodesInv, SavesFresh
  <2>2. req[o].code # c
    BY <1>2, <1>4, <2>1 DEF Fresh
  <2>3. \A f \in Emails : row'[f] # None => row'[f].code # req[o].code
    BY <1>5, <2>1, <2>2 DEF Fresh
  <2>4. \A x \in Handlers \ {o} : pc'[x] = "save" => req'[x].code # req[o].code
    BY <1>3, <2>1 DEF Others, Fresh
  <2>5. \A r \in registered' : r[1] # req[o].code
    BY <1>1, <2>1, <2>2 DEF Fresh
  <2> QED  BY <1>1, <2>1, <2>3, <2>4, <2>5 DEF Fresh
<1>10. LocksHeld'
  <2>1. \A o \in Handlers, f \in Emails : Locks(o, f)' => o # h /\ Locks(o, f) /\ req'[o] = req[o] /\ f # e
    BY <1>3, <1>4 DEF Locks, Others
  <2> QED  BY <1>5, <2>1 DEF CodesInv, LocksHeld
<1>11. RegisteredUsed'
  BY <1>1, <1>5, <1>6, <1>7 DEF CodesInv, RegisteredUsed
<1>12. CodeUsedOnce'
  BY <1>1, <1>7 DEF CodesInv, CodeUsedOnce
<1> QED  BY <1>8, <1>9, <1>10, <1>11, <1>12 DEF CodesInv

LEMMA CodesOthers ==
  ASSUME Typed, CodesInv, NEW h \in Handlers,
         \/ SendCode(h) \/ CheckResend(h) \/ StartSession(h) \/ Login(h) \/ UpgradeHash(h)
         \/ UpdateProfile(h) \/ WriteProfile(h) \/ Fail(h)
  PROVE  CodesInv'
<1>0. UNCHANGED <<row, mailed, registered>>
  BY DEF SendCode, CheckResend, StartSession, Login, UpgradeHash, UpdateProfile, WriteProfile,
         Fail, tables, history
<1>r. req \in [Handlers -> Request]
  BY DEF Typed, HandlersTyped
<1>1. ASSUME NEW l \in {"resend", "mail", "upgrade", "profile"}, Goto(h, l),
             UNCHANGED req \/ (\E r : req' = [req EXCEPT ![h] = r])
      PROVE  CodesInv'
  <2>1. pc'[h] = l /\ Others(h)
    BY <1>1, Shapes DEF Others
  <2> QED  BY <1>0, <1>1, <2>1, CodesQuiet
<1>2. CASE SendCode(h)
  <2>1. PICK e \in Emails : \/ Goto(h, "resend") /\ req' = [req EXCEPT ![h].email = e]
                            \/ UNCHANGED <<pc, req>>
    BY <1>2 DEF SendCode
  <2>2. req' = [req EXCEPT ![h].email = e] => req' = [req EXCEPT ![h] = [req[h] EXCEPT !.email = e]]
    BY <1>r
  <2> QED  BY <1>0, <1>1, <2>1, <2>2, CodesStill
<1>3. CASE CheckResend(h)
  <2>1. Ends(h) \/ (Goto(h, "mail") /\ UNCHANGED req)
    BY <1>3 DEF CheckResend
  <2> QED  BY <1>0, <1>1, <2>1, Shapes, CodesQuiet
<1>4. CASE StartSession(h) \/ WriteProfile(h) \/ Fail(h)
  <2>1. Ends(h)
    BY <1>4 DEF StartSession, WriteProfile, Fail
  <2> QED  BY <1>0, <2>1, Shapes, CodesQuiet
<1>5. CASE Login(h)
  <2>1. \/ UNCHANGED <<pc, req>>
        \/ \E u \in Users : Accepted(h, u)
        \/ Goto(h, "upgrade") /\ \E r : req' = [req EXCEPT ![h] = r]
    BY <1>5 DEF Login, UsersWith
  <2> QED  BY <1>0, <1>1, <2>1, Shapes, CodesQuiet, CodesStill
<1>6. CASE UpgradeHash(h)
  <2>1. Accepted(h, req[h].user) /\ req[h].user \in Users
    BY <1>6, Shapes DEF UpgradeHash, Holds, Typed, TablesTyped
  <2> QED  BY <1>0, <2>1, Shapes, CodesQuiet
<1>7. CASE UpdateProfile(h)
  <2>1. Goto(h, "profile") /\ \E r : req' = [req EXCEPT ![h] = r]
    BY <1>7 DEF UpdateProfile
  <2> QED  BY <1>1, <2>1
<1> QED  BY <1>2, <1>3, <1>4, <1>5, <1>6, <1>7

LEMMA CodesStep == Typed /\ CodesInv /\ [Next]_vars => CodesInv'
<1> SUFFICES ASSUME Typed, CodesInv, [Next]_vars PROVE CodesInv'
  OBVIOUS
<1>1. CASE UNCHANGED vars \/ Logout
  BY <1>1, CodesStill DEF vars, tables, history, Logout
<1> QED  BY <1>1, CodesTick, CodesMail, CodesSave, CodesClaim, CodesInsert, CodesCommit, CodesOthers DEF Next

LEMMA AlwaysCodes == Spec => []CodesInv
BY CodesInit, CodesStep, AlwaysTyped, PTL DEF Spec

(* A verification code registers one account at most, with any number of   *)
(* registrations at a time: the row lock, used_at and the freshness of the *)
(* codes together.                                                         *)
THEOREM CodesUsedOnce == Spec => []CodeUsedOnce
<1>1. CodesInv => CodeUsedOnce
  BY DEF CodesInv
<1> QED  BY <1>1, AlwaysCodes, PTL

(* An account is registered only with a code mailed to its email.          *)
THEOREM EmailsProven == Spec => []EmailProven
<1>1. CodesInv => EmailProven
  BY DEF CodesInv, RegisteredUsed, EmailProven
<1> QED  BY <1>1, AlwaysCodes, PTL

----------------------------------------------------------------------------
(* Passwords.                                                              *)

(* The user that a registration is about to commit is no other's.          *)
Reserved ==
  \A h \in Handlers : pc[h] = "inserted" =>
    /\ req[h].user \notin workspace
    /\ \A o \in Handlers \ {h} : pc[o] = "inserted" => req[o].user # req[h].user

(* Only a legacy hash is upgraded.                                         *)
UpgradesLegacy == \A h \in Handlers : pc[h] = "upgrade" => req[h].legacy

PasswordsInv == Reserved /\ UpgradesLegacy

LEMMA PasswordsInit == Init => PasswordsInv
BY DEF Init, PasswordsInv, Reserved, UpgradesLegacy

(* Steps that register nobody.                                             *)
LEMMA PasswordsQuiet ==
  ASSUME PasswordsInv, NEW h \in Handlers, Others(h), UNCHANGED workspace,
         pc'[h] # "inserted", pc'[h] = "upgrade" => req'[h].legacy
  PROVE  PasswordsInv'
BY DEF PasswordsInv, Reserved, UpgradesLegacy, Others

LEMMA PasswordsStill ==
  ASSUME PasswordsInv, UNCHANGED <<workspace, pc, req>>
  PROVE  PasswordsInv'
BY DEF PasswordsInv, Reserved, UpgradesLegacy

LEMMA PasswordsCodes ==
  ASSUME Typed, PasswordsInv, NEW h \in Handlers,
         SendCode(h) \/ CheckResend(h) \/ MailCode(h) \/ SaveCode(h) \/ Claim(h)
  PROVE  PasswordsInv'
<1>0. UNCHANGED workspace /\ req \in [Handlers -> Request]
  BY DEF SendCode, CheckResend, MailCode, SaveCode, Claim, tables, Typed, HandlersTyped
<1>1. CASE SaveCode(h)
  BY <1>0, <1>1, Shapes, PasswordsQuiet DEF SaveCode
<1>2. CASE ~SaveCode(h)
  <2>1. \/ UNCHANGED <<pc, req>>
        \/ Ends(h)
        \/ /\ \E l \in {"resend", "mail", "save", "claimed"} : Goto(h, l)
           /\ UNCHANGED req \/ \E r : req' = [req EXCEPT ![h] = r]
    <3>1. CASE SendCode(h)
      <4>1. PICK e \in Emails : \/ Goto(h, "resend") /\ req' = [req EXCEPT ![h].email = e]
                                \/ UNCHANGED <<pc, req>>
        BY <3>1 DEF SendCode
      <4>2. req' = [req EXCEPT ![h].email = e] => req' = [req EXCEPT ![h] = [req[h] EXCEPT !.email = e]]
        BY <1>0
      <4> QED  BY <4>1, <4>2
    <3>2. CASE MailCode(h)
      <4>1. PICK c \in Codes : Goto(h, "save") /\ req' = [req EXCEPT ![h].code = c]
        BY <3>2 DEF MailCode
      <4>2. req' = [req EXCEPT ![h] = [req[h] EXCEPT !.code = c]]
        BY <1>0, <4>1
      <4> QED  BY <4>1, <4>2
    <3>3. CASE CheckResend(h)
      BY <3>3 DEF CheckResend
    <3>4. CASE Claim(h)
      BY <3>4 DEF Claim
    <3> QED  BY <1>2, <3>1, <3>2, <3>3, <3>4
  <2>2. CASE UNCHANGED <<pc, req>>
    BY <1>0, <2>2, PasswordsStill
  <2>3. CASE Ends(h)
    BY <1>0, <2>3, Shapes, PasswordsQuiet
  <2>4. CASE /\ \E l \in {"resend", "mail", "save", "claimed"} : Goto(h, l)
             /\ UNCHANGED req \/ \E r : req' = [req EXCEPT ![h] = r]
    <3>1. Others(h) /\ pc'[h] \in {"resend", "mail", "save", "claimed"}
      BY <2>4, Shapes DEF Others
    <3> QED  BY <1>0, <3>1, PasswordsQuiet
  <2> QED  BY <2>1, <2>2, <2>3, <2>4
<1> QED  BY <1>1, <1>2

LEMMA PasswordsInsert ==
  ASSUME Typed, PasswordsInv, NEW h \in Handlers, InsertUser(h)
  PROVE  PasswordsInv'
<1>1. PICK u \in Users :
        /\ user[u] = None /\ \A o \in Handlers : req[o].user # u
        /\ req' = [req EXCEPT ![h].user = u]
  BY DEF InsertUser
<1>2. u \notin workspace
  BY <1>1, AccountsAssumption DEF Typed, UsersKnown, UserRow
<1>3. /\ pc'[h] = "inserted" /\ UNCHANGED workspace /\ Others(h) /\ req'[h].user = u
  <2>1. req' = [req EXCEPT ![h] = [req[h] EXCEPT !.user = u]] /\ [req[h] EXCEPT !.user = u].user = u
    BY <1>1 DEF Typed, HandlersTyped, Request
  <2> QED  BY <2>1, Shapes DEF InsertUser, tables, Others
<1>4. \A o \in Handlers \ {h} : req'[o].user # u
  BY <1>1, <1>3 DEF Others
<1>5. Reserved'
  BY <1>2, <1>3, <1>4 DEF PasswordsInv, Reserved, Others
<1>6. UpgradesLegacy'
  BY <1>3 DEF PasswordsInv, UpgradesLegacy, Others
<1> QED  BY <1>5, <1>6 DEF PasswordsInv

LEMMA PasswordsCommit ==
  ASSUME Typed, PasswordsInv, NEW h \in Handlers, CommitRegistration(h)
  PROVE  PasswordsInv'
<1>1. req[h].user \in Users /\ pc[h] = "inserted"
  BY Shapes DEF CommitRegistration, Holds
<1>2. Others(h) /\ pc'[h] = "session" /\ workspace' = workspace \cup {req[h].user}
  BY <1>1, Shapes DEF CommitRegistration
<1>3. \A o \in Handlers \ {h} : pc[o] = "inserted" => req[o].user # req[h].user
  BY <1>1 DEF PasswordsInv, Reserved
<1> QED  BY <1>2, <1>3 DEF PasswordsInv, Reserved, UpgradesLegacy, Others

LEMMA PasswordsUsers ==
  ASSUME Typed, PasswordsInv, NEW h \in Handlers,
         StartSession(h) \/ Login(h) \/ UpgradeHash(h) \/ UpdateProfile(h) \/ WriteProfile(h) \/ Fail(h)
  PROVE  PasswordsInv'
<1>0. UNCHANGED workspace
  BY DEF StartSession, Login, UpgradeHash, UpdateProfile, WriteProfile, Fail, tables
<1>1. CASE StartSession(h) \/ WriteProfile(h) \/ Fail(h)
  <2>1. Ends(h)
    BY <1>1 DEF StartSession, WriteProfile, Fail
  <2> QED  BY <1>0, <2>1, Shapes, PasswordsQuiet
<1>2. CASE Login(h)
  <2>1. \/ UNCHANGED <<pc, req>>
        \/ \E u \in Users : Accepted(h, u)
        \/ /\ Goto(h, "upgrade")
           /\ \E u, p : req' = [req EXCEPT ![h] = [NoRequest EXCEPT !.user = u, !.password = p, !.legacy = TRUE]]
    BY <1>2 DEF Login, UsersWith
  <2>2. \A u, p : [NoRequest EXCEPT !.user = u, !.password = p, !.legacy = TRUE].legacy
    BY DEF NoRequest
  <2>3. CASE /\ Goto(h, "upgrade")
             /\ \E u, p : req' = [req EXCEPT ![h] = [NoRequest EXCEPT !.user = u, !.password = p, !.legacy = TRUE]]
    <3>1. PICK r : req' = [req EXCEPT ![h] = r] /\ r.legacy
      BY <2>2, <2>3
    <3>2. Others(h) /\ pc'[h] = "upgrade" /\ req'[h].legacy
      BY <2>3, <3>1, Shapes DEF Others
    <3> QED  BY <1>0, <3>2, PasswordsQuiet
  <2> QED  BY <1>0, <2>1, <2>3, Shapes, PasswordsQuiet, PasswordsStill
<1>3. CASE UpgradeHash(h)
  <2>1. Accepted(h, req[h].user) /\ req[h].user \in Users
    BY <1>3, Shapes DEF UpgradeHash, Holds, Typed, TablesTyped
  <2> QED  BY <1>0, <2>1, Shapes, PasswordsQuiet
<1>4. CASE UpdateProfile(h)
  <2>1. Goto(h, "profile") /\ \E r : req' = [req EXCEPT ![h] = r]
    BY <1>4 DEF UpdateProfile
  <2>2. Others(h) /\ pc'[h] = "profile"
    BY <2>1, Shapes DEF Others
  <2> QED  BY <1>0, <2>2, PasswordsQuiet
<1> QED  BY <1>1, <1>2, <1>3, <1>4

LEMMA PasswordsStep == Typed /\ PasswordsInv /\ [Next]_vars => PasswordsInv'
<1> SUFFICES ASSUME Typed, PasswordsInv, [Next]_vars PROVE PasswordsInv'
  OBVIOUS
<1>1. CASE UNCHANGED vars \/ Logout \/ Tick
  BY <1>1, PasswordsStill DEF vars, tables, Logout, Tick
<1> QED  BY <1>1, PasswordsCodes, PasswordsInsert, PasswordsCommit, PasswordsUsers DEF Next

(* What a step does to the users.                                          *)
LEMMA UsersStep ==
  ASSUME Typed, PasswordsInv, [Next]_vars, NEW u \in Users, user[u] # None, user'[u] # user[u]
  PROVE  \E h \in Handlers : req[h].user = u /\ (UpgradeHash(h) \/ WriteProfile(h))
<1>0. user \in [Users -> UserRow \cup {None}]
  BY DEF Typed, TablesTyped
<1>1. ASSUME NEW h \in Handlers, CommitRegistration(h)
      PROVE  user'[u] = user[u]
  <2>1. req[h].user # u
    BY <1>1 DEF CommitRegistration, PasswordsInv, Reserved, Typed, UsersKnown
  <2>2. \E r : user' = [user EXCEPT ![req[h].user] = r]
    BY <1>1 DEF CommitRegistration
  <2> QED  BY <1>0, <2>1, <2>2
<1>2. ASSUME NEW h \in Handlers, UpgradeHash(h) \/ WriteProfile(h), req[h].user # u
      PROVE  user'[u] = user[u]
  <2>1. CASE UpgradeHash(h)
    BY <1>0, <1>2, <2>1 DEF UpgradeHash
  <2>2. CASE WriteProfile(h)
    BY <1>0, <1>2, <2>2 DEF WriteProfile
  <2> QED  BY <1>2, <2>1, <2>2
<1>3. \/ user' = user
      \/ \E h \in Handlers : CommitRegistration(h) \/ UpgradeHash(h) \/ WriteProfile(h)
  BY DEF Next, vars, tables, SendCode, CheckResend, MailCode, SaveCode, Claim, InsertUser,
         StartSession, Login, UpdateProfile, Fail, Logout, Tick
<1> QED  BY <1>1, <1>2, <1>3

(* A password changes by a request to change it, or when a login rewrites  *)
(* one whose hash was a legacy one when it was verified: with any number of*)
(* logins, registrations and profile changes at a time.                    *)
THEOREM PasswordsAreKept == Spec => PasswordKept
<1> DEFINE Kept ==
      \A u \in Users :
        user[u] # None /\ user'[u].password # user[u].password =>
          \E h \in Handlers : /\ req[h].user = u
                              /\ pc[h] = "profile" \/ (pc[h] = "upgrade" /\ req[h].legacy)
<1>1. Typed /\ PasswordsInv /\ [Next]_vars => Kept
  <2> SUFFICES ASSUME Typed, PasswordsInv, [Next]_vars, NEW u \in Users, user[u] # None,
                      user'[u].password # user[u].password
               PROVE  \E h \in Handlers :
                        /\ req[h].user = u
                        /\ pc[h] = "profile" \/ (pc[h] = "upgrade" /\ req[h].legacy)
    OBVIOUS
  <2>1. PICK h \in Handlers : req[h].user = u /\ (UpgradeHash(h) \/ WriteProfile(h))
    BY UsersStep
  <2>2. pc[h] = "profile" \/ (pc[h] = "upgrade" /\ req[h].legacy)
    BY <2>1 DEF UpgradeHash, WriteProfile, PasswordsInv, UpgradesLegacy
  <2> QED  BY <2>1, <2>2
<1> HIDE DEF Kept
<1>2. Spec => [][Kept]_vars
  BY <1>1, AlwaysTyped, PasswordsInit, PasswordsStep, PTL DEF Spec
<1> QED  BY <1>2 DEF PasswordKept, Kept
=============================================================================
