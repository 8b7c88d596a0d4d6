------------------------------ MODULE Accounts ------------------------------
(***************************************************************************)
(* Accounts of the SaaS console (src/src/saas/auth.rs): verification codes *)
(* by mail, registration, login, sessions and profile changes.  Handlers   *)
(* serve one request after another; each action is a statement, or what a  *)
(* handler does up to its next one.  Requests that are refused leave       *)
(* nothing behind but an entry in a limiter, and are actions only then.    *)
(* In particular the attempt counted for a wrong code (auth.rs:121) is     *)
(* rolled back with the transaction that the error return drops, so the    *)
(* counter is 0 throughout and is left out.                                *)
(***************************************************************************)
EXTENDS SlidingWindow

CONSTANTS
  None,          (* No user, row, code.                                    *)
  Handlers,      (* Requests under way at a time.                          *)
  Emails, Passwords,
  Users,         (* User ids, old and new.                                 *)
  Codes,         (* Verification codes, one for each mail.                 *)
  Tokens,        (* Session cookies.                                       *)
  LegacyUsers,   (* Those who may be from before argon2id.                 *)
  MaxLogins, LoginWindow,       (* LOGIN_MAX_ATTEMPTS, ...                 *)
  MaxSends, SendWindow,         (* VERIFICATION_SEND_MAX_ATTEMPTS, ...     *)
  ResendAfter, CodeTtl          (* VERIFICATION_RESEND_SECONDS, ...        *)

ASSUME AccountsAssumption ==
  /\ None \notin Users \cup Codes \cup Emails \cup Passwords
  /\ None \notin [code : Codes, age : 0..CodeTtl, used : BOOLEAN]
  /\ None \notin [email : Emails, password : Passwords, legacy : BOOLEAN]
  /\ {MaxLogins, LoginWindow, MaxSends, SendWindow, ResendAfter, CodeTtl} \subseteq Nat
  /\ ResendAfter <= CodeTtl
  /\ LegacyUsers \subseteq Users

VARIABLES
  user,       (* saas_users: email, password, and whether it is a legacy   *)
              (* hash.                                                     *)
  workspace,  (* Users with an organization, a project and a membership.   *)
  row,        (* saas_email_verifications: code, age, whether it was used. *)
  session,    (* The user of each session that is neither revoked nor      *)
              (* expired; no query finds the others.                       *)
  logins,     (* LOGIN_LIMITER.                                            *)
  sends,      (* VERIFICATION_SEND_LIMITER.                                *)
  pc, req,    (* Where each handler is and what it holds.                  *)
  mailed,     (* History: the email each code was mailed to.               *)
  registered, (* History: with which code and email each user registered.  *)
  checks,     (* History: ages of the logins let through to the password.  *)
  requests    (* History: ages of the sends let through.                   *)

tables == <<user, workspace, row, session>>
limiters == <<logins, sends>>
history == <<mailed, registered, checks, requests>>
vars == <<tables, limiters, pc, req, history>>

NoRequest == [email |-> None, code |-> None, password |-> None, user |-> None,
              legacy |-> FALSE]

Request == [email : Emails \cup {None}, code : Codes \cup {None},
            password : Passwords \cup {None}, user : Users \cup {None}, legacy : BOOLEAN]

Pc == {"idle", "resend", "mail", "save", "claimed", "inserted", "session",
       "upgrade", "profile"}

TypeOK ==
  /\ user \in [Users -> [email : Emails, password : Passwords, legacy : BOOLEAN] \cup {None}]
  /\ workspace \subseteq Users
  /\ row \in [Emails -> [code : Codes, age : 0..CodeTtl, used : BOOLEAN] \cup {None}]
  /\ session \in [Tokens -> Users \cup {None}]
  /\ {logins, checks} \subseteq [Emails -> Seq(0..LoginWindow)]
  /\ {sends, requests} \subseteq [Emails -> Seq(0..SendWindow)]
  /\ pc \in [Handlers -> Pc]
  /\ req \in [Handlers -> Request]
  /\ mailed \in [Codes -> Emails \cup {None}]
  /\ registered \subseteq Codes \X Emails \X Users

Init ==
  /\ user \in [Users -> [email : Emails, password : Passwords, legacy : {TRUE}] \cup {None}]
  /\ workspace = {u \in Users : user[u] # None}
  /\ workspace \subseteq LegacyUsers
  /\ \A u, v \in workspace : user[u].email = user[v].email => u = v
  /\ row = [e \in Emails |-> None]
  /\ session = [t \in Tokens |-> None]
  /\ logins = [e \in Emails |-> <<>>] /\ sends = logins
  /\ pc = [h \in Handlers |-> "idle"]
  /\ req = [h \in Handlers |-> NoRequest]
  /\ mailed = [c \in Codes |-> None]
  /\ registered = {}
  /\ checks = logins /\ requests = logins

----------------------------------------------------------------------------
Goto(h, l) == pc' = [pc EXCEPT ![h] = l]
Accepted(h, u) == Goto(h, "session") /\ req' = [req EXCEPT ![h] = [NoRequest EXCEPT !.user = u]]
Ends(h) == Goto(h, "idle") /\ req' = [req EXCEPT ![h] = NoRequest]

UsersWith(e) == {u \in Users : user[u] # None /\ user[u].email = e}

(* The handler whose transaction locks e's verification row, or has a user *)
(* with that email.                                                        *)
Locks(h, e) == pc[h] \in {"claimed", "inserted"} /\ req[h].email = e
Inserted(h, e) == pc[h] = "inserted" /\ req[h].email = e

(* A failing statement, a refused or timed out mail, a client that goes.   *)
Fail(h) ==
  /\ pc[h] # "idle"
  /\ Ends(h)
  /\ UNCHANGED <<tables, limiters, history>>

(* saas_sessions: a token of one's own, or the handler is not served.      *)
CreateSession(u) ==
  \E t \in Tokens : session[t] = None /\ session' = [session EXCEPT ![t] = u]

----------------------------------------------------------------------------
(* send_verification_code.                                                 *)

FaultySendCode(h) ==
  /\ pc[h] = "idle"
  /\ \E e \in Emails :
       /\ sends' = [sends EXCEPT ![e] = AfterCall(@, SendWindow - 1, MaxSends)]
       /\ IF LetThrough(sends[e], SendWindow - 1, MaxSends)
            THEN requests' = [requests EXCEPT ![e] = Append(Within(@, SendWindow), 0)]
            ELSE UNCHANGED requests
       /\ IF LetThrough(sends[e], SendWindow - 1, MaxSends) /\ UsersWith(e) = {}
            THEN Goto(h, "resend") /\ req' = [req EXCEPT ![h].email = e]
            ELSE UNCHANGED <<pc, req>>
  /\ UNCHANGED <<tables, logins, mailed, registered, checks>>

SendCode(h) ==
  /\ pc[h] = "idle"
  /\ \E e \in Emails :
       LET through == LetThrough(sends[e], SendWindow, MaxSends)
       IN  /\ sends' = [sends EXCEPT ![e] = AfterCall(@, SendWindow, MaxSends)]
           /\ requests' = IF through THEN [requests EXCEPT ![e] = Append(Within(@, SendWindow), 0)]
                                     ELSE requests
           /\ IF through /\ UsersWith(e) = {}
                THEN Goto(h, "resend") /\ req' = [req EXCEPT ![h].email = e]
                ELSE UNCHANGED <<pc, req>>
  /\ UNCHANGED <<tables, logins, mailed, registered, checks>>

(* Not within ResendAfter of the last code that was saved.                 *)
CheckResend(h) ==
  /\ pc[h] = "resend"
  /\ LET r == row[req[h].email]
     IN  IF r # None /\ r.age < ResendAfter THEN Ends(h) ELSE Goto(h, "mail") /\ UNCHANGED req
  /\ UNCHANGED <<tables, limiters, history>>

FaultyMailCode(h) ==
  /\ pc[h] = "mail"
  /\ \E c \in Codes :
       /\ mailed[c] = None
       /\ mailed' \in {mailed, [mailed EXCEPT ![c] = req[h].email]}
       /\ req' = [req EXCEPT ![h].code = c]
  /\ Goto(h, "save")
  /\ UNCHANGED <<tables, limiters, registered, checks, requests>>

MailCode(h) ==
  /\ pc[h] = "mail"
  /\ \E c \in Codes :
       /\ mailed[c] = None
       /\ mailed' = [mailed EXCEPT ![c] = req[h].email]
       /\ req' = [req EXCEPT ![h].code = c]
  /\ Goto(h, "save")
  /\ UNCHANGED <<tables, limiters, registered, checks, requests>>

(* The upsert waits for a registration that has locked the row.            *)
SaveCode(h) ==
  /\ pc[h] = "save"
  /\ \A o \in Handlers : ~Locks(o, req[h].email)
  /\ row' = [row EXCEPT ![req[h].email] = [code |-> req[h].code, age |-> 0, used |-> FALSE]]
  /\ Ends(h)
  /\ UNCHANGED <<user, workspace, session, limiters, history>>

----------------------------------------------------------------------------
(* register.                                                               *)

FaultyClaim(h) ==
  /\ pc[h] = "idle"
  /\ \E e \in Emails, p \in Passwords :
       /\ row[e] # None
       /\ ~row[e].used /\ row[e].age < CodeTtl
       /\ req' = [req EXCEPT ![h] = [NoRequest EXCEPT !.email = e, !.code = row[e].code,
                                                      !.password = p]]
  /\ Goto(h, "claimed")
  /\ UNCHANGED <<tables, limiters, history>>

(* SELECT ... FOR UPDATE, the checks on the code, and the UPDATE of used_at*)
(* that the transaction keeps until its commit.                            *)
Claim(h) ==
  /\ pc[h] = "idle"
  /\ \E e \in Emails, p \in Passwords :
       /\ \A o \in Handlers : ~Locks(o, e)
       /\ row[e] # None
       /\ ~row[e].used /\ row[e].age < CodeTtl
       /\ req' = [req EXCEPT ![h] = [NoRequest EXCEPT !.email = e, !.code = row[e].code,
                                                      !.password = p]]
  /\ Goto(h, "claimed")
  /\ UNCHANGED <<tables, limiters, history>>

FaultyInsertUser(h) ==
  /\ pc[h] = "claimed"
  /\ UsersWith(req[h].email) = {}
  /\ \A o \in Handlers : ~Inserted(o, req[h].email)
  /\ \E u \in Users :
       /\ user[u] = None /\ \A o \in Handlers : req[o].user # u
       /\ user' = [user EXCEPT ![u] = [email |-> req[h].email, password |-> req[h].password,
                                       legacy |-> FALSE]]
       /\ req' = [req EXCEPT ![h].user = u]
  /\ Goto(h, "inserted")
  /\ UNCHANGED <<workspace, row, session, limiters, history>>

(* The user, with the organization, project and membership.  The unique    *)
(* email waits for another transaction that inserts the same one; if it is *)
(* taken the request fails.                                                *)
InsertUser(h) ==
  /\ pc[h] = "claimed"
  /\ UsersWith(req[h].email) = {}
  /\ \A o \in Handlers : ~Inserted(o, req[h].email)
  /\ \E u \in Users :
       /\ user[u] = None /\ \A o \in Handlers : req[o].user # u
       /\ req' = [req EXCEPT ![h].user = u]
  /\ Goto(h, "inserted")
  /\ UNCHANGED <<tables, limiters, history>>

CommitRegistration(h) ==
  LET e == req[h].email
  IN  /\ pc[h] = "inserted"
      /\ user' = [user EXCEPT ![req[h].user] =
                    [email |-> e, password |-> req[h].password, legacy |-> FALSE]]
      /\ workspace' = workspace \cup {req[h].user}
      /\ row' = [row EXCEPT ![e].used = TRUE]
      /\ registered' = registered \cup {<<req[h].code, e, req[h].user>>}
      /\ Accepted(h, req[h].user)
      /\ UNCHANGED <<session, limiters, mailed, checks, requests>>

(* The end of register and of login.  If this fails the account is there   *)
(* nevertheless, and its owner logs in.                                    *)
StartSession(h) ==
  /\ pc[h] = "session"
  /\ CreateSession(req[h].user)
  /\ Ends(h)
  /\ UNCHANGED <<user, workspace, row, limiters, history>>

----------------------------------------------------------------------------
(* login, logout, update_profile.                                          *)

FaultyLogin(h) ==
  /\ pc[h] = "idle"
  /\ \E e \in Emails, p \in Passwords :
       LET through == LetThrough(logins[e], LoginWindow, MaxLogins)
           known == {u \in UsersWith(e) : user[u].password = p}
       IN  /\ logins' = [logins EXCEPT ![e] = AfterCall(@, LoginWindow, MaxLogins)]
           /\ checks' = IF through THEN [checks EXCEPT ![e] = Append(Within(@, LoginWindow), 0)]
                                   ELSE checks
           /\ \/ /\ through /\ known # {}
                 /\ \E u \in known :
                      req' = [req EXCEPT ![h] = [NoRequest EXCEPT !.password = p, !.user = u,
                                                   !.legacy = user[u].legacy]]
                 /\ Goto(h, "upgrade")
              \/ /\ ~through \/ known = {}
                 /\ UNCHANGED <<pc, req>>
  /\ UNCHANGED <<tables, sends, mailed, registered, requests>>

(* The limiter counts every attempt; then the account with that password,  *)
(* of which a legacy hash is to be replaced.                               *)
Login(h) ==
  /\ pc[h] = "idle"
  /\ \E e \in Emails, p \in Passwords :
       LET through == LetThrough(logins[e], LoginWindow, MaxLogins)
           known == {u \in UsersWith(e) : user[u].password = p}
       IN  /\ logins' = [logins EXCEPT ![e] = AfterCall(@, LoginWindow, MaxLogins)]
           /\ checks' = IF through THEN [checks EXCEPT ![e] = Append(Within(@, LoginWindow), 0)]
                                   ELSE checks
           /\ \/ /\ through /\ known # {}
                 /\ \E u \in known :
                      IF user[u].legacy
                        THEN /\ req' = [req EXCEPT ![h] = [NoRequest EXCEPT !.user = u,
                                                            !.password = p, !.legacy = TRUE]]
                             /\ Goto(h, "upgrade")
                        ELSE Accepted(h, u)
              \/ /\ ~through \/ known = {}
                 /\ UNCHANGED <<pc, req>>
  /\ UNCHANGED <<tables, sends, mailed, registered, requests>>

(* The password that was verified is written with the new hash.            *)
UpgradeHash(h) ==
  /\ pc[h] = "upgrade"
  /\ user' = [user EXCEPT ![req[h].user].password = req[h].password,
                          ![req[h].user].legacy = FALSE]
  /\ Accepted(h, req[h].user)
  /\ UNCHANGED <<workspace, row, session, limiters, history>>

Logout ==
  /\ \E t \in Tokens : session[t] # None /\ session' = [session EXCEPT ![t] = None]
  /\ UNCHANGED <<user, workspace, row, limiters, pc, req, history>>

(* The session's user with the hash that was read then; the current        *)
(* password is verified against it.                                        *)
UpdateProfile(h) ==
  /\ pc[h] = "idle"
  /\ \E t \in Tokens, e \in Emails \cup {None}, p \in Passwords \cup {None} :
       /\ session[t] # None
       /\ e # None \/ p # None
       /\ req' = [req EXCEPT ![h] = [NoRequest EXCEPT !.email = e, !.password = p,
                                                      !.user = session[t]]]
  /\ Goto(h, "profile")
  /\ UNCHANGED <<tables, limiters, history>>

FaultyWriteProfile(h) ==
  LET u == req[h].user
  IN  /\ pc[h] = "profile"
      /\ UsersWith(req[h].email) \subseteq {u}
      /\ \A o \in Handlers : ~Inserted(o, req[h].email)
      /\ user' = [user EXCEPT ![u].email = req[h].email]
      /\ Ends(h)
      /\ UNCHANGED <<workspace, row, session, limiters, history>>

WriteProfile(h) ==
  LET u == req[h].user
      e == req[h].email
      p == req[h].password
  IN  /\ pc[h] = "profile"
      /\ UsersWith(e) \subseteq {u}
      /\ \A o \in Handlers : ~Inserted(o, e)
      /\ user' = [user EXCEPT ![u] = [email |-> IF e = None THEN @.email ELSE e,
                                      password |-> IF p = None THEN @.password ELSE p,
                                      legacy |-> @.legacy /\ p = None]]
      /\ Ends(h)
      /\ UNCHANGED <<workspace, row, session, limiters, history>>

Tick ==
  /\ row' = [e \in Emails |-> IF row[e] = None THEN None
                                               ELSE [row[e] EXCEPT !.age = IF @ < CodeTtl THEN @ + 1 ELSE @]]
  /\ logins' = [e \in Emails |-> AllOlder(logins[e], LoginWindow)]
  /\ sends' = [e \in Emails |-> AllOlder(sends[e], SendWindow)]
  /\ checks' = [e \in Emails |-> AllOlder(checks[e], LoginWindow)]
  /\ requests' = [e \in Emails |-> AllOlder(requests[e], SendWindow)]
  /\ UNCHANGED <<user, workspace, session, pc, req, mailed, registered>>

Next ==
  \/ \E h \in Handlers :
       \/ SendCode(h) \/ CheckResend(h) \/ MailCode(h) \/ SaveCode(h)
       \/ Claim(h) \/ InsertUser(h) \/ CommitRegistration(h) \/ StartSession(h)
       \/ Login(h) \/ UpgradeHash(h) \/ UpdateProfile(h) \/ WriteProfile(h) \/ Fail(h)
  \/ Logout
  \/ Tick

Spec == Init /\ [][Next]_vars

----------------------------------------------------------------------------
(* A verification code registers one account at most, whatever runs at the *)
(* same time and although its owner may change the email in between        *)
(* (FOR UPDATE and used_at, auth.rs:104-127).                              *)
CodeUsedOnce ==
  \A r, s \in registered : r[1] = s[1] => r = s

(* An account is registered only with a code that was mailed to its email  *)
(* (the code is saved after the mail went out, auth.rs:241-279).           *)
EmailProven ==
  \A r \in registered : mailed[r[1]] = r[2]

(* No account without a workspace: the lookup by which every request of a  *)
(* session starts (saas/mod.rs:84-92) finds one.                           *)
WorkspaceComplete ==
  \A u \in Users : user[u] # None => u \in workspace

(* In any stretch of time as long as the window, and both its ends, no     *)
(* more attempts are let through than the limit (auth.rs:45-64).           *)
AttemptsLimited ==
  \A e \in Emails :
    /\ Len(Within(checks[e], LoginWindow)) <= MaxLogins
    /\ Len(Within(requests[e], SendWindow)) <= MaxSends

(* A password changes by a request to change it.  A login writes the one   *)
(* it has verified back only to replace a legacy hash, so that an account  *)
(* without one, and without such a login under way, is safe from it.       *)
PasswordKept ==
  [][\A u \in Users :
       user[u] # None /\ user'[u].password # user[u].password =>
         \E h \in Handlers : /\ req[h].user = u
                             /\ pc[h] = "profile" \/ (pc[h] = "upgrade" /\ req[h].legacy)]_vars
=============================================================================
