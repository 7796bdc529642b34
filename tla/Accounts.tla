------------------------------ MODULE Accounts ------------------------------
(***************************************************************************)
(* The accounts of the control plane: registration, e-mail verification,   *)
(* password reset, login sessions, applications, the bootstrap of the      *)
(* administrator and its power to suspend and release accounts.            *)
(*                                                                         *)
(* A handler is several transactions: it checks the session, checks it     *)
(* again with its CSRF token, and only then calls the repository, which    *)
(* asks nothing of the session any more.  Other handlers run in between.   *)
(* Rate limits, e-mail delivery and the token's randomness are left out;   *)
(* time may expire a session or a token at any moment.                     *)
(***************************************************************************)
EXTENDS Naturals, Sequences, FiniteSets

CONSTANTS
    Users,         \* e-mail addresses, and the accounts made for them
    Clients,       \* requests under way
    Tokens,        \* one-time tokens
    Cookies,       \* session tokens, with their CSRF tokens
    MaxPasswords,  \* bound: password resets of one account
    MaxApps,       \* bound: applications of one account
    MaxAudit,      \* bound: changes of status
    None

ASSUME AccountAssumption ==
    /\ MaxPasswords \in Nat \ {0} /\ MaxApps \in Nat \ {0} /\ MaxAudit \in Nat
    /\ None \notin Users \cup Tokens \cup Cookies

VARIABLES
    users,      \* users rows
    apps,       \* how many applications rows belong to each user
    tokens,     \* one_time_tokens rows
    sessions,   \* sessions rows
    bootstrap,  \* the deployment_bootstrap row
    audit,      \* audit_logs rows about the status and role of users
    request     \* handlers under way

vars == <<users, apps, tokens, sessions, bootstrap, audit, request>>

Purposes == {"verify_email", "reset_password"}

(* password: how often it was set; since: suspensions and resets so far,   *)
(* recorded for the properties                                             *)
User == [status : {"none", "pending_verification", "active", "suspended"},
         admin : BOOLEAN, verified : BOOLEAN, password : 0 .. MaxPasswords, since : Nat]

(* spent: consumed_at is set, or expires_at has passed; the rest of the    *)
(* row is never read again                                                 *)
Token == [state : {"none", "fresh", "spent"}, user : Users \cup {None}, purpose : Purposes]

(* ended: revoked_at is set, or expires_at has passed, or deleted; since:  *)
(* its user's count when the row was inserted                              *)
Session == [state : {"none", "live", "ended"}, user : Users \cup {None}, since : Nat]

Spent == [state |-> "spent", user |-> None, purpose |-> "verify_email"]
Ended == [state |-> "ended", user |-> None, since |-> 0]

Operations == {"idle", "verify", "forgot", "login", "logout", "revoke_one", "revoke_all",
               "create_app", "delete_app", "suspend", "activate"}

(* user: whom the handler acts for; on: the account it acts on             *)
Request == [op : Operations, step : {0, 1}, cookie : Cookies \cup {None},
            user : Users \cup {None}, on : Users \cup {None}]

Entry == [user : Users, was : {"active", "suspended"}, now : {"active", "suspended"}]

TypeOK ==
    /\ users \in [Users -> User]
    /\ apps \in [Users -> 0 .. MaxApps]
    /\ tokens \in [Tokens -> Token]
    /\ sessions \in [Cookies -> Session]
    /\ bootstrap \in BOOLEAN
    /\ audit \in Seq(Entry)
    /\ request \in [Clients -> Request]

Idle == [op |-> "idle", step |-> 0, cookie |-> None, user |-> None, on |-> None]

Init ==
    /\ users = [u \in Users |-> [status |-> "none", admin |-> FALSE, verified |-> FALSE,
                                 password |-> 0, since |-> 0]]
    /\ apps = [u \in Users |-> 0]
    /\ tokens = [t \in Tokens |-> [state |-> "none", user |-> None, purpose |-> "verify_email"]]
    /\ sessions = [k \in Cookies |-> [state |-> "none", user |-> None, since |-> 0]]
    /\ bootstrap = FALSE
    /\ audit = <<>>
    /\ request = [c \in Clients |-> Idle]

Finish(c) == request' = [request EXCEPT ![c] = Idle]
Advance(c) == request' = [request EXCEPT ![c] = [@ EXCEPT !.step = 1]]
Begin(c, r) == request[c].op = "idle" /\ request' = [request EXCEPT ![c] = r]
At(c, ops, step) == request[c].op \in ops /\ request[c].step = step

(* find_user_by_email                                                      *)
Exists(u) == users[u].status # "none"

-----------------------------------------------------------------------------
(* One-time tokens *)

(* rows and tokens are used in a fixed order: their names carry nothing    *)
Unused(rows) == {r \in DOMAIN rows : rows[r].state = "none"}
Fresh(rows) == CHOOSE r \in Unused(rows) : TRUE

(* create_one_time_token: consumes what was issued before, inserts one     *)
Rotated(u, p) ==
    [t \in Tokens |->
        IF t = Fresh(tokens) THEN [state |-> "fresh", user |-> u, purpose |-> p]
        ELSE IF tokens[t].user = u /\ tokens[t].purpose = p
        THEN Spent ELSE tokens[t]]

(* consume_one_time_token, for a token of that purpose                     *)
Consumable(t, p) == tokens[t].state = "fresh" /\ tokens[t].purpose = p
Consumed(t) == [tokens EXCEPT ![t] = Spent]

(* register_user: account, application, default bucket and token in one    *)
(* transaction, which the unique e-mail address makes fail as a whole      *)
RegisterUser(u) ==
    /\ ~Exists(u) /\ Unused(tokens) # {}
    /\ users' = [users EXCEPT ![u].status = "pending_verification"]
    /\ apps' = [apps EXCEPT ![u] = 1]
    /\ tokens' = Rotated(u, "verify_email")

(* register: nothing else is stored, whether the e-mail is delivered or not *)
Register(u) == RegisterUser(u) /\ UNCHANGED <<sessions, bootstrap, audit, request>>

(* Seeded fault: following the link makes any account active.              *)
StatusOnceVerifiedAlways(u) == "active"

(* the CASE of consume_email_verification_token                            *)
StatusOnceVerified(u) ==
    IF users[u].status = "pending_verification" THEN "active" ELSE users[u].status

VerifyEmail(t) ==
    /\ Consumable(t, "verify_email")
    /\ tokens' = Consumed(t)
    /\ LET u == tokens[t].user
       IN users' = [users EXCEPT ![u] = [@ EXCEPT !.verified = TRUE,
                                                   !.status = StatusOnceVerified(u)]]
    /\ UNCHANGED <<apps, sessions, bootstrap, audit, request>>

(* resend_verification and forgot_password read the account ...            *)
RequestToken(c, u, op) ==
    /\ IF op = "verify" THEN users[u].status = "pending_verification" ELSE Exists(u)
    /\ Begin(c, [Idle EXCEPT !.op = op, !.on = u])
    /\ UNCHANGED <<users, apps, tokens, sessions, bootstrap, audit>>

(* ... and issue the token whatever has become of it since                 *)
IssueToken(c) ==
    /\ At(c, {"verify", "forgot"}, 0) /\ Unused(tokens) # {}
    /\ tokens' = Rotated(request[c].on, IF request[c].op = "verify" THEN "verify_email"
                                        ELSE "reset_password")
    /\ Finish(c)
    /\ UNCHANGED <<users, apps, sessions, bootstrap, audit>>

-----------------------------------------------------------------------------
(* Sessions *)

(* Seeded fault: only the newest session is ended.                         *)
RevokedButOne(u) ==
    LET live == {k \in Cookies : sessions[k].user = u}
    IN IF live = {} THEN sessions
       ELSE [sessions EXCEPT ![CHOOSE k \in live : TRUE] = Ended]

(* UPDATE sessions SET revoked_at ... WHERE user_id = $2                   *)
Revoked(u) ==
    [k \in Cookies |-> IF sessions[k].user = u THEN Ended ELSE sessions[k]]

(* reset_password: new password, every session ended, the status as it was *)
ResetPassword(t) ==
    /\ Consumable(t, "reset_password")
    /\ LET u == tokens[t].user
       IN /\ users[u].password < MaxPasswords
          /\ users' = [users EXCEPT ![u] = [@ EXCEPT !.password = users[u].password + 1,
                                                   !.since = users[u].since + 1]]
          /\ sessions' = Revoked(u)
    /\ tokens' = Consumed(t)
    /\ UNCHANGED <<apps, bootstrap, audit, request>>

(* find_user_by_email, the status, the password and the default application *)
Login(c, u) ==
    /\ users[u].status = "active" /\ apps[u] > 0
    /\ Begin(c, [Idle EXCEPT !.op = "login", !.user = u])
    /\ UNCHANGED <<users, apps, tokens, sessions, bootstrap, audit>>

(* record_user_login updates an active account only                        *)
RecordUserLogin(c) ==
    /\ At(c, {"login"}, 0)
    /\ IF users[request[c].user].status = "active" THEN Advance(c) ELSE Finish(c)
    /\ UNCHANGED <<users, apps, tokens, sessions, bootstrap, audit>>

(* create_session inserts without another look at the account              *)
CreateSession(c) ==
    /\ At(c, {"login"}, 1) /\ Unused(sessions) # {}
    /\ LET u == request[c].user
       IN sessions' = [sessions EXCEPT ![Fresh(sessions)] =
                          [state |-> "live", user |-> u, since |-> users[u].since]]
    /\ Finish(c)
    /\ UNCHANGED <<users, apps, tokens, bootstrap, audit>>

(* valid_session_csrf; find_user_by_session_hash                           *)
ValidSession(k) == sessions[k].state = "live"
Authenticated(k) == ValidSession(k) /\ users[sessions[k].user].status = "active"

UserOps == {"revoke_one", "revoke_all", "create_app", "delete_app"}
AdminOps == {"suspend", "activate"}

(* a handler of the owner checks the CSRF token first, one of the          *)
(* administrator first the session and the role                            *)
Open(c, k, op, u) ==
    /\ \/ op \in UserOps \cup {"logout"} /\ ValidSession(k) /\ u = None
       \/ op \in AdminOps /\ Authenticated(k) /\ users[sessions[k].user].admin /\ Exists(u)
    /\ Begin(c, [Idle EXCEPT !.op = op, !.cookie = k, !.on = u,
                             !.user = IF op \in AdminOps THEN sessions[k].user ELSE None])
    /\ UNCHANGED <<users, apps, tokens, sessions, bootstrap, audit>>

(* the second check of the handler                                         *)
Recheck(c) ==
    /\ At(c, UserOps \cup AdminOps, 0)
    /\ LET k == request[c].cookie
       IN IF request[c].op \in UserOps
          THEN IF Authenticated(k)
               THEN request' = [request EXCEPT ![c] = [@ EXCEPT !.step = 1, !.user = sessions[k].user]]
               ELSE Finish(c)
          ELSE IF ValidSession(k) THEN Advance(c) ELSE Finish(c)
    /\ UNCHANGED <<users, apps, tokens, sessions, bootstrap, audit>>

(* delete_session_by_hash                                                  *)
Logout(c) ==
    /\ At(c, {"logout"}, 0)
    /\ sessions' = [sessions EXCEPT ![request[c].cookie] = Ended]
    /\ Finish(c)
    /\ UNCHANGED <<users, apps, tokens, bootstrap, audit>>

(* revoke_session: by its id, if it is the user's own                      *)
RevokeSession(c, k) ==
    /\ At(c, {"revoke_one"}, 1)
    /\ sessions' = IF sessions[k].user = request[c].user
                   THEN [sessions EXCEPT ![k] = Ended] ELSE sessions
    /\ Finish(c)
    /\ UNCHANGED <<users, apps, tokens, bootstrap, audit>>

RevokeAllSessions(c) ==
    /\ At(c, {"revoke_all"}, 1)
    /\ sessions' = Revoked(request[c].user)
    /\ Finish(c)
    /\ UNCHANGED <<users, apps, tokens, bootstrap, audit>>

Expire ==
    /\ \/ /\ \E t \in Tokens : /\ tokens[t].state = "fresh"
                               /\ tokens' = Consumed(t)
          /\ UNCHANGED sessions
       \/ /\ \E k \in Cookies : /\ sessions[k].state = "live"
                                /\ sessions' = [sessions EXCEPT ![k] = Ended]
          /\ UNCHANGED tokens
    /\ UNCHANGED <<users, apps, bootstrap, audit, request>>

-----------------------------------------------------------------------------
(* Applications *)

CreateApplication(c) ==
    /\ At(c, {"create_app"}, 1) /\ apps[request[c].user] < MaxApps
    /\ apps' = [apps EXCEPT ![request[c].user] = @ + 1]
    /\ Finish(c)
    /\ UNCHANGED <<users, tokens, sessions, bootstrap, audit>>

(* delete_application_for_user, of an application that holds nothing; the  *)
(* last one may go too                                                     *)
DeleteApplication(c) ==
    /\ At(c, {"delete_app"}, 1)
    /\ apps' = [apps EXCEPT ![request[c].user] = IF @ = 0 THEN 0 ELSE @ - 1]
    /\ Finish(c)
    /\ UNCHANGED <<users, tokens, sessions, bootstrap, audit>>

-----------------------------------------------------------------------------
(* The administrator; both transactions hold the advisory lock throughout  *)

Admins == {u \in Users : users[u].admin}
ActiveAdmins == {u \in Admins : users[u].status = "active"}

(* bootstrap_admin, with the address of the server's configuration         *)
BootstrapAdmin(u) ==
    /\ ~bootstrap /\ Admins = {}
    /\ users[u].status = "active" /\ users[u].verified /\ apps[u] > 0
    /\ users' = [users EXCEPT ![u].admin = TRUE]
    /\ bootstrap' = TRUE
    /\ UNCHANGED <<apps, tokens, sessions, audit, request>>

(* transition_user_status: which changes of status it makes                *)
TransitionAllowed(u, status) ==
    /\ apps[u] > 0
    /\ \/ users[u].status = "active" /\ status = "suspended"
       \/ users[u].status = "suspended" /\ status = "active" /\ users[u].verified
    /\ ~(users[u].admin /\ status = "suspended" /\ Cardinality(ActiveAdmins) <= 1)

TransitionUserStatus(c) ==
    /\ At(c, AdminOps, 1)
    /\ LET u == request[c].on
           status == IF request[c].op = "suspend" THEN "suspended" ELSE "active"
           since == IF status = "suspended" THEN users[u].since + 1 ELSE users[u].since
       IN IF users[u].status # status /\ TransitionAllowed(u, status)
          THEN /\ Len(audit) < MaxAudit
               /\ users' = [users EXCEPT ![u] = [@ EXCEPT !.status = status, !.since = since]]
               /\ sessions' = IF status = "suspended" THEN Revoked(u) ELSE sessions
               /\ audit' = Append(audit, [user |-> u, was |-> users[u].status, now |-> status])
          ELSE UNCHANGED <<users, sessions, audit>>
    /\ Finish(c)
    /\ UNCHANGED <<apps, tokens, bootstrap>>

(* the client gives up, or the server dies, between two transactions       *)
Abandon(c) ==
    /\ request[c].op # "idle" /\ Finish(c)
    /\ UNCHANGED <<users, apps, tokens, sessions, bootstrap, audit>>

-----------------------------------------------------------------------------
Next ==
    \/ \E u \in Users : Register(u)
    \/ \E t \in Tokens : VerifyEmail(t)
    \/ \E c \in Clients, u \in Users, op \in {"verify", "forgot"} : RequestToken(c, u, op)
    \/ \E c \in Clients : IssueToken(c)
    \/ \E t \in Tokens : ResetPassword(t)
    \/ \E c \in Clients, u \in Users : Login(c, u)
    \/ \E c \in Clients : RecordUserLogin(c)
    \/ \E c \in Clients : CreateSession(c)
    \/ \E c \in Clients, k \in Cookies, op \in UserOps \cup {"logout"} : Open(c, k, op, None)
    \/ \E c \in Clients, k \in Cookies, op \in AdminOps, u \in Users : Open(c, k, op, u)
    \/ \E c \in Clients : Recheck(c)
    \/ \E c \in Clients : Logout(c)
    \/ \E c \in Clients, k \in Cookies : RevokeSession(c, k)
    \/ \E c \in Clients : RevokeAllSessions(c)
    \/ Expire
    \/ \E c \in Clients : CreateApplication(c)
    \/ \E c \in Clients : DeleteApplication(c)
    \/ \E u \in Users : BootstrapAdmin(u)
    \/ \E c \in Clients : TransitionUserStatus(c)
    \/ \E c \in Clients : Abandon(c)

Spec == Init /\ [][Next]_vars

-----------------------------------------------------------------------------
(* Once the deployment has its administrator, an active one remains:       *)
(* whatever is suspended, verified, reset or deleted afterwards, the       *)
(* console is never locked for everyone (transition_user_status refuses    *)
(* the last one, counting under the advisory lock).                        *)
AdminRemains == bootstrap => ActiveAdmins # {}

(* no entry from m to n is about user u                                    *)
Silent(u, m, n) == \A i \in m .. n : audit[i].user # u

(* The audit trail tells the status: the last entry about an account, if   *)
(* there is one, names the status it has, and each entry starts from the   *)
(* status the one before it left.  No late verification link, password     *)
(* reset or login releases a suspended account behind the trail.           *)
AuditTellsStatus ==
    /\ \A u \in Users : Silent(u, 1, Len(audit)) => users[u].status # "suspended"
    /\ \A n \in 1 .. Len(audit) :
         LET u == audit[n].user
         IN  /\ Silent(u, n + 1, Len(audit)) => users[u].status = audit[n].now
             /\ \A m \in n + 1 .. Len(audit) :
                  audit[m].user = u /\ Silent(u, n + 1, m - 1) => audit[m].was = audit[n].now

(* A password reset and a suspension end what was logged in: a session     *)
(* that still works was inserted after the last of them, and nothing       *)
(* brings back one that they ended.  (The login itself may be older: see   *)
(* CreateSession.)                                                         *)
SessionsEndTogether ==
    \A k \in Cookies :
        sessions[k].state = "live" => sessions[k].since = users[sessions[k].user].since

=============================================================================
