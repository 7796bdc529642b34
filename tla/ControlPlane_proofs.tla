------------------------- MODULE ControlPlane_proofs -------------------------
(***************************************************************************)
(* Proofs about the control plane, for any number of accounts, requests    *)
(* under way, tokens and sessions, and of events, endpoints, workers,      *)
(* attempts, replays and faults.  Accounts come first, then the webhooks   *)
(* that tell their owners what happens to their media; the two share no    *)
(* state.                                                                  *)
(***************************************************************************)
EXTENDS Accounts, Webhooks, TLAPS, FiniteSetTheorems

-----------------------------------------------------------------------------
(* Accounts: the inductive invariant.                                      *)

(* A token that can be consumed and a session that works have an owner.    *)
OwnersKnown ==
    /\ \A t \in Tokens : tokens[t].state = "fresh" => tokens[t].user \in Users
    /\ \A k \in Cookies : sessions[k].state = "live" => sessions[k].user \in Users

(* What a handler has read before its next transaction.                    *)
RequestsWellFormed ==
    \A c \in Clients :
        /\ request[c].op \in UserOps \cup AdminOps \cup {"logout"} => request[c].cookie \in Cookies
        /\ request[c].op \in {"verify", "forgot"} \cup AdminOps => request[c].on \in Users
        /\ request[c].op = "login" => request[c].user \in Users
        /\ request[c].op \in UserOps /\ request[c].step = 1 => request[c].user \in Users

Bound ==
    /\ OwnersKnown
    /\ RequestsWellFormed

AccountInv ==
    /\ TypeOK
    /\ Bound
    /\ AdminRemains
    /\ AuditTellsStatus
    /\ SessionsEndTogether

-----------------------------------------------------------------------------
(* What the steps write, in terms of one row.                              *)

(* A row is free, and the one that is taken is one of the free ones.       *)
LEMMA FreshIsUnused ==
    ASSUME NEW S, NEW rows, DOMAIN rows = S, Unused(rows) # {}
    PROVE  Fresh(rows) \in S /\ rows[Fresh(rows)].state = "none"
BY DEF Fresh, Unused

(* The rows that a step writes as a whole have the type of their table.    *)
LEMMA RowTypes == Spent \in Token /\ Ended \in Session /\ Idle \in Request
BY DEF Spent, Ended, Idle, Token, Session, Request, Operations, Purposes

LEMMA TableTypes ==
    ASSUME TypeOK
    PROVE  /\ \A u \in Users, p \in Purposes : Rotated(u, p) \in [Tokens -> Token]
           /\ \A t \in Tokens : Consumed(t) \in [Tokens -> Token]
           /\ \A u \in Users \cup {None} : Revoked(u) \in [Cookies -> Session]
<1>1. ASSUME NEW u \in Users, NEW p \in Purposes
      PROVE  [state |-> "fresh", user |-> u, purpose |-> p] \in Token
  BY DEF Token
<1> QED BY <1>1, RowTypes DEF TypeOK, Rotated, Consumed, Revoked

(* The columns that a step updates in place, and the ones it leaves.       *)
LEMMA ResetRow ==
    ASSUME NEW r \in User, NEW p \in 0 .. MaxPasswords, NEW n \in Nat
    PROVE  [r EXCEPT !.password = p, !.since = n] \in User
BY DEF User

LEMMA RequestRow ==
    ASSUME NEW r \in Request, NEW u \in Users \cup {None}
    PROVE  [r EXCEPT !.step = 1, !.user = u] \in Request
BY DEF Request

LEMMA AdvancedRow ==
    ASSUME NEW r \in Request
    PROVE  /\ [r EXCEPT !.step = 1] \in Request
           /\ [r EXCEPT !.step = 1].op = r.op
           /\ [r EXCEPT !.step = 1].user = r.user
BY DEF Request

LEMMA RequestTypes ==
    ASSUME TypeOK, NEW c \in Clients
    PROVE  /\ Finish(c) => request' \in [Clients -> Request]
           /\ Advance(c) => request' \in [Clients -> Request]
           /\ \A r \in Request : Begin(c, r) => request' \in [Clients -> Request]
BY AdvancedRow, RowTypes DEF TypeOK, Finish, Advance, Begin

(* What transition_user_status does to the rows when it changes a status.  *)
LEMMA TransitionEffect ==
    ASSUME TypeOK, Bound, NEW c \in Clients, TransitionUserStatus(c)
    PROVE  \/ UNCHANGED <<users, sessions, audit>>
           \/ \E u \in Users, status \in {"active", "suspended"}, n \in Nat :
                  /\ TransitionAllowed(u, status)
                  /\ status = "active" => n = users[u].since
                  /\ users' = [users EXCEPT ![u] = [@ EXCEPT !.status = status, !.since = n]]
                  /\ sessions' = IF status = "suspended" THEN Revoked(u) ELSE sessions
                  /\ audit' = Append(audit, [user |-> u, was |-> users[u].status, now |-> status])
<1> DEFINE u == request[c].on
           status == IF request[c].op = "suspend" THEN "suspended" ELSE "active"
           n == IF status = "suspended" THEN users[u].since + 1 ELSE users[u].since
<1>1. u \in Users /\ status \in {"active", "suspended"}
  BY DEF TransitionUserStatus, At, Bound, RequestsWellFormed
<1>2. n \in Nat
  BY <1>1 DEF TypeOK, User
<1>3. CASE users[u].status # status /\ TransitionAllowed(u, status)
  <2>1. /\ users' = [users EXCEPT ![u] = [@ EXCEPT !.status = status, !.since = n]]
        /\ sessions' = IF status = "suspended" THEN Revoked(u) ELSE sessions
        /\ audit' = Append(audit, [user |-> u, was |-> users[u].status, now |-> status])
    BY <1>3 DEF TransitionUserStatus
  <2>2. status = "active" => n = users[u].since
    OBVIOUS
  <2> HIDE DEF u, status, n
  <2> QED BY <1>1, <1>2, <1>3, <2>1, <2>2
<1>4. CASE ~(users[u].status # status /\ TransitionAllowed(u, status))
  BY <1>4 DEF TransitionUserStatus
<1> QED BY <1>3, <1>4

(* An update of status and count leaves the other columns and rows.        *)
LEMMA TransitionRow ==
    ASSUME TypeOK, NEW u \in Users, NEW status \in {"active", "suspended"}, NEW n \in Nat,
           users' = [users EXCEPT ![u] = [@ EXCEPT !.status = status, !.since = n]]
    PROVE  /\ users' \in [Users -> User]
           /\ users'[u].status = status /\ users'[u].admin = users[u].admin
           /\ users'[u].since = n
           /\ \A v \in Users \ {u} : users'[v] = users[v]
<1>1. PICK row \in User : row = users[u]
  BY DEF TypeOK
<1> DEFINE new == [row EXCEPT !.status = status, !.since = n]
<1>2. /\ new \in User
      /\ new.status = status /\ new.admin = row.admin /\ new.since = n
  BY DEF User
<1>3. users' = [users EXCEPT ![u] = new]
  BY <1>1
<1> HIDE DEF new
<1> QED BY <1>2, <1>3 DEF TypeOK

LEMMA TypeStep ==
    ASSUME TypeOK, Bound, [Next]_vars
    PROVE  TypeOK'
<1> USE AccountAssumption DEF TypeOK, Bound, OwnersKnown, RequestsWellFormed
<1>1. ASSUME NEW u \in Users, Register(u)
      PROVE  TypeOK'
  <2>1. users' \in [Users -> User]
    BY <1>1 DEF Register, RegisterUser, User
  <2> QED BY <1>1, <2>1, TableTypes DEF Register, RegisterUser, Purposes
<1>2. ASSUME NEW t \in Tokens, VerifyEmail(t)
      PROVE  TypeOK'
  <2> DEFINE u == tokens[t].user
  <2>1. u \in Users
    BY <1>2 DEF VerifyEmail, Consumable
  <2>2. [users[u] EXCEPT !.verified = TRUE, !.status = StatusOnceVerified(u)] \in User
    <3>1. PICK row \in User : row = users[u]
      BY <2>1
    <3>2. PICK s \in {"none", "pending_verification", "active", "suspended"} : s = StatusOnceVerified(u)
      BY <3>1 DEF StatusOnceVerified, User
    <3>3. [row EXCEPT !.verified = TRUE, !.status = s] \in User
      BY DEF User
    <3> QED BY <3>1, <3>2, <3>3
  <2> QED BY <1>2, <2>2, TableTypes DEF VerifyEmail
<1>3. ASSUME NEW c \in Clients, NEW u \in Users, NEW op \in {"verify", "forgot"}, RequestToken(c, u, op)
      PROVE  TypeOK'
  <2>1. \A r \in Request : [r EXCEPT !.op = op, !.on = u] \in Request
    BY DEF Request, Operations
  <2> QED BY <1>3, <2>1, RowTypes, RequestTypes DEF RequestToken
<1>4. ASSUME NEW c \in Clients, IssueToken(c)
      PROVE  TypeOK'
  <2>1. request[c].on \in Users
    BY <1>4 DEF IssueToken, At
  <2> QED BY <1>4, <2>1, TableTypes, RequestTypes DEF IssueToken, Purposes
<1>5. ASSUME NEW t \in Tokens, ResetPassword(t)
      PROVE  TypeOK'
  <2> DEFINE u == tokens[t].user
  <2>1. u \in Users
    BY <1>5 DEF ResetPassword, Consumable
  <2>2. users[u].password + 1 \in 0 .. MaxPasswords /\ users[u].since + 1 \in Nat
    BY <1>5, <2>1 DEF ResetPassword, User
  <2>3. users' \in [Users -> User]
    BY <1>5, <2>1, <2>2, ResetRow DEF ResetPassword
  <2> QED BY <1>5, <2>3, TableTypes DEF ResetPassword
<1>6. ASSUME NEW c \in Clients, NEW u \in Users, Login(c, u)
      PROVE  TypeOK'
  <2>1. \A r \in Request : [r EXCEPT !.op = "login", !.user = u] \in Request
    BY DEF Request, Operations
  <2> QED BY <1>6, <2>1, RowTypes, RequestTypes DEF Login
<1>7. ASSUME NEW c \in Clients, RecordUserLogin(c)
      PROVE  TypeOK'
  BY <1>7, RequestTypes DEF RecordUserLogin
<1>8. ASSUME NEW c \in Clients, CreateSession(c)
      PROVE  TypeOK'
  <2> DEFINE u == request[c].user
  <2>1. [state |-> "live", user |-> u, since |-> users[u].since] \in Session
    BY <1>8 DEF CreateSession, At, User, Session
  <2>2. Fresh(sessions) \in Cookies
    BY <1>8, FreshIsUnused DEF CreateSession
  <2> QED BY <1>8, <2>1, RequestTypes DEF CreateSession
<1>9. ASSUME NEW c \in Clients, NEW k \in Cookies, NEW op \in UserOps \cup {"logout"}, Open(c, k, op, None)
      PROVE  TypeOK'
  <2>1. ASSUME NEW v \in Users \cup {None}
        PROVE  \A r \in Request :
                 [r EXCEPT !.op = op, !.cookie = k, !.on = None, !.user = v] \in Request
    BY DEF Request, Operations, UserOps
  <2>2. (IF op \in AdminOps THEN sessions[k].user ELSE None) \in Users \cup {None}
    BY DEF Session
  <2> QED BY <1>9, <2>1, <2>2, RowTypes, RequestTypes DEF Open
<1>10. ASSUME NEW c \in Clients, NEW k \in Cookies, NEW op \in AdminOps, NEW u \in Users, Open(c, k, op, u)
      PROVE  TypeOK'
  <2>1. ASSUME NEW v \in Users \cup {None}
        PROVE  \A r \in Request :
                 [r EXCEPT !.op = op, !.cookie = k, !.on = u, !.user = v] \in Request
    BY DEF Request, Operations, AdminOps
  <2>2. (IF op \in AdminOps THEN sessions[k].user ELSE None) \in Users \cup {None}
    BY DEF Session
  <2> QED BY <1>10, <2>1, <2>2, RowTypes, RequestTypes DEF Open
<1>11. ASSUME NEW c \in Clients, Recheck(c)
      PROVE  TypeOK'
  <2> DEFINE k == request[c].cookie
  <2>1. k \in Cookies
    BY <1>11 DEF Recheck, At
  <2>2. sessions[k].user \in Users \cup {None}
    BY <2>1 DEF Session
  <2>3. CASE request' = [request EXCEPT ![c] = [@ EXCEPT !.step = 1, !.user = sessions[k].user]]
    BY <1>11, <2>2, <2>3, RequestRow DEF Recheck
  <2>4. CASE Advance(c) \/ Finish(c)
    BY <1>11, <2>4, RequestTypes DEF Recheck
  <2> QED BY <1>11, <2>3, <2>4 DEF Recheck
<1>12. ASSUME NEW c \in Clients, Logout(c)
      PROVE  TypeOK'
  BY <1>12, RowTypes, RequestTypes DEF Logout
<1>13. ASSUME NEW c \in Clients, NEW k \in Cookies, RevokeSession(c, k)
      PROVE  TypeOK'
  BY <1>13, RowTypes, RequestTypes DEF RevokeSession
<1>14. ASSUME NEW c \in Clients, RevokeAllSessions(c)
      PROVE  TypeOK'
  BY <1>14, TableTypes, RequestTypes DEF RevokeAllSessions, Request
<1>15. CASE Expire
  <2>1. ASSUME NEW t \in Tokens, tokens' = Consumed(t), UNCHANGED sessions
        PROVE  TypeOK'
    BY <1>15, <2>1, TableTypes DEF Expire
  <2>2. ASSUME NEW k \in Cookies, sessions' = [sessions EXCEPT ![k] = Ended], UNCHANGED tokens
        PROVE  TypeOK'
    BY <1>15, <2>2, RowTypes DEF Expire
  <2> QED BY <1>15, <2>1, <2>2 DEF Expire
<1>16. ASSUME NEW c \in Clients, CreateApplication(c)
      PROVE  TypeOK'
  BY <1>16, RequestTypes DEF CreateApplication, At, UserOps
<1>17. ASSUME NEW c \in Clients, DeleteApplication(c)
      PROVE  TypeOK'
  <2>1. apps' \in [Users -> 0 .. MaxApps]
    BY <1>17 DEF DeleteApplication, At, UserOps
  <2> QED BY <1>17, <2>1, RequestTypes DEF DeleteApplication
<1>18. ASSUME NEW u \in Users, BootstrapAdmin(u)
      PROVE  TypeOK'
  BY <1>18 DEF BootstrapAdmin, User
<1>19. ASSUME NEW c \in Clients, TransitionUserStatus(c)
      PROVE  TypeOK'
  <2>1. UNCHANGED <<apps, tokens, bootstrap>> /\ request' \in [Clients -> Request]
    BY <1>19, RequestTypes DEF TransitionUserStatus
  <2>2. CASE UNCHANGED <<users, sessions, audit>>
    BY <2>1, <2>2
  <2>3. ASSUME NEW u \in Users, NEW status \in {"active", "suspended"}, NEW n \in Nat,
               TransitionAllowed(u, status),
               users' = [users EXCEPT ![u] = [@ EXCEPT !.status = status, !.since = n]],
               sessions' = IF status = "suspended" THEN Revoked(u) ELSE sessions,
               audit' = Append(audit, [user |-> u, was |-> users[u].status, now |-> status])
        PROVE  TypeOK'
    <3>1. [user |-> u, was |-> users[u].status, now |-> status] \in Entry
      BY <2>3 DEF TransitionAllowed, Entry
    <3>2. audit' \in Seq(Entry)
      BY <2>3, <3>1
    <3>3. users' \in [Users -> User] /\ sessions' \in [Cookies -> Session]
      BY <2>3, TransitionRow, TableTypes
    <3> QED BY <2>1, <3>2, <3>3
  <2> HIDE DEF TypeOK, Bound
  <2> QED BY <1>19, <2>2, <2>3, TransitionEffect
<1>20. ASSUME NEW c \in Clients, Abandon(c)
      PROVE  TypeOK'
  BY <1>20, RequestTypes DEF Abandon
<1>21. CASE UNCHANGED vars
  BY <1>21 DEF vars
<1> HIDE DEF TypeOK
<1> QED
  BY <1>1, <1>2, <1>3, <1>4, <1>5, <1>6, <1>7, <1>8, <1>9, <1>10, <1>11, <1>12, <1>13,
     <1>14, <1>15, <1>16, <1>17, <1>18, <1>19, <1>20, <1>21 DEF Next

LEMMA BoundStep ==
    ASSUME TypeOK, Bound, [Next]_vars
    PROVE  Bound'
<1> USE AccountAssumption DEF TypeOK, Bound, OwnersKnown, RequestsWellFormed
<1>1. ASSUME NEW u \in Users, Register(u)
      PROVE  Bound'
  BY <1>1 DEF Register, RegisterUser, Rotated, Spent
<1>2. ASSUME NEW t \in Tokens, VerifyEmail(t)
      PROVE  Bound'
  BY <1>2 DEF VerifyEmail, Consumed, Spent
<1>3. ASSUME NEW c \in Clients, NEW u \in Users, NEW op \in {"verify", "forgot"}, RequestToken(c, u, op)
      PROVE  Bound'
  BY <1>3 DEF RequestToken, Begin, UserOps, AdminOps
<1>4. ASSUME NEW c \in Clients, IssueToken(c)
      PROVE  Bound'
  BY <1>4 DEF IssueToken, At, Rotated, Spent, Finish, Idle, UserOps, AdminOps
<1>5. ASSUME NEW t \in Tokens, ResetPassword(t)
      PROVE  Bound'
  BY <1>5 DEF ResetPassword, Consumed, Revoked, Spent, Ended
<1>6. ASSUME NEW c \in Clients, NEW u \in Users, Login(c, u)
      PROVE  Bound'
  BY <1>6 DEF Login, Begin, UserOps, AdminOps
<1>7. ASSUME NEW c \in Clients, RecordUserLogin(c)
      PROVE  Bound'
  <2>1. /\ UNCHANGED <<tokens, sessions>> /\ request[c].op = "login" /\ request[c].step = 0
        /\ \/ request' = [request EXCEPT ![c] = [@ EXCEPT !.step = 1]]
           \/ request' = [request EXCEPT ![c] = Idle]
    BY <1>7 DEF RecordUserLogin, At, Advance, Finish
  <2>2. \/ request'[c].op = "idle"
        \/ request'[c].op = "login" /\ request'[c].user = request[c].user
    <3> DEFINE next == [request[c] EXCEPT !.step = 1]
    <3>1. next.op = "login" /\ next.user = request[c].user
      BY <2>1
    <3>2. request'[c] = next \/ request'[c] = Idle
      BY <2>1
    <3>3. Idle.op = "idle"
      BY DEF Idle
    <3> HIDE DEF next
    <3> QED BY <3>1, <3>2, <3>3
  <2>3. \A d \in Clients \ {c} : request'[d] = request[d]
    BY <2>1
  <2> QED BY <2>1, <2>2 DEF UserOps, AdminOps
<1>8. ASSUME NEW c \in Clients, CreateSession(c)
      PROVE  Bound'
  BY <1>8 DEF CreateSession, At, Finish, Idle, UserOps, AdminOps
<1>9. ASSUME NEW c \in Clients, NEW k \in Cookies, NEW op \in UserOps \cup {"logout"}, Open(c, k, op, None)
      PROVE  Bound'
  BY <1>9 DEF Open, Begin, Idle, UserOps, AdminOps
<1>10. ASSUME NEW c \in Clients, NEW k \in Cookies, NEW op \in AdminOps, NEW u \in Users, Open(c, k, op, u)
      PROVE  Bound'
  BY <1>10 DEF Open, Authenticated, ValidSession, Begin
<1>11. ASSUME NEW c \in Clients, Recheck(c)
      PROVE  Bound'
  <2> DEFINE k == request[c].cookie
  <2>1. k \in Cookies /\ UNCHANGED <<tokens, sessions>>
    BY <1>11 DEF Recheck, At
  <2>2. CASE /\ request' = [request EXCEPT ![c] = [@ EXCEPT !.step = 1, !.user = sessions[k].user]]
             /\ Authenticated(k)
    BY <2>1, <2>2 DEF Authenticated, ValidSession
  <2>3. CASE Advance(c) /\ request[c].op \in AdminOps
    BY <2>1, <2>3 DEF Advance, UserOps, AdminOps
  <2>4. CASE Finish(c)
    BY <2>1, <2>4 DEF Finish, Idle, UserOps, AdminOps
  <2> QED BY <1>11, <2>2, <2>3, <2>4 DEF Recheck, At
<1>12. ASSUME NEW c \in Clients, Logout(c)
      PROVE  Bound'
  BY <1>12 DEF Logout, Finish, Idle, Ended, UserOps, AdminOps
<1>13. ASSUME NEW c \in Clients, NEW k \in Cookies, RevokeSession(c, k)
      PROVE  Bound'
  BY <1>13 DEF RevokeSession, Finish, Idle, Ended, UserOps, AdminOps
<1>14. ASSUME NEW c \in Clients, RevokeAllSessions(c)
      PROVE  Bound'
  BY <1>14 DEF RevokeAllSessions, Revoked, Finish, Idle, Ended, UserOps, AdminOps
<1>15. CASE Expire
  <2>1. ASSUME NEW t \in Tokens, tokens' = Consumed(t), UNCHANGED sessions
        PROVE  Bound'
    BY <1>15, <2>1 DEF Expire, Consumed, Spent
  <2>2. ASSUME NEW k \in Cookies, sessions' = [sessions EXCEPT ![k] = Ended], UNCHANGED tokens
        PROVE  Bound'
    BY <1>15, <2>2 DEF Expire, Ended
  <2> QED BY <1>15, <2>1, <2>2 DEF Expire
<1>16. ASSUME NEW c \in Clients, CreateApplication(c)
      PROVE  Bound'
  BY <1>16 DEF CreateApplication, Finish, Idle, UserOps, AdminOps
<1>17. ASSUME NEW c \in Clients, DeleteApplication(c)
      PROVE  Bound'
  BY <1>17 DEF DeleteApplication, Finish, Idle, UserOps, AdminOps
<1>18. ASSUME NEW u \in Users, BootstrapAdmin(u)
      PROVE  Bound'
  BY <1>18 DEF BootstrapAdmin
<1>19. ASSUME NEW c \in Clients, TransitionUserStatus(c)
      PROVE  Bound'
  <2>1. /\ UNCHANGED tokens /\ request' = [request EXCEPT ![c] = Idle]
        /\ sessions' = sessions \/ \E u \in Users : sessions' = Revoked(u)
    BY <1>19, TransitionEffect DEF TransitionUserStatus, Finish
  <2>2. \A k \in Cookies : sessions'[k].state = "live" => sessions'[k].user \in Users
    BY <2>1 DEF Revoked, Ended
  <2> QED BY <2>1, <2>2 DEF Idle, UserOps, AdminOps
<1>20. ASSUME NEW c \in Clients, Abandon(c)
      PROVE  Bound'
  BY <1>20 DEF Abandon, Finish, Idle, UserOps, AdminOps
<1>21. CASE UNCHANGED vars
  BY <1>21 DEF vars
<1> HIDE DEF Bound
<1> QED
  BY <1>1, <1>2, <1>3, <1>4, <1>5, <1>6, <1>7, <1>8, <1>9, <1>10, <1>11, <1>12, <1>13,
     <1>14, <1>15, <1>16, <1>17, <1>18, <1>19, <1>20, <1>21 DEF Next

(* The steps that change neither the set of administrators nor the trail:  *)
(* an account only moves towards active, from a status the trail does not  *)
(* know.                                                                   *)
Quiet ==
    /\ UNCHANGED <<bootstrap, audit>>
    /\ \A u \in Users :
         /\ users'[u].admin = users[u].admin
         /\ \/ users'[u].status = users[u].status
            \/ /\ users[u].status \in {"none", "pending_verification"}
               /\ users'[u].status \in {"pending_verification", "active"}

LEMMA QuietSteps ==
    ASSUME TypeOK, Bound, [Next]_vars,
           \A u \in Users : ~BootstrapAdmin(u), \A c \in Clients : ~TransitionUserStatus(c)
    PROVE  Quiet
<1> USE DEF TypeOK, Bound, OwnersKnown, RequestsWellFormed, Quiet
<1>1. ASSUME NEW u \in Users, Register(u)
      PROVE  Quiet
  BY <1>1 DEF Register, RegisterUser, Exists
<1>2. ASSUME NEW t \in Tokens, VerifyEmail(t)
      PROVE  Quiet
  BY <1>2 DEF VerifyEmail, StatusOnceVerified
<1>3. ASSUME NEW c \in Clients, NEW u \in Users, NEW op \in {"verify", "forgot"}, RequestToken(c, u, op)
      PROVE  Quiet
  BY <1>3 DEF RequestToken
<1>4. ASSUME NEW c \in Clients, IssueToken(c)
      PROVE  Quiet
  BY <1>4 DEF IssueToken
<1>5. ASSUME NEW t \in Tokens, ResetPassword(t)
      PROVE  Quiet
  BY <1>5 DEF ResetPassword
<1>6. ASSUME NEW c \in Clients, NEW u \in Users, Login(c, u)
      PROVE  Quiet
  BY <1>6 DEF Login
<1>7. ASSUME NEW c \in Clients, RecordUserLogin(c)
      PROVE  Quiet
  BY <1>7 DEF RecordUserLogin
<1>8. ASSUME NEW c \in Clients, CreateSession(c)
      PROVE  Quiet
  BY <1>8 DEF CreateSession
<1>9. ASSUME NEW c \in Clients, NEW k \in Cookies, NEW op \in UserOps \cup {"logout"}, Open(c, k, op, None)
      PROVE  Quiet
  BY <1>9 DEF Open
<1>10. ASSUME NEW c \in Clients, NEW k \in Cookies, NEW op \in AdminOps, NEW u \in Users, Open(c, k, op, u)
      PROVE  Quiet
  BY <1>10 DEF Open
<1>11. ASSUME NEW c \in Clients, Recheck(c)
      PROVE  Quiet
  BY <1>11 DEF Recheck
<1>12. ASSUME NEW c \in Clients, Logout(c)
      PROVE  Quiet
  BY <1>12 DEF Logout
<1>13. ASSUME NEW c \in Clients, NEW k \in Cookies, RevokeSession(c, k)
      PROVE  Quiet
  BY <1>13 DEF RevokeSession
<1>14. ASSUME NEW c \in Clients, RevokeAllSessions(c)
      PROVE  Quiet
  BY <1>14 DEF RevokeAllSessions
<1>15. CASE Expire
  BY <1>15 DEF Expire
<1>16. ASSUME NEW c \in Clients, CreateApplication(c)
      PROVE  Quiet
  BY <1>16 DEF CreateApplication
<1>17. ASSUME NEW c \in Clients, DeleteApplication(c)
      PROVE  Quiet
  BY <1>17 DEF DeleteApplication
<1>18. ASSUME NEW c \in Clients, Abandon(c)
      PROVE  Quiet
  BY <1>18 DEF Abandon
<1>19. CASE UNCHANGED vars
  BY <1>19 DEF vars
<1> HIDE DEF Quiet
<1> QED
  BY <1>1, <1>2, <1>3, <1>4, <1>5, <1>6, <1>7, <1>8, <1>9, <1>10, <1>11, <1>12, <1>13,
     <1>14, <1>15, <1>16, <1>17, <1>18, <1>19 DEF Next

(* Suspending an administrator leaves another one that is active.          *)
LEMMA AdminStep ==
    ASSUME TypeOK, Bound, AdminRemains, [Next]_vars
    PROVE  AdminRemains'
<1>1. ASSUME NEW u \in Users, BootstrapAdmin(u)
      PROVE  AdminRemains'
  BY <1>1 DEF BootstrapAdmin, AdminRemains, ActiveAdmins, Admins, TypeOK
<1>2. ASSUME NEW c \in Clients, TransitionUserStatus(c)
      PROVE  AdminRemains'
  <2>1. UNCHANGED bootstrap
    BY <1>2 DEF TransitionUserStatus
  <2>2. CASE UNCHANGED users
    BY <2>1, <2>2 DEF AdminRemains, ActiveAdmins, Admins
  <2>3. ASSUME NEW u \in Users, NEW status \in {"active", "suspended"}, NEW n \in Nat,
               TransitionAllowed(u, status), bootstrap,
               users' = [users EXCEPT ![u] = [@ EXCEPT !.status = status, !.since = n]]
        PROVE  AdminRemains'
    <3>2. PICK a \in ActiveAdmins : status = "suspended" => a # u
      <4>1. ActiveAdmins # {}
        BY <2>3 DEF AdminRemains
      <4>2. status = "suspended" => ActiveAdmins # {u}
        <5>1. Cardinality({u}) = 1
          BY FS_Singleton
        <5>2. SUFFICES ASSUME status = "suspended", ActiveAdmins = {u} PROVE FALSE
          OBVIOUS
        <5>3. users[u].admin /\ Cardinality(ActiveAdmins) = 1
          BY <5>1, <5>2 DEF ActiveAdmins, Admins
        <5> QED BY <2>3, <5>2, <5>3 DEF TransitionAllowed
      <4> QED BY <4>1, <4>2
    <3>3. a \in ActiveAdmins'
      <4>1. a \in Users /\ users[a].admin /\ users[a].status = "active"
        BY DEF ActiveAdmins, Admins
      <4>2. users'[a].admin /\ users'[a].status = "active"
        BY <2>3, <3>2, <4>1
      <4> QED BY <4>2 DEF ActiveAdmins, Admins
    <3> QED BY <3>3 DEF AdminRemains
  <2> QED BY <1>2, <2>1, <2>2, <2>3, TransitionEffect DEF AdminRemains
<1>3. CASE Quiet
  BY <1>3 DEF Quiet, AdminRemains, ActiveAdmins, Admins
<1> QED BY <1>1, <1>2, <1>3, QuietSteps

(* What a row of the trail holds.                                          *)
LEMMA EntriesTyped ==
    ASSUME TypeOK, NEW n \in 1 .. Len(audit)
    PROVE  audit[n].user \in Users /\ audit[n].now \in {"active", "suspended"}
<1>1. audit[n] \in Entry
  BY DEF TypeOK
<1> QED BY <1>1 DEF Entry

(* The trail follows a change of status, and other steps leave the status  *)
(* of every account the trail knows.                                       *)
LEMMA AuditStep ==
    ASSUME TypeOK, Bound, AuditTellsStatus, [Next]_vars
    PROVE  AuditTellsStatus'
<1>1. ASSUME NEW u \in Users, BootstrapAdmin(u)
      PROVE  AuditTellsStatus'
  <2>1. audit' = audit /\ \A v \in Users : users'[v].status = users[v].status
    BY <1>1 DEF BootstrapAdmin
  <2> QED BY <2>1, EntriesTyped DEF AuditTellsStatus, Silent
<1>2. ASSUME NEW c \in Clients, TransitionUserStatus(c)
      PROVE  AuditTellsStatus'
  <2>1. CASE UNCHANGED <<users, audit>>
    BY <2>1 DEF AuditTellsStatus, Silent
  <2>2. ASSUME NEW u \in Users, NEW status \in {"active", "suspended"},
               users[u].status \in {"active", "suspended"},
               users'[u].status = status, \A v \in Users \ {u} : users'[v] = users[v],
               audit' = Append(audit, [user |-> u, was |-> users[u].status, now |-> status])
        PROVE  AuditTellsStatus'
    <3> DEFINE new == [user |-> u, was |-> users[u].status, now |-> status]
    <3>0. /\ new \in Entry
          /\ new.user = u /\ new.was = users[u].status /\ new.now = status
      BY <2>2 DEF Entry
    <3> HIDE DEF new
    <3>1. /\ Len(audit) \in Nat /\ Len(audit') = Len(audit) + 1
          /\ \A n \in 1 .. Len(audit) : audit'[n] = audit[n]
          /\ audit'[Len(audit) + 1] = new
      BY <2>2 DEF new
    <3>2. ASSUME NEW v \in Users, NEW n \in Nat, n > 0
          PROVE  /\ Silent(v, n, Len(audit))' =>
                      Silent(v, n, Len(audit)) /\ (n <= Len(audit) + 1 => v # u)
                 /\ \A m \in Nat : m <= Len(audit) /\ Silent(v, n, m)' => Silent(v, n, m)
      <4>1. \A i \in n .. Len(audit) : audit'[i] = audit[i] /\ i \in n .. Len(audit')
        BY <3>1, <3>2
      <4>2. ASSUME NEW m \in Nat, m <= Len(audit), Silent(v, n, m)' PROVE Silent(v, n, m)
        BY <4>1, <4>2 DEF Silent
      <4>3. ASSUME Silent(v, n, Len(audit))' PROVE Silent(v, n, Len(audit)) /\ (n <= Len(audit) + 1 => v # u)
        <5>1. \A i \in n .. Len(audit') : audit'[i].user # v
          BY <4>3 DEF Silent
        <5>2. Silent(v, n, Len(audit))
          BY <4>1, <5>1 DEF Silent
        <5>3. n <= Len(audit) + 1 => Len(audit) + 1 \in n .. Len(audit')
          BY <3>1
        <5> QED BY <3>0, <3>1, <5>1, <5>2
      <4> QED BY <4>2, <4>3
    <3>3. ASSUME NEW v \in Users, Silent(v, 1, Len(audit))'
          PROVE  users'[v].status # "suspended"
      BY <2>2, <3>2, <3>3 DEF AuditTellsStatus
    <3>4. \A n \in 1 .. Len(audit) : audit[n].user \in Users
      BY EntriesTyped
    <3>5. ASSUME NEW n \in 1 .. Len(audit'), Silent(audit[n].user, n + 1, Len(audit))'
          PROVE  users'[audit'[n].user].status = audit'[n].now
      <4>1. CASE n = Len(audit) + 1
        BY <2>2, <4>1
      <4>2. CASE n \in 1 .. Len(audit)
        BY <2>2, <3>2, <3>4, <3>5 DEF AuditTellsStatus
      <4> QED BY <3>1, <4>1, <4>2
    <3>6. ASSUME NEW n \in 1 .. Len(audit'), NEW m \in n + 1 .. Len(audit'),
                 audit'[m].user = audit'[n].user, Silent(audit[n].user, n + 1, m - 1)'
          PROVE  audit'[m].was = audit'[n].now
      <4>1. n \in 1 .. Len(audit) /\ audit'[n] = audit[n] /\ m - 1 \in Nat /\ m - 1 <= Len(audit)
        BY <3>1
      <4>2. Silent(audit[n].user, n + 1, m - 1)
        BY <3>2, <3>4, <3>6, <4>1
      <4>3. CASE m = Len(audit) + 1
        BY <3>0, <3>1, <3>6, <4>1, <4>2, <4>3 DEF AuditTellsStatus
      <4>4. CASE m \in n + 1 .. Len(audit)
        <5>1. m \in 1 .. Len(audit) /\ audit'[m] = audit[m]
          BY <3>1, <4>1, <4>4
        <5>2. audit[m].was = audit[n].now
          BY <3>6, <4>1, <4>2, <4>4, <5>1 DEF AuditTellsStatus
        <5> QED BY <4>1, <5>1, <5>2
      <4> QED BY <3>1, <4>3, <4>4
    <3> QED BY <3>3, <3>5, <3>6 DEF AuditTellsStatus
  <2>3. ASSUME NEW u \in Users, NEW status \in {"active", "suspended"}, NEW n \in Nat,
               TransitionAllowed(u, status),
               users' = [users EXCEPT ![u] = [@ EXCEPT !.status = status, !.since = n]],
               audit' = Append(audit, [user |-> u, was |-> users[u].status, now |-> status])
        PROVE  AuditTellsStatus'
    <3>1. users[u].status \in {"active", "suspended"}
      BY <2>3 DEF TransitionAllowed
    <3> QED BY <2>2, <2>3, <3>1, TransitionRow
  <2> QED BY <1>2, <2>1, <2>3, TransitionEffect
<1>3. CASE Quiet
  <2>1. audit' = audit
    BY <1>3 DEF Quiet
  <2> QED BY <1>3, EntriesTyped DEF Quiet, AuditTellsStatus, Silent
<1> QED BY <1>1, <1>2, <1>3, QuietSteps

LEMMA SessionStep ==
    ASSUME TypeOK, Bound, SessionsEndTogether, [Next]_vars
    PROVE  SessionsEndTogether'
<1> USE AccountAssumption DEF TypeOK, Bound, OwnersKnown, RequestsWellFormed, SessionsEndTogether
<1>1. ASSUME NEW u \in Users, Register(u)
      PROVE  SessionsEndTogether'
  BY <1>1 DEF Register, RegisterUser
<1>2. ASSUME NEW t \in Tokens, VerifyEmail(t)
      PROVE  SessionsEndTogether'
  BY <1>2 DEF VerifyEmail
<1>3. ASSUME NEW c \in Clients, NEW u \in Users, NEW op \in {"verify", "forgot"}, RequestToken(c, u, op)
      PROVE  SessionsEndTogether'
  BY <1>3 DEF RequestToken
<1>4. ASSUME NEW c \in Clients, IssueToken(c)
      PROVE  SessionsEndTogether'
  BY <1>4 DEF IssueToken
<1>5. ASSUME NEW t \in Tokens, ResetPassword(t)
      PROVE  SessionsEndTogether'
  BY <1>5 DEF ResetPassword, Revoked, Ended
<1>6. ASSUME NEW c \in Clients, NEW u \in Users, Login(c, u)
      PROVE  SessionsEndTogether'
  BY <1>6 DEF Login
<1>7. ASSUME NEW c \in Clients, RecordUserLogin(c)
      PROVE  SessionsEndTogether'
  BY <1>7 DEF RecordUserLogin
<1>8. ASSUME NEW c \in Clients, CreateSession(c)
      PROVE  SessionsEndTogether'
  BY <1>8 DEF CreateSession
<1>9. ASSUME NEW c \in Clients, NEW k \in Cookies, NEW op \in UserOps \cup {"logout"}, Open(c, k, op, None)
      PROVE  SessionsEndTogether'
  BY <1>9 DEF Open
<1>10. ASSUME NEW c \in Clients, NEW k \in Cookies, NEW op \in AdminOps, NEW u \in Users, Open(c, k, op, u)
      PROVE  SessionsEndTogether'
  BY <1>10 DEF Open
<1>11. ASSUME NEW c \in Clients, Recheck(c)
      PROVE  SessionsEndTogether'
  BY <1>11 DEF Recheck
<1>12. ASSUME NEW c \in Clients, Logout(c)
      PROVE  SessionsEndTogether'
  BY <1>12 DEF Logout, Ended
<1>13. ASSUME NEW c \in Clients, NEW k \in Cookies, RevokeSession(c, k)
      PROVE  SessionsEndTogether'
  BY <1>13 DEF RevokeSession, Ended
<1>14. ASSUME NEW c \in Clients, RevokeAllSessions(c)
      PROVE  SessionsEndTogether'
  BY <1>14 DEF RevokeAllSessions, Revoked, Ended
<1>15. CASE Expire
  <2>1. ASSUME NEW t \in Tokens, tokens' = Consumed(t), UNCHANGED sessions
        PROVE  SessionsEndTogether'
    BY <1>15, <2>1 DEF Expire
  <2>2. ASSUME NEW k \in Cookies, sessions' = [sessions EXCEPT ![k] = Ended], UNCHANGED tokens
        PROVE  SessionsEndTogether'
    BY <1>15, <2>2 DEF Expire, Ended
  <2> QED BY <1>15, <2>2 DEF Expire
<1>16. ASSUME NEW c \in Clients, CreateApplication(c)
      PROVE  SessionsEndTogether'
  BY <1>16 DEF CreateApplication
<1>17. ASSUME NEW c \in Clients, DeleteApplication(c)
      PROVE  SessionsEndTogether'
  BY <1>17 DEF DeleteApplication
<1>18. ASSUME NEW u \in Users, BootstrapAdmin(u)
      PROVE  SessionsEndTogether'
  BY <1>18 DEF BootstrapAdmin
<1>19. ASSUME NEW c \in Clients, TransitionUserStatus(c)
      PROVE  SessionsEndTogether'
  <2>1. CASE UNCHANGED <<users, sessions>>
    BY <2>1
  <2>2. ASSUME NEW u \in Users, NEW status \in {"active", "suspended"}, NEW n \in Nat,
               status = "active" => n = users[u].since,
               users' = [users EXCEPT ![u] = [@ EXCEPT !.status = status, !.since = n]],
               sessions' = IF status = "suspended" THEN Revoked(u) ELSE sessions
        PROVE  SessionsEndTogether'
    <3>1. users'[u].since = n /\ \A v \in Users \ {u} : users'[v] = users[v]
      BY <2>2
    <3>2. CASE status = "suspended"
      BY <2>2 DEF Revoked, Ended
    <3>3. CASE status # "suspended"
      BY <2>2, <3>3
    <3> QED BY <3>2, <3>3
  <2> HIDE DEF TypeOK, Bound, SessionsEndTogether
  <2> QED BY <1>19, <2>1, <2>2, TransitionEffect
<1>20. ASSUME NEW c \in Clients, Abandon(c)
      PROVE  SessionsEndTogether'
  BY <1>20 DEF Abandon
<1>21. CASE UNCHANGED vars
  BY <1>21 DEF vars
<1> HIDE DEF SessionsEndTogether
<1> QED
  BY <1>1, <1>2, <1>3, <1>4, <1>5, <1>6, <1>7, <1>8, <1>9, <1>10, <1>11, <1>12, <1>13,
     <1>14, <1>15, <1>16, <1>17, <1>18, <1>19, <1>20, <1>21 DEF Next

-----------------------------------------------------------------------------
(* The accounts invariant: tables keep their types, handlers hold rows that *)
(* exist, and the three safety properties hold.                            *)
THEOREM AccountInvariant == Spec => []AccountInv
<1>1. Init => AccountInv
  <2> SUFFICES ASSUME Init PROVE AccountInv
    OBVIOUS
  <2>1. TypeOK
    <3>1. users \in [Users -> User] /\ apps \in [Users -> 0 .. MaxApps]
      BY AccountAssumption DEF Init, User
    <3>2. tokens \in [Tokens -> Token] /\ sessions \in [Cookies -> Session]
      BY DEF Init, Token, Session, Purposes
    <3>3. bootstrap \in BOOLEAN /\ request \in [Clients -> Request]
      BY RowTypes DEF Init
    <3>4. audit \in Seq(Entry)
      BY DEF Init
    <3> QED BY <3>1, <3>2, <3>3, <3>4 DEF TypeOK
  <2>2. Bound
    BY DEF Init, Bound, OwnersKnown, RequestsWellFormed, Idle, UserOps, AdminOps
  <2>3. AdminRemains /\ SessionsEndTogether
    BY DEF Init, AdminRemains, SessionsEndTogether
  <2>4. Len(audit) = 0 /\ \A u \in Users : users[u].status = "none"
    BY DEF Init
  <2>5. AuditTellsStatus
    BY <2>4 DEF AuditTellsStatus
  <2> QED BY <2>1, <2>2, <2>3, <2>5 DEF AccountInv
<1>2. AccountInv /\ [Next]_vars => AccountInv'
  BY TypeStep, BoundStep, AdminStep, AuditStep, SessionStep DEF AccountInv
<1> QED BY <1>1, <1>2, PTL DEF Spec

(* transition_user_status never suspends the last active administrator.    *)
THEOREM AdminAlwaysRemains == Spec => []AdminRemains
<1>1. AccountInv => AdminRemains
  BY DEF AccountInv
<1> QED BY <1>1, AccountInvariant, PTL

(* transition_user_status writes the audit row in its own transaction: the *)
(* trail tells the status of every account it mentions.                    *)
THEOREM AuditIsComplete == Spec => []AuditTellsStatus
<1>1. AccountInv => AuditTellsStatus
  BY DEF AccountInv
<1> QED BY <1>1, AccountInvariant, PTL

(* consume_password_reset_token and a suspension revoke every session that *)
(* was inserted before; none of them works again.                          *)
THEOREM SessionsAreEnded == Spec => []SessionsEndTogether
<1>1. AccountInv => SessionsEndTogether
  BY DEF AccountInv
<1> QED BY <1>1, AccountInvariant, PTL

-----------------------------------------------------------------------------
(* Webhooks: the inductive invariant.                                      *)

(* A worker that is not idle works on a delivery.                          *)
WorkersWellFormed == \A w \in Workers : worker[w].step # "idle" => worker[w].at \in Pairs

(* An event that was not published has no deliveries.                      *)
UnpublishedIsEmpty ==
    \A e \in Events : event[e] = "none" => \A d \in Of(e) : delivery[d].state = "none"

(* A delivery that used up its attempts is not pending.                    *)
AttemptsLeft ==
    \A d \in Pairs : delivery[d].state = "pending" => delivery[d].attempts < MaxAttempts

(* The row lock of an open acknowledgement keeps the lease token in place. *)
CommittingOwns ==
    \A w \in Workers : worker[w].step = "committing" => delivery[worker[w].at].owner = w

(* A worker that still holds the token of a delivery it saw accepted: no   *)
(* replay came between the request and the acknowledgement.                *)
AcceptedIsReceived ==
    \A w \in Workers :
        /\ worker[w].step \in {"accepted", "committing"}
        /\ delivery[worker[w].at].owner = w
        => received[worker[w].at].since

SinceIsEver == \A d \in Pairs : received[d].since => received[d].ever

(* An acknowledgement that found its event complete is not overtaken by a  *)
(* delivery that its receiver never got.                                   *)
LastIsLast ==
    \A w \in Workers : worker[w].step = "committing" /\ worker[w].last =>
        \A d \in Of(worker[w].at[1]) \ {worker[w].at} :
            delivery[d].state # "none" => received[d].ever

Linked ==
    /\ WorkersWellFormed
    /\ UnpublishedIsEmpty
    /\ AttemptsLeft
    /\ CommittingOwns
    /\ AcceptedIsReceived
    /\ SinceIsEver
    /\ LastIsLast
    /\ DeliveredIsReceived
    /\ DoneIsServed

DeliveryInv == DeliveryTypes /\ Linked

-----------------------------------------------------------------------------
(* What a step writes to a row, in terms of the row alone.                 *)

(* The columns that an acknowledgement and a recorded failure write.       *)
LEMMA SettledRow ==
    ASSUME DeliveryTypes, NEW d \in Pairs, NEW attempts \in 0 .. MaxAttempts,
           NEW state \in {"pending", "delivered", "dead"}
    PROVE  /\ Settled(d, state, attempts) \in [Pairs -> Delivery]
           /\ Settled(d, state, attempts)[d].state = state
           /\ Settled(d, state, attempts)[d].owner = Nobody
           /\ Settled(d, state, attempts)[d].attempts = attempts
           /\ \A c \in Pairs \ {d} : Settled(d, state, attempts)[c] = delivery[c]
<1>1. PICK row \in Delivery : row = delivery[d]
  BY DEF DeliveryTypes
<1> DEFINE new == [row EXCEPT !.state = state, !.attempts = attempts, !.due = FALSE,
                              !.owner = Nobody, !.leased = FALSE]
<1>2. /\ new \in Delivery
      /\ new.state = state /\ new.owner = Nobody
      /\ new.attempts = attempts
  BY DEF Delivery
<1>3. Settled(d, state, attempts) = [delivery EXCEPT ![d] = new]
  BY <1>1 DEF Settled
<1> HIDE DEF new
<1> QED BY <1>2, <1>3 DEF DeliveryTypes

(* A delivery as it is inserted or replayed.                               *)
LEMMA FreshRow ==
    ASSUME NEW replays \in 0 .. MaxReplays
    PROVE  /\ FreshDelivery(replays) \in Delivery
           /\ FreshDelivery(replays).state = "pending"
           /\ FreshDelivery(replays).owner = Nobody
           /\ FreshDelivery(replays).attempts = 0
<1>1. /\ NoDelivery \in Delivery
      /\ NoDelivery.owner = Nobody /\ NoDelivery.attempts = 0
  BY WebhookAssumption DEF NoDelivery, Delivery
<1>2. PICK row \in Delivery : row = NoDelivery
  BY <1>1
<1>3. FreshDelivery(replays) = [row EXCEPT !.state = "pending", !.due = TRUE, !.replays = replays]
  BY <1>2 DEF FreshDelivery
<1> QED BY <1>1, <1>2, <1>3 DEF Delivery

(* A delivery belongs to the event it is keyed by.                         *)
LEMMA PairParts ==
    ASSUME NEW d \in Pairs
    PROVE  d[1] \in Events /\ d \in Of(d[1])
BY DEF Pairs, Of

-----------------------------------------------------------------------------
LEMMA DeliveryTypeStep ==
    ASSUME DeliveryTypes, Linked, [WebhookNext]_webhookVars
    PROVE  DeliveryTypes'
<1> USE WebhookAssumption DEF DeliveryTypes, Linked
<1>1. ASSUME NEW e \in Events, Publish(e)
      PROVE  DeliveryTypes'
  BY <1>1, FreshRow DEF Publish
<1>2. ASSUME NEW e \in Events, Finalize(e)
      PROVE  DeliveryTypes'
  BY <1>2 DEF Finalize
<1>3. ASSUME NEW w \in Workers, NEW d \in Pairs, Claim(w, d)
      PROVE  DeliveryTypes'
  BY <1>3 DEF Claim, Claimable, Delivery, WorkersWellFormed
<1>4. ASSUME NEW w \in Workers, NEW got \in BOOLEAN, NEW answer \in {"accepted", "rejected"}, Post(w, got, answer)
      PROVE  DeliveryTypes'
  BY <1>4 DEF Post, Worker
<1>5. ASSUME NEW w \in Workers, Acknowledge(w)
      PROVE  DeliveryTypes'
  <2>1. CompletesEvent(w) \in BOOLEAN
    BY DEF CompletesEvent
  <2>2. [worker[w] EXCEPT !.step = "committing", !.last = CompletesEvent(w)] \in Worker
    BY <2>1 DEF Worker
  <2>3. IdleWorker \in Worker
    BY DEF IdleWorker, Worker
  <2>4. worker' \in [Workers -> Worker]
    BY <1>5, <2>2, <2>3 DEF Acknowledge
  <2> QED BY <1>5, <2>4 DEF Acknowledge
<1>6. ASSUME NEW w \in Workers, CommitAcknowledgement(w)
      PROVE  DeliveryTypes'
  <2> DEFINE d == worker[w].at
  <2>1. d \in Pairs /\ delivery[d].attempts \in 0 .. MaxAttempts
    BY <1>6 DEF CommitAcknowledgement, WorkersWellFormed, Delivery
  <2>2. d[1] \in Events
    BY <2>1, PairParts
  <2>3. worker' \in [Workers -> Worker]
    BY <1>6 DEF CommitAcknowledgement, IdleWorker, Worker
  <2>4. delivery' \in [Pairs -> Delivery] /\ \A c \in Pairs :
            delivery'[c].owner # Nobody => delivery'[c].state = "pending"
    <3> HIDE DEF DeliveryTypes
    <3>1. PICK n \in 0 .. MaxAttempts : n = delivery[d].attempts
      BY <2>1
    <3>2. delivery' = Settled(d, "delivered", n)
      BY <1>6, <3>1 DEF CommitAcknowledgement
    <3>3. /\ delivery' \in [Pairs -> Delivery]
          /\ delivery'[d].owner = Nobody
          /\ \A c \in Pairs \ {d} : delivery'[c] = delivery[c]
      <4> HIDE DEF d
      <4> QED BY <2>1, <3>2, SettledRow
    <3> QED BY <3>3 DEF DeliveryTypes
  <2> QED BY <1>6, <2>2, <2>3, <2>4 DEF CommitAcknowledgement
<1>7. ASSUME NEW w \in Workers, RecordFailure(w)
      PROVE  DeliveryTypes'
  <2> DEFINE d == worker[w].at
  <2>1. worker' \in [Workers -> Worker] /\ d \in Pairs
    BY <1>7 DEF RecordFailure, WorkersWellFormed, IdleWorker, Worker
  <2>2. CASE ~Owns(w)
    BY <1>7, <2>1, <2>2 DEF RecordFailure
  <2>3. CASE Owns(w)
    <3> DEFINE attempts == delivery[d].attempts + 1
               state == IF Exhausted(attempts) THEN "dead" ELSE "pending"
    <3>1. delivery[d].attempts < MaxAttempts
      BY <2>1, <2>3 DEF Owns, AttemptsLeft
    <3>2. attempts \in 0 .. MaxAttempts /\ state \in {"pending", "delivered", "dead"}
      BY <2>1, <3>1 DEF Delivery
    <3>3. delivery' = Settled(d, state, attempts) /\ UNCHANGED <<event, endpoint, received, faults>>
      BY <1>7, <2>3 DEF RecordFailure
    <3> HIDE DEF attempts, state
    <3>4. /\ delivery' \in [Pairs -> Delivery]
          /\ delivery'[d].owner = Nobody
          /\ \A c \in Pairs \ {d} : delivery'[c] = delivery[c]
      <4> HIDE DEF DeliveryTypes, d
      <4> QED BY <2>1, <3>2, <3>3, SettledRow
    <3> QED BY <2>1, <3>3, <3>4
  <2> QED BY <2>2, <2>3
<1>8. ASSUME NEW w \in Workers, Crash(w)
      PROVE  DeliveryTypes'
  BY <1>8 DEF Crash, IdleWorker, Worker
<1>9. ASSUME NEW d \in Pairs, LeaseEnds(d)
      PROVE  DeliveryTypes'
  <2>1. delivery' \in [Pairs -> Delivery] /\ \A c \in Pairs :
            delivery'[c].owner = delivery[c].owner /\ delivery'[c].state = delivery[c].state
    BY <1>9 DEF LeaseEnds, Delivery
  <2> QED BY <1>9, <2>1 DEF LeaseEnds
<1>10. ASSUME NEW d \in Pairs, Overdue(d)
      PROVE  DeliveryTypes'
  <2>1. delivery' \in [Pairs -> Delivery] /\ \A c \in Pairs :
            delivery'[c].owner = delivery[c].owner /\ delivery'[c].state = delivery[c].state
    BY <1>10 DEF Overdue, Delivery
  <2> QED BY <1>10, <2>1 DEF Overdue
<1>11. ASSUME NEW d \in Pairs, RetryDue(d)
      PROVE  DeliveryTypes'
  <2>1. delivery' \in [Pairs -> Delivery] /\ \A c \in Pairs :
            delivery'[c].owner = delivery[c].owner /\ delivery'[c].state = delivery[c].state
    BY <1>11 DEF RetryDue, Delivery
  <2> QED BY <1>11, <2>1 DEF RetryDue
<1>12. ASSUME NEW d \in Pairs, Replay(d)
      PROVE  DeliveryTypes'
  <2>1. delivery[d].replays + 1 \in 0 .. MaxReplays
    BY <1>12 DEF Replay, Delivery
  <2>2. received' \in [Pairs -> [since : BOOLEAN, ever : BOOLEAN]]
    BY <1>12 DEF Replay
  <2> QED BY <1>12, <2>1, FreshRow DEF Replay
<1>13. ASSUME NEW x \in Endpoints, CreateEndpoint(x)
      PROVE  DeliveryTypes'
  BY <1>13 DEF CreateEndpoint, Endpoint
<1>14. ASSUME NEW x \in Endpoints, DeleteEndpoint(x)
      PROVE  DeliveryTypes'
  BY <1>14 DEF DeleteEndpoint, NoDelivery, Endpoint, Delivery
<1>15. ASSUME NEW x \in Endpoints, NEW state \in {"enabled", "disabled"}, UpdateEndpoint(x, state)
      PROVE  DeliveryTypes'
  BY <1>15 DEF UpdateEndpoint, Endpoint
<1>16. CASE UNCHANGED webhookVars
  BY <1>16 DEF webhookVars
<1> QED
  BY <1>1, <1>2, <1>3, <1>4, <1>5, <1>6, <1>7, <1>8, <1>9, <1>10, <1>11, <1>12, <1>13,
     <1>14, <1>15, <1>16 DEF WebhookNext, Work

LEMMA LinkedStep ==
    ASSUME DeliveryTypes, Linked, [WebhookNext]_webhookVars
    PROVE  Linked'
<1> USE WebhookAssumption DEF DeliveryTypes, Linked, WorkersWellFormed, UnpublishedIsEmpty, AttemptsLeft, CommittingOwns, AcceptedIsReceived, SinceIsEver, LastIsLast, DeliveredIsReceived, DoneIsServed
<1>1. ASSUME NEW e \in Events, Publish(e)
      PROVE  Linked'
  BY <1>1, FreshRow DEF Delivery, Worker, Of, Publish
<1>2. ASSUME NEW e \in Events, Finalize(e)
      PROVE  Linked'
  BY <1>2 DEF Finalize, Unsubscribed
<1>3. ASSUME NEW w \in Workers, NEW d \in Pairs, Claim(w, d)
      PROVE  Linked'
  BY <1>3 DEF Delivery, Claim, Claimable
<1>4. ASSUME NEW w \in Workers, NEW got \in BOOLEAN, NEW answer \in {"accepted", "rejected"}, Post(w, got, answer)
      PROVE  Linked'
  BY <1>4 DEF Post
<1>5. ASSUME NEW w \in Workers, Acknowledge(w)
      PROVE  Linked'
  BY <1>5, PairParts, FreshRow DEF Delivery, Worker, Of, Acknowledge, Owns, CompletesEvent,
     IdleWorker, Locked
<1>6. ASSUME NEW w \in Workers, CommitAcknowledgement(w)
      PROVE  Linked'
  <2> DEFINE d == worker[w].at
  <2>1. /\ d \in Pairs /\ delivery[d].owner = w /\ delivery[d].state = "pending"
        /\ received[d].since /\ received[d].ever
        /\ d[1] \in Events /\ d \in Of(d[1]) /\ event[d[1]] # "none"
    BY <1>6, PairParts DEF CommitAcknowledgement
  <2>2. /\ delivery'[d].state = "delivered" /\ delivery'[d].owner = Nobody
        /\ \A c \in Pairs \ {d} : delivery'[c] = delivery[c]
    <3>1. PICK n \in 0 .. MaxAttempts : n = delivery[d].attempts
      BY <2>1 DEF Delivery
    <3>2. delivery' = Settled(d, "delivered", n)
      BY <1>6, <3>1 DEF CommitAcknowledgement
    <3> HIDE DEF DeliveryTypes, d
    <3> QED BY <2>1, <3>2, SettledRow
  <2>3. /\ worker'[w].step = "idle"
        /\ \A v \in Workers \ {w} : worker'[v] = worker[v]
    BY <1>6 DEF CommitAcknowledgement, IdleWorker
  <2>4. \A e \in Events :
          event'[e] = IF e = d[1] /\ worker[w].last THEN "delivered" ELSE event[e]
    BY <1>6 DEF CommitAcknowledgement
  <2>5. received' = received
    BY <1>6 DEF CommitAcknowledgement
  <2>6. DoneIsServed'
    BY <1>6, <2>2 DEF CommitAcknowledgement, Of
  <2>7. UnpublishedIsEmpty' /\ AttemptsLeft' /\ SinceIsEver' /\ DeliveredIsReceived'
    BY <2>1, <2>2, <2>4, <2>5 DEF Of
  <2>8. \A v \in Workers \ {w} : worker[v].step = "committing" => worker[v].at # d
    BY <2>1
  <2>9. WorkersWellFormed' /\ CommittingOwns' /\ AcceptedIsReceived'
    BY <2>1, <2>2, <2>3, <2>5
  <2>10. LastIsLast'
    BY <2>1, <2>2, <2>3, <2>5 DEF Of
  <2> QED BY <2>6, <2>7, <2>9, <2>10
<1>7. ASSUME NEW w \in Workers, RecordFailure(w)
      PROVE  Linked'
  <2>1. CASE ~Owns(w)
    BY <1>7, <2>1 DEF RecordFailure, IdleWorker
  <2>2. CASE Owns(w)
    <3> DEFINE d == worker[w].at
               attempts == delivery[d].attempts + 1
               state == IF Exhausted(attempts) THEN "dead" ELSE "pending"
    <3>1. /\ d \in Pairs /\ delivery[d].owner = w /\ delivery[d].state = "pending"
          /\ d[1] \in Events /\ d \in Of(d[1]) /\ event[d[1]] # "none"
      BY <1>7, <2>2, PairParts DEF RecordFailure, Owns
    <3>2. attempts \in 0 .. MaxAttempts /\ state \in {"pending", "dead"}
      BY <3>1 DEF Delivery
    <3>3. state = "pending" => attempts < MaxAttempts
      BY <3>2 DEF Exhausted
    <3>4. delivery' = Settled(d, state, attempts)
      BY <1>7, <2>2 DEF RecordFailure
    <3> HIDE DEF attempts, state
    <3>5. /\ delivery'[d].state = state /\ delivery'[d].owner = Nobody
          /\ delivery'[d].attempts = attempts
          /\ \A c \in Pairs \ {d} : delivery'[c] = delivery[c]
      BY <3>1, <3>2, <3>4, SettledRow
    <3>6. /\ worker'[w].step = "idle"
          /\ \A v \in Workers \ {w} : worker'[v] = worker[v]
          /\ event' = event /\ received' = received
      BY <1>7 DEF RecordFailure, IdleWorker
    <3> HIDE DEF d
    <3>7. UnpublishedIsEmpty' /\ SinceIsEver'
      <4>1. ASSUME NEW e \in Events, event[e] = "none", NEW c \in Of(e)
            PROVE  delivery'[c].state = "none"
        <5>1. c \in Pairs /\ c # d /\ delivery[c].state = "none"
          BY <3>1, <4>1 DEF Of
        <5> QED BY <3>5, <5>1
      <4> QED BY <3>6, <4>1
    <3>8. DoneIsServed'
      <4> SUFFICES ASSUME NEW e \in Events, event[e] = "delivered", NEW c \in Of(e),
                          delivery'[c].state # "none"
                   PROVE  received[c].ever
        BY <3>6
      <4>1. c \in Pairs /\ delivery[c].state # "none"
        BY <3>1, <3>5 DEF Of
      <4> QED BY <4>1
    <3>9. AttemptsLeft' /\ DeliveredIsReceived'
      BY <3>2, <3>3, <3>5, <3>6
    <3>10. \A v \in Workers \ {w} : worker[v].step = "committing" => worker[v].at # d
      BY <3>1
    <3>11. WorkersWellFormed' /\ CommittingOwns' /\ AcceptedIsReceived'
      BY <3>5, <3>6, <3>10
    <3>12. LastIsLast'
      BY <3>1, <3>5, <3>6 DEF Of
    <3> QED BY <3>7, <3>11, <3>12, <3>9, <3>8
  <2> QED BY <2>1, <2>2
<1>8. ASSUME NEW w \in Workers, Crash(w)
      PROVE  Linked'
  BY <1>8 DEF Crash, IdleWorker
<1>9. ASSUME NEW d \in Pairs, LeaseEnds(d)
      PROVE  Linked'
  BY <1>9 DEF LeaseEnds
<1>10. ASSUME NEW d \in Pairs, Overdue(d)
      PROVE  Linked'
  BY <1>10 DEF Overdue
<1>11. ASSUME NEW d \in Pairs, RetryDue(d)
      PROVE  Linked'
  BY <1>11 DEF RetryDue
<1>12. ASSUME NEW d \in Pairs, Replay(d)
      PROVE  Linked'
  BY <1>12, FreshRow DEF Delivery, Replay
<1>13. ASSUME NEW x \in Endpoints, CreateEndpoint(x)
      PROVE  Linked'
  BY <1>13 DEF CreateEndpoint
<1>14. ASSUME NEW x \in Endpoints, DeleteEndpoint(x)
      PROVE  Linked'
  <2>1. \A v \in Workers : worker[v].step = "committing" => worker[v].at[2] # x
    <3> SUFFICES ASSUME NEW v \in Workers, worker[v].step = "committing", worker[v].at[2] = x
                 PROVE  FALSE
      OBVIOUS
    <3>1. worker[v].at[1] \in Events /\ worker[v].at = <<worker[v].at[1], x>>
      BY DEF Pairs
    <3> QED BY <1>14, <3>1 DEF DeleteEndpoint, Locked
  <2>2. /\ \A c \in Pairs : IF c[2] = x THEN delivery'[c] = NoDelivery
                          ELSE delivery'[c] = delivery[c]
        /\ UNCHANGED <<event, worker, received>>
    BY <1>14 DEF DeleteEndpoint
  <2>3. NoDelivery.state = "none" /\ NoDelivery.owner = Nobody
    BY DEF NoDelivery
  <2>4. CommittingOwns'
    BY <2>1, <2>2
  <2> QED BY <2>2, <2>3, <2>4 DEF Of
<1>15. ASSUME NEW x \in Endpoints, NEW state \in {"enabled", "disabled"}, UpdateEndpoint(x, state)
      PROVE  Linked'
  BY <1>15 DEF UpdateEndpoint
<1>16. CASE UNCHANGED webhookVars
  BY <1>16 DEF webhookVars
<1> QED
  BY <1>1, <1>2, <1>3, <1>4, <1>5, <1>6, <1>7, <1>8, <1>9, <1>10, <1>11, <1>12, <1>13,
     <1>14, <1>15, <1>16 DEF WebhookNext, Work

-----------------------------------------------------------------------------
(* The outbox invariant: rows and workers keep their types, tokens and row *)
(* locks protect what a worker knows, and both safety properties hold.     *)
THEOREM DeliveryInvariant == WebhookSpec => []DeliveryInv
<1>1. WebhookInit => DeliveryInv
  <2> SUFFICES ASSUME WebhookInit PROVE DeliveryInv
    OBVIOUS
  <2>1. NoDelivery \in Delivery /\ NoDelivery.state = "none" /\ NoDelivery.owner = Nobody
    BY WebhookAssumption DEF NoDelivery, Delivery
  <2>2. IdleWorker \in Worker /\ IdleWorker.step = "idle"
    BY DEF IdleWorker, Worker
  <2>3. DeliveryTypes
    BY <2>1, <2>2, WebhookAssumption DEF WebhookInit, DeliveryTypes, Endpoint
  <2>4. Linked
    BY <2>1, <2>2 DEF WebhookInit, Linked, WorkersWellFormed, UnpublishedIsEmpty, AttemptsLeft,
       CommittingOwns, AcceptedIsReceived, SinceIsEver, LastIsLast, DeliveredIsReceived,
       DoneIsServed, Of
  <2> QED BY <2>3, <2>4 DEF DeliveryInv
<1>2. DeliveryInv /\ [WebhookNext]_webhookVars => DeliveryInv'
  BY DeliveryTypeStep, LinkedStep DEF DeliveryInv
<1> QED BY <1>1, <1>2, PTL DEF WebhookSpec

(* mark_webhook_delivery_delivered_with_status never marks a delivery that *)
(* its receiver has not got since the last replay.                         *)
THEOREM DeliveredWasReceived == WebhookSpec => []DeliveredIsReceived
<1>1. DeliveryInv => DeliveredIsReceived
  BY DEF DeliveryInv, Linked
<1> QED BY <1>1, DeliveryInvariant, PTL

(* An event is completed only when every endpoint that still has a         *)
(* delivery of it got the event at least once.                             *)
THEOREM CompletedWasServed == WebhookSpec => []DoneIsServed
<1>1. DeliveryInv => DoneIsServed
  BY DEF DeliveryInv, Linked
<1> QED BY <1>1, DeliveryInvariant, PTL
=============================================================================
