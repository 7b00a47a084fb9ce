--------------------------- MODULE SessionsProofs ---------------------------
(***************************************************************************)
(* What is proved of Sessions, for any number of users, tokens, sessions   *)
(* and requests and for windows of any length: the types, the shape of the *)
(* families and their cap, what revocations end and that they stand, and   *)
(* that passwords do.                                                      *)
(***************************************************************************)
EXTENDS Sessions, TLAPS, WellFoundedInduction

-----------------------------------------------------------------------------
(* Types.                                                                  *)

LEMMA Single ==
  ASSUME NEW b PROVE Head(<<b>>) = b /\ Tail(<<b>>) = <<>> /\ <<b>> # <<>>
OBVIOUS

LEMMA Pair ==
  ASSUME NEW a, NEW b PROVE Head(<<a, b>>) = a /\ Tail(<<a, b>>) = <<b>> /\ <<a, b>> # <<>>
OBVIOUS

(* What a handler has left after a statement is again a program; only the  *)
(* sweeps of a password change and a login have two statements.            *)
LEMMA RestOfProgram ==
  ASSUME NEW p \in Program
  PROVE  /\ p # <<>>
         /\ \/ Tail(p) = <<>>
            \/ /\ Tail(p) \in Program
               /\ \/ /\ Head(p) \in {"sessions", "password_change"}
                     /\ Head(Tail(p)) \in {"sessions", "password_change"}
                  \/ Head(p) = "check_user_credentials" /\ Head(Tail(p)) = "issue"
<1>1. CASE \E b \in {"issue", "note", "sessions"} \cup Bulk \cup Logins : p = <<b>>
  BY <1>1, Single
<1>2. ASSUME NEW a \in {"sessions", "password_change"}, NEW b \in {"sessions", "password_change"},
             p = <<a, b>>
      PROVE  /\ p # <<>> /\ Tail(p) \in Program
             /\ Head(p) \in {"sessions", "password_change"}
             /\ Head(Tail(p)) \in {"sessions", "password_change"}
  <2>1. Head(p) = a /\ Tail(p) = <<b>> /\ Head(Tail(p)) = b /\ p # <<>>
    BY <1>2, Single, Pair
  <2>2. <<b>> \in Program
    BY DEF Program, Bulk
  <2>. QED  BY <2>1, <2>2
<1>3. CASE p = <<"check_user_credentials", "issue">>
  <2>1. Head(p) = "check_user_credentials" /\ Tail(p) = <<"issue">> /\ p # <<>>
    BY <1>3, Pair
  <2>2. <<"issue">> \in Program /\ Head(<<"issue">>) = "issue"
    BY Single DEF Program
  <2>. QED  BY <2>1, <2>2
<1>4. \/ \E b \in {"issue", "note", "sessions"} \cup Bulk \cup Logins : p = <<b>>
      \/ \E a \in {"sessions", "password_change"}, b \in {"sessions", "password_change"} :
           p = <<a, b>>
      \/ p = <<"check_user_credentials", "issue">>
  BY DEF Program, Sweeps
<1>. QED  BY <1>1, <1>2, <1>3, <1>4

(* A request that starts is a call.                                        *)
LEMMA StartType ==
  ASSUME SessionsTypeOK, NEW r \in Request, NEW u \in User, NEW f \in Token \cup {"none"},
         NEW p \in Program, NEW T \in SUBSET Token, Start(r, u, f, p, T),
         Head(p) # "create_staff_session"
  PROVE  request' \in [Request -> {Free} \cup Call]
<1> DEFINE c == [Free EXCEPT !.todo = p, !.user = u, !.family = f, !.target = T]
<1>1. 0 \in 0..MaxPassword
  BY SessionsAssumption
<1>2. c \in Call
  BY <1>1 DEF Free, Call
<1>3. request' = [request EXCEPT ![r] = c]
  BY DEF Start
<1>. HIDE DEF c
<1>. QED  BY <1>2, <1>3 DEF SessionsTypeOK

(* So is a login; one to the portal is of the staff.                       *)
LEMMA VerifiedType ==
  ASSUME SessionsTypeOK, NEW r \in Request, NEW u \in User, NEW p \in 0..MaxPassword,
         NEW todo \in Program, Head(todo) = "create_staff_session" => u \in Staff,
         Verified(r, u, p, todo)
  PROVE  SessionsTypeOK'
<1> DEFINE c == [Free EXCEPT !.todo = todo, !.user = u, !.password = p,
                             !.rehash = users[u].old_cost]
<1>1. users[u].old_cost \in BOOLEAN
  BY DEF SessionsTypeOK, Account
<1>2. c \in Call
  BY <1>1 DEF Free, Call
<1>3. request' = [request EXCEPT ![r] = c]
  BY DEF Verified
<1>. HIDE DEF c
<1>4. request' \in [Request -> {Free} \cup Call]
  BY <1>2, <1>3 DEF SessionsTypeOK
<1>. QED  BY <1>4 DEF Verified, SessionsTypeOK

(* A request that has a statement left is a call.                          *)
LEMMA Running ==
  ASSUME SessionsTypeOK, NEW r \in Request, Statement(r) # "none" \/ request[r].begun
  PROVE  request[r] \in Call /\ request[r] # Free /\ Statement(r) = Head(request[r].todo)
<1>1. request[r] # Free
  BY DEF Statement, Free
<1>2. request[r] \in Call
  BY <1>1 DEF SessionsTypeOK
<1>. QED  BY <1>1, <1>2, RestOfProgram DEF Statement, Call

(* It goes on with what is left, or is done.                               *)
LEMMA ContinueType ==
  ASSUME SessionsTypeOK, NEW r \in Request, request[r] \in Call, Continue(r)
  PROVE  request' \in [Request -> {Free} \cup Call]
<1> DEFINE rest == Tail(request[r].todo)
           c == IF rest = <<>> THEN Free
                ELSE [request[r] EXCEPT !.todo = rest, !.begun = FALSE, !.seen = {}]
<1>1. rest # <<>> => rest \in Program /\ Head(rest) # "create_staff_session"
  BY RestOfProgram DEF Call
<1>2. c \in {Free} \cup Call
  BY <1>1 DEF Call
<1>3. request' = [request EXCEPT ![r] = c]
  BY DEF Continue
<1>. HIDE DEF c
<1>. QED  BY <1>2, <1>3 DEF SessionsTypeOK

(* The accounts keep their types whatever a step does to one of them.      *)
LEMMA UsersType ==
  ASSUME SessionsTypeOK, NEW u \in User, NEW a \in Account, users' = [users EXCEPT ![u] = a]
  PROVE  users' \in [User -> Account]
BY DEF SessionsTypeOK

(* So does the table of tokens.                                            *)
LEMMA RevokeType ==
  ASSUME SessionsTypeOK, NEW T, NEW why \in Reason, Revoke(T, why)
  PROVE  refresh_tokens' \in [Token -> Row \cup Absent]
<1>1. ASSUME NEW t \in Token, t \in Stored
      PROVE  [refresh_tokens[t] EXCEPT !.revoked_at = now, !.revoked_reason = why] \in Row
  <2>1. refresh_tokens[t] \in Row
    BY <1>1 DEF Stored, SessionsTypeOK
  <2>. QED  BY <2>1 DEF Row, SessionsTypeOK
<1>. QED  BY <1>1 DEF Revoke, SessionsTypeOK

LEMMA CounterRange ==
  /\ 0 \in 0..(c_max_attempts - 1) /\ 0 \in 0..(MaxNow + c_lock_window)
  /\ \A n \in Times : n + c_lock_window \in 0..(MaxNow + c_lock_window)
  /\ \A n \in 0..(c_max_attempts - 1) :
       ~(n + 1 >= c_max_attempts) => n + 1 \in 0..(c_max_attempts - 1)
BY SessionsAssumption DEF Times

(* An account stays one when its failures are cleared, when its password   *)
(* changes and when a denial is noted, which locks it before the counter   *)
(* reaches c_max_attempts.                                                 *)
LEMMA ClearedType ==
  ASSUME NEW a \in Account
  PROVE  [a EXCEPT !.failed_login_attempts = 0, !.login_locked_until = 0] \in Account
BY CounterRange DEF Account

LEMMA Changed ==
  ASSUME NEW a \in Account, NEW p \in 0..MaxPassword, p < MaxPassword
  PROVE  [a EXCEPT !.password = p + 1, !.old_cost = FALSE,
                   !.must_change_password = FALSE] \in Account
<1>1. p + 1 \in 0..MaxPassword
  BY SessionsAssumption
<1>. QED  BY <1>1 DEF Account

(* What a login leaves of an account, too.                                 *)
LEMMA RecostedType ==
  ASSUME SessionsTypeOK, NEW r \in Request, request[r] \in Call
  PROVE  Recosted(r) \in Account
<1>1. users[request[r].user] \in Account /\ request[r].password \in 0..MaxPassword
  BY DEF SessionsTypeOK, Call
<1>2. Cleared(r) \in Account
  BY <1>1, ClearedType DEF Cleared
<1>3. [Cleared(r) EXCEPT !.password = request[r].password, !.old_cost = FALSE] \in Account
  BY <1>1, <1>2 DEF Account
<1>. QED  BY <1>2, <1>3 DEF Recosted

LEMMA Noted ==
  ASSUME NEW a \in Account, now \in Times
  PROVE  /\ [a EXCEPT !.failed_login_attempts = 0,
                      !.login_locked_until = now + c_lock_window] \in Account
         /\ a.failed_login_attempts + 1 < c_max_attempts =>
              [a EXCEPT !.failed_login_attempts = a.failed_login_attempts + 1] \in Account
<1>1. 0 \in 0..(c_max_attempts - 1) /\ now + c_lock_window \in 0..(MaxNow + c_lock_window)
  BY CounterRange
<1>2. a.failed_login_attempts \in 0..(c_max_attempts - 1)
  BY DEF Account
<1>3. a.failed_login_attempts + 1 < c_max_attempts =>
        a.failed_login_attempts + 1 \in 0..(c_max_attempts - 1)
  BY <1>2, SessionsAssumption
<1>. QED  BY <1>1, <1>3 DEF Account

(* Every step keeps the types.                                             *)
LEMMA TypeStep ==
  ASSUME SessionsTypeOK, [NextSessions]_svars
  PROVE  SessionsTypeOK'
<1>. USE SessionsAssumption DEF SessionsTypeOK
<1>1. ASSUME NEW r \in Request, NEW u \in User, NEW p \in 0..MaxPassword, Login(r, u, p)
      PROVE  SessionsTypeOK'
  <2> DEFINE todo == IF users[u].must_change_password THEN <<"check_user_credentials">>
                     ELSE <<"check_user_credentials", "issue">>
  <2>1. todo \in Program /\ Head(todo) # "create_staff_session"
    BY Single, Pair DEF Program, Logins
  <2>2. Verified(r, u, p, todo)
    BY <1>1 DEF Login
  <2>. HIDE DEF todo
  <2>. QED  BY <2>1, <2>2, VerifiedType
<1>2. ASSUME NEW r \in Request, NEW u \in User, NEW p \in 0..MaxPassword, Denied(r, u, p)
      PROVE  SessionsTypeOK'
  <2>1. <<"note">> \in Program
    BY DEF Program
  <2>2. request' \in [Request -> {Free} \cup Call]
    BY <1>2, <2>1, StartType DEF Denied
  <2>. QED  BY <1>2, <2>2 DEF Denied
<1>3. ASSUME NEW r \in Request, NEW u \in User, NEW p \in 0..MaxPassword,
             create_staff_session(r, u, p)
      PROVE  SessionsTypeOK'
  <2>1. <<"create_staff_session">> \in Program
    BY DEF Program, Logins
  <2>. QED  BY <1>3, <2>1, VerifiedType DEF create_staff_session
<1>4. ASSUME NEW r \in Request, NEW u \in User, NEW p \in 0..MaxPassword, NEW sweeps \in Sweeps,
             change_password(r, u, p, sweeps)
      PROVE  SessionsTypeOK'
  <2>1. [users[u] EXCEPT !.password = p + 1, !.old_cost = FALSE,
                         !.must_change_password = FALSE] \in Account
    BY <1>4, Changed DEF change_password
  <2>2. users' \in [User -> Account]
    BY <1>4, <2>1, UsersType DEF change_password
  <2>3. request' \in [Request -> {Free} \cup Call]
    BY <1>4, StartType, Pair DEF change_password, Program, Sweeps, TokensOf, Stored
  <2>. QED  BY <1>4, <2>2, <2>3 DEF change_password
<1>5. ASSUME NEW r \in Request, NEW u \in User, LogoutAll(r, u)
      PROVE  SessionsTypeOK'
  <2>1. <<"forced">> \in Program
    BY DEF Program, Bulk
  <2>2. request' \in [Request -> {Free} \cup Call]
    BY <1>5, <2>1, StartType DEF LogoutAll, TokensOf, Stored
  <2>. QED  BY <1>5, <2>2 DEF LogoutAll
<1>6. ASSUME NEW r \in Request, NEW u \in User, require_password_change(r, u)
      PROVE  SessionsTypeOK'
  <2>1. [users[u] EXCEPT !.must_change_password = TRUE] \in Account
    BY ZenonT(30) DEF Account
  <2>2. users' \in [User -> Account]
    BY <1>6, <2>1, UsersType DEF require_password_change
  <2>3. request' \in [Request -> {Free} \cup Call]
    BY <1>6, StartType DEF require_password_change, Program, Sweeps, TokensOf, Stored
  <2>. QED  BY <1>6, <2>2, <2>3 DEF require_password_change
<1>7. ASSUME NEW r \in Request, NEW u \in User, NEW f \in Token, RevokeSession(r, u, f)
      PROVE  SessionsTypeOK'
  <2>1. <<"scoped">> \in Program
    BY DEF Program, Bulk
  <2>2. request' \in [Request -> {Free} \cup Call]
    BY <1>7, <2>1, StartType DEF RevokeSession, TokensOf, Stored
  <2>. QED  BY <1>7, <2>2 DEF RevokeSession
<1>8. ASSUME NEW r \in Request, note_failed_login(r)
      PROVE  SessionsTypeOK'
  <2>1. request[r] \in Call
    BY <1>8, Running DEF note_failed_login
  <2>2. request' \in [Request -> {Free} \cup Call]
    BY <1>8, <2>1, ContinueType DEF note_failed_login
  <2>3. request[r].user \in User
    BY <2>1 DEF Call
  <2> DEFINE u == request[r].user
             locked == [users[u] EXCEPT !.failed_login_attempts = 0,
                                        !.login_locked_until = now + c_lock_window]
             raised == [users[u] EXCEPT !.failed_login_attempts =
                                          users[u].failed_login_attempts + 1]
  <2>4. users[u] \in Account
    BY <2>3
  <2>5. locked \in Account /\ (users[u].failed_login_attempts + 1 < c_max_attempts
                                  => raised \in Account)
    BY <2>4, Noted
  <2>6. IF users[u].failed_login_attempts + 1 >= c_max_attempts
          THEN users' = [users EXCEPT ![u] = locked]
          ELSE users' = [users EXCEPT ![u] = raised]
    BY <1>8 DEF note_failed_login
  <2>. HIDE DEF locked, raised
  <2>7. users[u].failed_login_attempts \in Nat
    BY <2>4 DEF Account
  <2>8. users' \in [User -> Account]
    BY <2>3, <2>5, <2>6, <2>7, UsersType
  <2>. QED  BY <1>8, <2>2, <2>8 DEF note_failed_login
<1>9. ASSUME NEW r \in Request, BeginRevocation(r)
      PROVE  SessionsTypeOK'
  <2>1. request[r] \in Call
    BY <1>9, Running DEF BeginRevocation, Bulk
  <2> DEFINE c == [request[r] EXCEPT !.begun = TRUE, !.seen = Scope(r)]
  <2>2. Scope(r) \subseteq Token
    BY DEF Scope, Family, TokensOf, Stored
  <2>3. c \in Call
    BY <2>1, <2>2 DEF Call
  <2>4. request' = [request EXCEPT ![r] = c]
    BY <1>9 DEF BeginRevocation
  <2>. HIDE DEF c
  <2>. QED  BY <1>9, <2>3, <2>4 DEF BeginRevocation
<1>10. ASSUME NEW r \in Request, EndRevocation(r)
       PROVE  SessionsTypeOK'
  <2>1. request[r] \in Call
    BY <1>10, Running DEF EndRevocation, Bulk
  <2>2. request' \in [Request -> {Free} \cup Call]
    BY <1>10, <2>1, ContinueType DEF EndRevocation
  <2>3. ReasonOf(Statement(r)) \in Reason
    BY <1>10 DEF ReasonOf, Reason, Bulk, EndRevocation
  <2>4. refresh_tokens' \in [Token -> Row \cup Absent]
    BY <1>10, <2>3, RevokeType DEF EndRevocation
  <2>5. ended' \subseteq Token
    BY <1>10, <2>1 DEF EndRevocation, Call
  <2>. QED  BY <1>10, <2>2, <2>4, <2>5 DEF EndRevocation
<1>11. ASSUME NEW r \in Request, revoke_user_sessions(r)
       PROVE  SessionsTypeOK'
  <2>1. request[r] \in Call
    BY <1>11, Running DEF revoke_user_sessions
  <2>2. request' \in [Request -> {Free} \cup Call]
    BY <1>11, <2>1, ContinueType DEF revoke_user_sessions
  <2>. QED  BY <1>11, <2>2 DEF revoke_user_sessions
<1>12. ASSUME NEW r \in Request, StatementFails(r)
       PROVE  SessionsTypeOK'
  <2>1. request[r] \in Call
    BY <1>12, Running DEF StatementFails
  <2>2. CASE Continue(r)
    <3>1. request' \in [Request -> {Free} \cup Call]
      BY <2>1, <2>2, ContinueType
    <3>. QED  BY <1>12, <3>1 DEF StatementFails
  <2>3. CASE request' = [request EXCEPT ![r] = Free]
    BY <1>12, <2>3 DEF StatementFails
  <2>. QED  BY <1>12, <2>2, <2>3 DEF StatementFails
<1>13. ASSUME NEW r \in Request, NEW t \in Token, issue_refresh_token(r, t)
       PROVE  SessionsTypeOK'
  <2>1. request[r] \in Call
    BY <1>13, Running DEF issue_refresh_token
  <2>2. request' \in [Request -> {Free} \cup Call]
    BY <1>13, <2>1, ContinueType DEF issue_refresh_token
  <2>3. refresh_tokens' \in [Token -> Row \cup Absent]
    BY <1>13, <2>1 DEF issue_refresh_token, Row, Call, Times
  <2>. QED  BY <1>13, <2>2, <2>3 DEF issue_refresh_token
<1>14. ASSUME NEW r \in Request, NEW t \in Token, Replayed(r, t)
       PROVE  SessionsTypeOK'
  <2>1. refresh_tokens[t] \in Row
    BY <1>14 DEF Replayed, Stored
  <2>2. <<"family">> \in Program
    BY DEF Program, Bulk
  <2>3. refresh_tokens[t].user_id \in User /\ refresh_tokens[t].family_id \in Token
    BY <2>1 DEF Row
  <2>4. Family(refresh_tokens[t].family_id) \in SUBSET Token
    BY DEF Family, Stored
  <2>5. request' \in [Request -> {Free} \cup Call]
    BY <1>14, <2>2, <2>3, <2>4, StartType DEF Replayed
  <2>. QED  BY <1>14, <2>5 DEF Replayed
<1>15. ASSUME NEW t \in Token, revoke_refresh_token(t)
       PROVE  SessionsTypeOK'
  <2>1. refresh_tokens' \in [Token -> Row \cup Absent]
    BY <1>15, RevokeType DEF revoke_refresh_token, Reason
  <2>. QED  BY <1>15, <2>1 DEF revoke_refresh_token
<1>16. ASSUME NEW t \in Token, NEW child \in Token, rotate_refresh_token(t, child)
       PROVE  SessionsTypeOK'
  <2>1. refresh_tokens[t] \in Row
    BY <1>16 DEF rotate_refresh_token, MayRotate, Stored
  <2>2. [refresh_tokens[t] EXCEPT !.rotated = TRUE] \in Row
    BY <2>1 DEF Row
  <2> DEFINE new == [user_id |-> refresh_tokens[t].user_id,
                     family_id |-> refresh_tokens[t].family_id, parent |-> t,
                     issued_at |-> now, rotated |-> FALSE, revoked_at |-> 0,
                     revoked_reason |-> "none", opened |-> refresh_tokens[t].opened,
                     rotations |-> refresh_tokens[t].rotations + 1]
  <2>3. new \in Row
    BY <2>1 DEF Row, Times
  <2>4. refresh_tokens' = [refresh_tokens EXCEPT ![t] = [refresh_tokens[t] EXCEPT !.rotated = TRUE],
                                                 ![child] = new]
    BY <1>16 DEF rotate_refresh_token
  <2>. HIDE DEF new
  <2>. QED  BY <1>16, <2>2, <2>3, <2>4 DEF rotate_refresh_token
<1>17. ASSUME NEW s \in Portal, validate_session(s) \/ revoke_session(s)
       PROVE  SessionsTypeOK'
  <2>1. now + session_idle \in 0..(MaxNow + session_idle)
    BY DEF Times
  <2>2. CASE validate_session(s)
    <3>1. sessions[s] \in [user_id: Staff, expires_at: 0..(MaxNow + session_idle)]
      BY <2>2 DEF validate_session
    <3>2. [sessions[s] EXCEPT !.expires_at = now + session_idle]
            \in [user_id: Staff, expires_at: 0..(MaxNow + session_idle)]
      BY <2>1, <3>1
    <3>. QED  BY <2>2, <3>2 DEF validate_session
  <2>. QED  BY <1>17, <2>2 DEF revoke_session
<1>18. ASSUME NEW u \in User, NEW status \in {"active", "locked", "closed"},
              set_user_status(u, status)
       PROVE  SessionsTypeOK'
  <2>1. [users[u] EXCEPT !.status = status] \in Account
    BY DEF Account
  <2>2. users' \in [User -> Account]
    BY <1>18, <2>1, UsersType DEF set_user_status
  <2>. QED  BY <1>18, <2>2 DEF set_user_status
<1>19. CASE Tick
  BY <1>19 DEF Tick, Times
<1>20. CASE RunMaintenance
  BY <1>20 DEF RunMaintenance, Absent
<1>21. CASE UNCHANGED svars
  BY <1>21 DEF svars
<1>22. ASSUME NEW r \in Request, nothing_to_clear(r)
       PROVE  SessionsTypeOK'
  <2>1. request[r] \in Call
    BY <1>22, Running DEF nothing_to_clear, Logins
  <2> DEFINE c == [request[r] EXCEPT !.begun = TRUE]
  <2>2. c \in Call
    BY <2>1 DEF Call
  <2>3. request' = [request EXCEPT ![r] = c]
    BY <1>22 DEF nothing_to_clear
  <2>. HIDE DEF c
  <2>. QED  BY <1>22, <2>2, <2>3 DEF nothing_to_clear
<1>23. ASSUME NEW r \in Request, signs_in(r)
       PROVE  SessionsTypeOK'
  <2>1. request[r] \in Call /\ Statement(r) = Head(request[r].todo)
    BY <1>23, Running DEF signs_in, Logins
  <2>2. request' \in [Request -> {Free} \cup Call]
    BY <1>23, <2>1, ContinueType DEF signs_in
  <2>3. users' \in [User -> Account]
    BY <1>23, <2>1, RecostedType, UsersType DEF signs_in, Call
  <2>4. CASE Statement(r) = "create_staff_session"
    <3>1. now + session_idle \in 0..(MaxNow + session_idle) /\ request[r].user \in Staff
      BY <2>1, <2>4 DEF Times, Call
    <3>. QED  BY <1>23, <2>2, <2>3, <2>4, <3>1 DEF signs_in
  <2>. QED  BY <1>23, <2>2, <2>3, <2>4 DEF signs_in
<1>. QED
  BY <1>1, <1>2, <1>3, <1>4, <1>5, <1>6, <1>7, <1>8, <1>9, <1>10, <1>11, <1>12, <1>13, <1>14,
     <1>15, <1>16, <1>17, <1>18, <1>19, <1>20, <1>21, <1>22, <1>23 DEF NextSessions, Serve

(* Type correctness of the tables and the requests in every behaviour.     *)
THEOREM SessionsTypeCorrect == SpecSessions => []SessionsTypeOK
<1>1. InitSessions => SessionsTypeOK
  <2>. SUFFICES ASSUME InitSessions PROVE SessionsTypeOK
    OBVIOUS
  <2>1. 0 \in 0..MaxPassword /\ 0 \in Times
    BY SessionsAssumption DEF Times
  <2>2. users \in [User -> Account]
    BY <2>1, CounterRange DEF InitSessions, Account
  <2>. QED  BY <2>1, <2>2 DEF InitSessions, SessionsTypeOK, Absent
<1>. QED  BY <1>1, TypeStep, PTL DEF SpecSessions

-----------------------------------------------------------------------------
(* The families.                                                           *)

(* Every family still has its first token, which says when it was opened,  *)
(* and a child was rotated once more than its parent.                      *)
Rooted ==
  \A t \in Stored :
    LET row  == refresh_tokens[t]
        root == refresh_tokens[row.family_id]
    IN  /\ row.family_id \in Stored
        /\ root.family_id = row.family_id
        /\ root.issued_at = row.opened
        /\ row.parent = "none" => row.family_id = t
        /\ row.parent # "none" => refresh_tokens[row.parent].rotations < row.rotations

FamiliesInv == FamilyIsChain /\ Rooted /\ CapHolds

(* What no step changes in the row of a token that stays.                  *)
SameToken(t) ==
  /\ refresh_tokens'[t].user_id = refresh_tokens[t].user_id
  /\ refresh_tokens'[t].family_id = refresh_tokens[t].family_id
  /\ refresh_tokens'[t].parent = refresh_tokens[t].parent
  /\ refresh_tokens'[t].issued_at = refresh_tokens[t].issued_at
  /\ refresh_tokens'[t].opened = refresh_tokens[t].opened
  /\ refresh_tokens'[t].rotations = refresh_tokens[t].rotations

LEMMA NoFamilyIsLost ==
  ASSUME FamiliesInv, Stored' = Stored,
         \A t \in Stored : /\ SameToken(t)
                           /\ refresh_tokens'[t].rotated = refresh_tokens[t].rotated
                           /\ Revoked(t) => Revoked(t)'
  PROVE  FamiliesInv'
<1>. USE DEF FamiliesInv, SameToken
<1>1. Rooted'
  <2>. SUFFICES ASSUME NEW t \in Stored
                PROVE  /\ refresh_tokens'[t].family_id \in Stored
                       /\ refresh_tokens'[refresh_tokens'[t].family_id].family_id
                            = refresh_tokens'[t].family_id
                       /\ refresh_tokens'[refresh_tokens'[t].family_id].issued_at
                            = refresh_tokens'[t].opened
                       /\ refresh_tokens'[t].parent = "none" => refresh_tokens'[t].family_id = t
                       /\ refresh_tokens'[t].parent # "none" =>
                            refresh_tokens'[refresh_tokens'[t].parent].rotations
                              < refresh_tokens'[t].rotations
    BY DEF Rooted
  <2>1. refresh_tokens[t].parent # "none" => refresh_tokens[t].parent \in Stored
    BY DEF FamilyIsChain, ConsumedFor
  <2>. QED  BY <2>1 DEF Rooted
<1>2. \A t \in Stored : Tip(t)' => Tip(t)
  BY DEF Tip
<1>3. FamilyIsChain'
  <2>1. ASSUME NEW t \in Stored, (refresh_tokens[t].parent # "none")'
        PROVE  ConsumedFor(refresh_tokens[t].parent, t)'
    <3>1. ConsumedFor(refresh_tokens[t].parent, t)
      BY <2>1 DEF FamilyIsChain
    <3>. QED  BY <3>1 DEF ConsumedFor
  <2>2. ASSUME NEW t \in Stored, NEW s \in Family(refresh_tokens[t].family_id)' \ {t}
        PROVE  ~Rivals(s, t)'
    <3>1. s \in Family(refresh_tokens[t].family_id) \ {t} /\ s \in Stored
      BY <2>2 DEF Family
    <3>2. ~Rivals(s, t)
      BY <3>1 DEF FamilyIsChain
    <3>. QED  BY <1>2, <3>1, <3>2 DEF Rivals
  <2>. QED  BY <2>1, <2>2 DEF FamilyIsChain
<1>4. CapHolds'
  BY DEF CapHolds
<1>. QED  BY <1>1, <1>3, <1>4

(* A login opens a family of one: no token names a token that was not      *)
(* minted as its family.                                                   *)
LEMMA IssueFamilies ==
  ASSUME SessionsTypeOK, FamiliesInv, NEW r \in Request, NEW t \in Token,
         issue_refresh_token(r, t)
  PROVE  FamiliesInv'
<1> DEFINE row == [user_id |-> request[r].user, family_id |-> t, parent |-> "none",
                   issued_at |-> now, rotated |-> FALSE, revoked_at |-> 0,
                   revoked_reason |-> "none", opened |-> now, rotations |-> 0]
<1>1. request[r] \in Call
  BY Running DEF issue_refresh_token
<1>2. row \in Row
  BY <1>1, SessionsAssumption DEF Row, Call, Times, SessionsTypeOK
<1>3. refresh_tokens' = [refresh_tokens EXCEPT ![t] = row] /\ t \notin Stored
  BY DEF issue_refresh_token, Stored, Absent
<1>4. row.family_id = t /\ row.parent = "none" /\ row.issued_at = now /\ row.opened = now
      /\ now \in Nat
  BY DEF SessionsTypeOK, Times
<1>. HIDE DEF row
<1>5. refresh_tokens'[t] = row /\ \A s \in Token \ {t} : refresh_tokens'[s] = refresh_tokens[s]
  BY <1>3 DEF SessionsTypeOK
<1>6. Stored' = Stored \cup {t}
  BY <1>2, <1>5, AbsentAssumption DEF Stored, Absent
<1>7. \A s \in Stored : /\ s \in Token /\ s # t /\ refresh_tokens'[s] = refresh_tokens[s]
                        /\ refresh_tokens[s].family_id \in Stored
                        /\ refresh_tokens[s].parent # "none" => refresh_tokens[s].parent \in Stored
  BY <1>3, <1>5 DEF FamiliesInv, Rooted, FamilyIsChain, ConsumedFor, Stored
<1>8. Rooted'
  <2>1. \A s \in Stored :
          LET q    == refresh_tokens[s]
              root == refresh_tokens[q.family_id]
          IN  /\ root.family_id = q.family_id
              /\ root.issued_at = q.opened
              /\ q.parent = "none" => q.family_id = s
              /\ q.parent # "none" => refresh_tokens[q.parent].rotations < q.rotations
    BY DEF FamiliesInv, Rooted
  <2>. QED  BY <1>4, <1>5, <1>6, <1>7, <2>1 DEF Rooted
<1>9. FamilyIsChain'
  <2>1. ASSUME NEW s \in Stored, (refresh_tokens[s].parent # "none")'
        PROVE  ConsumedFor(refresh_tokens[s].parent, s)'
    <3>1. ConsumedFor(refresh_tokens[s].parent, s)
      BY <1>7, <2>1 DEF FamiliesInv, FamilyIsChain
    <3>. QED  BY <1>6, <1>7, <3>1 DEF ConsumedFor
  <2>2. ASSUME NEW s \in Stored, NEW q \in Family(refresh_tokens[s].family_id)' \ {s}
        PROVE  ~Rivals(q, s)'
    <3>1. q # t
      BY <1>4, <1>5, <1>7, <2>2 DEF Family
    <3>2. q \in Stored /\ q \in Family(refresh_tokens[s].family_id) \ {s}
      BY <1>6, <1>7, <2>2, <3>1 DEF Family
    <3>3. ~Rivals(q, s)
      BY <3>2 DEF FamiliesInv, FamilyIsChain
    <3>. QED  BY <1>7, <3>2, <3>3 DEF Rivals, Tip, Revoked
  <2>3. ASSUME NEW q \in Family(refresh_tokens[t].family_id)' \ {t}
        PROVE  FALSE
    BY <1>4, <1>5, <1>6, <1>7, <2>3 DEF Family
  <2>. QED  BY <1>4, <1>5, <1>6, <2>1, <2>2, <2>3 DEF FamilyIsChain
<1>10. CapHolds'
  BY <1>4, <1>5, <1>6, <1>7, SessionsAssumption DEF FamiliesInv, CapHolds
<1>. QED  BY <1>8, <1>9, <1>10 DEF FamiliesInv

(* A rotation consumes the one token of its family that may be used, so the*)
(* child has no sibling; the first token of the family is stored, so the   *)
(* cap measures from the login.                                            *)
LEMMA RotateFamilies ==
  ASSUME SessionsTypeOK, FamiliesInv, NEW t \in Token, NEW child \in Token,
         rotate_refresh_token(t, child)
  PROVE  FamiliesInv'
<1> DEFINE old == refresh_tokens[t]
           row == [user_id |-> old.user_id, family_id |-> old.family_id, parent |-> t,
                   issued_at |-> now, rotated |-> FALSE, revoked_at |-> 0,
                   revoked_reason |-> "none", opened |-> old.opened,
                   rotations |-> old.rotations + 1]
           used == [old EXCEPT !.rotated = TRUE]
<1>1. t \in Stored /\ Tip(t) /\ ~Capped(t) /\ child \notin Stored /\ t # child /\ old \in Row
  BY DEF rotate_refresh_token, MayRotate, Stored, Absent, SessionsTypeOK
<1>2. row \in Row /\ used \in Row /\ old.rotations \in Nat /\ t # "none"
  <2>1. /\ old.user_id \in User /\ old.family_id \in Token /\ old.opened \in Times
        /\ old.rotations \in Nat
    BY <1>1 DEF Row
  <2>2. now \in Times /\ 0 \in Times
    BY SessionsAssumption DEF Times, SessionsTypeOK
  <2>3. row \in Row
    BY <2>1, <2>2 DEF Row
  <2>4. used \in Row
    BY <1>1 DEF Row
  <2>. QED  BY <1>1, <2>1, <2>3, <2>4, SessionsAssumption
<1>3. refresh_tokens' = [refresh_tokens EXCEPT ![t] = used, ![child] = row]
  BY DEF rotate_refresh_token
<1>4. /\ row.user_id = old.user_id /\ row.family_id = old.family_id /\ row.parent = t
      /\ row.issued_at = now /\ row.opened = old.opened /\ row.rotations = old.rotations + 1
      /\ used.user_id = old.user_id /\ used.family_id = old.family_id
      /\ used.parent = old.parent /\ used.issued_at = old.issued_at /\ used.rotated
      /\ used.opened = old.opened /\ used.rotations = old.rotations
      /\ used.revoked_reason = old.revoked_reason
  BY <1>1 DEF Row
<1>. HIDE DEF row, used
<1>5. /\ refresh_tokens'[child] = row /\ refresh_tokens'[t] = used
      /\ \A s \in Token \ {t, child} : refresh_tokens'[s] = refresh_tokens[s]
  BY <1>1, <1>3 DEF SessionsTypeOK
<1>6. Stored' = Stored \cup {child}
  BY <1>1, <1>2, <1>5, AbsentAssumption DEF Stored, Absent
<1>7. \A s \in Stored : /\ s \in Token /\ s # child /\ SameToken(s)
                        /\ refresh_tokens[s].rotated => refresh_tokens'[s].rotated
                        /\ Revoked(s)' = Revoked(s)
                        /\ refresh_tokens[s].family_id \in Stored
                        /\ refresh_tokens[s].parent # "none" => refresh_tokens[s].parent \in Stored
  <2>. SUFFICES ASSUME NEW s \in Stored
                PROVE  /\ s \in Token /\ s # child /\ SameToken(s)
                       /\ refresh_tokens[s].rotated => refresh_tokens'[s].rotated
                       /\ Revoked(s)' = Revoked(s)
                       /\ refresh_tokens[s].family_id \in Stored
                       /\ refresh_tokens[s].parent # "none" => refresh_tokens[s].parent \in Stored
    OBVIOUS
  <2>1. s \in Token /\ s # child
    BY <1>1 DEF Stored
  <2>2. SameToken(s) /\ (refresh_tokens[s].rotated => refresh_tokens'[s].rotated)
        /\ Revoked(s)' = Revoked(s)
    BY <1>4, <1>5, <2>1 DEF SameToken, Revoked
  <2>3. refresh_tokens[s].family_id \in Stored
    BY DEF FamiliesInv, Rooted
  <2>4. refresh_tokens[s].parent # "none" => refresh_tokens[s].parent \in Stored
    BY DEF FamiliesInv, FamilyIsChain, ConsumedFor
  <2>. QED  BY <2>1, <2>2, <2>3, <2>4
<1>8. Rooted'
  <2>1. ASSUME NEW s \in Stored
        PROVE  LET q    == refresh_tokens[s]
                   root == refresh_tokens[q.family_id]
               IN  /\ q.family_id \in Stored
                   /\ root.family_id = q.family_id
                   /\ root.issued_at = q.opened
                   /\ q.parent = "none" => q.family_id = s
                   /\ q.parent # "none" => refresh_tokens[q.parent].rotations < q.rotations
    BY DEF FamiliesInv, Rooted
  <2>2. ASSUME NEW s \in Stored
        PROVE  LET q    == refresh_tokens'[s]
                   root == refresh_tokens'[q.family_id]
               IN  /\ q.family_id \in Stored
                   /\ root.family_id = q.family_id
                   /\ root.issued_at = q.opened
                   /\ q.parent = "none" => q.family_id = s
                   /\ q.parent # "none" => refresh_tokens'[q.parent].rotations < q.rotations
    BY <1>7, <2>1 DEF SameToken
  <2>3. LET root == refresh_tokens'[row.family_id]
        IN  /\ row.family_id \in Stored
            /\ root.family_id = row.family_id
            /\ root.issued_at = row.opened
            /\ row.parent # "none" /\ refresh_tokens'[row.parent].rotations < row.rotations
    BY <1>1, <1>2, <1>4, <1>5, <1>7, <2>1 DEF SameToken
  <2>. QED  BY <1>5, <1>6, <2>2, <2>3 DEF Rooted
<1>9. FamilyIsChain'
  <2>1. ASSUME NEW s \in Stored, (refresh_tokens[s].parent # "none")'
        PROVE  ConsumedFor(refresh_tokens[s].parent, s)'
    <3>1. ConsumedFor(refresh_tokens[s].parent, s)
      BY <1>7, <2>1 DEF FamiliesInv, FamilyIsChain, SameToken
    <3>2. refresh_tokens[s].parent \in Stored
      BY <3>1 DEF ConsumedFor
    <3>. QED  BY <1>6, <1>7, <3>1, <3>2 DEF ConsumedFor, SameToken
  <2>2. ConsumedFor(refresh_tokens[child].parent, child)'
    BY <1>1, <1>4, <1>5, <1>6 DEF ConsumedFor
  <2>3. ASSUME NEW s \in Stored, NEW q \in Family(refresh_tokens[s].family_id)' \ {s}, q # child
        PROVE  ~Rivals(q, s)'
    <3>1. q \in Stored /\ q \in Family(refresh_tokens[s].family_id) \ {s}
      BY <1>6, <1>7, <2>3 DEF Family, SameToken
    <3>2. ~Rivals(q, s)
      BY <3>1 DEF FamiliesInv, FamilyIsChain
    <3>. QED  BY <1>7, <3>1, <3>2 DEF Rivals, Tip, SameToken
  <2>4. ASSUME NEW s \in Family(old.family_id)
        PROVE  refresh_tokens[s].parent # t /\ ~Tip(s)'
    <3>1. s \in Stored
      BY <2>4 DEF Family
    <3>2. refresh_tokens[s].parent # t
      BY <1>1, <1>2, <3>1 DEF FamiliesInv, FamilyIsChain, ConsumedFor, Tip
    <3>3. s # t => ~Tip(s)
      BY <1>1, <2>4 DEF FamiliesInv, FamilyIsChain, Rivals
    <3>4. ~Tip(t)'
      BY <1>4, <1>5 DEF Tip
    <3>. QED  BY <1>7, <3>1, <3>2, <3>3, <3>4 DEF Tip
  <2>5. ASSUME NEW s \in Stored, refresh_tokens[s].family_id = old.family_id
        PROVE  ~Rivals(child, s)' /\ ~Rivals(s, child)'
    <3>1. refresh_tokens[s].parent # t /\ ~Tip(s)'
      BY <2>4, <2>5 DEF Family
    <3>2. refresh_tokens'[s].parent # t
      BY <1>7, <3>1 DEF SameToken
    <3>. QED  BY <1>4, <1>5, <3>1, <3>2 DEF Rivals
  <2>6. ASSUME NEW s \in Stored, NEW q \in Family(refresh_tokens[s].family_id)' \ {s}
        PROVE  ~Rivals(q, s)'
    <3>1. CASE q = child
      <4>1. refresh_tokens[s].family_id = old.family_id
        BY <1>4, <1>5, <1>7, <2>6, <3>1 DEF Family, SameToken
      <4>. QED  BY <2>5, <3>1, <4>1
    <3>. QED  BY <2>3, <2>6, <3>1
  <2>7. ASSUME NEW q \in Family(refresh_tokens[child].family_id)' \ {child}
        PROVE  ~Rivals(q, child)'
    <3>1. q \in Stored /\ refresh_tokens[q].family_id = old.family_id
      BY <1>4, <1>5, <1>6, <1>7, <2>7 DEF Family, SameToken
    <3>. QED  BY <2>5, <3>1
  <2>. QED  BY <1>6, <2>1, <2>2, <2>6, <2>7 DEF FamilyIsChain
<1>10. CapHolds'
  <2>1. old.family_id \in Stored /\ refresh_tokens[old.family_id].family_id = old.family_id
        /\ refresh_tokens[old.family_id].issued_at = old.opened
    BY <1>1 DEF FamiliesInv, Rooted
  <2>2. old.family_id \in Family(old.family_id)
    BY <2>1 DEF Family
  <2>3. ~(now > old.opened + refresh_absolute_ttl)
    BY <1>1, <2>1, <2>2 DEF Capped
  <2>4. now \in Nat /\ old.opened \in Nat
    BY <1>1 DEF Row, Times, SessionsTypeOK
  <2>5. now <= old.opened + refresh_absolute_ttl
    BY <2>3, <2>4, SessionsAssumption
  <2>. QED  BY <1>4, <1>5, <1>6, <1>7, <2>5 DEF FamiliesInv, CapHolds, SameToken
<1>. QED  BY <1>8, <1>9, <1>10 DEF FamiliesInv

(* The sweep takes the end of a chain only with its beginning: a token that*)
(* stays keeps its parent, by the reference, and so on up to the first.    *)
LEMMA Least ==
  ASSUME NEW S, S \subseteq Nat, S # {}
  PROVE  \E x \in S : \A y \in S : x <= y
<1> DEFINE R == OpToRel(<, Nat)
<1>1. IsWellFoundedOn(R, Nat)
  BY NatLessThanWellFounded
<1>. HIDE DEF R
<1>2. PICK x \in S : \A y \in S : ~(<<y, x>> \in R)
  BY <1>1, WFMin
<1>3. \A y \in Nat : y < x => <<y, x>> \in R
  BY DEF R, OpToRel
<1>4. \A y \in S : ~(y < x)
  BY <1>2, <1>3
<1>. QED  BY <1>4

LEMMA RootStays ==
  ASSUME SessionsTypeOK, FamiliesInv, NEW T, Deletable(T), NEW t \in Stored \ T
  PROVE  refresh_tokens[t].family_id \notin T
<1> DEFINE f     == refresh_tokens[t].family_id
           Stays == Family(f) \ T
           Ages  == {refresh_tokens[s].rotations : s \in Stays}
<1>1. \A s \in Stored : refresh_tokens[s] \in Row
  BY DEF Stored, SessionsTypeOK
<1>2. t \in Stays /\ \A s \in Stays : s \in Stored \ T /\ refresh_tokens[s].family_id = f
  BY DEF Family
<1>3. Ages \subseteq Nat /\ Ages # {}
  BY <1>1, <1>2 DEF Row
<1>4. PICK n \in Ages : \A k \in Ages : n <= k
  BY <1>3, Least
<1>5. PICK s \in Stays : refresh_tokens[s].rotations = n
  BY <1>4
<1>6. refresh_tokens[s].parent = "none"
  <2>. SUFFICES ASSUME refresh_tokens[s].parent # "none"
                PROVE  FALSE
    OBVIOUS
  <2> DEFINE p == refresh_tokens[s].parent
  <2>1. p \in Stored /\ refresh_tokens[p].family_id = f /\ p \notin T
    BY <1>2 DEF FamiliesInv, FamilyIsChain, ConsumedFor, Deletable
  <2>2. p \in Stays
    BY <2>1 DEF Family
  <2>3. refresh_tokens[p].rotations \in Ages
    BY <2>2
  <2>4. n <= refresh_tokens[p].rotations
    BY <1>4, <2>3
  <2>5. refresh_tokens[p].rotations < n
    BY <1>2, <1>5 DEF FamiliesInv, Rooted
  <2>6. refresh_tokens[p].rotations \in Nat /\ n \in Nat
    BY <1>3, <2>3
  <2>. QED  BY <2>4, <2>5, <2>6
<1>7. refresh_tokens[s].family_id = s
  BY <1>2, <1>6 DEF FamiliesInv, Rooted
<1>. QED  BY <1>2, <1>7

LEMMA SweepFamilies ==
  ASSUME SessionsTypeOK, FamiliesInv, RunMaintenance
  PROVE  FamiliesInv'
<1> DEFINE stale == {t \in Stored : Stale(t)}
           Left  == Stored \ stale
<1>1. /\ Deletable(stale)
      /\ \A t \in Token : refresh_tokens'[t] = IF t \in stale THEN Dropped ELSE refresh_tokens[t]
  BY DEF RunMaintenance
<1>. HIDE DEF stale
<1>2. Stored' = Left
  BY <1>1 DEF Stored, Absent
<1>3. \A t \in Left : /\ t \in Stored /\ refresh_tokens'[t] = refresh_tokens[t]
                      /\ refresh_tokens[t].family_id \in Left
                      /\ refresh_tokens[t].parent # "none" => refresh_tokens[t].parent \in Left
  <2>. SUFFICES ASSUME NEW t \in Left
                PROVE  /\ refresh_tokens'[t] = refresh_tokens[t]
                       /\ refresh_tokens[t].family_id \in Left
                       /\ refresh_tokens[t].parent # "none" => refresh_tokens[t].parent \in Left
    OBVIOUS
  <2>1. refresh_tokens'[t] = refresh_tokens[t]
    BY <1>1 DEF Stored
  <2>2. refresh_tokens[t].family_id \in Left
    BY <1>1, RootStays DEF FamiliesInv, Rooted
  <2>3. refresh_tokens[t].parent # "none" => refresh_tokens[t].parent \in Left
    BY <1>1 DEF Deletable, FamiliesInv, FamilyIsChain, ConsumedFor
  <2>. QED  BY <2>1, <2>2, <2>3
<1>. HIDE DEF Left
<1>4. Rooted'
  <2>1. \A t \in Stored :
          LET row  == refresh_tokens[t]
              root == refresh_tokens[row.family_id]
          IN  /\ root.family_id = row.family_id
              /\ root.issued_at = row.opened
              /\ row.parent = "none" => row.family_id = t
              /\ row.parent # "none" => refresh_tokens[row.parent].rotations < row.rotations
    BY DEF FamiliesInv, Rooted
  <2>. QED  BY <1>2, <1>3, <2>1 DEF Rooted
<1>5. FamilyIsChain'
  <2>1. ASSUME NEW t \in Left, (refresh_tokens[t].parent # "none")'
        PROVE  ConsumedFor(refresh_tokens[t].parent, t)'
    <3>1. ConsumedFor(refresh_tokens[t].parent, t)
      BY <1>3, <2>1 DEF FamiliesInv, FamilyIsChain
    <3>. QED  BY <1>2, <1>3, <2>1, <3>1 DEF ConsumedFor
  <2>2. ASSUME NEW t \in Left, NEW s \in Family(refresh_tokens[t].family_id)' \ {t}
        PROVE  ~Rivals(s, t)'
    <3>1. s \in Left /\ s \in Family(refresh_tokens[t].family_id) \ {t}
      BY <1>2, <1>3, <2>2 DEF Family
    <3>2. ~Rivals(s, t)
      BY <1>3, <3>1 DEF FamiliesInv, FamilyIsChain
    <3>. QED  BY <1>3, <2>2, <3>1, <3>2 DEF Rivals, Tip, Revoked
  <2>. QED  BY <1>2, <2>1, <2>2 DEF FamilyIsChain
<1>6. CapHolds'
  BY <1>2, <1>3 DEF FamiliesInv, CapHolds
<1>. QED  BY <1>4, <1>5, <1>6 DEF FamiliesInv

(* What a step can do to the table of tokens.                              *)
LEMMA TableSteps ==
  ASSUME [NextSessions]_svars
  PROVE  \/ refresh_tokens' = refresh_tokens
         \/ \E r \in Request, t \in Token : issue_refresh_token(r, t)
         \/ \E t \in Token, child \in Token : rotate_refresh_token(t, child)
         \/ \E T \in SUBSET Token, why \in Reason : Revoke(T, why)
         \/ \E r \in Request : EndRevocation(r)
         \/ RunMaintenance
<1>1. ASSUME NEW t \in Token, revoke_refresh_token(t)
      PROVE  \E T \in SUBSET Token, why \in Reason : Revoke(T, why)
  <2>1. {t} \in SUBSET Token /\ "logout" \in Reason /\ Revoke({t}, "logout")
    BY <1>1 DEF revoke_refresh_token, Reason
  <2>. QED  BY <2>1
<1>. QED
  BY <1>1, ZenonT(30) DEF NextSessions, Serve, svars, Login, Denied, create_staff_session, Verified,
     nothing_to_clear, signs_in, change_password, LogoutAll,
     require_password_change, RevokeSession, note_failed_login, BeginRevocation,
     revoke_user_sessions, StatementFails, Replayed, validate_session, revoke_session,
     set_user_status, Tick

LEMMA RevokeFamilies ==
  ASSUME SessionsTypeOK, FamiliesInv, NEW T, NEW why \in Reason, Revoke(T, why)
  PROVE  FamiliesInv'
<1>1. why # "none"
  BY DEF Reason
<1>2. \A t \in Stored : refresh_tokens[t] \in Row
  BY DEF Stored, SessionsTypeOK
<1>3. ASSUME NEW t \in Stored
      PROVE  /\ refresh_tokens'[t] \in Row /\ SameToken(t)
             /\ refresh_tokens'[t].rotated = refresh_tokens[t].rotated
             /\ Revoked(t) => Revoked(t)'
  <2> DEFINE new == [refresh_tokens[t] EXCEPT !.revoked_at = now, !.revoked_reason = why]
  <2>1. /\ new \in Row /\ new.user_id = refresh_tokens[t].user_id
        /\ new.family_id = refresh_tokens[t].family_id /\ new.parent = refresh_tokens[t].parent
        /\ new.issued_at = refresh_tokens[t].issued_at /\ new.opened = refresh_tokens[t].opened
        /\ new.rotations = refresh_tokens[t].rotations /\ new.rotated = refresh_tokens[t].rotated
        /\ new.revoked_reason = why
    BY <1>2 DEF Row, SessionsTypeOK
  <2>2. refresh_tokens'[t] = new \/ refresh_tokens'[t] = refresh_tokens[t]
    BY DEF Revoke, Stored
  <2>. HIDE DEF new
  <2>. QED  BY <1>1, <1>2, <2>1, <2>2 DEF SameToken, Revoked
<1>4. \A t \in Token : t \notin Stored => refresh_tokens'[t] = refresh_tokens[t]
  BY DEF Revoke
<1>5. Stored' = Stored
  BY <1>3, <1>4, AbsentAssumption DEF Stored, Absent
<1>. QED  BY <1>3, <1>5, NoFamilyIsLost

LEMMA EndRevokes ==
  ASSUME NEW r \in Request, EndRevocation(r)
  PROVE  ReasonOf(Statement(r)) \in Reason /\ Revoke(request[r].seen, ReasonOf(Statement(r)))
<1>1. Statement(r) \in Bulk
  BY DEF EndRevocation
<1>2. ReasonOf(Statement(r)) \in Reason
  BY <1>1 DEF ReasonOf, Reason, Bulk
<1>. QED  BY <1>2 DEF EndRevocation

LEMMA FamiliesStep ==
  ASSUME SessionsTypeOK, FamiliesInv, [NextSessions]_svars
  PROVE  FamiliesInv'
<1>1. CASE refresh_tokens' = refresh_tokens
  <2>1. Stored' = Stored
    BY <1>1 DEF Stored
  <2>. QED  BY <1>1, <2>1, NoFamilyIsLost DEF SameToken, Revoked
<1>2. CASE \E r \in Request, t \in Token : issue_refresh_token(r, t)
  BY <1>2, IssueFamilies
<1>3. CASE \E t \in Token, child \in Token : rotate_refresh_token(t, child)
  BY <1>3, RotateFamilies
<1>4. CASE \E T \in SUBSET Token, why \in Reason : Revoke(T, why)
  BY <1>4, RevokeFamilies
<1>5. CASE \E r \in Request : EndRevocation(r)
  BY <1>5, EndRevokes, RevokeFamilies
<1>6. CASE RunMaintenance
  BY <1>6, SweepFamilies
<1>. QED  BY <1>1, <1>2, <1>3, <1>4, <1>5, <1>6, TableSteps

LEMMA FamiliesAlways == SpecSessions => []FamiliesInv
<1>1. InitSessions => FamiliesInv
  BY DEF InitSessions, FamiliesInv, FamilyIsChain, Rooted, CapHolds, Stored, Absent
<1>. QED  BY <1>1, FamiliesStep, SessionsTypeCorrect, PTL DEF SpecSessions

(* A family is one chain with at most one token that may be used, whatever *)
(* rotates, replays, revokes and sweeps beside it.                         *)
THEOREM FamiliesAreChains == SpecSessions => []FamilyIsChain
BY FamiliesAlways, PTL DEF FamiliesInv

(* No token is minted later than refresh_absolute_ttl after the login that *)
(* opened its family, for windows of any length.                           *)
THEOREM CapAlwaysHolds == SpecSessions => []CapHolds
BY FamiliesAlways, PTL DEF FamiliesInv

-----------------------------------------------------------------------------
(* The revocations.                                                        *)

(* What a step leaves of the tokens that there are.                        *)
TokensStand ==
  \A t \in Token :
    /\ refresh_tokens[t] = Dropped => refresh_tokens'[t] = Dropped
    /\ t \in Stored =>
         \/ refresh_tokens'[t] = Dropped
         \/ /\ t \in Stored' /\ SameToken(t)
            /\ refresh_tokens[t].rotated => refresh_tokens'[t].rotated
            /\ Revoked(t) => refresh_tokens'[t] = refresh_tokens[t]

LEMMA RevokeStands ==
  ASSUME SessionsTypeOK, NEW T, NEW why \in Reason, Revoke(T, why)
  PROVE  TokensStand
<1>. SUFFICES ASSUME NEW t \in Token
              PROVE  /\ refresh_tokens[t] = Dropped => refresh_tokens'[t] = Dropped
                     /\ t \in Stored =>
                          /\ t \in Stored' /\ SameToken(t)
                          /\ refresh_tokens[t].rotated => refresh_tokens'[t].rotated
                          /\ Revoked(t) => refresh_tokens'[t] = refresh_tokens[t]
  BY DEF TokensStand
<1>1. CASE t \notin Stored
  BY <1>1 DEF Revoke
<1>2. CASE t \in Stored
  <2> DEFINE new == [refresh_tokens[t] EXCEPT !.revoked_at = now, !.revoked_reason = why]
  <2>1. refresh_tokens[t] \in Row /\ refresh_tokens[t] \notin Absent
    BY <1>2 DEF Stored, SessionsTypeOK
  <2>2. /\ new \in Row /\ new.user_id = refresh_tokens[t].user_id
        /\ new.family_id = refresh_tokens[t].family_id /\ new.parent = refresh_tokens[t].parent
        /\ new.issued_at = refresh_tokens[t].issued_at /\ new.opened = refresh_tokens[t].opened
        /\ new.rotations = refresh_tokens[t].rotations /\ new.rotated = refresh_tokens[t].rotated
    BY <2>1 DEF Row, SessionsTypeOK
  <2>3. \/ refresh_tokens'[t] = new /\ ~Revoked(t)
        \/ refresh_tokens'[t] = refresh_tokens[t]
    BY <1>2 DEF Revoke
  <2>. HIDE DEF new
  <2>4. t \in Stored' /\ refresh_tokens[t] # Dropped
    BY <2>1, <2>2, <2>3, AbsentAssumption DEF Stored, Absent
  <2>. QED  BY <1>2, <2>2, <2>3, <2>4 DEF SameToken
<1>. QED  BY <1>1, <1>2

LEMMA RotateStands ==
  ASSUME SessionsTypeOK, NEW t \in Token, NEW child \in Token, rotate_refresh_token(t, child)
  PROVE  TokensStand
<1> DEFINE old == refresh_tokens[t]
           used == [old EXCEPT !.rotated = TRUE]
<1>1. t \in Stored /\ ~Revoked(t) /\ t # child /\ old \in Row /\ refresh_tokens[child] = Unminted
  BY DEF rotate_refresh_token, MayRotate, Tip, Stored, Absent, SessionsTypeOK
<1>2. /\ used \in Row /\ used.user_id = old.user_id /\ used.family_id = old.family_id
      /\ used.parent = old.parent /\ used.issued_at = old.issued_at /\ used.rotated
      /\ used.opened = old.opened /\ used.rotations = old.rotations
  BY <1>1 DEF Row
<1>3. refresh_tokens'[t] = used
      /\ \A s \in Token \ {t, child} : refresh_tokens'[s] = refresh_tokens[s]
  BY <1>1 DEF rotate_refresh_token, SessionsTypeOK
<1>. HIDE DEF used
<1>4. \A s \in Token \ {child} : s \in Stored => s \in Stored'
  BY <1>2, <1>3, AbsentAssumption DEF Stored, Absent
<1>5. child \notin Stored /\ refresh_tokens[child] # Dropped /\ refresh_tokens[t] # Dropped
  BY <1>1, AbsentAssumption DEF Stored, Absent
<1>. QED  BY <1>1, <1>2, <1>3, <1>4, <1>5 DEF TokensStand, SameToken

LEMMA StandStep ==
  ASSUME SessionsTypeOK, [NextSessions]_svars
  PROVE  TokensStand
<1>1. CASE refresh_tokens' = refresh_tokens
  BY <1>1 DEF TokensStand, SameToken, Stored
<1>2. ASSUME NEW r \in Request, NEW t \in Token, issue_refresh_token(r, t)
      PROVE  TokensStand
  <2>1. \A s \in Token \ {t} : refresh_tokens'[s] = refresh_tokens[s]
    BY <1>2 DEF issue_refresh_token, SessionsTypeOK
  <2>2. t \notin Stored /\ refresh_tokens[t] # Dropped
    BY <1>2, AbsentAssumption DEF issue_refresh_token, Stored, Absent
  <2>. QED  BY <2>1, <2>2 DEF TokensStand, SameToken, Stored
<1>3. CASE \E t \in Token, child \in Token : rotate_refresh_token(t, child)
  BY <1>3, RotateStands
<1>4. CASE \E T \in SUBSET Token, why \in Reason : Revoke(T, why)
  BY <1>4, RevokeStands
<1>5. CASE \E r \in Request : EndRevocation(r)
  BY <1>5, EndRevokes, RevokeStands
<1>6. CASE RunMaintenance
  <2>1. \A s \in Token : refresh_tokens'[s] = Dropped \/ refresh_tokens'[s] = refresh_tokens[s]
    BY <1>6 DEF RunMaintenance
  <2>. QED  BY <2>1 DEF TokensStand, SameToken, Stored
<1>. QED  BY <1>1, <1>2, <1>3, <1>4, <1>5, <1>6, TableSteps

(* A token that was used or revoked never serves again, and the first      *)
(* reason and time of a revocation stay on record.                         *)
THEOREM RevocationAlwaysStands == SpecSessions => RevocationStands
<1> DEFINE Stands ==
      \A t \in Token :
        /\ t \in Stored /\ ~Tip(t) =>
             \/ refresh_tokens'[t] = Dropped
             \/ /\ refresh_tokens'[t] \notin Absent
                /\ refresh_tokens[t].rotated => refresh_tokens'[t].rotated
                /\ Revoked(t) => refresh_tokens'[t] = refresh_tokens[t]
        /\ refresh_tokens[t] = Dropped => refresh_tokens'[t] = Dropped
<1>1. TokensStand => Stands
  BY DEF TokensStand, Stored
<1>2. SessionsTypeOK /\ [NextSessions]_svars => [Stands]_svars
  BY <1>1, StandStep
<1>. QED  BY <1>2, SessionsTypeCorrect, PTL DEF SpecSessions, RevocationStands

(* The target of a request, as far as it is still stored, is what the      *)
(* request's next statement will look at, or has found.                    *)
InScope(r) ==
  LET c == request[r]
  IN  /\ \A t \in c.target : refresh_tokens[t] # Unminted
      /\ \A t \in c.target \cap Stored :
           /\ Statement(r) \in {"family", "scoped"} => refresh_tokens[t].family_id = c.family
           /\ Statement(r) \in {"scoped", "forced", "password_change", "sessions"} =>
                refresh_tokens[t].user_id = c.user
           /\ Statement(r) \in Bulk /\ c.begun => t \in c.seen

RevocationsInv ==
  /\ EndedStayEnded
  /\ \A t \in ended : refresh_tokens[t] # Unminted
  /\ \A r \in Request : InScope(r)

(* Tokens are never unminted, and a token that is still stored was stored. *)
LEMMA Minted ==
  ASSUME SessionsTypeOK, TokensStand, NEW t \in Token, refresh_tokens[t] # Unminted
  PROVE  /\ refresh_tokens'[t] # Unminted
         /\ t \in Stored' => t \in Stored /\ SameToken(t) /\ (Revoked(t) => Revoked(t)')
<1>1. CASE t \in Stored
  BY <1>1, AbsentAssumption DEF TokensStand, Stored, Absent, Revoked
<1>2. CASE t \notin Stored
  <2>1. refresh_tokens[t] = Dropped
    BY <1>2 DEF Stored, Absent
  <2>. QED  BY <2>1, AbsentAssumption DEF TokensStand, Stored, Absent
<1>. QED  BY <1>1, <1>2

LEMMA Targets ==
  ASSUME SessionsTypeOK, NEW r \in Request
  PROVE  request[r].target \subseteq Token
BY DEF SessionsTypeOK, Call, Free

LEMMA ScopeKept ==
  ASSUME SessionsTypeOK, TokensStand, NEW r \in Request, InScope(r), request'[r] = request[r]
  PROVE  InScope(r)'
<1>1. \A t \in request[r].target : t \in Token /\ refresh_tokens[t] # Unminted
  BY Targets DEF InScope
<1>2. Statement(r)' = Statement(r)
  BY DEF Statement
<1>3. \A t \in request[r].target : refresh_tokens'[t] # Unminted
  BY <1>1, Minted
<1>4. ASSUME NEW t \in request[r].target, t \in Stored'
      PROVE  /\ Statement(r) \in {"family", "scoped"} =>
                  refresh_tokens'[t].family_id = request[r].family
             /\ Statement(r) \in {"scoped", "forced", "password_change", "sessions"} =>
                  refresh_tokens'[t].user_id = request[r].user
             /\ Statement(r) \in Bulk /\ request[r].begun => t \in request[r].seen
  <2>1. t \in Stored /\ SameToken(t)
    BY <1>1, <1>4, Minted
  <2>. QED  BY <2>1 DEF InScope, SameToken
<1>. QED  BY <1>2, <1>3, <1>4 DEF InScope

(* A request starts on a target that its first statement covers.           *)
LEMMA ScopeStarts ==
  ASSUME SessionsTypeOK, NEW r \in Request, NEW u, NEW f, NEW p \in Program,
         NEW T \in SUBSET Stored, Start(r, u, f, p, T), refresh_tokens' = refresh_tokens,
         Head(p) \in {"family", "scoped"} => \A t \in T : refresh_tokens[t].family_id = f,
         Head(p) \in {"scoped", "forced", "password_change", "sessions"} =>
           \A t \in T : refresh_tokens[t].user_id = u
  PROVE  InScope(r)' /\ \A q \in Request \ {r} : request'[q] = request[q]
<1> DEFINE c == [Free EXCEPT !.todo = p, !.user = u, !.family = f, !.target = T]
<1>1. /\ c.todo = p /\ c.user = u /\ c.family = f /\ c.target = T /\ c.begun = FALSE
  BY DEF Free
<1>2. request' = [request EXCEPT ![r] = c]
  BY DEF Start
<1>. HIDE DEF c
<1>3. request'[r] = c /\ \A q \in Request \ {r} : request'[q] = request[q]
  BY <1>2 DEF SessionsTypeOK
<1>4. Statement(r)' = Head(p)
  BY <1>1, <1>3, RestOfProgram DEF Statement
<1>5. \A t \in T : refresh_tokens[t] # Unminted
  BY DEF Stored, Absent
<1>. QED  BY <1>1, <1>3, <1>4, <1>5 DEF InScope

(* It goes on to sweep the other table, on the same target, or is done.    *)
LEMMA ScopeContinues ==
  ASSUME SessionsTypeOK, TokensStand, NEW r \in Request, InScope(r), Statement(r) # "none",
         Continue(r)
  PROVE  InScope(r)' /\ \A q \in Request \ {r} : request'[q] = request[q]
<1> DEFINE rest == Tail(request[r].todo)
           next == [request[r] EXCEPT !.todo = rest, !.begun = FALSE, !.seen = {}]
           c    == IF rest = <<>> THEN Free ELSE next
<1>1. request[r] \in Call /\ Statement(r) = Head(request[r].todo)
  BY Running
<1>2. request' = [request EXCEPT ![r] = c]
  BY DEF Continue
<1>3. /\ next.todo = rest /\ next.begun = FALSE /\ next.target = request[r].target
      /\ next.user = request[r].user
  BY <1>1 DEF Call
<1>. HIDE DEF next
<1>4. request'[r] = c /\ \A q \in Request \ {r} : request'[q] = request[q]
  BY <1>2 DEF SessionsTypeOK
<1>5. CASE rest = <<>>
  <2>1. request'[r] = Free
    BY <1>4, <1>5
  <2>2. request'[r].target = {}
    BY <2>1 DEF Free
  <2>. QED  BY <1>4, <2>2 DEF InScope
<1>6. CASE rest # <<>>
  <2>1. \/ /\ Statement(r) \in {"sessions", "password_change"}
           /\ Head(rest) \in {"sessions", "password_change"}
        \/ Head(rest) = "issue"
    BY <1>1, <1>6, RestOfProgram DEF Call
  <2>2. request'[r] = next /\ Statement(r)' = Head(rest)
    BY <1>3, <1>4, <1>6 DEF Statement
  <2>3. \A t \in request[r].target : t \in Token /\ refresh_tokens[t] # Unminted
    BY Targets DEF InScope
  <2>4. \A t \in request[r].target : refresh_tokens'[t] # Unminted
    BY <2>3, Minted
  <2>5. ASSUME NEW t \in request[r].target, t \in Stored',
               Head(rest) \in {"sessions", "password_change"}
        PROVE  refresh_tokens'[t].user_id = request[r].user
    <3>1. t \in Stored /\ SameToken(t)
      BY <2>3, <2>5, Minted
    <3>. QED  BY <2>1, <2>5, <3>1 DEF InScope, SameToken
  <2>6. /\ Statement(r)' \notin {"family", "scoped"}
        /\ Statement(r)' \in {"sessions", "password_change"} \/ Statement(r)' = "issue"
    BY <2>1, <2>2
  <2>. QED  BY <1>3, <1>4, <2>2, <2>4, <2>5, <2>6 DEF InScope
<1>. QED  BY <1>5, <1>6

(* The UPDATE begins: what it finds covers the target.                     *)
LEMMA ScopeBegins ==
  ASSUME SessionsTypeOK, NEW r \in Request, InScope(r), BeginRevocation(r)
  PROVE  InScope(r)' /\ \A q \in Request \ {r} : request'[q] = request[q]
<1> DEFINE c == [request[r] EXCEPT !.begun = TRUE, !.seen = Scope(r)]
<1>1. request[r] \in Call /\ Statement(r) \in Bulk
  BY Running DEF BeginRevocation, Bulk
<1>2. /\ c.todo = request[r].todo /\ c.user = request[r].user /\ c.family = request[r].family
      /\ c.target = request[r].target /\ c.seen = Scope(r)
  BY <1>1 DEF Call
<1>3. request' = [request EXCEPT ![r] = c] /\ refresh_tokens' = refresh_tokens
  BY DEF BeginRevocation
<1>. HIDE DEF c
<1>4. request'[r] = c /\ \A q \in Request \ {r} : request'[q] = request[q]
  BY <1>3 DEF SessionsTypeOK
<1>5. Statement(r)' = Statement(r)
  BY <1>2, <1>4 DEF Statement
<1>6. request[r].target \cap Stored \subseteq Scope(r)
  <2>. SUFFICES ASSUME NEW t \in request[r].target \cap Stored
                PROVE  t \in Scope(r)
    OBVIOUS
  <2>1. CASE Statement(r) = "family"
    BY <2>1 DEF InScope, Scope, Family
  <2>2. CASE Statement(r) = "scoped"
    BY <2>2 DEF InScope, Scope, Family, TokensOf
  <2>3. CASE Statement(r) \in {"forced", "password_change"}
    BY <2>3 DEF InScope, Scope, TokensOf
  <2>. QED  BY <1>1, <2>1, <2>2, <2>3 DEF Bulk
<1>7. \A t \in request[r].target : refresh_tokens[t] # Unminted
  BY DEF InScope
<1>8. Stored' = Stored
  BY <1>3 DEF Stored
<1>. QED  BY <1>2, <1>3, <1>4, <1>5, <1>6, <1>7, <1>8 DEF InScope

(* A login has no target, and leaves those of the others alone.            *)
LEMMA LoginScope ==
  ASSUME SessionsTypeOK, TokensStand, \A q \in Request : InScope(q), NEW r \in Request,
         NEW u \in User, NEW p \in 0..MaxPassword, NEW todo, Verified(r, u, p, todo)
  PROVE  \A q \in Request : InScope(q)'
<1> DEFINE c == [Free EXCEPT !.todo = todo, !.user = u, !.password = p,
                             !.rehash = users[u].old_cost]
<1>1. c.target = {}
  BY DEF Free
<1>2. request' = [request EXCEPT ![r] = c]
  BY DEF Verified
<1>. HIDE DEF c
<1>3. request'[r] = c /\ \A q \in Request \ {r} : request'[q] = request[q]
  BY <1>2 DEF SessionsTypeOK
<1>4. InScope(r)'
  BY <1>1, <1>3 DEF InScope
<1>. QED  BY <1>3, <1>4, ScopeKept

LEMMA ClearScope ==
  ASSUME SessionsTypeOK, TokensStand, \A q \in Request : InScope(q), NEW r \in Request,
         nothing_to_clear(r)
  PROVE  \A q \in Request : InScope(q)'
<1> DEFINE c == [request[r] EXCEPT !.begun = TRUE]
<1>1. request[r] \in Call /\ Statement(r) \in Logins
  BY Running DEF nothing_to_clear, Logins
<1>2. c.todo = request[r].todo /\ c.target = request[r].target
  BY <1>1 DEF Call
<1>3. request' = [request EXCEPT ![r] = c] /\ refresh_tokens' = refresh_tokens
  BY DEF nothing_to_clear
<1>. HIDE DEF c
<1>4. request'[r] = c /\ \A q \in Request \ {r} : request'[q] = request[q]
  BY <1>3 DEF SessionsTypeOK
<1>5. Statement(r)' \in Logins
  BY <1>1, <1>2, <1>4 DEF Statement
<1>6. InScope(r)'
  BY <1>2, <1>3, <1>4, <1>5 DEF InScope, Logins, Bulk
<1>. QED  BY <1>4, <1>6, ScopeKept

(* Every step keeps the targets in scope.                                  *)
LEMMA ScopesStep ==
  ASSUME SessionsTypeOK, \A r \in Request : InScope(r), [NextSessions]_svars
  PROVE  \A r \in Request : InScope(r)'
<1>0. TokensStand
  BY StandStep
<1>1. ASSUME NEW r \in Request, NEW u \in User, NEW p \in 0..MaxPassword,
             Login(r, u, p) \/ create_staff_session(r, u, p) \/ Denied(r, u, p)
      PROVE  \A q \in Request : InScope(q)'
  <2>1. CASE \E todo : Verified(r, u, p, todo)
    BY <1>0, <2>1, LoginScope
  <2>2. CASE Start(r, u, "none", <<"note">>, {}) /\ refresh_tokens' = refresh_tokens
    BY <1>0, <2>2, ScopeStarts, ScopeKept, Single DEF Program
  <2>. QED  BY <1>1, <2>1, <2>2 DEF Login, create_staff_session, Denied
<1>2. ASSUME NEW r \in Request, NEW t \in Token, Replayed(r, t)
      PROVE  \A q \in Request : InScope(q)'
  <2> DEFINE f == refresh_tokens[t].family_id
  <2>1. Family(f) \in SUBSET Stored /\ \A s \in Family(f) : refresh_tokens[s].family_id = f
    BY DEF Family
  <2>2. <<"family">> \in Program /\ Head(<<"family">>) = "family"
    BY Single DEF Program, Bulk
  <2>3. InScope(r)' /\ \A q \in Request \ {r} : request'[q] = request[q]
    BY <1>2, <2>1, <2>2, ScopeStarts DEF Replayed
  <2>. QED  BY <1>0, <2>3, ScopeKept
<1>3. ASSUME NEW r \in Request, NEW u \in User, NEW f \in Token, RevokeSession(r, u, f)
      PROVE  \A q \in Request : InScope(q)'
  <2> DEFINE T == Family(f) \cap TokensOf(u)
  <2>1. /\ T \in SUBSET Stored
        /\ \A s \in T : refresh_tokens[s].family_id = f /\ refresh_tokens[s].user_id = u
    BY DEF Family, TokensOf
  <2>2. <<"scoped">> \in Program /\ Head(<<"scoped">>) = "scoped"
    BY Single DEF Program, Bulk
  <2>3. InScope(r)' /\ \A q \in Request \ {r} : request'[q] = request[q]
    BY <1>3, <2>1, <2>2, ScopeStarts DEF RevokeSession
  <2>. QED  BY <1>0, <2>3, ScopeKept
<1>4. ASSUME NEW r \in Request, NEW u \in User, NEW p \in Program,
             Head(p) \in {"forced", "sessions", "password_change"},
             Start(r, u, "none", p, TokensOf(u)), refresh_tokens' = refresh_tokens
      PROVE  \A q \in Request : InScope(q)'
  <2>1. TokensOf(u) \in SUBSET Stored /\ \A s \in TokensOf(u) : refresh_tokens[s].user_id = u
    BY DEF TokensOf
  <2>2. Head(p) \notin {"family", "scoped"}
    BY <1>4
  <2>3. InScope(r)' /\ \A q \in Request \ {r} : request'[q] = request[q]
    BY <1>4, <2>1, <2>2, ScopeStarts
  <2>. QED  BY <1>0, <2>3, ScopeKept
<1>5. ASSUME NEW r \in Request, NEW u \in User, LogoutAll(r, u)
      PROVE  \A q \in Request : InScope(q)'
  <2>1. <<"forced">> \in Program /\ Head(<<"forced">>) = "forced"
    BY Single DEF Program, Bulk
  <2>. QED  BY <1>4, <1>5, <2>1 DEF LogoutAll
<1>6. ASSUME NEW r \in Request, NEW u \in User, NEW sweeps \in Sweeps,
             \/ require_password_change(r, u)
             \/ \E p \in 0..MaxPassword : change_password(r, u, p, sweeps)
      PROVE  \A q \in Request : InScope(q)'
  <2>1. PICK p \in Sweeps : Start(r, u, "none", p, TokensOf(u)) /\ refresh_tokens' = refresh_tokens
    BY <1>6 DEF require_password_change, change_password, Sweeps
  <2>2. p \in Program /\ Head(p) \in {"sessions", "password_change"}
    BY Pair DEF Sweeps, Program
  <2>. QED  BY <1>4, <2>1, <2>2
<1>7. ASSUME NEW r \in Request, Statement(r) # "none", Continue(r)
      PROVE  \A q \in Request : InScope(q)'
  BY <1>0, <1>7, ScopeContinues, ScopeKept
<1>8. ASSUME NEW r \in Request, BeginRevocation(r)
      PROVE  \A q \in Request : InScope(q)'
  BY <1>0, <1>8, ScopeBegins, ScopeKept
<1>9. CASE request' = request
  BY <1>0, <1>9, ScopeKept
<1>10. ASSUME NEW r \in Request,
              \/ note_failed_login(r) \/ EndRevocation(r) \/ revoke_user_sessions(r)
              \/ signs_in(r) \/ \E t \in Token : issue_refresh_token(r, t)
       PROVE  Statement(r) # "none" /\ Continue(r)
  BY <1>10 DEF note_failed_login, EndRevocation, revoke_user_sessions, signs_in,
     issue_refresh_token, Bulk, Logins
<1>11. \/ UNCHANGED svars \/ Tick \/ RunMaintenance
       \/ \E t \in Token : revoke_refresh_token(t) \/ \E child \in Token : rotate_refresh_token(t, child)
       \/ \E s \in Portal : validate_session(s) \/ revoke_session(s)
       \/ \E u \in User, status \in {"active", "locked", "closed"} : set_user_status(u, status)
       => request' = request
  BY DEF svars, Tick, RunMaintenance, revoke_refresh_token, rotate_refresh_token,
     validate_session, revoke_session, set_user_status
<1>12. Sweeps # {}
  BY DEF Sweeps
<1>13. ASSUME NEW r \in Request, nothing_to_clear(r)
       PROVE  \A q \in Request : InScope(q)'
  BY <1>0, <1>13, ClearScope
<1>14. ASSUME NEW r \in Request, StatementFails(r)
       PROVE  \A q \in Request : InScope(q)'
  <2>1. CASE request' = [request EXCEPT ![r] = Free]
    <3>1. request'[r] = Free /\ \A q \in Request \ {r} : request'[q] = request[q]
      BY <2>1 DEF SessionsTypeOK
    <3>2. InScope(r)'
      BY <3>1 DEF InScope, Free
    <3>. QED  BY <1>0, <3>1, <3>2, ScopeKept
  <2>2. CASE Continue(r)
    BY <1>7, <1>14, <2>2 DEF StatementFails
  <2>. QED  BY <1>14, <2>1, <2>2 DEF StatementFails
<1>. QED
  BY <1>1, <1>2, <1>3, <1>5, <1>6, <1>7, <1>8, <1>9, <1>10, <1>11, <1>12, <1>13, <1>14
     DEF NextSessions, Serve

LEMMA RevocationsStep ==
  ASSUME SessionsTypeOK, RevocationsInv, [NextSessions]_svars
  PROVE  RevocationsInv'
<1>1. TokensStand
  BY StandStep
<1>2. \A r \in Request : InScope(r)'
  BY ScopesStep DEF RevocationsInv
<1>3. ASSUME NEW t \in ended
      PROVE  refresh_tokens'[t] # Unminted /\ (t \in Stored' => Revoked(t)')
  <2>1. t \in Token /\ refresh_tokens[t] # Unminted
    BY DEF RevocationsInv, SessionsTypeOK
  <2>. QED  BY <1>1, <2>1, Minted DEF RevocationsInv, EndedStayEnded
<1>4. ASSUME NEW r \in Request, EndRevocation(r), NEW t \in request[r].target
      PROVE  refresh_tokens'[t] # Unminted /\ (t \in Stored' => Revoked(t)')
  <2>1. t \in Token /\ refresh_tokens[t] # Unminted
    BY <1>4, Targets DEF RevocationsInv, InScope
  <2>2. t \in Stored => t \in request[r].seen
    BY <1>4 DEF EndRevocation, RevocationsInv, InScope
  <2>3. PICK why \in Reason : Revoke(request[r].seen, why)
    BY <1>4, EndRevokes
  <2>4. ASSUME t \in Stored'
        PROVE  Revoked(t)'
    <3>1. t \in Stored /\ (Revoked(t) => Revoked(t)')
      BY <1>1, <2>1, <2>4, Minted
    <3>2. refresh_tokens[t] \in Row
      BY <2>1, <3>1 DEF Stored, SessionsTypeOK
    <3> DEFINE new == [refresh_tokens[t] EXCEPT !.revoked_at = now, !.revoked_reason = why]
    <3>3. new.revoked_reason = why /\ why # "none"
      BY <3>2 DEF Row, Reason
    <3>4. ~Revoked(t) => refresh_tokens'[t] = new
      BY <2>1, <2>2, <2>3, <3>1 DEF Revoke
    <3>. HIDE DEF new
    <3>. QED  BY <3>1, <3>3, <3>4 DEF Revoked
  <2>. QED  BY <1>1, <2>1, <2>4, Minted
<1>5. ended' = ended \/ \E r \in Request : EndRevocation(r) /\ ended' = ended \cup request[r].target
  BY ZenonT(30) DEF NextSessions, Serve, svars, Login, Denied, create_staff_session, Verified,
     nothing_to_clear, signs_in, change_password, LogoutAll,
     require_password_change, RevokeSession, note_failed_login, BeginRevocation, EndRevocation,
     revoke_user_sessions, StatementFails, issue_refresh_token, Replayed, revoke_refresh_token,
     rotate_refresh_token, validate_session, revoke_session, set_user_status, Tick, RunMaintenance
<1>6. \A t \in ended' : refresh_tokens'[t] # Unminted /\ (t \in Stored' => Revoked(t)')
  BY <1>3, <1>4, <1>5
<1>. QED  BY <1>2, <1>6 DEF RevocationsInv, EndedStayEnded

LEMMA RevocationsAlways == SpecSessions => []RevocationsInv
<1>1. InitSessions => RevocationsInv
  BY DEF InitSessions, RevocationsInv, EndedStayEnded, InScope, Free
<1>. QED  BY <1>1, RevocationsStep, SessionsTypeCorrect, PTL DEF SpecSessions

(* Once a revocation has completed, no token that it was meant to end may  *)
(* be used, however many requests rotate, replay and sign in beside it.    *)
THEOREM EndedStayEndedAlways == SpecSessions => []EndedStayEnded
BY RevocationsAlways, PTL DEF RevocationsInv

-----------------------------------------------------------------------------
(* The passwords.                                                          *)

(* But for a login that begins, no step gives a request a hash of the old  *)
(* cost to write again.                                                    *)
KeepsRehash ==
  \A q \in Request :
    request'[q].rehash => request[q].rehash /\ request'[q].user = request[q].user

LEMMA StartKeeps ==
  ASSUME SessionsTypeOK, NEW r \in Request, NEW u, NEW f, NEW p, NEW T, Start(r, u, f, p, T)
  PROVE  KeepsRehash
<1> DEFINE c == [Free EXCEPT !.todo = p, !.user = u, !.family = f, !.target = T]
<1>1. c.rehash = FALSE
  BY DEF Free
<1>2. request' = [request EXCEPT ![r] = c]
  BY DEF Start
<1>. HIDE DEF c
<1>. QED  BY <1>1, <1>2 DEF SessionsTypeOK, KeepsRehash

LEMMA EndKeeps ==
  ASSUME SessionsTypeOK, NEW r \in Request, request' = [request EXCEPT ![r] = Free]
  PROVE  KeepsRehash
BY DEF SessionsTypeOK, KeepsRehash, Free

LEMMA ContinueKeeps ==
  ASSUME SessionsTypeOK, NEW r \in Request, Statement(r) # "none", Continue(r)
  PROVE  KeepsRehash
<1> DEFINE rest == Tail(request[r].todo)
           next == [request[r] EXCEPT !.todo = rest, !.begun = FALSE, !.seen = {}]
<1>1. next.rehash = request[r].rehash /\ next.user = request[r].user
  BY Running DEF Call
<1>2. request' = [request EXCEPT ![r] = IF rest = <<>> THEN Free ELSE next]
  BY DEF Continue
<1>. HIDE DEF rest, next
<1>3. CASE rest = <<>>
  BY <1>2, <1>3, EndKeeps
<1>4. CASE rest # <<>>
  BY <1>1, <1>2, <1>4 DEF SessionsTypeOK, KeepsRehash
<1>. QED  BY <1>3, <1>4

LEMMA BeginKeeps ==
  ASSUME SessionsTypeOK, NEW r \in Request, NEW T, request[r] \in Call,
         \/ request' = [request EXCEPT ![r].begun = TRUE]
         \/ request' = [request EXCEPT ![r].begun = TRUE, ![r].seen = T]
  PROVE  KeepsRehash
<1> DEFINE c == [request[r] EXCEPT !.begun = TRUE]
           d == [request[r] EXCEPT !.begun = TRUE, !.seen = T]
<1>1. /\ c.rehash = request[r].rehash /\ c.user = request[r].user
      /\ d.rehash = request[r].rehash /\ d.user = request[r].user
  BY DEF Call
<1>2. request' = [request EXCEPT ![r] = c] \/ request' = [request EXCEPT ![r] = d]
  OBVIOUS
<1>. HIDE DEF c, d
<1>. QED  BY <1>1, <1>2 DEF SessionsTypeOK, KeepsRehash

(* What a step can do to the requests, as far as passwords go.             *)
LEMMA RequestSteps ==
  ASSUME SessionsTypeOK, [NextSessions]_svars
  PROVE  \/ KeepsRehash
         \/ \E r \in Request, u \in User, p \in 0..MaxPassword, todo \in Program :
              Verified(r, u, p, todo)
<1>1. ASSUME NEW r \in Request, NEW u \in User, NEW p \in 0..MaxPassword,
             Login(r, u, p) \/ create_staff_session(r, u, p)
      PROVE  \E todo \in Program : Verified(r, u, p, todo)
  BY <1>1 DEF Login, create_staff_session, Program, Logins
<1>2. ASSUME NEW r \in Request, NEW u, NEW f, NEW p, NEW T, Start(r, u, f, p, T)
      PROVE  KeepsRehash
  BY <1>2, StartKeeps
<1>3. ASSUME NEW r \in Request, Statement(r) # "none",
             Continue(r) \/ request' = [request EXCEPT ![r] = Free]
      PROVE  KeepsRehash
  BY <1>3, ContinueKeeps, EndKeeps
<1>4. ASSUME NEW r \in Request, BeginRevocation(r) \/ nothing_to_clear(r)
      PROVE  KeepsRehash
  <2>1. request[r] \in Call
    BY <1>4, Running DEF BeginRevocation, nothing_to_clear, Bulk, Logins
  <2>. QED  BY <1>4, <2>1, BeginKeeps DEF BeginRevocation, nothing_to_clear
<1>5. ASSUME NEW r \in Request,
             \/ note_failed_login(r) \/ EndRevocation(r) \/ revoke_user_sessions(r)
             \/ signs_in(r) \/ StatementFails(r) \/ \E t \in Token : issue_refresh_token(r, t)
      PROVE  /\ Statement(r) # "none"
             /\ Continue(r) \/ request' = [request EXCEPT ![r] = Free]
  BY <1>5 DEF note_failed_login, EndRevocation, revoke_user_sessions, signs_in, StatementFails,
     issue_refresh_token, Bulk, Logins
<1>6. ASSUME request' = request
      PROVE  KeepsRehash
  BY <1>6 DEF KeepsRehash
<1>7. ASSUME NEW r \in Request, NEW u \in User,
             LogoutAll(r, u) \/ require_password_change(r, u)
      PROVE  KeepsRehash
  BY <1>2, <1>7 DEF LogoutAll, require_password_change
<1>8. ASSUME NEW r \in Request, NEW u \in User, NEW p \in 0..MaxPassword, Denied(r, u, p)
      PROVE  KeepsRehash
  BY <1>2, <1>8 DEF Denied
<1>9. ASSUME NEW r \in Request, NEW t \in Token, Replayed(r, t)
       PROVE  KeepsRehash
  BY <1>2, <1>9 DEF Replayed
<1>10. ASSUME NEW r \in Request, NEW u \in User, NEW f \in Token, RevokeSession(r, u, f)
       PROVE  KeepsRehash
  BY <1>2, <1>10 DEF RevokeSession
<1>11. ASSUME NEW r \in Request, NEW u \in User, NEW p \in 0..MaxPassword, NEW sweeps \in Sweeps,
              change_password(r, u, p, sweeps)
       PROVE  KeepsRehash
  BY <1>2, <1>11 DEF change_password
<1>12. \/ UNCHANGED svars \/ Tick \/ RunMaintenance
       \/ \E t \in Token : revoke_refresh_token(t) \/ \E child \in Token : rotate_refresh_token(t, child)
       \/ \E s \in Portal : validate_session(s) \/ revoke_session(s)
       \/ \E u \in User, status \in {"active", "locked", "closed"} : set_user_status(u, status)
       => request' = request
  BY DEF svars, Tick, RunMaintenance, revoke_refresh_token, rotate_refresh_token,
     validate_session, revoke_session, set_user_status
<1>. QED
  BY <1>1, <1>3, <1>4, <1>5, <1>6, <1>7, <1>8, <1>9, <1>10, <1>11, <1>12 DEF NextSessions, Serve

(* What a step can do to an account, as far as passwords go: a change, or  *)
(* the last statements of a login, write them.                             *)
LEMMA AccountSteps ==
  ASSUME SessionsTypeOK, [NextSessions]_svars, NEW u \in User
  PROVE  \/ users'[u].password = users[u].password /\ users'[u].old_cost = users[u].old_cost
         \/ users'[u].password = users[u].password + 1 /\ users'[u].old_cost = FALSE
         \/ \E r \in Request : request[r].user = u /\ request[r].rehash
<1>. USE DEF SessionsTypeOK
<1>1. users[u] \in Account
  OBVIOUS
<1>2. ASSUME NEW r \in Request, signs_in(r), request[r].user = u, ~request[r].rehash
      PROVE  users'[u].password = users[u].password /\ users'[u].old_cost = users[u].old_cost
  <2>1. users'[u] = Cleared(r)
    BY <1>2 DEF signs_in, Recosted
  <2>. QED  BY <1>1, <1>2, <2>1 DEF Cleared, Account
<1>3. ASSUME NEW r \in Request, signs_in(r), request[r].user # u
      PROVE  users'[u] = users[u]
  BY <1>3 DEF signs_in
<1>4. ASSUME NEW r \in Request, NEW v \in User, NEW p \in 0..MaxPassword, NEW sweeps \in Sweeps,
             change_password(r, v, p, sweeps)
      PROVE  \/ users'[u] = users[u]
             \/ users'[u].password = users[u].password + 1 /\ users'[u].old_cost = FALSE
  BY <1>1, <1>4 DEF change_password, Account
<1>5. ASSUME NEW r \in Request, note_failed_login(r)
      PROVE  users'[u].password = users[u].password /\ users'[u].old_cost = users[u].old_cost
  BY <1>1, <1>5 DEF note_failed_login, Account
<1>6. ASSUME NEW r \in Request, NEW v \in User, require_password_change(r, v)
      PROVE  users'[u].password = users[u].password /\ users'[u].old_cost = users[u].old_cost
  BY <1>1, <1>6 DEF require_password_change, Account
<1>7. ASSUME NEW v \in User, NEW status \in {"active", "locked", "closed"},
             set_user_status(v, status)
      PROVE  users'[u].password = users[u].password /\ users'[u].old_cost = users[u].old_cost
  BY <1>1, <1>7 DEF set_user_status, Account
<1>8. \/ users' = users
      \/ \E r \in Request : signs_in(r) \/ note_failed_login(r)
      \/ \E r \in Request, v \in User, p \in 0..MaxPassword, sweeps \in Sweeps :
           change_password(r, v, p, sweeps)
      \/ \E r \in Request, v \in User : require_password_change(r, v)
      \/ \E v \in User, status \in {"active", "locked", "closed"} : set_user_status(v, status)
  BY ZenonT(30) DEF NextSessions, Serve, svars, Login, Denied, create_staff_session, Verified,
     nothing_to_clear, LogoutAll, RevokeSession, BeginRevocation, EndRevocation,
     revoke_user_sessions, StatementFails, issue_refresh_token, Replayed, revoke_refresh_token,
     rotate_refresh_token, validate_session, revoke_session, Tick, RunMaintenance
<1>. QED  BY <1>2, <1>3, <1>4, <1>5, <1>6, <1>7, <1>8

LEMMA PasswordStep ==
  ASSUME SessionsTypeOK, [NextSessions]_svars, NEW u \in User, OldCostOver(u)
  PROVE  OldCostOver(u)' /\ users'[u].password \in {users[u].password, users[u].password + 1}
<1>1. /\ ~users'[u].old_cost
      /\ users'[u].password \in {users[u].password, users[u].password + 1}
  BY AccountSteps DEF OldCostOver
<1>2. CASE KeepsRehash
  BY <1>1, <1>2 DEF KeepsRehash, OldCostOver
<1>3. ASSUME NEW r \in Request, NEW v \in User, NEW p \in 0..MaxPassword, NEW todo \in Program,
             Verified(r, v, p, todo)
      PROVE  \A q \in Request : request'[q].user = u => ~request'[q].rehash
  <2> DEFINE c == [Free EXCEPT !.todo = todo, !.user = v, !.password = p,
                               !.rehash = users[v].old_cost]
  <2>1. c.user = v /\ c.rehash = users[v].old_cost
    BY DEF Free
  <2>2. request' = [request EXCEPT ![r] = c]
    BY <1>3 DEF Verified
  <2>. HIDE DEF c
  <2>. QED  BY <2>1, <2>2 DEF OldCostOver, SessionsTypeOK
<1>. QED  BY <1>1, <1>2, <1>3, RequestSteps DEF OldCostOver

(* Once the last login that read a hash of the old cost of an account is   *)
(* over, only change_password writes its password: no login that is under  *)
(* way, and none that follows, brings an old one back.                     *)
THEOREM PasswordsStand == SpecSessions => PasswordStands
<1> DEFINE Stands ==
      \A u \in User : OldCostOver(u) =>
        OldCostOver(u)' /\ users'[u].password \in {users[u].password, users[u].password + 1}
<1>1. SessionsTypeOK /\ [NextSessions]_svars => [Stands]_svars
  BY PasswordStep
<1>. QED  BY <1>1, SessionsTypeCorrect, PTL DEF SpecSessions, PasswordStands

-----------------------------------------------------------------------------
(* The promise of Families.                                                *)

(* The tables, as Families sees them.                                      *)
FamilyOf(t) == IF t \in Stored THEN refresh_tokens[t].family_id ELSE refresh_tokens[t]
Serving     == {t \in Stored : Tip(t)}

LEMMA Founded ==
  ASSUME SessionsTypeOK, NEW t \in Token
  PROVE  /\ t \in Stored => refresh_tokens[t] \in Row /\ FamilyOf(t) \in Token
         /\ t \notin Stored => FamilyOf(t) \in {Unminted, Dropped}
         /\ Unminted \notin Token /\ Dropped \notin Token
<1>1. t \in Stored => refresh_tokens[t] \in Row /\ refresh_tokens[t].family_id \in Token
  BY DEF SessionsTypeOK, Stored, Row
<1>. QED  BY <1>1, AbsentAssumption DEF Stored, FamilyOf, Absent

(* A login founds a family.                                                *)
LEMMA IssuePromised ==
  ASSUME SessionsTypeOK, NEW r \in Request, NEW t \in Token, issue_refresh_token(r, t)
  PROVE  Promise!SignIn(t)
<1> DEFINE row == [user_id |-> request[r].user, family_id |-> t, parent |-> "none",
                   issued_at |-> now, rotated |-> FALSE, revoked_at |-> 0,
                   revoked_reason |-> "none", opened |-> now, rotations |-> 0]
<1>1. request[r] \in Call
  BY Running DEF issue_refresh_token
<1>2. row \in Row
  BY <1>1, SessionsAssumption DEF Row, Call, Times, SessionsTypeOK
<1>3. refresh_tokens' = [refresh_tokens EXCEPT ![t] = row] /\ refresh_tokens[t] = Unminted
  BY DEF issue_refresh_token
<1>4. row.family_id = t /\ row.revoked_reason = "none" /\ ~row.rotated
  OBVIOUS
<1>. HIDE DEF row
<1>5. refresh_tokens'[t] = row /\ \A s \in Token \ {t} : refresh_tokens'[s] = refresh_tokens[s]
  BY <1>3 DEF SessionsTypeOK
<1>6. t \notin Stored /\ Stored' = Stored \cup {t}
  BY <1>2, <1>3, <1>5, AbsentAssumption DEF Stored, Absent
<1>7. FamilyOf(t) = Unminted /\ \A s \in Token : FamilyOf(s)' = IF s = t THEN t ELSE FamilyOf(s)
  BY <1>3, <1>4, <1>5, <1>6 DEF FamilyOf
<1>8. Serving' = Serving \cup {t}
  <2>1. Tip(t)' /\ \A s \in Stored : Tip(s)' <=> Tip(s)
    BY <1>4, <1>5, <1>6 DEF Tip, Revoked, Stored
  <2>. QED  BY <1>6, <2>1 DEF Serving
<1>. QED  BY <1>7, <1>8 DEF Promise!SignIn, FamilyOf, Serving

(* A rotation spends a token for its child.                                *)
LEMMA RotatePromised ==
  ASSUME SessionsTypeOK, NEW t \in Token, NEW child \in Token, rotate_refresh_token(t, child)
  PROVE  Promise!Exchange(t, child)
<1> DEFINE old == refresh_tokens[t]
           row == [user_id |-> old.user_id, family_id |-> old.family_id, parent |-> t,
                   issued_at |-> now, rotated |-> FALSE, revoked_at |-> 0,
                   revoked_reason |-> "none", opened |-> old.opened,
                   rotations |-> old.rotations + 1]
           used == [old EXCEPT !.rotated = TRUE]
<1>1. /\ t \in Stored /\ Tip(t) /\ child \notin Stored /\ t # child /\ old \in Row
      /\ refresh_tokens[child] = Unminted
  BY DEF rotate_refresh_token, MayRotate, Stored, Absent, SessionsTypeOK
<1>2. row \in Row /\ used \in Row
  <2>1. /\ old.user_id \in User /\ old.family_id \in Token /\ old.opened \in Times
        /\ old.rotations \in Nat
    BY <1>1 DEF Row
  <2>2. now \in Times /\ 0 \in Times
    BY SessionsAssumption DEF Times, SessionsTypeOK
  <2>3. row \in Row
    BY <2>1, <2>2 DEF Row
  <2>4. used \in Row
    BY <1>1 DEF Row
  <2>. QED  BY <2>3, <2>4
<1>3. refresh_tokens' = [refresh_tokens EXCEPT ![t] = used, ![child] = row]
  BY DEF rotate_refresh_token
<1>4. /\ row.family_id = old.family_id /\ ~row.rotated /\ row.revoked_reason = "none"
      /\ used.family_id = old.family_id /\ used.rotated
  BY <1>1 DEF Row
<1>. HIDE DEF row, used
<1>5. /\ refresh_tokens'[child] = row /\ refresh_tokens'[t] = used
      /\ \A s \in Token \ {t, child} : refresh_tokens'[s] = refresh_tokens[s]
  BY <1>1, <1>3 DEF SessionsTypeOK
<1>6. Stored' = Stored \cup {child}
  BY <1>1, <1>2, <1>5, AbsentAssumption DEF Stored, Absent
<1>7. /\ FamilyOf(child) = Unminted
      /\ \A s \in Token : FamilyOf(s)' = IF s = child THEN FamilyOf(t) ELSE FamilyOf(s)
  BY <1>1, <1>4, <1>5, <1>6 DEF FamilyOf
<1>8. Serving' = (Serving \ {t}) \cup {child} /\ t \in Serving
  <2>1. Tip(child)' /\ ~Tip(t)' /\ \A s \in Stored \ {t} : Tip(s)' <=> Tip(s)
    BY <1>1, <1>4, <1>5 DEF Tip, Revoked, Stored
  <2>. QED  BY <1>1, <1>6, <2>1 DEF Serving
<1>. QED  BY <1>7, <1>8 DEF Promise!Exchange, FamilyOf, Serving

(* A revocation ends some, and founds and spends none.                     *)
LEMMA RevokePromised ==
  ASSUME SessionsTypeOK, NEW T, NEW why \in Reason, Revoke(T, why)
  PROVE  Promise!End
<1>1. TokensStand /\ \A t \in Token \ Stored : refresh_tokens'[t] = refresh_tokens[t]
  BY RevokeStands DEF Revoke
<1>2. \A t \in Stored : refresh_tokens'[t] # Dropped
  <2>. SUFFICES ASSUME NEW t \in Stored PROVE refresh_tokens'[t] # Dropped
    OBVIOUS
  <2> DEFINE new == [refresh_tokens[t] EXCEPT !.revoked_at = now, !.revoked_reason = why]
  <2>1. refresh_tokens[t] \in Row
    BY Founded DEF Stored
  <2>2. new \in Row
    BY <2>1 DEF Row, SessionsTypeOK
  <2>3. refresh_tokens'[t] \in {new, refresh_tokens[t]}
    BY DEF Revoke, Stored
  <2>. HIDE DEF new
  <2>. QED  BY <2>1, <2>2, <2>3, AbsentAssumption DEF Absent
<1>3. Stored' = Stored /\ \A t \in Stored : SameToken(t) /\ (Tip(t)' => Tip(t))
  <2>1. ASSUME NEW t \in Stored
        PROVE  t \in Stored' /\ SameToken(t) /\ (Tip(t)' => Tip(t))
    <3>1. /\ t \in Stored' /\ SameToken(t)
          /\ refresh_tokens[t].rotated => refresh_tokens'[t].rotated
          /\ Revoked(t) => refresh_tokens'[t] = refresh_tokens[t]
      BY <1>1, <1>2 DEF TokensStand, Stored
    <3>. QED  BY <3>1 DEF Tip, Revoked
  <2>. QED  BY <1>1, <2>1 DEF Stored
<1>4. Serving' \subseteq Serving
  BY <1>3 DEF Serving
<1>5. \A t \in Token : FamilyOf(t)' = FamilyOf(t)
  BY <1>1, <1>3 DEF FamilyOf, SameToken
<1>. QED  BY <1>4, <1>5 DEF Promise!End, FamilyOf, Serving

(* The sweep never takes the first token of a family before the others.    *)
LEMMA SweepPromised ==
  ASSUME SessionsTypeOK, FamiliesInv, RunMaintenance
  PROVE  \E T \in SUBSET Promise!Known : Promise!Forget(T)
<1> DEFINE stale == {t \in Stored : Stale(t)}
<1>1. /\ Deletable(stale) /\ stale \subseteq Stored
      /\ \A t \in Token : refresh_tokens'[t] = IF t \in stale THEN Dropped ELSE refresh_tokens[t]
  BY DEF RunMaintenance
<1>2. \A t \in Stored \ stale : refresh_tokens[t].family_id \notin stale
  BY <1>1, RootStays DEF FamiliesInv, Rooted
<1>. HIDE DEF stale
<1>3. Promise!Known = Stored
  BY Founded DEF Promise!Known, FamilyOf, Stored
<1>4. Stored' = Stored \ stale
  BY <1>1 DEF Stored, Absent
<1>5. \A t \in Token : FamilyOf(t)' = IF t \in stale THEN Dropped ELSE FamilyOf(t)
  BY <1>1, <1>4 DEF FamilyOf, Stored
<1>6. Serving' = Serving \ stale
  BY <1>1, <1>4 DEF Serving, Tip, Revoked, Stored
<1>7. \A t \in Promise!Known \ stale : FamilyOf(t) \notin stale
  BY <1>2, <1>3 DEF FamilyOf
<1>8. Promise!Forget(stale)
  BY <1>3, <1>5, <1>6, <1>7 DEF Promise!Forget, FamilyOf, Serving, Stored
<1>9. stale \in SUBSET Promise!Known
  BY <1>1, <1>3
<1>. QED  BY <1>8, <1>9 DEF Promise!Forget

(* Sessions implements Families: whatever the order of the statements and  *)
(* of the sweep, a token serves once and never again.                      *)
THEOREM SessionsImplementFamilies == SpecSessions => ImplementsFamilies
<1>1. InitSessions => Promise!Init
  <2>. SUFFICES ASSUME InitSessions PROVE Promise!Init
    OBVIOUS
  <2>1. Stored = {} /\ \A t \in Token : FamilyOf(t) = Unminted
    BY DEF InitSessions, Stored, Absent, FamilyOf
  <2>. QED  BY <2>1 DEF Promise!Init, FamilyOf
<1>2. ASSUME SessionsTypeOK, FamiliesInv, [NextSessions]_svars
      PROVE  [Promise!Next]_Promise!families
  <2>1. CASE refresh_tokens' = refresh_tokens
    BY <2>1 DEF Promise!families, Stored, Tip, Revoked
  <2>2. CASE \E r \in Request, t \in Token : issue_refresh_token(r, t)
    BY <1>2, <2>2, IssuePromised DEF Promise!Next
  <2>3. CASE \E t \in Token, child \in Token : rotate_refresh_token(t, child)
    BY <1>2, <2>3, RotatePromised DEF Promise!Next
  <2>4. CASE \E T \in SUBSET Token, why \in Reason : Revoke(T, why)
    BY <1>2, <2>4, RevokePromised DEF Promise!Next
  <2>5. CASE \E r \in Request : EndRevocation(r)
    BY <1>2, <2>5, EndRevokes, RevokePromised DEF Promise!Next
  <2>6. CASE RunMaintenance
    BY <1>2, <2>6, SweepPromised DEF Promise!Next
  <2>. QED  BY <1>2, <2>1, <2>2, <2>3, <2>4, <2>5, <2>6, TableSteps
<1>. QED  BY <1>1, <1>2, SessionsTypeCorrect, FamiliesAlways, PTL
          DEF SpecSessions, ImplementsFamilies, Promise!Spec

(* Of a family at most one token serves, as Families promises.             *)
THEOREM SessionsServeOnce == SpecSessions => []Promise!OneServes
<1>1. FamilyIsChain => Promise!OneServes
  <2>. SUFFICES ASSUME FamilyIsChain, NEW s \in Serving, NEW t \in Serving,
                       FamilyOf(s) = FamilyOf(t)
                PROVE  s = t
    BY DEF Promise!OneServes, FamilyOf, Serving, Stored
  <2>1. s \in Family(refresh_tokens[t].family_id) /\ t \in Stored
    BY DEF FamilyOf, Serving, Family
  <2>. QED  BY <2>1 DEF FamilyIsChain, Rivals, Serving
<1>. QED  BY <1>1, FamiliesAreChains, PTL

=============================================================================
