------------------------------ MODULE Sessions ------------------------------
(***************************************************************************)
(* Signing in and staying signed in: passwords, the families of refresh    *)
(* tokens of the client API, the sessions of the operator portal, and what *)
(* ends them (00004, 00018-00020, internal/db/auth.go and the handlers).   *)
(*                                                                         *)
(* A statement of the database is one step.  A handler that runs several   *)
(* is a request: it holds the statements that are left, and between two of *)
(* them any other request may run, the next may fail, or the server stop.  *)
(* A bulk UPDATE takes two steps: at READ COMMITTED it changes the rows    *)
(* that were there when it began, so a child that is rotated in meanwhile  *)
(* is not among them.                                                      *)
(*                                                                         *)
(* Left out: device labels, addresses and events, the second factor, and   *)
(* access tokens, which the server does not store: who may call a handler  *)
(* is any customer or operator.                                            *)
(*                                                                         *)
(* Definitions named X_variant are variants of X with a plausible fault;   *)
(* they are no part of the model.  PROJECT.json says which property each   *)
(* of them breaks.                                                         *)
(***************************************************************************)
EXTENDS Integers, Sequences, FiniteSets

CONSTANTS
  User,               \* the accounts of the table users
  Staff,              \* those with a role other than customer
  Token,              \* refresh tokens, by their hashes
  Portal,             \* portal sessions, by their hashes
  Request,            \* requests that the server handles at a time
  refresh_ttl,        \* idle window of a refresh token
  refresh_absolute_ttl,  \* how long a family may be rotated
  session_idle,       \* idle window of a portal session
  c_max_attempts,     \* denials in a row that lock an account
  c_lock_window,      \* for how long
  Unminted, Dropped,  \* a token that was not issued yet, one that was swept
  Day,                \* the INTERVAL '1 day' that cleanup_refresh_tokens waits
  MaxPassword,        \* bound: how often a password changes
  MaxNow              \* bound: the time at which the clock stops

ASSUME SessionsAssumption ==
  /\ Staff \subseteq User /\ "none" \notin Token
  /\ refresh_ttl \in Nat /\ refresh_absolute_ttl \in Nat /\ session_idle \in Nat
  /\ c_max_attempts \in Nat \ {0}
  /\ c_lock_window \in Nat /\ Day \in Nat
  /\ MaxPassword \in Nat /\ MaxNow \in Nat

VARIABLES
  now,             \* the clock
  users,           \* the columns of users that signing in reads
  refresh_tokens,  \* the table, and the tokens that are not in it
  sessions,        \* the table: when the session expires and whose it is
  request,         \* the statements that a request has still to run
  ended            \* history: tokens that a completed revocation was meant to end

svars == <<now, users, refresh_tokens, sessions, request, ended>>

Times  == 0..MaxNow
Reason == {"logout", "reuse_detected", "forced", "password_change"}
Absent == {Unminted, Dropped}

Account ==
  [password: 0..MaxPassword, old_cost: BOOLEAN, status: {"active", "locked", "closed"},
   must_change_password: BOOLEAN, failed_login_attempts: 0..(c_max_attempts - 1),
   login_locked_until: 0..(MaxNow + c_lock_window)]

(* History: opened, when the first token of the family was issued, and     *)
(* rotations, how many there were before this one.                         *)
Row ==
  [user_id: User, family_id: Token, parent: Token \cup {"none"}, issued_at: Times,
   rotated: BOOLEAN, revoked_at: Times, revoked_reason: Reason \cup {"none"},
   opened: Times, rotations: Nat]

ASSUME AbsentAssumption ==
  Unminted # Dropped /\ Absent \cap (Row \cup Token) = {}

Stored       == {t \in Token : refresh_tokens[t] \notin Absent}
Expires(t)   == refresh_tokens[t].issued_at + refresh_ttl
Revoked(t)   == refresh_tokens[t].revoked_reason # "none"
Tip(t)       == ~refresh_tokens[t].rotated /\ ~Revoked(t)
Family(f)    == {t \in Stored : refresh_tokens[t].family_id = f}
TokensOf(u)  == {t \in Stored : refresh_tokens[t].user_id = u}

NoSession == [user_id |-> "none", expires_at |-> 0]

(* target: what the revocation is meant to end.  seen: what its statement, *)
(* once it has begun, found.  password, rehash: what a login verified, and *)
(* that the hash it read was of the old cost.                              *)
Free == [todo |-> <<>>, user |-> "none", family |-> "none",
         target |-> {}, begun |-> FALSE, seen |-> {}, password |-> 0, rehash |-> FALSE]

Bulk == {"family", "scoped", "forced", "password_change"}

(* The client and the portal sweep in opposite orders.                     *)
Sweeps == {<<"password_change", "sessions">>, <<"sessions", "password_change">>}

(* A login, by which function its transaction is.                          *)
Logins == {"check_user_credentials", "create_staff_session"}

Program ==
  {<<"issue">>, <<"note">>, <<"sessions">>, <<"check_user_credentials", "issue">>}
    \cup {<<b>> : b \in Bulk \cup Logins} \cup Sweeps

Call ==
  {c \in [todo: Program, user: User, family: Token \cup {"none"}, target: SUBSET Token,
          begun: BOOLEAN, seen: SUBSET Token, password: 0..MaxPassword, rehash: BOOLEAN] :
     Head(c.todo) = "create_staff_session" => c.user \in Staff}

InitSessions ==
  /\ now = 0
  /\ users \in [User -> [password: {0}, old_cost: BOOLEAN, status: {"active"},
                        must_change_password: {FALSE}, failed_login_attempts: {0},
                        login_locked_until: {0}]]
  /\ refresh_tokens = [t \in Token |-> Unminted]
  /\ sessions = [s \in Portal |-> NoSession]
  /\ request = [r \in Request |-> Free]
  /\ ended = {}

(* A request starts on what is left of its handler after the first step.   *)
Start(r, u, f, todo, target) ==
  /\ request[r] = Free
  /\ request' = [request EXCEPT ![r] =
       [Free EXCEPT !.todo = todo, !.user = u, !.family = f, !.target = target]]

Continue(r) ==
  LET rest == Tail(request[r].todo)
  IN  request' = [request EXCEPT ![r] =
        IF rest = <<>> THEN Free ELSE [@ EXCEPT !.todo = rest, !.begun = FALSE, !.seen = {}]]

Statement(r) == IF request[r].todo = <<>> THEN "none" ELSE Head(request[r].todo)

-----------------------------------------------------------------------------
(* Signing in.                                                             *)

(* A password is the number of changes before it: an old one is smaller.   *)
Verifies(u, p) ==
  /\ users[u].login_locked_until <= now
  /\ users[u].password = p
  /\ users[u].status = "active"

(* With a fault: every hash that is verified is written again.             *)
Verified_recosting(r, u, p, todo) ==
  /\ Verifies(u, p) /\ request[r] = Free
  /\ request' = [request EXCEPT ![r] =
       [Free EXCEPT !.todo = todo, !.user = u, !.password = p, !.rehash = TRUE]]
  /\ UNCHANGED <<now, users, refresh_tokens, sessions, ended>>

(* The SELECT of a login, which locks nothing.                             *)
Verified(r, u, p, todo) ==
  /\ Verifies(u, p) /\ request[r] = Free
  /\ request' = [request EXCEPT ![r] =
       [Free EXCEPT !.todo = todo, !.user = u, !.password = p, !.rehash = users[u].old_cost]]
  /\ UNCHANGED <<now, users, refresh_tokens, sessions, ended>>

(* Under a forced change there is no family to issue.                      *)
Login(r, u, p) ==
  Verified(r, u, p, IF users[u].must_change_password THEN <<"check_user_credentials">>
                    ELSE <<"check_user_credentials", "issue">>)

create_staff_session(r, u, p) == u \in Staff /\ Verified(r, u, p, <<"create_staff_session">>)

Failed(u) == users[u].failed_login_attempts # 0 \/ users[u].login_locked_until # 0

(* The UPDATE that clears the failures matches no row, and locks none.     *)
nothing_to_clear(r) ==
  /\ Statement(r) \in Logins /\ ~request[r].begun
  /\ ~Failed(request[r].user)
  /\ request' = [request EXCEPT ![r].begun = TRUE]
  /\ UNCHANGED <<now, users, refresh_tokens, sessions, ended>>

(* What is left of the transaction: the failures, unless there were none,  *)
(* the hash of what was verified, if it has the old cost, whatever has been*)
(* written since, and the session.                                         *)
Cleared(r) ==
  LET account == users[request[r].user]
  IN  IF request[r].begun THEN account
      ELSE [account EXCEPT !.failed_login_attempts = 0, !.login_locked_until = 0]

Recosted(r) ==
  IF request[r].rehash
    THEN [Cleared(r) EXCEPT !.password = request[r].password, !.old_cost = FALSE]
    ELSE Cleared(r)

signs_in(r) ==
  /\ Statement(r) \in Logins
  /\ request[r].begun \/ Failed(request[r].user)
  /\ users' = [users EXCEPT ![request[r].user] = Recosted(r)]
  /\ IF Statement(r) = "create_staff_session"
       THEN \E s \in Portal :
              /\ sessions[s] = NoSession
              /\ sessions' = [sessions EXCEPT ![s] =
                   [user_id |-> request[r].user, expires_at |-> now + session_idle]]
       ELSE UNCHANGED sessions
  /\ Continue(r)
  /\ UNCHANGED <<now, refresh_tokens, ended>>

(* Either surface; the portal also turns customers away.                   *)
Denied(r, u, p) ==
  /\ ~Verifies(u, p) \/ u \notin Staff
  /\ Start(r, u, "none", <<"note">>, {})
  /\ UNCHANGED <<now, users, refresh_tokens, sessions, ended>>

(* With a fault: the account locks one denial late.                        *)
note_failed_login_late(r) ==
  LET u == request[r].user
      failures == users[u].failed_login_attempts + 1
  IN  /\ Statement(r) = "note"
      /\ users' = IF failures > c_max_attempts
                    THEN [users EXCEPT ![u].failed_login_attempts = 0,
                                       ![u].login_locked_until = now + c_lock_window]
                    ELSE [users EXCEPT ![u].failed_login_attempts = failures]
      /\ Continue(r)
      /\ UNCHANGED <<now, refresh_tokens, sessions, ended>>

note_failed_login(r) ==
  LET u == request[r].user
      failures == users[u].failed_login_attempts + 1
  IN  /\ Statement(r) = "note"
      /\ users' = IF failures >= c_max_attempts
                    THEN [users EXCEPT ![u].failed_login_attempts = 0,
                                       ![u].login_locked_until = now + c_lock_window]
                    ELSE [users EXCEPT ![u].failed_login_attempts = failures]
      /\ Continue(r)
      /\ UNCHANGED <<now, refresh_tokens, sessions, ended>>

issue_refresh_token(r, t) ==
  /\ Statement(r) = "issue"
  /\ refresh_tokens[t] = Unminted
  /\ refresh_tokens' = [refresh_tokens EXCEPT ![t] =
       [user_id |-> request[r].user, family_id |-> t, parent |-> "none", issued_at |-> now,
        rotated |-> FALSE, revoked_at |-> 0, revoked_reason |-> "none", opened |-> now,
        rotations |-> 0]]
  /\ Continue(r)
  /\ UNCHANGED <<now, users, sessions, ended>>

-----------------------------------------------------------------------------
(* Staying signed in.                                                      *)

(* min(issued_at) over the rows that the family still has.                 *)
Capped(t) ==
  \E s \in Family(refresh_tokens[t].family_id) :
    now > refresh_tokens[s].issued_at + refresh_absolute_ttl

(* With a fault: a consumed token is not told from the live one.           *)
MayRotate_consumed(t) == t \in Stored /\ ~Revoked(t) /\ Expires(t) > now /\ ~Capped(t)

MayRotate(t) == t \in Stored /\ Tip(t) /\ Expires(t) > now /\ ~Capped(t)

rotate_refresh_token(t, child) ==
  /\ MayRotate(t)
  /\ refresh_tokens[child] = Unminted
  /\ refresh_tokens' =
       [refresh_tokens EXCEPT
          ![t].rotated = TRUE,
          ![child] = [user_id |-> refresh_tokens[t].user_id,
                      family_id |-> refresh_tokens[t].family_id, parent |-> t,
                      issued_at |-> now, rotated |-> FALSE, revoked_at |-> 0,
                      revoked_reason |-> "none", opened |-> refresh_tokens[t].opened,
                      rotations |-> refresh_tokens[t].rotations + 1]]
  /\ UNCHANGED <<now, users, sessions, request, ended>>

(* A token that was used before: the function raises, which undoes all it  *)
(* did, and the caller revokes the family in a statement of its own.       *)
Replayed(r, t) ==
  /\ t \in Stored /\ ~Tip(t)
  /\ Start(r, refresh_tokens[t].user_id, refresh_tokens[t].family_id, <<"family">>,
           Family(refresh_tokens[t].family_id))
  /\ UNCHANGED <<now, users, refresh_tokens, sessions, ended>>

validate_session(s) ==
  /\ sessions[s] # NoSession /\ sessions[s].expires_at > now
  /\ sessions' = [sessions EXCEPT ![s].expires_at = now + session_idle]
  /\ UNCHANGED <<now, users, refresh_tokens, request, ended>>

-----------------------------------------------------------------------------
(* Signing out.                                                            *)

(* With a fault: the UPDATE lacks revoked_at IS NULL.                      *)
Revoke_again(T, why) ==
  refresh_tokens' = [t \in Token |->
    IF t \in T \cap Stored
      THEN [refresh_tokens[t] EXCEPT !.revoked_at = now, !.revoked_reason = why]
      ELSE refresh_tokens[t]]

Revoke(T, why) ==
  refresh_tokens' = [t \in Token |->
    IF t \in T \cap Stored /\ ~Revoked(t)
      THEN [refresh_tokens[t] EXCEPT !.revoked_at = now, !.revoked_reason = why]
      ELSE refresh_tokens[t]]

revoke_refresh_token(t) ==
  /\ t \in Stored
  /\ Revoke({t}, "logout")
  /\ UNCHANGED <<now, users, sessions, request, ended>>

revoke_session(s) ==
  /\ sessions[s] # NoSession
  /\ sessions' = [sessions EXCEPT ![s] = NoSession]
  /\ UNCHANGED <<now, users, refresh_tokens, request, ended>>

(* LogoutAll, and the same by an operator.                                 *)
LogoutAll(r, u) ==
  /\ Start(r, u, "none", <<"forced">>, TokensOf(u))
  /\ UNCHANGED <<now, users, refresh_tokens, sessions, ended>>

(* The owner ends one family of the list.                                  *)
RevokeSession(r, u, f) ==
  /\ Family(f) \cap TokensOf(u) # {}
  /\ Start(r, u, f, <<"scoped">>, Family(f) \cap TokensOf(u))
  /\ UNCHANGED <<now, users, refresh_tokens, sessions, ended>>

change_password(r, u, p, sweeps) ==
  /\ users[u].status = "active" /\ users[u].password = p /\ p < MaxPassword
  /\ users' = [users EXCEPT ![u].password = p + 1, ![u].old_cost = FALSE,
                            ![u].must_change_password = FALSE]
  /\ Start(r, u, "none", sweeps, TokensOf(u))
  /\ UNCHANGED <<now, refresh_tokens, sessions, ended>>

require_password_change(r, u) ==
  /\ users' = [users EXCEPT ![u].must_change_password = TRUE]
  /\ Start(r, u, "none", <<"sessions", "password_change">>, TokensOf(u))
  /\ UNCHANGED <<now, refresh_tokens, sessions, ended>>

(* The part of update_user_info that matters here; the portal leaves the   *)
(* password alone.                                                         *)
set_user_status(u, status) ==
  /\ status \in {"active", "locked", "closed"} \ {users[u].status}
  /\ users' = [users EXCEPT ![u].status = status]
  /\ UNCHANGED <<now, refresh_tokens, sessions, request, ended>>

-----------------------------------------------------------------------------
(* The statements that follow.                                             *)

Scope(r) ==
  LET c == request[r]
  IN  CASE Statement(r) = "family" -> Family(c.family)
        [] Statement(r) = "scoped" -> Family(c.family) \cap TokensOf(c.user)
        [] OTHER               -> TokensOf(c.user)

ReasonOf(s) == CASE s = "family" -> "reuse_detected" [] s = "scoped" -> "logout" [] OTHER -> s

(* The UPDATE begins: these are the rows that it will look at.             *)
BeginRevocation(r) ==
  /\ Statement(r) \in Bulk /\ ~request[r].begun
  /\ request' = [request EXCEPT ![r].begun = TRUE, ![r].seen = Scope(r)]
  /\ UNCHANGED <<now, users, refresh_tokens, sessions, ended>>

(* With a fault: the function that raises revokes the family, and the abort*)
(* undoes it.                                                              *)
EndRevocation_undone(r) ==
  /\ Statement(r) \in Bulk /\ request[r].begun
  /\ IF Statement(r) = "family" THEN UNCHANGED refresh_tokens
                                ELSE Revoke(request[r].seen, ReasonOf(Statement(r)))
  /\ ended' = ended \cup request[r].target
  /\ Continue(r)
  /\ UNCHANGED <<now, users, sessions>>

(* Each row is locked and checked again; those revoked meanwhile stay.     *)
EndRevocation(r) ==
  /\ Statement(r) \in Bulk /\ request[r].begun
  /\ Revoke(request[r].seen, ReasonOf(Statement(r)))
  /\ ended' = ended \cup request[r].target
  /\ Continue(r)
  /\ UNCHANGED <<now, users, sessions>>

revoke_user_sessions(r) ==
  /\ Statement(r) = "sessions"
  /\ sessions' = [s \in Portal |->
       IF sessions[s].user_id = request[r].user THEN NoSession ELSE sessions[s]]
  /\ Continue(r)
  /\ UNCHANGED <<now, users, refresh_tokens, ended>>

(* An error is logged and the handler goes on, but for a login, which ends *)
(* there.  A server that stops fails all that is left.                     *)
StatementFails(r) ==
  /\ Statement(r) # "none"
  /\ IF Statement(r) \in Logins THEN request' = [request EXCEPT ![r] = Free] ELSE Continue(r)
  /\ UNCHANGED <<now, users, refresh_tokens, sessions, ended>>

-----------------------------------------------------------------------------
(* Time passes and the maintenance sweeps.                                 *)

Tick ==
  /\ now < MaxNow
  /\ now' = now + 1
  /\ UNCHANGED <<users, refresh_tokens, sessions, request, ended>>

Stale(t) ==
  \/ Expires(t) <= now - Day
  \/ Revoked(t) /\ refresh_tokens[t].revoked_at <= now - Day

(* With a fault: ON DELETE SET NULL.                                       *)
Deletable_set_null(T) == TRUE

(* parent_id REFERENCES refresh_tokens: a row that another one names as    *)
(* its parent cannot be deleted before it.                                 *)
Deletable(T) ==
  \A t \in Stored \ T : refresh_tokens[t].parent \notin T

(* One transaction: if the DELETE violates the reference, the expired      *)
(* sessions stay too, and all else that the sweep did is undone.           *)
RunMaintenance ==
  LET stale == {t \in Stored : Stale(t)}
  IN  /\ Deletable(stale)
      /\ refresh_tokens' = [t \in Token |-> IF t \in stale THEN Dropped ELSE refresh_tokens[t]]
      /\ sessions' = [s \in Portal |->
           IF sessions[s].expires_at <= now THEN NoSession ELSE sessions[s]]
      /\ UNCHANGED <<now, users, request, ended>>

(* All that is not the sweep.                                             *)
Serve ==
  \/ \E r \in Request, u \in User, p \in 0..MaxPassword :
       \/ Login(r, u, p) \/ create_staff_session(r, u, p) \/ Denied(r, u, p)
       \/ \E sweeps \in Sweeps : change_password(r, u, p, sweeps)
  \/ \E r \in Request, u \in User :
       LogoutAll(r, u) \/ require_password_change(r, u) \/ \E f \in Token : RevokeSession(r, u, f)
  \/ \E r \in Request :
       \/ nothing_to_clear(r) \/ signs_in(r) \/ note_failed_login(r)
       \/ BeginRevocation(r) \/ EndRevocation(r)
       \/ revoke_user_sessions(r) \/ StatementFails(r)
       \/ \E t \in Token : issue_refresh_token(r, t) \/ Replayed(r, t)
  \/ \E t \in Token : revoke_refresh_token(t) \/ \E child \in Token : rotate_refresh_token(t, child)
  \/ \E s \in Portal : validate_session(s) \/ revoke_session(s)
  \/ \E u \in User, status \in {"active", "locked", "closed"} : set_user_status(u, status)
  \/ Tick

NextSessions == Serve \/ RunMaintenance

SpecSessions == InitSessions /\ [][NextSessions]_svars

-----------------------------------------------------------------------------
(* The tables and the requests keep their types.                           *)
SessionsTypeOK ==
  /\ now \in Times
  /\ users \in [User -> Account]
  /\ refresh_tokens \in [Token -> Row \cup Absent]
  /\ sessions \in [Portal -> {NoSession} \cup
                              [user_id: Staff, expires_at: 0..(MaxNow + session_idle)]]
  /\ request \in [Request -> {Free} \cup Call]
  /\ ended \subseteq Token

(* A family is one chain: a token has at most one child, which it was      *)
(* consumed for, the chain has one beginning, and at most one of its tokens*)
(* may be used (rotate_refresh_token, 00019).                              *)
ConsumedFor(p, t) ==
  /\ p \in Stored /\ refresh_tokens[p].rotated
  /\ refresh_tokens[p].family_id = refresh_tokens[t].family_id
  /\ refresh_tokens[p].user_id = refresh_tokens[t].user_id

Rivals(s, t) ==
  refresh_tokens[s].parent = refresh_tokens[t].parent \/ (Tip(s) /\ Tip(t))

FamilyIsChain ==
  \A t \in Stored :
    /\ refresh_tokens[t].parent # "none" => ConsumedFor(refresh_tokens[t].parent, t)
    /\ \A s \in Family(refresh_tokens[t].family_id) \ {t} : ~Rivals(s, t)

(* However long a family is rotated, none of its tokens is minted later    *)
(* than refresh_absolute_ttl after the login that opened it, although the  *)
(* sweep drops the rows that say when that was (00019:84-89).              *)
CapHolds ==
  \A t \in Stored :
    refresh_tokens[t].issued_at <= refresh_tokens[t].opened + refresh_absolute_ttl

(* Once the revocation of a handler has completed, every token that there  *)
(* was in its scope when the handler decided is revoked: after a replay,   *)
(* the whole family (auth.go:182-194); after a password change or a sign   *)
(* out from everywhere, all of the user.  What may outlive it was minted   *)
(* after the decision, by a login or a rotation that was under way.        *)
EndedStayEnded == \A t \in ended \cap Stored : Revoked(t)

(* A token that was used or revoked never serves again, and what is        *)
(* recorded of a revocation is the first reason and time (the revoked_at   *)
(* IS NULL of each UPDATE in 00004).                                       *)
RevocationStands ==
  [][\A t \in Token :
       /\ t \in Stored /\ ~Tip(t) =>
            \/ refresh_tokens'[t] = Dropped
            \/ /\ refresh_tokens'[t] \notin Absent
               /\ refresh_tokens[t].rotated => refresh_tokens'[t].rotated
               /\ Revoked(t) => refresh_tokens'[t] = refresh_tokens[t]
       /\ refresh_tokens[t] = Dropped => refresh_tokens'[t] = Dropped]_svars

(* A login writes the hash that it read again at the new cost, in a        *)
(* statement after the one that read it, and a password that was changed   *)
(* in between comes back.  This ends with the last login that read a hash  *)
(* of the old cost: from then on nothing but change_password writes a      *)
(* password (00020:276-279).                                               *)
OldCostOver(u) ==
  ~users[u].old_cost /\ \A r \in Request : request[r].user = u => ~request[r].rehash

PasswordStands ==
  [][\A u \in User : OldCostOver(u) =>
       OldCostOver(u)' /\ users'[u].password \in {users[u].password, users[u].password + 1}]_svars

(* cleanup_refresh_tokens drops "tokens long past their idle expiry or     *)
(* revocation (run by the maintenance sweep, next to cleanup_sessions)"    *)
(* (00004:318): whenever the sweep runs, its DELETE succeeds.              *)
SweepSucceeds == Deletable({t \in Stored : Stale(t)})

(* The tables of tokens keep the promise of Families, whatever the order   *)
(* of the statements of the handlers and of the sweep.                     *)
Promise ==
  INSTANCE Families WITH
    family <- [t \in Token |-> IF t \in Stored THEN refresh_tokens[t].family_id
                               ELSE refresh_tokens[t]],
    live   <- {t \in Stored : Tip(t)}

ImplementsFamilies == Promise!Spec

=============================================================================
