----------------------------- MODULE Onboarding -----------------------------
(***************************************************************************)
(* How somebody becomes a customer of bank0: a customer spends a lifetime  *)
(* quota on single-use invitations, an invitation is redeemed by one       *)
(* registration, and the code sent to the new customer unlocks the         *)
(* account.  00005_onboarding.sql (register_user as 00020 leaves it),      *)
(* db/registration.go, handlers_registration.go, handlers_invitations.go.  *)
(*                                                                         *)
(* One action is one statement, so one transaction.  A handler that makes  *)
(* two statements leaves the second in request: the replay of a key, the   *)
(* count of a wrong code, the new code of a resend.  A request whose       *)
(* client goes away between the two is abandoned.                          *)
(*                                                                         *)
(* A registration makes one challenge and a resend never makes another:    *)
(* where none is pending its INSERT repeats the UNIQUE token_hash and      *)
(* fails.  So a challenge is named by its user.  Times are what the        *)
(* guards make of them: recent, lapsed, expired, aged.                     *)
(*                                                                         *)
(* Definitions named X_variant are X with a fault, for checking that the   *)
(* properties notice it.                                                   *)
(***************************************************************************)
EXTENDS Integers, Sequences, FiniteSets

CONSTANTS
  User,            \* usernames
  Founder,         \* those that staff created with the bank
  NoUser,          \* NULL
  RegKey,          \* idempotency keys of registrations
  Request,         \* requests that are between two statements
  Quota,           \* the DEFAULT of users.invites_remaining
  Grant,           \* what staff may set invites_remaining to
  MaxAttempts,     \* max_attempts of a challenge
  MaxInvitations,  \* bound: rows of the table invitations
  MaxCodes         \* bound: codes sent for one challenge

ASSUME OnboardingAssumption ==
  /\ Founder \subseteq User /\ NoUser \notin User
  /\ Quota \in Nat /\ Grant \subseteq Nat
  /\ MaxAttempts \in Nat \ {0} /\ MaxInvitations \in Nat /\ MaxCodes \in Nat \ {0}
  /\ IsFiniteSet(Request)

VARIABLES
  people,                   \* the table users
  invitations,              \* the table invitations
  verification_challenges,  \* the table verification_challenges
  register_keys,            \* idempotency_keys of the owner 0...01
  visit,                    \* what each request has yet to do
  allowance                 \* history: how many invitations each user was ever granted

onboarding_vars ==
  <<people, invitations, verification_challenges, register_keys, visit, allowance>>

Person ==
  [status: {"active", "locked", "closed", "absent"},
   onboarding: {"none", "pending_verification", "verified", "active"},
   invites_remaining: Nat]
Absent == [status |-> "absent", onboarding |-> "none", invites_remaining |-> 0]

Invitation ==
  [inviter: User, invitee: User \cup {NoUser}, expired: BOOLEAN]

Challenge ==
  [status: {"none", "pending", "verified", "expired"}, code: 0..MaxCodes,
   attempts: Nat, recent: BOOLEAN, lapsed: BOOLEAN]
NoChallenge ==
  [status |-> "none", code |-> 0, attempts |-> 0, recent |-> FALSE, lapsed |-> FALSE]

(* username and invite_code stand for the fingerprint of the parameters.   *)
RegisterKey ==
  [username: User \cup {NoUser}, invite_code: 0..MaxInvitations,
   response: User \cup {NoUser}, aged: BOOLEAN]
Unused == [username |-> NoUser, invite_code |-> 0, response |-> NoUser, aged |-> FALSE]

Visit ==
  [todo: {"none"}]
  \cup [todo: {"record", "resend"}, user: User]
  \cup [todo: {"replay", "answered"}, key: RegKey, username: User,
        invite_code: 1..MaxInvitations, response: User \cup {NoUser}]
Done == [todo |-> "none"]

Exists(u)   == people[u].status # "absent"
Consumed(i) == invitations[i].invitee # NoUser
Newcomer(status, onboarding) ==
  [status |-> status, onboarding |-> onboarding, invites_remaining |-> Quota]

OnboardingInit ==
  /\ people = [u \in User |-> IF u \in Founder THEN Newcomer("active", "active") ELSE Absent]
  /\ invitations = <<>>
  /\ verification_challenges = [u \in User |-> NoChallenge]
  /\ register_keys = [n \in RegKey |-> Unused]
  /\ visit = [r \in Request |-> Done]
  /\ allowance = [u \in User |-> IF u \in Founder THEN Quota ELSE 0]

-----------------------------------------------------------------------------
(* Staff.                                                                  *)

create_user(u) ==
  /\ ~Exists(u)
  /\ people' = [people EXCEPT ![u] = Newcomer("active", "active")]
  /\ allowance' = [allowance EXCEPT ![u] = Quota]
  /\ UNCHANGED <<invitations, verification_challenges, register_keys, visit>>

update_user_info(u, status) ==
  /\ Exists(u)
  /\ people' = [people EXCEPT ![u].status = status]
  /\ UNCHANGED <<invitations, verification_challenges, register_keys, visit, allowance>>

Sent(u) == {i \in DOMAIN invitations : invitations[i].inviter = u}

SetInvitesRemaining(u, n) ==
  /\ Exists(u)
  /\ people' = [people EXCEPT ![u].invites_remaining = n]
  /\ allowance' = [allowance EXCEPT ![u] = Cardinality(Sent(u)) + n]
  /\ UNCHANGED <<invitations, verification_challenges, register_keys, visit>>

-----------------------------------------------------------------------------
(* Invitations.                                                            *)

MayInvite_overdrawn(u) ==
  people[u].status = "active" /\ people[u].onboarding \in {"verified", "active"}
MayInvite(u) ==
  /\ people[u].status = "active"
  /\ people[u].onboarding \in {"verified", "active"}
  /\ people[u].invites_remaining > 0

create_invitation_unspent(u) ==
  /\ MayInvite(u)
  /\ Len(invitations) < MaxInvitations
  /\ invitations' = Append(invitations, [inviter |-> u, invitee |-> NoUser, expired |-> FALSE])
  /\ UNCHANGED <<people, verification_challenges, register_keys, visit, allowance>>

create_invitation(u) ==
  /\ MayInvite(u)
  /\ Len(invitations) < MaxInvitations
  /\ invitations' = Append(invitations, [inviter |-> u, invitee |-> NoUser, expired |-> FALSE])
  /\ people' = [people EXCEPT ![u].invites_remaining = people[u].invites_remaining - 1]
  /\ UNCHANGED <<verification_challenges, register_keys, visit, allowance>>

(* Time passes: the status of an invitation is derived from expires_at.    *)
invitation_expires(i) ==
  /\ ~invitations[i].expired
  /\ invitations' = [invitations EXCEPT ![i].expired = TRUE]
  /\ UNCHANGED <<people, verification_challenges, register_keys, visit, allowance>>

-----------------------------------------------------------------------------
(* Registration.                                                           *)

(* The key, the account, the invitation and the challenge in one           *)
(* transaction.  A username that is taken undoes them all.                 *)
Redeemable_twice(i) == ~invitations[i].expired
Redeemable(i) == ~Consumed(i) /\ ~invitations[i].expired

register_user(n, u, i) ==
  /\ register_keys[n] = Unused
  /\ Redeemable(i)
  /\ ~Exists(u)
  /\ people' = [people EXCEPT ![u] = Newcomer("locked", "pending_verification")]
  /\ invitations' = [invitations EXCEPT ![i].invitee = u]
  /\ verification_challenges' =
       [verification_challenges EXCEPT
          ![u] = [status |-> "pending", code |-> 1, attempts |-> 0,
                  recent |-> TRUE, lapsed |-> FALSE]]
  /\ register_keys' =
       [register_keys EXCEPT ![n] = [username |-> u, invite_code |-> i,
                                     response |-> u, aged |-> FALSE]]
  /\ allowance' = [allowance EXCEPT ![u] = Quota]
  /\ UNCHANGED visit

(* The INSERT of the key finds it taken ...                                *)
register_conflict(r, n, u, i) ==
  /\ visit[r] = Done
  /\ register_keys[n] # Unused
  /\ visit' = [visit EXCEPT ![r] = [todo |-> "replay", key |-> n, username |-> u,
                                    invite_code |-> i, response |-> NoUser]]
  /\ UNCHANGED <<people, invitations, verification_challenges, register_keys, allowance>>

(* ... and the SELECT after it reads the row as it is by then.  A row that *)
(* the sweep has deleted reads as NULLs, which no test rejects: the answer *)
(* is a replay that names nobody.                                          *)
SameRequest(row, v) ==
  row = Unused \/ (row.username = v.username /\ row.invite_code = v.invite_code)

register_replay(r) ==
  /\ visit[r].todo = "replay"
  /\ LET row == register_keys[visit[r].key]
     IN  visit' = [visit EXCEPT ![r] =
                     IF SameRequest(row, visit[r])
                     THEN [todo |-> "answered", key |-> visit[r].key,
                           username |-> visit[r].username,
                           invite_code |-> visit[r].invite_code, response |-> row.response]
                     ELSE Done]
  /\ UNCHANGED <<people, invitations, verification_challenges, register_keys, allowance>>

(* Time passes, and the sweep of a week later.                             *)
register_key_ages(n) ==
  /\ register_keys[n] # Unused /\ ~register_keys[n].aged
  /\ register_keys' = [register_keys EXCEPT ![n].aged = TRUE]
  /\ UNCHANGED <<people, invitations, verification_challenges, visit, allowance>>

cleanup_register_keys ==
  /\ \E n \in RegKey : register_keys[n].aged
  /\ register_keys' = [n \in RegKey |-> IF register_keys[n].aged THEN Unused
                                        ELSE register_keys[n]]
  /\ UNCHANGED <<people, invitations, verification_challenges, visit, allowance>>

-----------------------------------------------------------------------------
(* Verification of the contact.                                            *)

Open(u)  == verification_challenges[u].status = "pending" /\ ~verification_challenges[u].lapsed
Tries_unlimited(u) == TRUE
TriesLeft(u) == verification_challenges[u].attempts < MaxAttempts

verify_contact(u, code) ==
  /\ Open(u) /\ TriesLeft(u)
  /\ code = verification_challenges[u].code
  /\ verification_challenges' = [verification_challenges EXCEPT ![u].status = "verified"]
  /\ people' =
       [people EXCEPT
          ![u].onboarding = IF people[u].onboarding = "pending_verification"
                            THEN "verified" ELSE people[u].onboarding,
          ![u].status = IF people[u].status = "locked" THEN "active" ELSE people[u].status]
  /\ UNCHANGED <<invitations, register_keys, visit, allowance>>

(* A wrong code only raises; the handler counts it in a second statement.  *)
verify_contact_wrong(r, u) ==
  /\ visit[r] = Done
  /\ Open(u) /\ TriesLeft(u)
  /\ visit' = [visit EXCEPT ![r] = [todo |-> "record", user |-> u]]
  /\ UNCHANGED <<people, invitations, verification_challenges, register_keys, allowance>>

record_failed_verification(r) ==
  LET u == visit[r].user
  IN  /\ visit[r].todo = "record"
      /\ verification_challenges' =
           [verification_challenges EXCEPT ![u].attempts =
              IF verification_challenges[u].status = "pending"
              THEN verification_challenges[u].attempts + 1
              ELSE verification_challenges[u].attempts]
      /\ visit' = [visit EXCEPT ![r] = Done]
      /\ UNCHANGED <<people, invitations, register_keys, allowance>>

(* ResendCode reads that a challenge is pending ...                        *)
ChallengeByToken(r, u) ==
  /\ visit[r] = Done
  /\ verification_challenges[u].status = "pending"
  /\ visit' = [visit EXCEPT ![r] = [todo |-> "resend", user |-> u]]
  /\ UNCHANGED <<people, invitations, verification_challenges, register_keys, allowance>>

(* ... and then refreshes the one that is pending by now, unless a code    *)
(* was sent a moment ago.                                                  *)
Refreshable_as_read(u) == verification_challenges[u].code < MaxCodes
Refreshable(u) ==
  /\ verification_challenges[u].status = "pending"
  /\ ~verification_challenges[u].recent
  /\ verification_challenges[u].code < MaxCodes

create_verification_challenge(r) ==
  LET u == visit[r].user
  IN  /\ visit[r].todo = "resend"
      /\ verification_challenges' =
           IF Refreshable(u)
           THEN [verification_challenges EXCEPT
                   ![u] = [status |-> "pending", code |-> verification_challenges[u].code + 1,
                           attempts |-> 0, recent |-> TRUE, lapsed |-> FALSE]]
           ELSE verification_challenges
      /\ visit' = [visit EXCEPT ![r] = Done]
      /\ UNCHANGED <<people, invitations, register_keys, allowance>>

(* Time passes.                                                            *)
cooldown_passes(u) ==
  /\ verification_challenges[u].recent
  /\ verification_challenges' = [verification_challenges EXCEPT ![u].recent = FALSE]
  /\ UNCHANGED <<people, invitations, register_keys, visit, allowance>>

challenge_lapses(u) ==
  /\ Open(u) /\ ~verification_challenges[u].recent
  /\ verification_challenges' = [verification_challenges EXCEPT ![u].lapsed = TRUE]
  /\ UNCHANGED <<people, invitations, register_keys, visit, allowance>>

expire_verification_challenges ==
  /\ \E u \in User : verification_challenges[u].status = "pending" /\ ~Open(u)
  /\ verification_challenges' =
       [u \in User |->
          IF verification_challenges[u].status = "pending" /\ ~Open(u)
          THEN [verification_challenges[u] EXCEPT !.status = "expired"]
          ELSE verification_challenges[u]]
  /\ UNCHANGED <<people, invitations, register_keys, visit, allowance>>

(* The client reads its answer, or goes away before the second statement.  *)
leave(r) ==
  /\ visit[r] # Done
  /\ visit' = [visit EXCEPT ![r] = Done]
  /\ UNCHANGED <<people, invitations, verification_challenges, register_keys, allowance>>

-----------------------------------------------------------------------------
Staffing ==
  \E u \in User :
    \/ create_user(u)
    \/ \E s \in {"active", "locked", "closed"} : update_user_info(u, s)
    \/ \E n \in Grant : SetInvitesRemaining(u, n)

Inviting ==
  \/ \E u \in User : create_invitation(u)
  \/ \E i \in DOMAIN invitations : invitation_expires(i)

Registering ==
  \/ \E n \in RegKey, u \in User, i \in DOMAIN invitations :
       \/ register_user(n, u, i)
       \/ \E r \in Request : register_conflict(r, n, u, i)
  \/ \E r \in Request : register_replay(r)
  \/ \E n \in RegKey : register_key_ages(n)
  \/ cleanup_register_keys

Verifying ==
  \/ \E u \in User : \/ \E code \in 1..MaxCodes : verify_contact(u, code)
                     \/ cooldown_passes(u)
                     \/ challenge_lapses(u)
                     \/ \E r \in Request : verify_contact_wrong(r, u) \/ ChallengeByToken(r, u)
  \/ \E r \in Request : \/ record_failed_verification(r)
                        \/ create_verification_challenge(r)
                        \/ leave(r)
  \/ expire_verification_challenges

OnboardingNext == Staffing \/ Inviting \/ Registering \/ Verifying

OnboardingSpec == OnboardingInit /\ [][OnboardingNext]_onboarding_vars

-----------------------------------------------------------------------------
(* Properties.                                                             *)

(* The tables keep their column types.                                     *)
OnboardingTypeOK ==
  /\ people \in [User -> Person]
  /\ invitations \in Seq(Invitation) /\ Len(invitations) <= MaxInvitations
  /\ verification_challenges \in [User -> Challenge]
  /\ register_keys \in [RegKey -> RegisterKey]
  /\ visit \in [Request -> Visit]
  /\ allowance \in [User -> Nat]

(* The quota is for life: what a user has sent and may yet send adds up to *)
(* what they were granted, whoever registers, whatever expires, and        *)
(* however often staff edits the number that is left.                      *)
InvitationsWithinQuota ==
  \A u \in User : Cardinality(Sent(u)) + people[u].invites_remaining = allowance[u]

(* A registration is whole, and an invitation makes one account: whoever   *)
(* has a challenge was admitted by exactly one invitation, not their own,  *)
(* whoever consumed one has a challenge, and a key that was claimed, or a  *)
(* replay that was answered, names the account its own parameters made.    *)
RegistrationIsWhole ==
  /\ \A u \in User :
       LET mine == {i \in DOMAIN invitations : invitations[i].invitee = u}
       IN  IF verification_challenges[u].status = "none" THEN mine = {}
           ELSE \E i \in mine : mine = {i} /\ invitations[i].inviter # u
  /\ \A n \in RegKey :
       register_keys[n] # Unused =>
         /\ register_keys[n].response = register_keys[n].username
         /\ invitations[register_keys[n].invite_code].invitee = register_keys[n].username
  /\ \A r \in Request :
       (visit[r].todo = "answered" /\ visit[r].response # NoUser) =>
         /\ visit[r].response = visit[r].username
         /\ invitations[visit[r].invite_code].invitee = visit[r].username

(* A verification is final and earned: nobody leaves pending_verification  *)
(* but by a code sent for a challenge that was then pending with tries     *)
(* left, and no late resend, count or sweep touches a challenge that was   *)
(* decided.                                                                *)
VerifiedStands ==
  [][\A u \in User :
       LET was == verification_challenges[u]  is == verification_challenges'[u]
       IN  /\ was.status \in {"verified", "expired"} => is.status = was.status /\ is.code = was.code
           /\ people[u].onboarding = "pending_verification" =>
                \/ people'[u].onboarding = "pending_verification"
                \/ Open(u) /\ TriesLeft(u) /\ is = [was EXCEPT !.status = "verified"]
           /\ people[u].onboarding \in {"verified", "active"} =>
                people'[u].onboarding = people[u].onboarding]_onboarding_vars

(* The lockout holds under concurrency: wrong codes are counted after they *)
(* are told apart, so requests in flight may overshoot the limit, but only *)
(* by those in flight.                                                     *)
AttemptsBounded ==
  \A u \in User :
    verification_challenges[u].attempts
      + Cardinality({r \in Request : visit[r].todo = "record" /\ visit[r].user = u})
      < MaxAttempts + Cardinality(Request)

=============================================================================
