-------------------------- MODULE OnboardingProofs --------------------------
(***************************************************************************)
(* What is proved of Onboarding, for any number of users, invitations,     *)
(* keys and requests: the types, the lifetime quota of invitations, that a *)
(* registration is whole, the bound on wrong codes, and that a             *)
(* verification stands.                                                    *)
(***************************************************************************)
EXTENDS Onboarding, TLAPS, FiniteSetTheorems

-----------------------------------------------------------------------------
(* Types.                                                                  *)

LEMMA Replaced ==
  ASSUME NEW S, NEW s \in Seq(S), NEW i \in DOMAIN s, NEW e \in S
  PROVE  /\ [s EXCEPT ![i] = e] \in Seq(S)
         /\ Len([s EXCEPT ![i] = e]) = Len(s)
         /\ DOMAIN [s EXCEPT ![i] = e] = DOMAIN s
         /\ \A j \in DOMAIN s : [s EXCEPT ![i] = e][j] = IF j = i THEN e ELSE s[j]
<1> DEFINE t == [s EXCEPT ![i] = e]
<1>1. DOMAIN s = 1..Len(s) /\ Len(s) \in Nat /\ \A j \in DOMAIN s : s[j] \in S
  OBVIOUS
<1>2. /\ DOMAIN t = 1..Len(s)
      /\ \A j \in 1..Len(s) : t[j] = IF j = i THEN e ELSE s[j]
  BY <1>1
<1>3. t \in [1..Len(s) -> S]
  BY <1>1, <1>2
<1>4. t \in Seq(S) /\ Len(t) = Len(s)
  BY <1>1, <1>3
<1>. QED  BY <1>1, <1>2, <1>4

(* The rows of invitations, and how many a user has sent.                  *)
LEMMA InvitationRows ==
  ASSUME OnboardingTypeOK
  PROVE  /\ DOMAIN invitations = 1..Len(invitations) /\ Len(invitations) \in Nat
         /\ DOMAIN invitations \subseteq 1..MaxInvitations
         /\ \A i \in DOMAIN invitations : invitations[i] \in Invitation
         /\ \A u : IsFiniteSet(Sent(u)) /\ Cardinality(Sent(u)) \in Nat
<1>1. /\ DOMAIN invitations = 1..Len(invitations) /\ Len(invitations) \in Nat
      /\ \A i \in DOMAIN invitations : invitations[i] \in Invitation
      /\ Len(invitations) <= MaxInvitations /\ MaxInvitations \in Nat
  BY OnboardingAssumption DEF OnboardingTypeOK
<1>2. IsFiniteSet(1..Len(invitations))
  BY <1>1, FS_Interval
<1>3. ASSUME NEW u PROVE IsFiniteSet(Sent(u)) /\ Cardinality(Sent(u)) \in Nat
  <2>1. Sent(u) \in SUBSET (1..Len(invitations))
    BY <1>1 DEF Sent
  <2>. QED  BY <1>2, <2>1, FS_Subset, FS_CardinalityType
<1>. QED  BY <1>1, <1>3

(* The rows of people and of challenges.                                   *)
LEMMA RowTypes ==
  ASSUME OnboardingTypeOK, NEW u \in User
  PROVE  /\ people[u] \in Person
         /\ verification_challenges[u] \in Challenge
BY DEF OnboardingTypeOK

LEMMA NewcomerType ==
  /\ Newcomer("active", "active") \in Person
  /\ Newcomer("locked", "pending_verification") \in Person
BY OnboardingAssumption DEF Newcomer, Person

(* Staff.                                                                  *)
LEMMA StaffTypes ==
  ASSUME OnboardingTypeOK, Staffing
  PROVE  OnboardingTypeOK'
<1>. USE RowTypes
<1>1. ASSUME NEW u \in User, create_user(u)
      PROVE  OnboardingTypeOK'
  BY <1>1, NewcomerType, OnboardingAssumption DEF create_user, OnboardingTypeOK
<1>2. ASSUME NEW u \in User, NEW s \in {"active", "locked", "closed"}, update_user_info(u, s)
      PROVE  OnboardingTypeOK'
  <2>1. [people[u] EXCEPT !.status = s] \in Person
    BY DEF Person
  <2>2. people' = [people EXCEPT ![u] = [people[u] EXCEPT !.status = s]]
    BY <1>2 DEF update_user_info
  <2>. QED  BY <1>2, <2>1, <2>2 DEF update_user_info, OnboardingTypeOK
<1>3. ASSUME NEW u \in User, NEW n \in Grant, SetInvitesRemaining(u, n)
      PROVE  OnboardingTypeOK'
  <2>1. n \in Nat /\ Cardinality(Sent(u)) + n \in Nat
    BY InvitationRows, OnboardingAssumption
  <2>2. [people[u] EXCEPT !.invites_remaining = n] \in Person
    BY <2>1 DEF Person
  <2>3. /\ people' = [people EXCEPT ![u] = [people[u] EXCEPT !.invites_remaining = n]]
        /\ allowance' = [allowance EXCEPT ![u] = Cardinality(Sent(u)) + n]
    BY <1>3 DEF SetInvitesRemaining
  <2>. QED  BY <1>3, <2>1, <2>2, <2>3 DEF SetInvitesRemaining, OnboardingTypeOK
<1>. QED  BY <1>1, <1>2, <1>3 DEF Staffing

(* Invitations.                                                            *)
LEMMA InviteTypes ==
  ASSUME OnboardingTypeOK, Inviting
  PROVE  OnboardingTypeOK'
<1>1. ASSUME NEW u \in User, create_invitation(u)
      PROVE  OnboardingTypeOK'
  <2> DEFINE new == [inviter |-> u, invitee |-> NoUser, expired |-> FALSE]
  <2>1. new \in Invitation
    BY DEF Invitation
  <2>2. invitations' = Append(invitations, new)
    BY <1>1 DEF create_invitation
  <2>. HIDE DEF new
  <2>3. invitations' \in Seq(Invitation) /\ Len(invitations') <= MaxInvitations
    BY <1>1, <2>1, <2>2, InvitationRows, OnboardingAssumption
       DEF create_invitation, OnboardingTypeOK
  <2>4. people[u].invites_remaining - 1 \in Nat
    BY <1>1, RowTypes DEF create_invitation, MayInvite, Person
  <2>5. [people[u] EXCEPT !.invites_remaining = people[u].invites_remaining - 1] \in Person
    BY <2>4, RowTypes DEF Person
  <2>6. people' = [people EXCEPT
          ![u] = [people[u] EXCEPT !.invites_remaining = people[u].invites_remaining - 1]]
    BY <1>1 DEF create_invitation
  <2>. QED  BY <1>1, <2>3, <2>5, <2>6 DEF create_invitation, OnboardingTypeOK
<1>2. ASSUME NEW i \in DOMAIN invitations, invitation_expires(i)
      PROVE  OnboardingTypeOK'
  <2> DEFINE e == [invitations[i] EXCEPT !.expired = TRUE]
  <2>1. e \in Invitation
    BY InvitationRows DEF Invitation
  <2>2. invitations' = [invitations EXCEPT ![i] = e]
    BY <1>2 DEF invitation_expires
  <2>. HIDE DEF e
  <2>3. invitations' \in Seq(Invitation) /\ Len(invitations') <= MaxInvitations
    BY <2>1, <2>2, Replaced DEF OnboardingTypeOK
  <2>. QED  BY <1>2, <2>3 DEF invitation_expires, OnboardingTypeOK
<1>. QED  BY <1>1, <1>2 DEF Inviting

(* A request that is between two statements.                               *)
LEMMA VisitRows ==
  ASSUME OnboardingTypeOK, NEW r \in Request
  PROVE  /\ visit[r].todo \in {"record", "resend"} => visit[r].user \in User
         /\ visit[r].todo \in {"replay", "answered"} =>
              /\ visit[r].key \in RegKey /\ visit[r].username \in User
              /\ visit[r].invite_code \in 1..MaxInvitations
              /\ visit[r].response \in User \cup {NoUser}
BY DEF OnboardingTypeOK, Visit

LEMMA VisitType ==
  ASSUME OnboardingTypeOK, NEW r \in Request, NEW v \in Visit, visit' = [visit EXCEPT ![r] = v]
  PROVE  visit' \in [Request -> Visit]
BY DEF OnboardingTypeOK

LEMMA ChallengesType ==
  ASSUME OnboardingTypeOK, NEW u \in User, NEW c \in Challenge,
         verification_challenges' = [verification_challenges EXCEPT ![u] = c]
  PROVE  verification_challenges' \in [User -> Challenge]
BY DEF OnboardingTypeOK

(* Registration.                                                           *)
LEMMA RegisterTypes ==
  ASSUME OnboardingTypeOK, Registering
  PROVE  OnboardingTypeOK'
<1>1. ASSUME NEW n \in RegKey, NEW u \in User, NEW i \in DOMAIN invitations,
             register_user(n, u, i)
      PROVE  OnboardingTypeOK'
  <2> DEFINE e == [invitations[i] EXCEPT !.invitee = u]
             c == [status |-> "pending", code |-> 1, attempts |-> 0,
                   recent |-> TRUE, lapsed |-> FALSE]
             k == [username |-> u, invite_code |-> i, response |-> u, aged |-> FALSE]
  <2>1. e \in Invitation
    BY InvitationRows DEF Invitation
  <2>2. c \in Challenge
    BY OnboardingAssumption DEF Challenge
  <2>3. k \in RegisterKey
    BY InvitationRows, OnboardingAssumption DEF RegisterKey
  <2>4. /\ invitations' = [invitations EXCEPT ![i] = e]
        /\ verification_challenges' = [verification_challenges EXCEPT ![u] = c]
        /\ register_keys' = [register_keys EXCEPT ![n] = k]
    BY <1>1 DEF register_user
  <2>. HIDE DEF e, c, k
  <2>5. invitations' \in Seq(Invitation) /\ Len(invitations') <= MaxInvitations
    BY <2>1, <2>4, Replaced DEF OnboardingTypeOK
  <2>6. people' \in [User -> Person] /\ allowance' \in [User -> Nat]
    BY <1>1, NewcomerType, OnboardingAssumption DEF register_user, OnboardingTypeOK
  <2>7. register_keys' \in [RegKey -> RegisterKey]
    BY <2>3, <2>4 DEF OnboardingTypeOK
  <2>8. visit' = visit
    BY <1>1 DEF register_user
  <2>. QED  BY <2>2, <2>4, <2>5, <2>6, <2>7, <2>8, ChallengesType DEF OnboardingTypeOK
<1>2. ASSUME NEW n \in RegKey, NEW u \in User, NEW i \in DOMAIN invitations, NEW r \in Request,
             register_conflict(r, n, u, i)
      PROVE  OnboardingTypeOK'
  <2> DEFINE v == [todo |-> "replay", key |-> n, username |-> u,
                   invite_code |-> i, response |-> NoUser]
  <2>1. v \in Visit
    BY InvitationRows DEF Visit
  <2>2. visit' = [visit EXCEPT ![r] = v]
    BY <1>2 DEF register_conflict
  <2>. HIDE DEF v
  <2>. QED  BY <1>2, <2>1, <2>2, VisitType DEF register_conflict, OnboardingTypeOK
<1>3. ASSUME NEW r \in Request, register_replay(r)
      PROVE  OnboardingTypeOK'
  <2> DEFINE row == register_keys[visit[r].key]
             v == [todo |-> "answered", key |-> visit[r].key, username |-> visit[r].username,
                   invite_code |-> visit[r].invite_code, response |-> row.response]
  <2>1. visit[r].todo = "replay"
    BY <1>3 DEF register_replay
  <2>2. row \in RegisterKey
    BY <2>1, VisitRows DEF OnboardingTypeOK
  <2>3. v \in Visit /\ Done \in Visit
    BY <2>1, <2>2, VisitRows DEF Visit, Done, RegisterKey
  <2>4. visit' = [visit EXCEPT ![r] = IF SameRequest(row, visit[r]) THEN v ELSE Done]
    BY <1>3 DEF register_replay
  <2>. HIDE DEF v, row
  <2>5. visit' \in [Request -> Visit]
    BY <2>3, <2>4 DEF OnboardingTypeOK
  <2>. QED  BY <1>3, <2>5 DEF register_replay, OnboardingTypeOK
<1>4. ASSUME NEW n \in RegKey, register_key_ages(n)
      PROVE  OnboardingTypeOK'
  <2>1. [register_keys[n] EXCEPT !.aged = TRUE] \in RegisterKey
    BY DEF OnboardingTypeOK, RegisterKey
  <2>2. register_keys' = [register_keys EXCEPT ![n] = [register_keys[n] EXCEPT !.aged = TRUE]]
    BY <1>4 DEF register_key_ages
  <2>. QED  BY <1>4, <2>1, <2>2 DEF register_key_ages, OnboardingTypeOK
<1>5. CASE cleanup_register_keys
  <2>1. Unused \in RegisterKey
    BY OnboardingAssumption DEF Unused, RegisterKey
  <2>. QED  BY <1>5, <2>1 DEF cleanup_register_keys, OnboardingTypeOK
<1>. QED  BY <1>1, <1>2, <1>3, <1>4, <1>5 DEF Registering

(* Verification.                                                           *)
LEMMA VerifyTypes ==
  ASSUME OnboardingTypeOK, Verifying
  PROVE  OnboardingTypeOK'
<1>1. ASSUME NEW u \in User, NEW code \in 1..MaxCodes, verify_contact(u, code)
      PROVE  OnboardingTypeOK'
  <2> DEFINE onb == IF people[u].onboarding = "pending_verification" THEN "verified"
                    ELSE people[u].onboarding
             st == IF people[u].status = "locked" THEN "active" ELSE people[u].status
             c == [verification_challenges[u] EXCEPT !.status = "verified"]
             h == [people[u] EXCEPT !.onboarding = onb, !.status = st]
  <2>1. c \in Challenge
    BY RowTypes DEF Challenge
  <2>2. h \in Person
    BY RowTypes DEF Person
  <2>3. /\ verification_challenges' = [verification_challenges EXCEPT ![u] = c]
        /\ people' = [people EXCEPT ![u] = h]
    BY <1>1 DEF verify_contact
  <2>4. UNCHANGED <<invitations, register_keys, visit, allowance>>
    BY <1>1 DEF verify_contact
  <2>. HIDE DEF c, h
  <2>5. people' \in [User -> Person]
    BY <2>2, <2>3 DEF OnboardingTypeOK
  <2>. QED  BY <2>1, <2>3, <2>4, <2>5, ChallengesType DEF OnboardingTypeOK
<1>2. ASSUME NEW u \in User, NEW r \in Request,
             verify_contact_wrong(r, u) \/ ChallengeByToken(r, u)
      PROVE  OnboardingTypeOK'
  <2>1. /\ [todo |-> "record", user |-> u] \in Visit
        /\ [todo |-> "resend", user |-> u] \in Visit
    BY DEF Visit
  <2>2. PICK v \in Visit : visit' = [visit EXCEPT ![r] = v]
    BY <1>2, <2>1 DEF verify_contact_wrong, ChallengeByToken
  <2>. QED  BY <1>2, <2>2, VisitType DEF verify_contact_wrong, ChallengeByToken, OnboardingTypeOK
<1>3. ASSUME NEW r \in Request, record_failed_verification(r)
      PROVE  OnboardingTypeOK'
  <2> DEFINE u == visit[r].user
             n == IF verification_challenges[u].status = "pending"
                  THEN verification_challenges[u].attempts + 1
                  ELSE verification_challenges[u].attempts
             c == [verification_challenges[u] EXCEPT !.attempts = n]
  <2>1. u \in User
    BY <1>3, VisitRows DEF record_failed_verification
  <2>2. n \in Nat
    BY <2>1, RowTypes DEF Challenge
  <2>3. /\ verification_challenges' = [verification_challenges EXCEPT ![u] = c]
        /\ visit' = [visit EXCEPT ![r] = Done]
    BY <1>3 DEF record_failed_verification
  <2>. HIDE DEF n
  <2>4. c \in Challenge
    BY <2>1, <2>2, RowTypes DEF Challenge
  <2>. HIDE DEF c
  <2>5. Done \in Visit
    BY DEF Done, Visit
  <2>. QED  BY <1>3, <2>1, <2>3, <2>4, <2>5, ChallengesType, VisitType
            DEF record_failed_verification, OnboardingTypeOK
<1>4. ASSUME NEW r \in Request, create_verification_challenge(r)
      PROVE  OnboardingTypeOK'
  <2> DEFINE u == visit[r].user
             c == [status |-> "pending", code |-> verification_challenges[u].code + 1,
                   attempts |-> 0, recent |-> TRUE, lapsed |-> FALSE]
  <2>1. u \in User
    BY <1>4, VisitRows DEF create_verification_challenge
  <2>2. /\ verification_challenges' = IF Refreshable(u)
                                      THEN [verification_challenges EXCEPT ![u] = c]
                                      ELSE verification_challenges
        /\ visit' = [visit EXCEPT ![r] = Done]
    BY <1>4 DEF create_verification_challenge
  <2>3. Refreshable(u) => c \in Challenge
    BY <2>1, RowTypes, OnboardingAssumption DEF Refreshable, Challenge
  <2>4. Done \in Visit
    BY DEF Done, Visit
  <2>. HIDE DEF c
  <2>5. verification_challenges' \in [User -> Challenge]
    BY <2>1, <2>2, <2>3, ChallengesType DEF OnboardingTypeOK
  <2>. QED  BY <1>4, <2>2, <2>4, <2>5, VisitType
            DEF create_verification_challenge, OnboardingTypeOK
<1>5. ASSUME NEW u \in User, cooldown_passes(u) \/ challenge_lapses(u)
      PROVE  OnboardingTypeOK'
  <2>1. /\ [verification_challenges[u] EXCEPT !.recent = FALSE] \in Challenge
        /\ [verification_challenges[u] EXCEPT !.lapsed = TRUE] \in Challenge
    BY RowTypes DEF Challenge
  <2>2. PICK c \in Challenge :
          verification_challenges' = [verification_challenges EXCEPT ![u] = c]
    BY <1>5, <2>1 DEF cooldown_passes, challenge_lapses
  <2>. QED  BY <1>5, <2>2, ChallengesType
            DEF cooldown_passes, challenge_lapses, OnboardingTypeOK
<1>6. CASE expire_verification_challenges
  <2>1. \A u \in User :
          [verification_challenges[u] EXCEPT !.status = "expired"] \in Challenge
    BY RowTypes DEF Challenge
  <2>. QED  BY <1>6, <2>1 DEF expire_verification_challenges, OnboardingTypeOK
<1>7. ASSUME NEW r \in Request, leave(r)
      PROVE  OnboardingTypeOK'
  <2>1. Done \in Visit
    BY DEF Done, Visit
  <2>. QED  BY <1>7, <2>1 DEF leave, OnboardingTypeOK
<1>. QED  BY <1>1, <1>2, <1>3, <1>4, <1>5, <1>6, <1>7 DEF Verifying

LEMMA OnboardingTypeStep ==
  ASSUME OnboardingTypeOK, [OnboardingNext]_onboarding_vars
  PROVE  OnboardingTypeOK'
<1>1. CASE UNCHANGED onboarding_vars
  BY <1>1 DEF onboarding_vars, OnboardingTypeOK
<1>. QED  BY <1>1, StaffTypes, InviteTypes, RegisterTypes, VerifyTypes DEF OnboardingNext

LEMMA OnboardingTypeInit ==
  ASSUME OnboardingInit
  PROVE  OnboardingTypeOK
<1>1. Absent \in Person
  BY DEF Absent, Person
<1>2. NoChallenge \in Challenge /\ Unused \in RegisterKey /\ Done \in Visit
  BY OnboardingAssumption DEF NoChallenge, Challenge, Unused, RegisterKey, Done, Visit
<1>3. invitations \in Seq(Invitation) /\ Len(invitations) <= MaxInvitations
  BY OnboardingAssumption DEF OnboardingInit
<1>. QED  BY <1>1, <1>2, <1>3, NewcomerType, OnboardingAssumption
          DEF OnboardingInit, OnboardingTypeOK

(* The tables and the requests keep their types whatever staff, inviters   *)
(* and newcomers do at once.                                               *)
THEOREM OnboardingTypeCorrect == OnboardingSpec => []OnboardingTypeOK
<1>1. OnboardingInit => OnboardingTypeOK
  BY OnboardingTypeInit
<1>2. OnboardingTypeOK /\ [OnboardingNext]_onboarding_vars => OnboardingTypeOK'
  BY OnboardingTypeStep
<1>. QED  BY <1>1, <1>2, PTL DEF OnboardingSpec

-----------------------------------------------------------------------------
(* The quota and the registrations, row by row.                            *)

Mine(u) == {i \in DOMAIN invitations : invitations[i].invitee = u}

NewHere(u) ==
  ~Exists(u) => /\ people[u] = Absent
                /\ Sent(u) = {} /\ verification_challenges[u].status = "none"

InQuota(u) == Cardinality(Sent(u)) + people[u].invites_remaining = allowance[u]

Admitted(u) ==
  IF verification_challenges[u].status = "none" THEN Mine(u) = {}
  ELSE \E i \in Mine(u) : Mine(u) = {i} /\ invitations[i].inviter # u

KeyRight(n) ==
  register_keys[n] # Unused =>
    /\ register_keys[n].invite_code \in DOMAIN invitations
    /\ register_keys[n].username \in User
    /\ register_keys[n].response = register_keys[n].username
    /\ invitations[register_keys[n].invite_code].invitee = register_keys[n].username

VisitRight(r) ==
  (visit[r].todo = "answered" /\ visit[r].response # NoUser) =>
    /\ visit[r].invite_code \in DOMAIN invitations
    /\ visit[r].response = visit[r].username
    /\ invitations[visit[r].invite_code].invitee = visit[r].username

WholeInv ==
  /\ \A u \in User : NewHere(u) /\ InQuota(u) /\ Admitted(u)
  /\ \A n \in RegKey : KeyRight(n)
  /\ \A r \in Request : VisitRight(r)

(* A consumed invitation stays consumed by the same account.               *)
InvitationsStay ==
  \A i \in DOMAIN invitations :
    /\ i \in DOMAIN invitations'
    /\ invitations[i].invitee # NoUser => invitations'[i].invitee = invitations[i].invitee

LEMMA KeysStay ==
  ASSUME OnboardingTypeOK, WholeInv, InvitationsStay, NEW n \in RegKey,
         \/ register_keys'[n] = register_keys[n]
         \/ register_keys'[n] = Unused
         \/ /\ register_keys[n] # Unused
            /\ register_keys'[n] = [register_keys[n] EXCEPT !.aged = TRUE]
  PROVE  KeyRight(n)'
<1>1. KeyRight(n) /\ register_keys[n] \in RegisterKey
  BY DEF WholeInv, OnboardingTypeOK
<1>2. CASE register_keys'[n] = Unused
  BY <1>2 DEF KeyRight
<1>3. CASE register_keys[n] # Unused /\ register_keys'[n] \in
             {register_keys[n], [register_keys[n] EXCEPT !.aged = TRUE]}
  <2>1. /\ register_keys'[n].invite_code = register_keys[n].invite_code
        /\ register_keys'[n].username = register_keys[n].username
        /\ register_keys'[n].response = register_keys[n].response
    BY <1>1, <1>3 DEF RegisterKey
  <2>2. invitations[register_keys[n].invite_code].invitee # NoUser
    BY <1>1, <1>3, OnboardingAssumption DEF KeyRight
  <2>. QED  BY <1>1, <1>3, <2>1, <2>2 DEF KeyRight, InvitationsStay
<1>. QED  BY <1>2, <1>3

LEMMA VisitsStay ==
  ASSUME OnboardingTypeOK, WholeInv, InvitationsStay, NEW r \in Request,
         visit'[r] = visit[r] \/ visit'[r].todo # "answered"
  PROVE  VisitRight(r)'
<1>1. CASE visit'[r].todo # "answered"
  BY <1>1 DEF VisitRight
<1>2. CASE visit'[r] = visit[r] /\ visit[r].todo = "answered" /\ visit[r].response # NoUser
  <2>1. VisitRight(r) /\ visit[r].username # NoUser
    BY <1>2, VisitRows, OnboardingAssumption DEF WholeInv
  <2>. QED  BY <1>2, <2>1 DEF VisitRight, InvitationsStay
<1>. QED  BY <1>1, <1>2 DEF VisitRight

(* When invitations are as they were.                                      *)
LEMMA SameInvitations ==
  ASSUME UNCHANGED invitations
  PROVE  /\ InvitationsStay
         /\ \A u : Sent(u)' = Sent(u) /\ Mine(u)' = Mine(u)
BY DEF InvitationsStay, Sent, Mine

LEMMA UserStays ==
  ASSUME WholeInv, UNCHANGED invitations, NEW u \in User,
         people'[u] = people[u], allowance'[u] = allowance[u],
         \/ verification_challenges'[u] = verification_challenges[u]
         \/ /\ verification_challenges[u].status # "none"
            /\ verification_challenges'[u].status # "none"
  PROVE  NewHere(u)' /\ InQuota(u)' /\ Admitted(u)'
<1>1. Sent(u)' = Sent(u) /\ Mine(u)' = Mine(u)
  BY SameInvitations
<1>2. verification_challenges'[u].status = "none" <=> verification_challenges[u].status = "none"
  OBVIOUS
<1>3. NewHere(u) /\ InQuota(u) /\ Admitted(u)
  BY DEF WholeInv
<1>. QED  BY <1>1, <1>2, <1>3 DEF NewHere, Exists, InQuota, Admitted

(* Staff.                                                                  *)
LEMMA StaffWhole ==
  ASSUME OnboardingTypeOK, WholeInv, Staffing
  PROVE  WholeInv'
<1>1. UNCHANGED <<invitations, verification_challenges, register_keys, visit>>
  BY DEF Staffing, create_user, update_user_info, SetInvitesRemaining
<1>2. /\ \A n \in RegKey : KeyRight(n)'
      /\ \A r \in Request : VisitRight(r)'
  BY <1>1, SameInvitations, KeysStay, VisitsStay
<1>3. ASSUME NEW u \in User, NEW h, NEW m, people' = [people EXCEPT ![u] = h],
             allowance' = [allowance EXCEPT ![u] = m],
             h.status # "absent", Cardinality(Sent(u)) + h.invites_remaining = m
      PROVE  WholeInv'
  <2>1. /\ people'[u] = h /\ allowance'[u] = m
        /\ \A v \in User : v # u => people'[v] = people[v] /\ allowance'[v] = allowance[v]
    BY <1>3 DEF OnboardingTypeOK
  <2>2. Sent(u)' = Sent(u) /\ Mine(u)' = Mine(u)
    BY <1>1, SameInvitations
  <2>3. NewHere(u)' /\ InQuota(u)' /\ Admitted(u)'
    BY <1>1, <1>3, <2>1, <2>2 DEF NewHere, Exists, InQuota, Admitted, WholeInv
  <2>4. \A v \in User : v # u => NewHere(v)' /\ InQuota(v)' /\ Admitted(v)'
    BY <1>1, <2>1, UserStays
  <2>. QED  BY <1>2, <2>3, <2>4 DEF WholeInv
<1>4. ASSUME NEW u \in User, create_user(u)
      PROVE  WholeInv'
  <2> DEFINE h == Newcomer("active", "active")
  <2>1. h.status = "active" /\ h.invites_remaining = Quota
    BY DEF Newcomer
  <2>2. Cardinality(Sent(u)) = 0
    BY <1>4, FS_EmptySet DEF create_user, WholeInv, NewHere
  <2>3. people' = [people EXCEPT ![u] = h] /\ allowance' = [allowance EXCEPT ![u] = Quota]
    BY <1>4 DEF create_user
  <2>. HIDE DEF h
  <2>4. h.status # "absent" /\ Cardinality(Sent(u)) + h.invites_remaining = Quota
    BY <2>1, <2>2, OnboardingAssumption
  <2>. QED  BY <1>3, <2>3, <2>4
<1>5. ASSUME NEW u \in User, NEW s \in {"active", "locked", "closed"}, update_user_info(u, s)
      PROVE  WholeInv'
  <2> DEFINE h == [people[u] EXCEPT !.status = s]
  <2>1. h.status = s /\ h.invites_remaining = people[u].invites_remaining
    BY RowTypes DEF Person
  <2>2. people' = [people EXCEPT ![u] = h] /\ allowance' = allowance
    BY <1>5 DEF update_user_info
  <2>. HIDE DEF h
  <2>3. allowance' = [allowance EXCEPT ![u] = allowance[u]]
    BY <2>2 DEF OnboardingTypeOK
  <2>4. h.status # "absent" /\ Cardinality(Sent(u)) + h.invites_remaining = allowance[u]
    BY <2>1 DEF WholeInv, InQuota
  <2>. QED  BY <1>3, <2>2, <2>3, <2>4
<1>6. ASSUME NEW u \in User, NEW n \in Grant, SetInvitesRemaining(u, n)
      PROVE  WholeInv'
  <2> DEFINE h == [people[u] EXCEPT !.invites_remaining = n]
  <2>1. h.status = people[u].status /\ h.invites_remaining = n
    BY RowTypes DEF Person
  <2>2. /\ people' = [people EXCEPT ![u] = h] /\ people[u].status # "absent"
        /\ allowance' = [allowance EXCEPT ![u] = Cardinality(Sent(u)) + n]
    BY <1>6 DEF SetInvitesRemaining, Exists
  <2>. HIDE DEF h
  <2>. QED  BY <1>3, <2>1, <2>2
<1>. QED  BY <1>4, <1>5, <1>6 DEF Staffing

(* Invitations.                                                            *)
LEMMA InviteWhole ==
  ASSUME OnboardingTypeOK, WholeInv, Inviting
  PROVE  WholeInv'
<1>1. UNCHANGED <<verification_challenges, register_keys, visit, allowance>>
  BY DEF Inviting, create_invitation, invitation_expires
<1>2. ASSUME InvitationsStay
      PROVE  /\ \A n \in RegKey : KeyRight(n)'
             /\ \A r \in Request : VisitRight(r)'
  BY <1>1, <1>2, KeysStay, VisitsStay
<1>3. ASSUME NEW u \in User, create_invitation(u)
      PROVE  WholeInv'
  <2> DEFINE k == Len(invitations) + 1
             new == [inviter |-> u, invitee |-> NoUser, expired |-> FALSE]
             h == [people[u] EXCEPT !.invites_remaining = people[u].invites_remaining - 1]
  <2>1. /\ DOMAIN invitations = 1..Len(invitations) /\ Len(invitations) \in Nat
        /\ \A v : IsFiniteSet(Sent(v)) /\ Cardinality(Sent(v)) \in Nat
    BY InvitationRows
  <2>2. invitations' = Append(invitations, new)
    BY <1>3 DEF create_invitation
  <2>3. new.inviter = u /\ new.invitee = NoUser
    OBVIOUS
  <2>. HIDE DEF new
  <2>4. /\ DOMAIN invitations' = 1..k /\ invitations'[k] = new /\ k \notin DOMAIN invitations
        /\ \A i \in DOMAIN invitations : i \in DOMAIN invitations' /\ invitations'[i] = invitations[i]
        /\ \A i \in DOMAIN invitations' : i \in DOMAIN invitations \/ i = k
    BY <2>1, <2>2 DEF OnboardingTypeOK
  <2>. HIDE DEF k
  <2>5. InvitationsStay
    BY <2>4 DEF InvitationsStay
  <2>6. ASSUME NEW v \in User
        PROVE  Mine(v)' = Mine(v) /\ (v # u => Sent(v)' = Sent(v))
    BY <2>3, <2>4, OnboardingAssumption DEF Mine, Sent
  <2>7. Sent(u)' = Sent(u) \cup {k} /\ k \notin Sent(u)
    <3>1. k \in DOMAIN invitations' /\ invitations'[k].inviter = u
      BY <2>3, <2>4, k \in 1..k, <2>1 DEF k
    <3>2. k \notin Sent(u)
      BY <2>4 DEF Sent
    <3>3. ASSUME NEW i
          PROVE  i \in Sent(u)' <=> i \in Sent(u) \cup {k}
      BY <2>4, <3>1 DEF Sent
    <3>. QED  BY <3>2, <3>3
  <2>8. Cardinality(Sent(u)') = Cardinality(Sent(u)) + 1
    BY <2>1, <2>7, FS_AddElement
  <2>9. /\ people' = [people EXCEPT ![u] = h] /\ people[u].status = "active"
    BY <1>3 DEF create_invitation, MayInvite
  <2>10. h.status = people[u].status /\ h.invites_remaining = people[u].invites_remaining - 1
         /\ people[u].invites_remaining \in Nat
    BY RowTypes DEF Person
  <2>. HIDE DEF h
  <2>11. people'[u] = h /\ \A v \in User : v # u => people'[v] = people[v]
    BY <2>9 DEF OnboardingTypeOK
  <2>12. ASSUME NEW v \in User
         PROVE  Admitted(v)'
    <3>1. \A i \in Mine(v) : i \in DOMAIN invitations /\ invitations'[i] = invitations[i]
      BY <2>4 DEF Mine
    <3>2. Admitted(v) /\ Mine(v)' = Mine(v)
      BY <2>6 DEF WholeInv
    <3>. QED  BY <1>1, <3>1, <3>2 DEF Admitted
  <2>13. InQuota(u)' /\ NewHere(u)'
    <3>1. Cardinality(Sent(u)) + people[u].invites_remaining = allowance[u]
      BY DEF WholeInv, InQuota
    <3>. QED  BY <1>1, <2>1, <2>8, <2>9, <2>10, <2>11, <3>1 DEF InQuota, NewHere, Exists
  <2>14. ASSUME NEW v \in User, v # u
         PROVE  InQuota(v)' /\ NewHere(v)'
    BY <1>1, <2>6, <2>11, <2>14 DEF InQuota, NewHere, Exists, WholeInv
  <2>. QED  BY <1>2, <2>5, <2>12, <2>13, <2>14 DEF WholeInv
<1>4. ASSUME NEW i \in DOMAIN invitations, invitation_expires(i)
      PROVE  WholeInv'
  <2> DEFINE e == [invitations[i] EXCEPT !.expired = TRUE]
  <2>1. e \in Invitation /\ e.inviter = invitations[i].inviter /\ e.invitee = invitations[i].invitee
    BY InvitationRows DEF Invitation
  <2>2. invitations' = [invitations EXCEPT ![i] = e] /\ UNCHANGED people
    BY <1>4 DEF invitation_expires
  <2>. HIDE DEF e
  <2>3. /\ DOMAIN invitations' = DOMAIN invitations
        /\ \A j \in DOMAIN invitations : /\ invitations'[j].inviter = invitations[j].inviter
                                         /\ invitations'[j].invitee = invitations[j].invitee
    BY <2>1, <2>2, Replaced DEF OnboardingTypeOK
  <2>4. InvitationsStay /\ \A v : Sent(v)' = Sent(v) /\ Mine(v)' = Mine(v)
    BY <2>3 DEF InvitationsStay, Sent, Mine
  <2>5. ASSUME NEW v \in User
        PROVE  NewHere(v)' /\ InQuota(v)' /\ Admitted(v)'
    <3>1. NewHere(v) /\ InQuota(v) /\ Admitted(v)
      BY DEF WholeInv
    <3>2. Admitted(v)'
      <4>1. \A j \in Mine(v) : invitations'[j].inviter = invitations[j].inviter
        BY <2>3 DEF Mine
      <4>. QED  BY <1>1, <2>4, <3>1, <4>1 DEF Admitted
    <3>. QED  BY <1>1, <2>2, <2>4, <3>1, <3>2 DEF NewHere, Exists, InQuota
  <2>. QED  BY <1>2, <2>4, <2>5 DEF WholeInv
<1>. QED  BY <1>3, <1>4 DEF Inviting

(* The registration itself.                                                *)
LEMMA RegisterWhole ==
  ASSUME OnboardingTypeOK, WholeInv, NEW n \in RegKey, NEW u \in User,
         NEW i \in DOMAIN invitations, register_user(n, u, i)
  PROVE  WholeInv'
<1> DEFINE e == [invitations[i] EXCEPT !.invitee = u]
           c == [status |-> "pending", code |-> 1, attempts |-> 0,
                 recent |-> TRUE, lapsed |-> FALSE]
           k == [username |-> u, invite_code |-> i, response |-> u, aged |-> FALSE]
           h == Newcomer("locked", "pending_verification")
<1>1. e \in Invitation /\ e.inviter = invitations[i].inviter /\ e.invitee = u
  BY InvitationRows DEF Invitation
<1>2. c.status = "pending" /\ h.status = "locked" /\ h.invites_remaining = Quota
  BY DEF Newcomer
<1>3. k.username = u /\ k.invite_code = i /\ k.response = u
  OBVIOUS
<1>4. /\ invitations' = [invitations EXCEPT ![i] = e]
      /\ verification_challenges' = [verification_challenges EXCEPT ![u] = c]
      /\ register_keys' = [register_keys EXCEPT ![n] = k]
      /\ people' = [people EXCEPT ![u] = h]
      /\ allowance' = [allowance EXCEPT ![u] = Quota]
      /\ visit' = visit
      /\ ~Exists(u) /\ invitations[i].invitee = NoUser
  BY DEF register_user, Redeemable, Consumed
<1>. HIDE DEF e, c, k, h
<1>5. /\ DOMAIN invitations' = DOMAIN invitations
      /\ \A j \in DOMAIN invitations : invitations'[j] = IF j = i THEN e ELSE invitations[j]
  BY <1>1, <1>4, Replaced DEF OnboardingTypeOK
<1>6. /\ verification_challenges'[u] = c /\ people'[u] = h /\ allowance'[u] = Quota
      /\ register_keys'[n] = k
      /\ \A v \in User : v # u => /\ verification_challenges'[v] = verification_challenges[v]
                                  /\ people'[v] = people[v] /\ allowance'[v] = allowance[v]
      /\ \A m \in RegKey : m # n => register_keys'[m] = register_keys[m]
  BY <1>4 DEF OnboardingTypeOK
<1>7. InvitationsStay
  BY <1>4, <1>5 DEF InvitationsStay
<1>8. /\ \A v : Sent(v)' = Sent(v)
      /\ \A v \in User : v # u => Mine(v)' = Mine(v)
      /\ Mine(u)' = Mine(u) \cup {i}
  BY <1>1, <1>4, <1>5, OnboardingAssumption DEF Sent, Mine
<1>9. Sent(u) = {} /\ Mine(u) = {}
  BY <1>4 DEF WholeInv, NewHere, Admitted
<1>10. NewHere(u)' /\ InQuota(u)'
  <2>1. Cardinality(Sent(u)') = 0
    BY <1>8, <1>9, FS_EmptySet
  <2>. QED  BY <1>2, <1>6, <2>1, OnboardingAssumption DEF NewHere, Exists, InQuota
<1>11. Admitted(u)'
  <2>1. Mine(u)' = {i} /\ invitations'[i] = e
    BY <1>5, <1>8, <1>9
  <2>2. e.inviter # u
    BY <1>1, <1>9 DEF Sent
  <2>. QED  BY <1>2, <1>6, <2>1, <2>2 DEF Admitted
<1>12. ASSUME NEW v \in User, v # u
       PROVE  NewHere(v)' /\ InQuota(v)' /\ Admitted(v)'
  <2>1. NewHere(v) /\ InQuota(v) /\ Admitted(v)
    BY DEF WholeInv
  <2>2. \A j \in Mine(v) : invitations'[j] = invitations[j]
    BY <1>4, <1>5, <1>12, OnboardingAssumption DEF Mine
  <2>. QED  BY <1>6, <1>8, <1>12, <2>1, <2>2 DEF NewHere, Exists, InQuota, Admitted
<1>13. KeyRight(n)'
  BY <1>1, <1>3, <1>5, <1>6 DEF KeyRight
<1>14. \A m \in RegKey : m # n => KeyRight(m)'
  BY <1>6, <1>7, KeysStay
<1>15. \A r \in Request : VisitRight(r)'
  BY <1>4, <1>7, VisitsStay
<1>. QED  BY <1>10, <1>11, <1>12, <1>13, <1>14, <1>15 DEF WholeInv

(* A replay answers with the row that the key has by then.                 *)
LEMMA ReplayRight ==
  ASSUME OnboardingTypeOK, WholeInv, NEW r \in Request, register_replay(r)
  PROVE  VisitRight(r)'
<1> DEFINE n == visit[r].key
           row == register_keys[n]
           v == [todo |-> "answered", key |-> n, username |-> visit[r].username,
                 invite_code |-> visit[r].invite_code, response |-> row.response]
<1>1. /\ visit[r].todo = "replay" /\ invitations' = invitations
      /\ visit' = [visit EXCEPT ![r] = IF SameRequest(row, visit[r]) THEN v ELSE Done]
  BY DEF register_replay
<1>2. n \in RegKey /\ KeyRight(n)
  BY <1>1, VisitRows DEF WholeInv
<1>3. /\ v.todo = "answered" /\ v.response = row.response
      /\ v.username = visit[r].username /\ v.invite_code = visit[r].invite_code
  OBVIOUS
<1>4. Done.todo = "none" /\ Unused.response = NoUser
  BY DEF Done, Unused
<1>5. visit'[r] = IF SameRequest(row, visit[r]) THEN v ELSE Done
  <2>. HIDE DEF v, row
  <2>. QED  BY <1>1 DEF OnboardingTypeOK
<1>. HIDE DEF v
<1>6. CASE SameRequest(row, visit[r]) /\ row # Unused
  <2>1. row.username = visit[r].username /\ row.invite_code = visit[r].invite_code
    BY <1>6 DEF SameRequest
  <2>2. /\ row.invite_code \in DOMAIN invitations
        /\ row.response = row.username /\ invitations[row.invite_code].invitee = row.username
    BY <1>2, <1>6 DEF KeyRight
  <2>3. visit'[r] = v
    BY <1>5, <1>6
  <2>. QED  BY <1>1, <1>3, <2>1, <2>2, <2>3 DEF VisitRight
<1>7. CASE row = Unused /\ SameRequest(row, visit[r])
  BY <1>3, <1>4, <1>5, <1>7 DEF VisitRight
<1>8. CASE ~SameRequest(row, visit[r])
  BY <1>4, <1>5, <1>8 DEF VisitRight
<1>. QED  BY <1>6, <1>7, <1>8

LEMMA RegisteringWhole ==
  ASSUME OnboardingTypeOK, WholeInv, Registering
  PROVE  WholeInv'
<1>1. ASSUME UNCHANGED <<people, invitations, verification_challenges, allowance>>,
             \A n \in RegKey : KeyRight(n)',
             \A r \in Request : VisitRight(r)'
      PROVE  WholeInv'
  <2>1. \A u \in User : NewHere(u)' /\ InQuota(u)' /\ Admitted(u)'
    BY <1>1, UserStays
  <2>. QED  BY <1>1, <2>1 DEF WholeInv
<1>2. ASSUME NEW n \in RegKey, NEW u \in User, NEW i \in DOMAIN invitations, NEW r \in Request,
             register_conflict(r, n, u, i)
      PROVE  WholeInv'
  <2> DEFINE v == [todo |-> "replay", key |-> n, username |-> u,
                   invite_code |-> i, response |-> NoUser]
  <2>1. v.todo = "replay"
    OBVIOUS
  <2>2. /\ visit' = [visit EXCEPT ![r] = v]
        /\ UNCHANGED <<people, invitations, verification_challenges, register_keys, allowance>>
    BY <1>2 DEF register_conflict
  <2>. HIDE DEF v
  <2>3. \A s \in Request : visit'[s] = visit[s] \/ visit'[s].todo # "answered"
    BY <2>1, <2>2 DEF OnboardingTypeOK
  <2>. QED  BY <1>1, <2>2, <2>3, SameInvitations, KeysStay, VisitsStay
<1>3. ASSUME NEW r \in Request, register_replay(r)
      PROVE  WholeInv'
  <2>1. /\ UNCHANGED <<people, invitations, verification_challenges, register_keys, allowance>>
        /\ \A s \in Request : s # r => visit'[s] = visit[s]
    BY <1>3 DEF register_replay, OnboardingTypeOK
  <2>2. \A s \in Request : VisitRight(s)'
    BY <1>3, <2>1, ReplayRight, SameInvitations, VisitsStay
  <2>. QED  BY <1>1, <2>1, <2>2, SameInvitations, KeysStay
<1>4. ASSUME NEW n \in RegKey, register_key_ages(n)
      PROVE  WholeInv'
  <2>1. /\ UNCHANGED <<people, invitations, verification_challenges, visit, allowance>>
        /\ register_keys[n] # Unused
        /\ register_keys' = [register_keys EXCEPT ![n] = [register_keys[n] EXCEPT !.aged = TRUE]]
    BY <1>4 DEF register_key_ages
  <2>2. \A m \in RegKey : register_keys'[m] =
          IF m = n THEN [register_keys[n] EXCEPT !.aged = TRUE] ELSE register_keys[m]
    BY <2>1 DEF OnboardingTypeOK
  <2>3. \A m \in RegKey : KeyRight(m)'
    BY <2>1, <2>2, SameInvitations, KeysStay
  <2>. QED  BY <1>1, <2>1, <2>3, SameInvitations, VisitsStay
<1>5. CASE cleanup_register_keys
  <2>1. /\ UNCHANGED <<people, invitations, verification_challenges, visit, allowance>>
        /\ \A m \in RegKey : register_keys'[m] \in {Unused, register_keys[m]}
    BY <1>5 DEF cleanup_register_keys
  <2>2. \A m \in RegKey : KeyRight(m)'
    BY <2>1, SameInvitations, KeysStay
  <2>. QED  BY <1>1, <2>1, <2>2, SameInvitations, VisitsStay
<1>. QED  BY <1>2, <1>3, <1>4, <1>5, RegisterWhole DEF Registering

(* Verification moves challenges that exist, and people only in what they  *)
(* may do.                                                                 *)
LEMMA VerifyWhole ==
  ASSUME OnboardingTypeOK, WholeInv, Verifying
  PROVE  WholeInv'
<1>1. UNCHANGED <<invitations, register_keys, allowance>>
  BY DEF Verifying, verify_contact, cooldown_passes, challenge_lapses, verify_contact_wrong,
         ChallengeByToken, record_failed_verification, create_verification_challenge, leave,
         expire_verification_challenges
<1>2. ASSUME \A u \in User :
               /\ people'[u] = people[u]
               /\ \/ verification_challenges'[u] = verification_challenges[u]
                  \/ /\ verification_challenges[u].status # "none"
                     /\ verification_challenges'[u].status # "none",
             \A r \in Request : visit'[r] = visit[r] \/ visit'[r].todo # "answered"
      PROVE  WholeInv'
  <2>1. \A u \in User : NewHere(u)' /\ InQuota(u)' /\ Admitted(u)'
    BY <1>1, <1>2, UserStays
  <2>2. /\ \A n \in RegKey : KeyRight(n)'
        /\ \A r \in Request : VisitRight(r)'
    BY <1>1, <1>2, SameInvitations, KeysStay, VisitsStay
  <2>. QED  BY <2>1, <2>2 DEF WholeInv
<1>3. ASSUME NEW u \in User, NEW code \in 1..MaxCodes, verify_contact(u, code)
      PROVE  WholeInv'
  <2> DEFINE onb == IF people[u].onboarding = "pending_verification" THEN "verified"
                    ELSE people[u].onboarding
             st == IF people[u].status = "locked" THEN "active" ELSE people[u].status
             c == [verification_challenges[u] EXCEPT !.status = "verified"]
             h == [people[u] EXCEPT !.onboarding = onb, !.status = st]
  <2>1. /\ c.status = "verified" /\ verification_challenges[u].status = "pending"
        /\ h.invites_remaining = people[u].invites_remaining
        /\ h.status = st
    BY <1>3, RowTypes DEF verify_contact, Open, Challenge, Person
  <2>2. /\ verification_challenges' = [verification_challenges EXCEPT ![u] = c]
        /\ people' = [people EXCEPT ![u] = h] /\ UNCHANGED visit
    BY <1>3 DEF verify_contact
  <2>3. people[u].status # "absent" /\ st # "absent"
    BY <2>1, RowTypes DEF WholeInv, NewHere, Exists, Person
  <2>. HIDE DEF c, h, st
  <2>4. /\ verification_challenges'[u] = c /\ people'[u] = h
        /\ \A v \in User : v # u => /\ people'[v] = people[v]
                                    /\ verification_challenges'[v] = verification_challenges[v]
    BY <2>2 DEF OnboardingTypeOK
  <2>5. NewHere(u)' /\ InQuota(u)' /\ Admitted(u)'
    <3>1. /\ InQuota(u) /\ Admitted(u)
          /\ Sent(u)' = Sent(u) /\ Mine(u)' = Mine(u)
      BY <1>1, SameInvitations DEF WholeInv
    <3>. QED  BY <1>1, <2>1, <2>3, <2>4, <3>1 DEF NewHere, Exists, InQuota, Admitted
  <2>6. \A v \in User : v # u => NewHere(v)' /\ InQuota(v)' /\ Admitted(v)'
    BY <1>1, <2>4, UserStays
  <2>7. /\ \A n \in RegKey : KeyRight(n)'
        /\ \A r \in Request : VisitRight(r)'
    BY <1>1, <2>2, SameInvitations, KeysStay, VisitsStay
  <2>. QED  BY <2>5, <2>6, <2>7 DEF WholeInv
<1>4. ASSUME NEW u \in User, NEW r \in Request,
             verify_contact_wrong(r, u) \/ ChallengeByToken(r, u)
      PROVE  WholeInv'
  <2>1. /\ [todo |-> "record", user |-> u].todo # "answered"
        /\ [todo |-> "resend", user |-> u].todo # "answered"
    OBVIOUS
  <2>2. PICK v : visit' = [visit EXCEPT ![r] = v] /\ v.todo # "answered"
    BY <1>4, <2>1 DEF verify_contact_wrong, ChallengeByToken
  <2>3. UNCHANGED <<people, verification_challenges>>
    BY <1>4 DEF verify_contact_wrong, ChallengeByToken
  <2>4. \A s \in Request : visit'[s] = visit[s] \/ visit'[s].todo # "answered"
    BY <2>2 DEF OnboardingTypeOK
  <2>. QED  BY <1>2, <2>3, <2>4
<1>5. Done.todo # "answered"
  BY DEF Done
<1>6. ASSUME NEW r \in Request, visit' = [visit EXCEPT ![r] = Done]
      PROVE  \A s \in Request : visit'[s] = visit[s] \/ visit'[s].todo # "answered"
  BY <1>5, <1>6 DEF OnboardingTypeOK
<1>7. ASSUME NEW r \in Request, record_failed_verification(r)
      PROVE  WholeInv'
  <2> DEFINE u == visit[r].user
             n == IF verification_challenges[u].status = "pending"
                  THEN verification_challenges[u].attempts + 1
                  ELSE verification_challenges[u].attempts
             c == [verification_challenges[u] EXCEPT !.attempts = n]
  <2>1. u \in User
    BY <1>7, VisitRows DEF record_failed_verification
  <2>2. /\ verification_challenges' = [verification_challenges EXCEPT ![u] = c]
        /\ visit' = [visit EXCEPT ![r] = Done] /\ UNCHANGED people
    BY <1>7 DEF record_failed_verification
  <2>3. n = verification_challenges[u].attempts \/ verification_challenges[u].status = "pending"
    OBVIOUS
  <2>. HIDE DEF n
  <2>4. c.status = verification_challenges[u].status
    BY <2>1, RowTypes DEF Challenge
  <2>5. n = verification_challenges[u].attempts => c = verification_challenges[u]
    BY <2>1, RowTypes DEF Challenge
  <2>. HIDE DEF c
  <2>6. \A v \in User : \/ verification_challenges'[v] = verification_challenges[v]
                        \/ /\ verification_challenges[v].status # "none"
                           /\ verification_challenges'[v].status # "none"
    BY <2>1, <2>2, <2>3, <2>4, <2>5 DEF OnboardingTypeOK
  <2>. QED  BY <1>2, <1>6, <2>2, <2>6
<1>8. ASSUME NEW r \in Request, create_verification_challenge(r)
      PROVE  WholeInv'
  <2> DEFINE u == visit[r].user
             c == [status |-> "pending", code |-> verification_challenges[u].code + 1,
                   attempts |-> 0, recent |-> TRUE, lapsed |-> FALSE]
  <2>1. c.status = "pending" /\ (Refreshable(u) => verification_challenges[u].status = "pending")
    BY DEF Refreshable
  <2>2. /\ verification_challenges' = IF Refreshable(u)
                                      THEN [verification_challenges EXCEPT ![u] = c]
                                      ELSE verification_challenges
        /\ visit' = [visit EXCEPT ![r] = Done] /\ UNCHANGED people
    BY <1>8 DEF create_verification_challenge
  <2>. HIDE DEF c
  <2>3. \A v \in User : \/ verification_challenges'[v] = verification_challenges[v]
                        \/ /\ verification_challenges[v].status # "none"
                           /\ verification_challenges'[v].status # "none"
    BY <2>1, <2>2 DEF OnboardingTypeOK
  <2>. QED  BY <1>2, <1>6, <2>2, <2>3
<1>9. ASSUME NEW u \in User, cooldown_passes(u) \/ challenge_lapses(u)
      PROVE  WholeInv'
  <2> DEFINE later == [verification_challenges[u] EXCEPT !.recent = FALSE]
             lapsed == [verification_challenges[u] EXCEPT !.lapsed = TRUE]
  <2>1. /\ later.status = verification_challenges[u].status
        /\ lapsed.status = verification_challenges[u].status
    BY RowTypes DEF Challenge
  <2>2. /\ UNCHANGED <<people, visit>>
        /\ \/ verification_challenges' = [verification_challenges EXCEPT ![u] = later]
           \/ verification_challenges' = [verification_challenges EXCEPT ![u] = lapsed]
    BY <1>9 DEF cooldown_passes, challenge_lapses
  <2>. HIDE DEF later, lapsed
  <2>3. /\ verification_challenges'[u].status = verification_challenges[u].status
        /\ \A v \in User : v # u => verification_challenges'[v] = verification_challenges[v]
    BY <2>1, <2>2 DEF OnboardingTypeOK
  <2>4. \A v \in User : NewHere(v)' /\ InQuota(v)' /\ Admitted(v)'
    <3>1. ASSUME NEW v \in User
          PROVE  /\ Sent(v)' = Sent(v) /\ Mine(v)' = Mine(v)
                 /\ verification_challenges'[v].status = verification_challenges[v].status
                 /\ NewHere(v) /\ InQuota(v) /\ Admitted(v)
      BY <1>1, <2>3, SameInvitations DEF WholeInv
    <3>. QED  BY <1>1, <2>2, <3>1 DEF NewHere, Exists, InQuota, Admitted
  <2>5. /\ \A n \in RegKey : KeyRight(n)'
        /\ \A r \in Request : VisitRight(r)'
    BY <1>1, <2>2, SameInvitations, KeysStay, VisitsStay
  <2>. QED  BY <2>4, <2>5 DEF WholeInv
<1>10. CASE expire_verification_challenges
  <2>1. \A u \in User : [verification_challenges[u] EXCEPT !.status = "expired"].status = "expired"
    BY RowTypes DEF Challenge
  <2>2. /\ UNCHANGED <<people, visit>>
        /\ \A u \in User : \/ verification_challenges'[u] = verification_challenges[u]
                           \/ /\ verification_challenges[u].status = "pending"
                              /\ verification_challenges'[u].status = "expired"
    BY <1>10, <2>1 DEF expire_verification_challenges
  <2>. QED  BY <1>2, <2>2
<1>11. ASSUME NEW r \in Request, leave(r)
       PROVE  WholeInv'
  BY <1>2, <1>6, <1>11 DEF leave
<1>. QED  BY <1>3, <1>4, <1>7, <1>8, <1>9, <1>10, <1>11 DEF Verifying

LEMMA WholeStep ==
  ASSUME OnboardingTypeOK, WholeInv, [OnboardingNext]_onboarding_vars
  PROVE  WholeInv'
<1>1. CASE UNCHANGED onboarding_vars
  <2>1. /\ UNCHANGED <<people, invitations, verification_challenges, register_keys, visit>>
        /\ UNCHANGED allowance
    BY <1>1 DEF onboarding_vars
  <2>. QED  BY <2>1, UserStays, SameInvitations, KeysStay, VisitsStay DEF WholeInv
<1>. QED  BY <1>1, StaffWhole, InviteWhole, RegisteringWhole, VerifyWhole DEF OnboardingNext

LEMMA WholeInit ==
  ASSUME OnboardingInit
  PROVE  WholeInv
<1>1. \A u \in User : Sent(u) = {} /\ Mine(u) = {}
  BY DEF OnboardingInit, Sent, Mine
<1>2. ASSUME NEW u \in User
      PROVE  NewHere(u) /\ InQuota(u) /\ Admitted(u)
  <2>1. NoChallenge.status = "none" /\ Absent.invites_remaining = 0 /\ Absent.status = "absent"
    BY DEF NoChallenge, Absent
  <2>2. Newcomer("active", "active").status = "active"
        /\ Newcomer("active", "active").invites_remaining = Quota
    BY DEF Newcomer
  <2>3. Cardinality(Sent(u)) = 0
    BY <1>1, FS_EmptySet
  <2>4. verification_challenges[u].status = "none" /\ (~Exists(u) => people[u] = Absent)
    BY <2>1, <2>2 DEF OnboardingInit, Exists
  <2>5. people[u].invites_remaining = allowance[u] /\ allowance[u] \in Nat
    BY <2>1, <2>2, OnboardingAssumption DEF OnboardingInit
  <2>. QED  BY <1>1, <2>3, <2>4, <2>5 DEF NewHere, InQuota, Admitted
<1>3. \A n \in RegKey : KeyRight(n)
  BY DEF OnboardingInit, KeyRight
<1>4. \A r \in Request : VisitRight(r)
  BY DEF OnboardingInit, VisitRight, Done
<1>. QED  BY <1>2, <1>3, <1>4 DEF WholeInv

(* What a user has sent and may yet send adds up to what they were         *)
(* granted.  Inductive with that a username nobody has yet has sent        *)
(* nothing.                                                                *)
THEOREM QuotaAlwaysHolds == OnboardingSpec => []InvitationsWithinQuota
<1>1. OnboardingInit => OnboardingTypeOK /\ WholeInv
  BY OnboardingTypeInit, WholeInit
<1>2. OnboardingTypeOK /\ WholeInv /\ [OnboardingNext]_onboarding_vars
        => (OnboardingTypeOK /\ WholeInv)'
  BY OnboardingTypeStep, WholeStep
<1>3. WholeInv => InvitationsWithinQuota
  BY DEF WholeInv, InQuota, InvitationsWithinQuota
<1>. QED  BY <1>1, <1>2, <1>3, PTL DEF OnboardingSpec

(* A registration is whole: one invitation makes one account, and a key or *)
(* a replay names the account that its own parameters made.                *)
THEOREM RegistrationsAlwaysWhole == OnboardingSpec => []RegistrationIsWhole
<1>1. OnboardingInit => OnboardingTypeOK /\ WholeInv
  BY OnboardingTypeInit, WholeInit
<1>2. OnboardingTypeOK /\ WholeInv /\ [OnboardingNext]_onboarding_vars
        => (OnboardingTypeOK /\ WholeInv)'
  BY OnboardingTypeStep, WholeStep
<1>3. WholeInv => RegistrationIsWhole
  BY DEF WholeInv, Admitted, Mine, KeyRight, VisitRight, RegistrationIsWhole
<1>. QED  BY <1>1, <1>2, <1>3, PTL DEF OnboardingSpec

-----------------------------------------------------------------------------
(* Wrong codes.                                                            *)

InFlight(u) == {r \in Request : visit[r].todo = "record" /\ visit[r].user = u}
Tried(u)    == verification_challenges[u].attempts

LEMMA FewInFlight ==
  /\ Cardinality(Request) \in Nat
  /\ \A S \in SUBSET Request : /\ IsFiniteSet(S) /\ Cardinality(S) \in Nat
                               /\ Cardinality(S) <= Cardinality(Request)
BY FS_Subset, FS_CardinalityType, OnboardingAssumption

LEMMA TriedType ==
  ASSUME OnboardingTypeOK, NEW u \in User
  PROVE  Tried(u) \in Nat
BY RowTypes DEF Tried, Challenge

(* No more in flight, and no more tried or none yet.                       *)
LEMMA NoMore ==
  ASSUME OnboardingTypeOK, OnboardingTypeOK', AttemptsBounded,
         \A u \in User : Tried(u)' <= Tried(u) \/ Tried(u)' = 0,
         \A u \in User : InFlight(u)' \subseteq InFlight(u)
  PROVE  AttemptsBounded'
<1>1. ASSUME NEW u \in User
      PROVE  Tried(u)' + Cardinality(InFlight(u)') < MaxAttempts + Cardinality(Request)
  <2>1. /\ Tried(u) + Cardinality(InFlight(u)) < MaxAttempts + Cardinality(Request)
        /\ Tried(u) \in Nat
    BY TriedType DEF AttemptsBounded, Tried, InFlight
  <2>0. Tried(u)' \in Nat
    BY DEF OnboardingTypeOK, Tried, Challenge
  <2>2. InFlight(u) \in SUBSET Request /\ InFlight(u)' \in SUBSET Request
    BY DEF InFlight
  <2>3. /\ IsFiniteSet(InFlight(u))
        /\ Cardinality(InFlight(u)) \in Nat /\ Cardinality(InFlight(u)') \in Nat
        /\ Cardinality(InFlight(u)') <= Cardinality(Request)
        /\ Cardinality(Request) \in Nat
    BY <2>2, FewInFlight
  <2>4. Cardinality(InFlight(u)') <= Cardinality(InFlight(u))
    BY <2>3, FS_Subset, InFlight(u)' \in SUBSET InFlight(u)
  <2>5. MaxAttempts \in Nat /\ MaxAttempts > 0
    BY OnboardingAssumption
  <2>6. CASE Tried(u)' <= Tried(u)
    BY <2>0, <2>1, <2>3, <2>4, <2>5, <2>6
  <2>7. CASE Tried(u)' = 0
    BY <2>3, <2>5, <2>7
  <2>. QED  BY <2>6, <2>7
<1>. QED  BY <1>1 DEF AttemptsBounded, Tried, InFlight

(* A visit that is not about to count.                                     *)
LEMMA NotCounting ==
  ASSUME OnboardingTypeOK, NEW r \in Request, NEW v, v.todo # "record",
         visit' = [visit EXCEPT ![r] = v]
  PROVE  \A u \in User : InFlight(u)' \subseteq InFlight(u)
<1>1. /\ visit'[r] = v
      /\ \A s \in Request : s # r => visit'[s] = visit[s]
  BY DEF OnboardingTypeOK
<1>. QED  BY <1>1 DEF InFlight

(* A wrong code is let in only while tries are left.                       *)
LEMMA WrongCounts ==
  ASSUME OnboardingTypeOK, OnboardingTypeOK', AttemptsBounded,
         NEW r \in Request, NEW u \in User, verify_contact_wrong(r, u)
  PROVE  AttemptsBounded'
<1> DEFINE v == [todo |-> "record", user |-> u]
<1>1. /\ visit' = [visit EXCEPT ![r] = v] /\ UNCHANGED verification_challenges
      /\ Tried(u) < MaxAttempts
  BY DEF verify_contact_wrong, TriesLeft, Tried
<1>2. v.user = u
  OBVIOUS
<1>. HIDE DEF v
<1>3. /\ visit'[r] = v
      /\ \A s \in Request : s # r => visit'[s] = visit[s]
  BY <1>1 DEF OnboardingTypeOK
<1>4. ASSUME NEW w \in User
      PROVE  Tried(w)' + Cardinality(InFlight(w)') < MaxAttempts + Cardinality(Request)
  <2>1. /\ Tried(w) + Cardinality(InFlight(w)) < MaxAttempts + Cardinality(Request)
        /\ Tried(w) \in Nat /\ Tried(w)' = Tried(w) /\ MaxAttempts \in Nat
    BY <1>1, TriedType, OnboardingAssumption DEF AttemptsBounded, Tried, InFlight
  <2>2. InFlight(w) \in SUBSET Request /\ InFlight(w)' \in SUBSET Request
    BY DEF InFlight
  <2>3. /\ IsFiniteSet(InFlight(w)) /\ Cardinality(InFlight(w)) \in Nat
        /\ Cardinality(InFlight(w)') \in Nat /\ Cardinality(InFlight(w)') <= Cardinality(Request)
        /\ Cardinality(Request) \in Nat
    BY <2>2, FewInFlight
  <2>4. CASE w = u
    BY <1>1, <2>1, <2>3, <2>4
  <2>5. CASE w # u
    <3>1. InFlight(w)' \in SUBSET InFlight(w)
      BY <1>2, <1>3, <2>5 DEF InFlight
    <3>2. Cardinality(InFlight(w)') <= Cardinality(InFlight(w))
      BY <2>3, <3>1, FS_Subset
    <3>. QED  BY <2>1, <2>3, <3>2
  <2>. QED  BY <2>4, <2>5
<1>. QED  BY <1>4 DEF AttemptsBounded, Tried, InFlight

(* A count adds one try and takes one request out of flight.               *)
LEMMA CountCounts ==
  ASSUME OnboardingTypeOK, OnboardingTypeOK', AttemptsBounded,
         NEW r \in Request, record_failed_verification(r)
  PROVE  AttemptsBounded'
<1>1. PICK u \in User : u = visit[r].user /\ visit[r].todo = "record"
  BY VisitRows DEF record_failed_verification
<1> DEFINE more == IF verification_challenges[u].status = "pending"
                   THEN verification_challenges[u].attempts + 1
                   ELSE verification_challenges[u].attempts
<1>2. PICK n : n = more
  OBVIOUS
<1> DEFINE c == [verification_challenges[u] EXCEPT !.attempts = n]
<1>3. /\ verification_challenges' = [verification_challenges EXCEPT ![u] = c]
      /\ visit' = [visit EXCEPT ![r] = Done]
  BY <1>1, <1>2 DEF record_failed_verification
<1>8. n \in {Tried(u), Tried(u) + 1}
  BY <1>2 DEF Tried
<1>. HIDE DEF more
<1>4. c.attempts = n
  BY <1>1, RowTypes DEF Challenge
<1>. HIDE DEF c
<1>5. /\ Tried(u)' = n
      /\ \A w \in User : w # u => Tried(w)' = Tried(w)
      /\ visit'[r] = Done
      /\ \A s \in Request : s # r => visit'[s] = visit[s]
  BY <1>1, <1>3, <1>4 DEF OnboardingTypeOK, Tried
<1>6. Done.todo # "record"
  BY DEF Done
<1>7. ASSUME NEW w \in User
      PROVE  Tried(w)' + Cardinality(InFlight(w)') < MaxAttempts + Cardinality(Request)
  <2>1. /\ Tried(w) + Cardinality(InFlight(w)) < MaxAttempts + Cardinality(Request)
        /\ Tried(w) \in Nat /\ MaxAttempts \in Nat
    BY TriedType, OnboardingAssumption DEF AttemptsBounded, Tried, InFlight
  <2>2. InFlight(w) \in SUBSET Request
    BY DEF InFlight
  <2>3. /\ IsFiniteSet(InFlight(w)) /\ Cardinality(InFlight(w)) \in Nat
        /\ Cardinality(Request) \in Nat
    BY <2>2, FewInFlight
  <2>4. InFlight(w)' = InFlight(w) \ {r}
    BY <1>5, <1>6 DEF InFlight
  <2>5. Cardinality(InFlight(w) \ {r}) =
          IF r \in InFlight(w) THEN Cardinality(InFlight(w)) - 1 ELSE Cardinality(InFlight(w))
    BY <2>3, FS_RemoveElement
  <2>6. CASE w = u
    <3>1. r \in InFlight(u)
      BY <1>1 DEF InFlight
    <3>. QED  BY <1>5, <1>8, <2>1, <2>3, <2>4, <2>5, <2>6, <3>1
  <2>7. CASE w # u
    BY <1>5, <2>1, <2>3, <2>4, <2>5, <2>7
  <2>. QED  BY <2>6, <2>7
<1>. QED  BY <1>7 DEF AttemptsBounded, Tried, InFlight

LEMMA AttemptsStep ==
  ASSUME OnboardingTypeOK, AttemptsBounded, [OnboardingNext]_onboarding_vars
  PROVE  AttemptsBounded'
<1>1. OnboardingTypeOK'
  BY OnboardingTypeStep
<1>2. ASSUME \A u \in User : Tried(u)' <= Tried(u) \/ Tried(u)' = 0, UNCHANGED visit
      PROVE  AttemptsBounded'
  <2>1. \A u \in User : InFlight(u)' \subseteq InFlight(u)
    BY <1>2 DEF InFlight
  <2>. QED  BY <1>1, <1>2, <2>1, NoMore
<1>3. ASSUME UNCHANGED verification_challenges
      PROVE  \A u \in User : Tried(u)' <= Tried(u) \/ Tried(u)' = 0
  BY <1>3, TriedType DEF Tried
<1>4. ASSUME NEW r \in Request, NEW v, v.todo # "record", visit' = [visit EXCEPT ![r] = v],
             \A u \in User : Tried(u)' <= Tried(u) \/ Tried(u)' = 0
      PROVE  AttemptsBounded'
  BY <1>1, <1>4, NotCounting, NoMore
<1>5. CASE UNCHANGED onboarding_vars
  BY <1>2, <1>3, <1>5 DEF onboarding_vars
<1>6. CASE Staffing \/ Inviting
  BY <1>2, <1>3, <1>6
     DEF Staffing, create_user, update_user_info, SetInvitesRemaining,
         Inviting, create_invitation, invitation_expires
<1>7. ASSUME NEW n \in RegKey, NEW u \in User, NEW i \in DOMAIN invitations,
             register_user(n, u, i)
      PROVE  AttemptsBounded'
  <2> DEFINE c == [status |-> "pending", code |-> 1, attempts |-> 0,
                   recent |-> TRUE, lapsed |-> FALSE]
  <2>1. c.attempts = 0
    OBVIOUS
  <2>2. verification_challenges' = [verification_challenges EXCEPT ![u] = c] /\ UNCHANGED visit
    BY <1>7 DEF register_user
  <2>. HIDE DEF c
  <2>3. \A w \in User : Tried(w)' <= Tried(w) \/ Tried(w)' = 0
    BY <2>1, <2>2, TriedType DEF OnboardingTypeOK, Tried
  <2>. QED  BY <1>2, <2>2, <2>3
<1>8. ASSUME NEW n \in RegKey, NEW u \in User, NEW i \in DOMAIN invitations, NEW r \in Request,
             register_conflict(r, n, u, i)
      PROVE  AttemptsBounded'
  <2>1. [todo |-> "replay", key |-> n, username |-> u,
         invite_code |-> i, response |-> NoUser].todo # "record"
    OBVIOUS
  <2>2. PICK v : visit' = [visit EXCEPT ![r] = v] /\ v.todo # "record"
    BY <1>8, <2>1 DEF register_conflict
  <2>. QED  BY <1>3, <1>4, <1>8, <2>2 DEF register_conflict
<1>9. ASSUME NEW r \in Request, register_replay(r)
      PROVE  AttemptsBounded'
  <2> DEFINE row == register_keys[visit[r].key]
             v == [todo |-> "answered", key |-> visit[r].key, username |-> visit[r].username,
                   invite_code |-> visit[r].invite_code, response |-> row.response]
  <2>1. v.todo # "record" /\ Done.todo # "record"
    BY DEF Done
  <2>2. visit' = [visit EXCEPT ![r] = IF SameRequest(row, visit[r]) THEN v ELSE Done]
    BY <1>9 DEF register_replay
  <2>. HIDE DEF v, row
  <2>3. PICK w : visit' = [visit EXCEPT ![r] = w] /\ w.todo # "record"
    BY <2>1, <2>2
  <2>. QED  BY <1>3, <1>4, <1>9, <2>3 DEF register_replay
<1>10. CASE cleanup_register_keys \/ \E n \in RegKey : register_key_ages(n)
  BY <1>2, <1>3, <1>10 DEF cleanup_register_keys, register_key_ages
<1>11. ASSUME NEW u \in User, NEW c, Tried(u) = c.attempts, UNCHANGED visit,
              verification_challenges' = [verification_challenges EXCEPT ![u] = c]
       PROVE  AttemptsBounded'
  <2>1. \A w \in User : Tried(w)' <= Tried(w) \/ Tried(w)' = 0
    BY <1>11, TriedType DEF OnboardingTypeOK, Tried
  <2>. QED  BY <1>2, <1>11, <2>1
<1>12. ASSUME NEW u \in User,
              \/ \E code \in 1..MaxCodes : verify_contact(u, code)
              \/ cooldown_passes(u) \/ challenge_lapses(u)
       PROVE  AttemptsBounded'
  <2> DEFINE verified == [verification_challenges[u] EXCEPT !.status = "verified"]
             later == [verification_challenges[u] EXCEPT !.recent = FALSE]
             lapsed == [verification_challenges[u] EXCEPT !.lapsed = TRUE]
  <2>1. /\ verified.attempts = Tried(u) /\ later.attempts = Tried(u)
        /\ lapsed.attempts = Tried(u)
    BY RowTypes DEF Challenge, Tried
  <2>2. /\ UNCHANGED visit
        /\ \E c \in {verified, later, lapsed} :
             verification_challenges' = [verification_challenges EXCEPT ![u] = c]
    BY <1>12 DEF verify_contact, cooldown_passes, challenge_lapses
  <2>. HIDE DEF verified, later, lapsed
  <2>. QED  BY <1>11, <2>1, <2>2
<1>13. ASSUME NEW u \in User, NEW r \in Request, ChallengeByToken(r, u)
       PROVE  AttemptsBounded'
  <2>1. [todo |-> "resend", user |-> u].todo # "record"
    OBVIOUS
  <2>2. PICK v : visit' = [visit EXCEPT ![r] = v] /\ v.todo # "record"
    BY <1>13, <2>1 DEF ChallengeByToken
  <2>. QED  BY <1>3, <1>4, <1>13, <2>2 DEF ChallengeByToken
<1>14. ASSUME NEW r \in Request, create_verification_challenge(r)
       PROVE  AttemptsBounded'
  <2>1. PICK u \in User : u = visit[r].user
    BY <1>14, VisitRows DEF create_verification_challenge
  <2> DEFINE c == [status |-> "pending", code |-> verification_challenges[u].code + 1,
                   attempts |-> 0, recent |-> TRUE, lapsed |-> FALSE]
  <2>2. c.attempts = 0 /\ Done.todo # "record"
    BY DEF Done
  <2>3. /\ \/ verification_challenges' = [verification_challenges EXCEPT ![u] = c]
           \/ verification_challenges' = verification_challenges
        /\ visit' = [visit EXCEPT ![r] = Done]
    BY <1>14, <2>1 DEF create_verification_challenge
  <2>. HIDE DEF c
  <2>4. \A w \in User : Tried(w)' <= Tried(w) \/ Tried(w)' = 0
    BY <2>2, <2>3, TriedType, SMTT(30) DEF OnboardingTypeOK, Tried
  <2>. QED  BY <1>4, <2>2, <2>3, <2>4
<1>15. CASE expire_verification_challenges
  <2>1. \A u \in User :
          [verification_challenges[u] EXCEPT !.status = "expired"].attempts = Tried(u)
    BY RowTypes DEF Challenge, Tried
  <2>2. \A u \in User : Tried(u)' = Tried(u)
    BY <1>15, <2>1 DEF expire_verification_challenges, Tried
  <2>3. \A u \in User : Tried(u)' <= Tried(u) \/ Tried(u)' = 0
    BY <2>2, TriedType
  <2>. QED  BY <1>2, <1>15, <2>3 DEF expire_verification_challenges
<1>16. ASSUME NEW r \in Request, leave(r)
       PROVE  AttemptsBounded'
  <2>1. Done.todo # "record"
    BY DEF Done
  <2>. QED  BY <1>3, <1>4, <1>16, <2>1 DEF leave
<1>. QED  BY <1>1, <1>5, <1>6, <1>7, <1>8, <1>9, <1>10, <1>12, <1>13, <1>14, <1>15, <1>16,
             WrongCounts, CountCounts
          DEF OnboardingNext, Registering, Verifying

(* Requests that are in flight with a wrong code may overshoot the limit   *)
(* on tries, but only by those in flight, whatever resends come between.   *)
THEOREM AttemptsAlwaysBounded == OnboardingSpec => []AttemptsBounded
<1>1. OnboardingInit => OnboardingTypeOK /\ AttemptsBounded
  <2>1. ASSUME OnboardingInit, NEW u \in User
        PROVE  Tried(u) = 0 /\ InFlight(u) = {}
    BY <2>1 DEF OnboardingInit, NoChallenge, Done, Tried, InFlight
  <2>2. Cardinality({}) = 0 /\ Cardinality(Request) \in Nat
    BY FS_EmptySet, FewInFlight
  <2>3. ASSUME OnboardingInit, NEW u \in User
        PROVE  Tried(u) + Cardinality(InFlight(u)) < MaxAttempts + Cardinality(Request)
    BY <2>1, <2>2, <2>3, OnboardingAssumption
  <2>4. ASSUME OnboardingInit PROVE AttemptsBounded
    BY <2>3, <2>4 DEF AttemptsBounded, Tried, InFlight
  <2>. QED  BY <2>4, OnboardingTypeInit
<1>2. OnboardingTypeOK /\ AttemptsBounded /\ [OnboardingNext]_onboarding_vars
        => (OnboardingTypeOK /\ AttemptsBounded)'
  BY OnboardingTypeStep, AttemptsStep
<1>. QED  BY <1>1, <1>2, PTL DEF OnboardingSpec

-----------------------------------------------------------------------------
(* Verifications.                                                          *)

StandsAt(u) ==
  /\ verification_challenges[u].status \in {"verified", "expired"} =>
       /\ verification_challenges'[u].status = verification_challenges[u].status
       /\ verification_challenges'[u].code = verification_challenges[u].code
  /\ people[u].onboarding = "pending_verification" =>
       \/ people'[u].onboarding = "pending_verification"
       \/ /\ Open(u) /\ TriesLeft(u)
          /\ verification_challenges'[u] =
               [verification_challenges[u] EXCEPT !.status = "verified"]
  /\ people[u].onboarding \in {"verified", "active"} =>
       people'[u].onboarding = people[u].onboarding

LEMMA StandStep ==
  ASSUME OnboardingTypeOK, WholeInv, OnboardingNext, NEW u \in User
  PROVE  StandsAt(u)
<1>1. ASSUME verification_challenges'[u] = verification_challenges[u],
             people'[u].onboarding = people[u].onboarding
      PROVE  StandsAt(u)
  BY <1>1 DEF StandsAt
<1>2. ASSUME verification_challenges[u].status \in {"none", "pending"},
             people'[u].onboarding = people[u].onboarding
      PROVE  StandsAt(u)
  BY <1>2 DEF StandsAt
<1>3. ASSUME NEW v \in User, NEW h, people' = [people EXCEPT ![v] = h],
             UNCHANGED verification_challenges,
             ~Exists(v) \/ h.onboarding = people[v].onboarding
      PROVE  StandsAt(u)
  <2>1. people'[u] = IF u = v THEN h ELSE people[u]
    BY <1>3 DEF OnboardingTypeOK
  <2>2. ~Exists(v) => people[v].onboarding = "none"
    BY DEF WholeInv, NewHere, Absent
  <2>. QED  BY <1>1, <1>3, <2>1, <2>2 DEF StandsAt
<1>4. CASE Staffing
  <2>1. ASSUME NEW v \in User, create_user(v)
        PROVE  StandsAt(u)
    BY <1>3, <2>1 DEF create_user
  <2>2. ASSUME NEW v \in User, NEW s \in {"active", "locked", "closed"}, update_user_info(v, s)
        PROVE  StandsAt(u)
    <3> DEFINE h == [people[v] EXCEPT !.status = s]
    <3>1. h.onboarding = people[v].onboarding
      BY RowTypes DEF Person
    <3>2. people' = [people EXCEPT ![v] = h] /\ UNCHANGED verification_challenges
      BY <2>2 DEF update_user_info
    <3>. HIDE DEF h
    <3>. QED  BY <1>3, <3>1, <3>2
  <2>3. ASSUME NEW v \in User, NEW n \in Grant, SetInvitesRemaining(v, n)
        PROVE  StandsAt(u)
    <3> DEFINE h == [people[v] EXCEPT !.invites_remaining = n]
    <3>1. h.onboarding = people[v].onboarding
      BY RowTypes DEF Person
    <3>2. people' = [people EXCEPT ![v] = h] /\ UNCHANGED verification_challenges
      BY <2>3 DEF SetInvitesRemaining
    <3>. HIDE DEF h
    <3>. QED  BY <1>3, <3>1, <3>2
  <2>. QED  BY <1>4, <2>1, <2>2, <2>3 DEF Staffing
<1>5. CASE Inviting
  <2>1. ASSUME NEW v \in User, create_invitation(v)
        PROVE  StandsAt(u)
    <3> DEFINE h == [people[v] EXCEPT !.invites_remaining = people[v].invites_remaining - 1]
    <3>1. h.onboarding = people[v].onboarding
      BY RowTypes DEF Person
    <3>2. people' = [people EXCEPT ![v] = h] /\ UNCHANGED verification_challenges
      BY <2>1 DEF create_invitation
    <3>. HIDE DEF h
    <3>. QED  BY <1>3, <3>1, <3>2
  <2>. QED  BY <1>1, <1>5, <2>1 DEF Inviting, invitation_expires
<1>6. ASSUME NEW n \in RegKey, NEW v \in User, NEW i \in DOMAIN invitations,
             register_user(n, v, i)
      PROVE  StandsAt(u)
  <2>1. /\ ~Exists(v)
        /\ \A w \in User : w # v => /\ people'[w] = people[w]
                                    /\ verification_challenges'[w] = verification_challenges[w]
    BY <1>6 DEF register_user, OnboardingTypeOK
  <2>2. verification_challenges[v].status = "none" /\ people[v].onboarding = "none"
    BY <2>1 DEF WholeInv, NewHere, Absent
  <2>. QED  BY <1>1, <2>1, <2>2 DEF StandsAt
<1>7. CASE \/ \E n \in RegKey, v \in User, i \in DOMAIN invitations, r \in Request :
                register_conflict(r, n, v, i)
           \/ \E r \in Request : register_replay(r)
           \/ \E n \in RegKey : register_key_ages(n)
           \/ cleanup_register_keys
  BY <1>1, <1>7 DEF register_conflict, register_replay, register_key_ages, cleanup_register_keys
<1>8. ASSUME NEW v \in User, NEW code \in 1..MaxCodes, verify_contact(v, code)
      PROVE  StandsAt(u)
  <2> DEFINE onb == IF people[v].onboarding = "pending_verification" THEN "verified"
                    ELSE people[v].onboarding
             st == IF people[v].status = "locked" THEN "active" ELSE people[v].status
             c == [verification_challenges[v] EXCEPT !.status = "verified"]
             h == [people[v] EXCEPT !.onboarding = onb, !.status = st]
  <2>1. h.onboarding = onb
    BY RowTypes DEF Person
  <2>2. /\ verification_challenges' = [verification_challenges EXCEPT ![v] = c]
        /\ people' = [people EXCEPT ![v] = h]
        /\ Open(v) /\ TriesLeft(v)
    BY <1>8 DEF verify_contact
  <2>. HIDE DEF h
  <2>3. /\ verification_challenges'[v] = c /\ people'[v] = h
        /\ \A w \in User : w # v => /\ people'[w] = people[w]
                                    /\ verification_challenges'[w] = verification_challenges[w]
    BY <2>2 DEF OnboardingTypeOK
  <2>4. CASE u = v
    BY <2>1, <2>2, <2>3, <2>4 DEF StandsAt, Open
  <2>5. CASE u # v
    BY <1>1, <2>3, <2>5
  <2>. QED  BY <2>4, <2>5
<1>9. ASSUME NEW v \in User, NEW c, UNCHANGED people,
             verification_challenges' = [verification_challenges EXCEPT ![v] = c],
             \/ verification_challenges[v].status = "pending"
             \/ c.status = verification_challenges[v].status /\ c.code = verification_challenges[v].code
      PROVE  StandsAt(u)
  <2>1. verification_challenges'[u] = IF u = v THEN c ELSE verification_challenges[u]
    BY <1>9 DEF OnboardingTypeOK
  <2>. QED  BY <1>9, <2>1 DEF StandsAt
<1>10. ASSUME NEW v \in User, cooldown_passes(v) \/ challenge_lapses(v)
       PROVE  StandsAt(u)
  <2> DEFINE later == [verification_challenges[v] EXCEPT !.recent = FALSE]
             lapsed == [verification_challenges[v] EXCEPT !.lapsed = TRUE]
  <2>1. \A c \in {later, lapsed} : /\ c.status = verification_challenges[v].status
                                   /\ c.code = verification_challenges[v].code
    BY RowTypes DEF Challenge
  <2>2. /\ UNCHANGED people
        /\ \E c \in {later, lapsed} :
             verification_challenges' = [verification_challenges EXCEPT ![v] = c]
    BY <1>10 DEF cooldown_passes, challenge_lapses
  <2>. HIDE DEF later, lapsed
  <2>. QED  BY <1>9, <2>1, <2>2
<1>11. ASSUME NEW r \in Request,
              \/ \E v \in User : verify_contact_wrong(r, v) \/ ChallengeByToken(r, v)
              \/ leave(r)
       PROVE  StandsAt(u)
  BY <1>1, <1>11 DEF verify_contact_wrong, ChallengeByToken, leave
<1>12. ASSUME NEW r \in Request, record_failed_verification(r)
       PROVE  StandsAt(u)
  <2>1. PICK v \in User : v = visit[r].user
    BY <1>12, VisitRows DEF record_failed_verification
  <2>2. PICK n : verification_challenges' =
                   [verification_challenges EXCEPT ![v].attempts = n] /\ UNCHANGED people
    BY <1>12, <2>1 DEF record_failed_verification
  <2> DEFINE c == [verification_challenges[v] EXCEPT !.attempts = n]
  <2>3. /\ c.status = verification_challenges[v].status
        /\ c.code = verification_challenges[v].code
    BY RowTypes DEF Challenge
  <2>4. verification_challenges' = [verification_challenges EXCEPT ![v] = c]
    BY <2>2
  <2>. HIDE DEF c
  <2>. QED  BY <1>9, <2>2, <2>3, <2>4
<1>13. ASSUME NEW r \in Request, create_verification_challenge(r)
       PROVE  StandsAt(u)
  <2>1. PICK v \in User : v = visit[r].user
    BY <1>13, VisitRows DEF create_verification_challenge
  <2>2. CASE ~Refreshable(v)
    BY <1>1, <1>13, <2>1, <2>2 DEF create_verification_challenge
  <2>3. CASE Refreshable(v)
    <3>1. PICK c : /\ verification_challenges' = [verification_challenges EXCEPT ![v] = c]
                   /\ UNCHANGED people /\ verification_challenges[v].status = "pending"
      BY <1>13, <2>1, <2>3 DEF create_verification_challenge, Refreshable
    <3>. QED  BY <1>9, <3>1
  <2>. QED  BY <2>2, <2>3
<1>14. CASE expire_verification_challenges
  <2>1. /\ people' = people
        /\ verification_challenges[u].status = "pending"
             \/ verification_challenges'[u] = verification_challenges[u]
    BY <1>14 DEF expire_verification_challenges
  <2>. QED  BY <1>1, <1>2, <2>1
<1>. QED  BY <1>4, <1>5, <1>6, <1>7, <1>8, <1>10, <1>11, <1>12, <1>13, <1>14
          DEF OnboardingNext, Registering, Verifying

(* A verification is final and earned: nobody leaves pending_verification  *)
(* but by a code of a challenge that was pending with tries left, and what *)
(* was decided no late resend, count or sweep touches.                     *)
THEOREM VerificationsAlwaysStand == OnboardingSpec => VerifiedStands
<1> DEFINE Stands ==
      \A u \in User :
        LET was == verification_challenges[u]  is == verification_challenges'[u]
        IN  /\ was.status \in {"verified", "expired"} => is.status = was.status /\ is.code = was.code
            /\ people[u].onboarding = "pending_verification" =>
                 \/ people'[u].onboarding = "pending_verification"
                 \/ Open(u) /\ TriesLeft(u) /\ is = [was EXCEPT !.status = "verified"]
            /\ people[u].onboarding \in {"verified", "active"} =>
                 people'[u].onboarding = people[u].onboarding
<1>1. (\A u \in User : StandsAt(u)) => Stands
  BY DEF StandsAt
<1>2. OnboardingTypeOK /\ WholeInv /\ [OnboardingNext]_onboarding_vars => [Stands]_onboarding_vars
  BY <1>1, StandStep
<1>3. OnboardingInit => OnboardingTypeOK /\ WholeInv
  BY OnboardingTypeInit, WholeInit
<1>4. OnboardingTypeOK /\ WholeInv /\ [OnboardingNext]_onboarding_vars
        => (OnboardingTypeOK /\ WholeInv)'
  BY OnboardingTypeStep, WholeStep
<1>. QED  BY <1>2, <1>3, <1>4, PTL DEF OnboardingSpec, VerifiedStands

=============================================================================
