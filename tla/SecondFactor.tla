---------------------------- MODULE SecondFactor ----------------------------
(***************************************************************************)
(* The second factor of one customer of bank0: enrolment and confirmation  *)
(* of a TOTP seed, verification of a code or of a one-time recovery code,  *)
(* the lockout, and the tokens a verification earns.  handlers_mfa.go,     *)
(* db/mfa.go, jwt.go and 00006_mfa.sql.                                    *)
(*                                                                         *)
(* Every handler is a row of statements, each its own transaction, and the *)
(* code is checked in Go between two of them: factor[r].todo names the     *)
(* statement that request r makes next.  A client may go away between any  *)
(* two.  Time shows in failures that leave the window and in tokens that   *)
(* age.                                                                    *)
(*                                                                         *)
(* Definitions named X_variant are X with a fault, for checking that the   *)
(* properties notice it.                                                   *)
(***************************************************************************)
EXTENDS Integers, FiniteSets, FiniteSetsExt

CONSTANTS
  Client,       \* requests that may be in flight at once
  Link,         \* payments that a code may be linked to
  NoLink,       \* a verification without a link
  RecoveryCode, \* the codes that a confirmation hands out
  NoCode,       \* a code that is none of them
  MaxFail,      \* auth.mfa_lock_max_fail
  MaxSeeds      \* bound: seeds ever enrolled

ASSUME SecondFactorAssumption ==
  /\ NoLink \notin Link /\ NoCode \notin RecoveryCode
  /\ MaxFail \in Nat \ {0} /\ MaxSeeds \in Nat
  /\ IsFiniteSet(Client)

VARIABLES
  seeds,      \* how many seeds were generated; a seed's number is its created_at
  pending,    \* mfa_credentials that are not confirmed
  confirmed,  \* the one that is, or 0
  recovery,   \* mfa_recovery_codes that are not used
  failures,   \* mfa_attempts that failed within the window
  factor,     \* what each request is about to do
  tokens,     \* access tokens that are not expired
  spent,      \* history: the tokens issued for each recovery code
  proved      \* history: the links for which a factor was accepted

factor_vars ==
  <<seeds, pending, confirmed, recovery, failures, factor, tokens, spent, proved>>

Step == {"none", "insert", "read_pending", "read_secret", "burn", "record", "confirm", "issue"}
Call ==
  [todo: Step, goal: {"none", "confirm", "issue"}, valid: BOOLEAN,
   code: RecoveryCode \cup {NoCode}, link: Link \cup {NoLink},
   seed: 0..MaxSeeds, seen: SUBSET (1..MaxSeeds)]
Idle == [todo |-> "none", goal |-> "none", valid |-> FALSE, code |-> NoCode, link |-> NoLink,
         seed |-> 0, seen |-> {}]

(* amr holds "otp", auth_time is within step_up_max_age, txn_link.         *)
Token == [otp: BOOLEAN, fresh: BOOLEAN, link: Link \cup {NoLink}]

FactorInit ==
  /\ seeds = 0 /\ pending = {} /\ confirmed = 0 /\ recovery = {} /\ failures = 0
  /\ factor = [r \in Client |-> Idle]
  /\ tokens = {[otp |-> FALSE, fresh |-> TRUE, link |-> NoLink]}
  /\ spent = [c \in RecoveryCode |-> 0]
  /\ proved = {}

Goes(r, call) == factor' = [factor EXCEPT ![r] = call]

MFAEnabled  == confirmed # 0
MFAIsLocked_never == FALSE
MFAIsLocked == failures >= MaxFail

-----------------------------------------------------------------------------
(* Enrolment.  Two at once do not see each other's row, so each deletes    *)
(* only what was pending when it began, and a seed that another request    *)
(* confirms in the meantime is left alone.                                 *)
MfaEnroll(r) ==
  /\ factor[r] = Idle
  /\ ~MFAEnabled
  /\ seeds < MaxSeeds
  /\ seeds' = seeds + 1
  /\ Goes(r, [Idle EXCEPT !.todo = "insert", !.seed = seeds + 1, !.seen = pending])
  /\ UNCHANGED <<pending, confirmed, recovery, failures, tokens, spent, proved>>

mfa_begin_enroll(r) ==
  /\ factor[r].todo = "insert"
  /\ pending' = (pending \ factor[r].seen) \cup {factor[r].seed}
  /\ Goes(r, Idle)
  /\ UNCHANGED <<seeds, confirmed, recovery, failures, tokens, spent, proved>>

-----------------------------------------------------------------------------
(* Confirmation: the code is checked against the latest pending seed, and  *)
(* the seed that is latest by then is confirmed.                           *)
MfaConfirm(r) ==
  /\ factor[r] = Idle
  /\ ~MFAIsLocked
  /\ Goes(r, [Idle EXCEPT !.todo = "read_pending", !.goal = "confirm"])
  /\ UNCHANGED <<seeds, pending, confirmed, recovery, failures, tokens, spent, proved>>

mfa_pending_secret(r, valid) ==
  /\ factor[r].todo = "read_pending"
  /\ Goes(r, IF pending = {} THEN Idle
             ELSE [factor[r] EXCEPT !.todo = "record", !.valid = valid])
  /\ UNCHANGED <<seeds, pending, confirmed, recovery, failures, tokens, spent, proved>>

(* The index uq_mfa_confirmed_totp refuses a second confirmed seed.        *)
Confirmable == pending # {} /\ confirmed = 0

mfa_confirm(r) ==
  /\ factor[r].todo = "confirm"
  /\ IF Confirmable
     THEN /\ confirmed' = Max(pending)
          /\ pending' = pending \ {Max(pending)}
          /\ recovery' = RecoveryCode
     ELSE UNCHANGED <<confirmed, pending, recovery>>
  /\ Goes(r, Idle)
  /\ UNCHANGED <<seeds, failures, tokens, spent, proved>>

-----------------------------------------------------------------------------
(* Verification, for a sign-in or for one payment.                         *)
MfaVerify(r, link) ==
  /\ factor[r] = Idle
  /\ ~MFAIsLocked
  /\ Goes(r, [Idle EXCEPT !.todo = "read_secret", !.goal = "issue", !.link = link])
  /\ UNCHANGED <<seeds, pending, confirmed, recovery, failures, tokens, spent, proved>>

(* The one-time code is right, or the input is tried as a recovery code.   *)
mfa_confirmed_secret(r, code) ==
  /\ factor[r].todo = "read_secret"
  /\ \/ confirmed = 0 /\ Goes(r, Idle)
     \/ confirmed # 0 /\ Goes(r, [factor[r] EXCEPT !.todo = "record", !.valid = TRUE])
     \/ confirmed # 0 /\ Goes(r, [factor[r] EXCEPT !.todo = "burn", !.code = code])
  /\ UNCHANGED <<seeds, pending, confirmed, recovery, failures, tokens, spent, proved>>

Burned_unmarked(code) == recovery
Burned(code) == recovery \ {code}

mfa_burn_recovery_code(r) ==
  LET code == factor[r].code
  IN  /\ factor[r].todo = "burn"
      /\ recovery' = Burned(code)
      /\ Goes(r, [factor[r] EXCEPT !.todo = "record", !.valid = code \in recovery])
      /\ UNCHANGED <<seeds, pending, confirmed, failures, tokens, spent, proved>>

(* The attempt is counted, and a right one goes on to its goal.            *)
mfa_record_attempt(r) ==
  LET call == factor[r]
  IN  /\ call.todo = "record"
      /\ failures' = IF call.valid THEN failures ELSE failures + 1
      /\ Goes(r, IF call.valid THEN [call EXCEPT !.todo = call.goal] ELSE Idle)
      /\ proved' = IF call.valid /\ call.goal = "issue" THEN proved \cup {call.link} ELSE proved
      /\ UNCHANGED <<seeds, pending, confirmed, recovery, tokens, spent>>

issueJWT(r) ==
  LET call == factor[r]
  IN  /\ call.todo = "issue"
      /\ tokens' = tokens \cup {[otp |-> TRUE, fresh |-> TRUE, link |-> call.link]}
      /\ spent' = [c \in RecoveryCode |-> IF c = call.code THEN spent[c] + 1 ELSE spent[c]]
      /\ Goes(r, Idle)
      /\ UNCHANGED <<seeds, pending, confirmed, recovery, failures, proved>>

-----------------------------------------------------------------------------
(* The client goes away; time passes.                                      *)
hang_up(r) ==
  /\ factor[r] # Idle
  /\ Goes(r, Idle)
  /\ UNCHANGED <<seeds, pending, confirmed, recovery, failures, tokens, spent, proved>>

failure_leaves_window ==
  /\ failures > 0
  /\ failures' = failures - 1
  /\ UNCHANGED <<seeds, pending, confirmed, recovery, factor, tokens, spent, proved>>

(* step_up_max_age passes, and later the token's own expiry.               *)
token_ages(t) ==
  /\ t.otp
  /\ tokens' = IF t.fresh THEN (tokens \ {t}) \cup {[t EXCEPT !.fresh = FALSE]} ELSE tokens \ {t}
  /\ UNCHANGED <<seeds, pending, confirmed, recovery, failures, factor, spent, proved>>

FactorNext ==
  \/ \E r \in Client :
       \/ MfaEnroll(r) \/ mfa_begin_enroll(r)
       \/ MfaConfirm(r) \/ mfa_confirm(r)
       \/ \E valid \in BOOLEAN : mfa_pending_secret(r, valid)
       \/ \E link \in Link \cup {NoLink} : MfaVerify(r, link)
       \/ \E code \in RecoveryCode \cup {NoCode} : mfa_confirmed_secret(r, code)
       \/ mfa_burn_recovery_code(r) \/ mfa_record_attempt(r) \/ issueJWT(r)
       \/ hang_up(r)
  \/ failure_leaves_window
  \/ \E t \in tokens : token_ages(t)

FactorSpec == FactorInit /\ [][FactorNext]_factor_vars

-----------------------------------------------------------------------------
(* Properties.                                                             *)

(* The tables keep their column types.                                     *)
FactorTypeOK ==
  /\ seeds \in 0..MaxSeeds /\ pending \in SUBSET (1..MaxSeeds) /\ confirmed \in 0..MaxSeeds
  /\ recovery \in SUBSET RecoveryCode /\ failures \in Nat
  /\ factor \in [Client -> Call]
  /\ tokens \in SUBSET Token
  /\ spent \in [RecoveryCode -> Nat]
  /\ proved \in SUBSET (Link \cup {NoLink})

(* The lockout holds under concurrency: the count is read in one statement *)
(* and raised in another, so requests in flight may overshoot the limit,   *)
(* but never by more than there are of them.                               *)
Unrecorded == {r \in Client : factor[r].todo \in {"read_pending", "read_secret", "burn", "record"}}

FailuresBounded == failures + Cardinality(Unrecorded) < MaxFail + Cardinality(Client)

(* A recovery code is worth one token: while it is live nobody holds it as *)
(* accepted, and once burned it stays with the one request that burned it, *)
(* however many present it at once and even if that request goes away.     *)
Holders(c) == {r \in Client : factor[r].valid /\ factor[r].code = c}

RecoveryCodeOnce ==
  \A c \in RecoveryCode :
    /\ c \in recovery => spent[c] = 0 /\ Holders(c) = {}
    /\ spent[c] + Cardinality(Holders(c)) <= 1

=============================================================================
