-------------------------- MODULE PaymentGateProofs -------------------------
(***************************************************************************)
(* What is proved of SecondFactor and of PaymentGate, for any number of    *)
(* requests, payments, recovery codes and seeds and for any policy and     *)
(* lockout: the types, the bound on failed attempts, that a recovery code  *)
(* is worth one token, that a token with a factor is linked to what a      *)
(* factor was accepted for; that a payment that needs a second factor has  *)
(* one of its own, and that sending a payment meets what its preview showed*)
(* while nothing changed.                                                  *)
(***************************************************************************)
EXTENDS PaymentGate, TLAPS, FiniteSetTheorems, WellFoundedInduction

-----------------------------------------------------------------------------
(* Helpers.                                                                *)

(* A nonempty set of seeds has a latest one.                               *)
LEMMA Latest ==
  ASSUME NEW S \in SUBSET (1..MaxSeeds), S # {}
  PROVE  Max(S) \in S
<1> DEFINE R == OpToRel(<, Nat)
           D == {n \in Nat : \E x \in S : n = MaxSeeds - x}
<1>1. MaxSeeds \in Nat
  BY SecondFactorAssumption
<1>2. \A x \in S : x \in Int /\ 1 <= x /\ x <= MaxSeeds
  BY <1>1
<1>3. D \subseteq Nat /\ D # {}
  <2>1. PICK x \in S : TRUE
    OBVIOUS
  <2>2. MaxSeeds - x \in D
    BY <1>1, <1>2, <2>1
  <2>. QED  BY <2>2
<1>4. IsWellFoundedOn(R, Nat)
  BY NatLessThanWellFounded
<1>. HIDE DEF R
<1>5. PICK n \in D : \A m \in D : ~(<<m, n>> \in R)
  <2>. HIDE DEF D
  <2>. QED  BY <1>3, <1>4, WFMin
<1>6. \A m \in D : n <= m
  <2>1. \A m \in D : m \in Nat /\ n \in Nat /\ ~(m < n)
    BY <1>3, <1>5 DEF R, OpToRel
  <2>. QED  BY <2>1
<1>7. PICK x \in S : n = MaxSeeds - x
  BY <1>5
<1>8. \A y \in S : x >= y
  <2>1. TAKE y \in S
  <2>2. MaxSeeds - y \in D
    BY <1>1, <1>2
  <2>. QED  BY <1>1, <1>2, <1>6, <1>7, <2>2
<1>. QED  BY <1>8 DEF Max

(* What an idle request looks like.                                        *)
LEMMA IdleCall ==
  /\ Idle \in Call
  /\ Idle.todo = "none" /\ ~Idle.valid /\ Idle.code = NoCode
BY SecondFactorAssumption DEF Idle, Call, Step

(* A step that sets one request's call touches nobody else's.              *)
LEMMA GoesOne ==
  ASSUME factor \in [Client -> Call], NEW r \in Client, NEW call \in Call, Goes(r, call)
  PROVE  /\ factor' \in [Client -> Call]
         /\ factor'[r] = call
         /\ \A s \in Client : s # r => factor'[s] = factor[s]
BY DEF Goes

-----------------------------------------------------------------------------
(* Types, and what a request knows before each of its statements.          *)

CallRight(call) ==
  /\ call.todo = "insert" => call.seed # 0
  /\ call.todo \in {"none", "insert", "read_pending", "read_secret", "burn"} => ~call.valid
  /\ call.todo \in {"none", "insert", "read_pending", "read_secret"} => call.code = NoCode
  /\ call.todo \in {"read_pending", "read_secret", "burn", "record"} =>
       call.goal \in {"confirm", "issue"}
  /\ call.todo = "issue" => call.valid

CallsRight == \A r \in Client : CallRight(factor[r])

TypesInv == FactorTypeOK /\ CallsRight

LEMMA IdleRight == CallRight(Idle)
BY DEF CallRight, Idle

LEMMA GoesRight ==
  ASSUME TypesInv, NEW r \in Client, NEW call \in Call, CallRight(call), Goes(r, call)
  PROVE  factor' \in [Client -> Call] /\ CallsRight'
<1>1. factor \in [Client -> Call] /\ CallsRight
  BY DEF TypesInv, FactorTypeOK
<1>. QED  BY <1>1, GoesOne DEF CallsRight

(* Enrolment.                                                              *)
LEMMA EnrolTypes ==
  ASSUME TypesInv, NEW r \in Client, MfaEnroll(r) \/ mfa_begin_enroll(r)
  PROVE  TypesInv'
<1>1. CASE MfaEnroll(r)
  <2> DEFINE call == [Idle EXCEPT !.todo = "insert", !.seed = seeds + 1, !.seen = pending]
  <2>1. seeds + 1 \in 0..MaxSeeds /\ seeds + 1 # 0
    BY <1>1, SecondFactorAssumption DEF MfaEnroll, TypesInv, FactorTypeOK
  <2>2. call \in Call /\ CallRight(call)
    BY <2>1, IdleCall DEF Idle, Call, Step, CallRight, TypesInv, FactorTypeOK
  <2>3. Goes(r, call)
    BY <1>1 DEF MfaEnroll
  <2>. HIDE DEF call
  <2>. QED  BY <1>1, <2>1, <2>2, <2>3, GoesRight DEF MfaEnroll, TypesInv, FactorTypeOK
<1>2. CASE mfa_begin_enroll(r)
  <2>1. factor[r] \in Call /\ factor[r].seed # 0
    BY <1>2 DEF mfa_begin_enroll, TypesInv, FactorTypeOK, CallsRight, CallRight
  <2>2. factor[r].seed \in 1..MaxSeeds
    BY <2>1, SecondFactorAssumption DEF Call
  <2>3. Goes(r, Idle)
    BY <1>2 DEF mfa_begin_enroll
  <2>. QED  BY <1>2, <2>2, <2>3, IdleCall, IdleRight, GoesRight
            DEF mfa_begin_enroll, TypesInv, FactorTypeOK
<1>. QED  BY <1>1, <1>2

(* Confirmation.                                                           *)
LEMMA ConfirmTypes ==
  ASSUME TypesInv, NEW r \in Client,
         MfaConfirm(r) \/ mfa_confirm(r) \/ \E valid \in BOOLEAN : mfa_pending_secret(r, valid)
  PROVE  TypesInv'
<1>1. CASE MfaConfirm(r)
  <2> DEFINE call == [Idle EXCEPT !.todo = "read_pending", !.goal = "confirm"]
  <2>1. call \in Call /\ CallRight(call)
    BY IdleCall DEF Idle, Call, Step, CallRight
  <2>2. Goes(r, call)
    BY <1>1 DEF MfaConfirm
  <2>. HIDE DEF call
  <2>. QED  BY <1>1, <2>1, <2>2, GoesRight DEF MfaConfirm, TypesInv, FactorTypeOK
<1>2. ASSUME NEW valid \in BOOLEAN, mfa_pending_secret(r, valid)
      PROVE  TypesInv'
  <2> DEFINE call == IF pending = {} THEN Idle
                     ELSE [factor[r] EXCEPT !.todo = "record", !.valid = valid]
  <2>1. factor[r] \in Call /\ CallRight(factor[r]) /\ factor[r].todo = "read_pending"
    BY <1>2 DEF mfa_pending_secret, TypesInv, FactorTypeOK, CallsRight
  <2>2. call \in Call /\ CallRight(call)
    BY <2>1, IdleCall, IdleRight DEF Call, Step, CallRight
  <2>3. Goes(r, call)
    BY <1>2 DEF mfa_pending_secret
  <2>. HIDE DEF call
  <2>. QED  BY <1>2, <2>2, <2>3, GoesRight DEF mfa_pending_secret, TypesInv, FactorTypeOK
<1>3. CASE mfa_confirm(r)
  <2>1. Goes(r, Idle)
    BY <1>3 DEF mfa_confirm
  <2>2. factor' \in [Client -> Call] /\ CallsRight'
    BY <2>1, IdleCall, IdleRight, GoesRight
  <2>3. /\ confirmed' \in 0..MaxSeeds /\ pending' \in SUBSET (1..MaxSeeds)
        /\ recovery' \in SUBSET RecoveryCode
    <3>1. CASE Confirmable
      <4>1. Max(pending) \in pending
        BY <3>1, Latest DEF Confirmable, TypesInv, FactorTypeOK
      <4>2. PICK m \in pending : /\ confirmed' = m /\ pending' = pending \ {m}
                                 /\ recovery' = RecoveryCode
        BY <1>3, <3>1, <4>1 DEF mfa_confirm
      <4>3. pending \in SUBSET (1..MaxSeeds)
        BY DEF TypesInv, FactorTypeOK
      <4>4. m \in 0..MaxSeeds
        BY <4>3, SecondFactorAssumption
      <4>. QED  BY <4>2, <4>3, <4>4
    <3>2. CASE ~Confirmable
      BY <1>3, <3>2 DEF mfa_confirm, TypesInv, FactorTypeOK
    <3>. QED  BY <3>1, <3>2
  <2>. QED  BY <1>3, <2>2, <2>3 DEF mfa_confirm, TypesInv, FactorTypeOK
<1>. QED  BY <1>1, <1>2, <1>3

(* Verification.                                                           *)
LEMMA VerifyFactorTypes ==
  ASSUME TypesInv, NEW r \in Client,
         \/ \E link \in Link \cup {NoLink} : MfaVerify(r, link)
         \/ \E code \in RecoveryCode \cup {NoCode} : mfa_confirmed_secret(r, code)
         \/ mfa_burn_recovery_code(r)
  PROVE  TypesInv'
<1>1. ASSUME NEW link \in Link \cup {NoLink}, MfaVerify(r, link)
      PROVE  TypesInv'
  <2> DEFINE call == [Idle EXCEPT !.todo = "read_secret", !.goal = "issue", !.link = link]
  <2>1. call \in Call /\ CallRight(call)
    BY IdleCall DEF Idle, Call, Step, CallRight
  <2>2. Goes(r, call)
    BY <1>1 DEF MfaVerify
  <2>. HIDE DEF call
  <2>. QED  BY <1>1, <2>1, <2>2, GoesRight DEF MfaVerify, TypesInv, FactorTypeOK
<1>2. ASSUME NEW code \in RecoveryCode \cup {NoCode}, mfa_confirmed_secret(r, code)
      PROVE  TypesInv'
  <2>1. factor[r] \in Call /\ CallRight(factor[r]) /\ factor[r].todo = "read_secret"
    BY <1>2 DEF mfa_confirmed_secret, TypesInv, FactorTypeOK, CallsRight
  <2>2. PICK call : /\ Goes(r, call)
                    /\ \/ call = Idle
                       \/ call = [factor[r] EXCEPT !.todo = "record", !.valid = TRUE]
                       \/ call = [factor[r] EXCEPT !.todo = "burn", !.code = code]
    BY <1>2 DEF mfa_confirmed_secret
  <2>3. call \in Call /\ CallRight(call)
    BY <2>1, <2>2, IdleCall, IdleRight DEF Call, Step, CallRight
  <2>. QED  BY <1>2, <2>2, <2>3, GoesRight DEF mfa_confirmed_secret, TypesInv, FactorTypeOK
<1>3. CASE mfa_burn_recovery_code(r)
  <2> DEFINE call == [factor[r] EXCEPT !.todo = "record", !.valid = factor[r].code \in recovery]
  <2>1. factor[r] \in Call /\ CallRight(factor[r]) /\ factor[r].todo = "burn"
    BY <1>3 DEF mfa_burn_recovery_code, TypesInv, FactorTypeOK, CallsRight
  <2>2. (factor[r].code \in recovery) \in BOOLEAN
    OBVIOUS
  <2>3. call \in Call /\ CallRight(call)
    BY <2>1, <2>2 DEF Call, Step, CallRight
  <2>4. Goes(r, call)
    BY <1>3 DEF mfa_burn_recovery_code
  <2>. HIDE DEF call
  <2>. QED  BY <1>3, <2>3, <2>4, GoesRight
            DEF mfa_burn_recovery_code, Burned, TypesInv, FactorTypeOK
<1>. QED  BY <1>1, <1>2, <1>3

(* The answer.                                                             *)
LEMMA AnswerTypes ==
  ASSUME TypesInv, NEW r \in Client, mfa_record_attempt(r) \/ issueJWT(r) \/ hang_up(r)
  PROVE  TypesInv'
<1>1. CASE mfa_record_attempt(r)
  <2> DEFINE call == IF factor[r].valid THEN [factor[r] EXCEPT !.todo = factor[r].goal] ELSE Idle
  <2>1. factor[r] \in Call /\ CallRight(factor[r]) /\ factor[r].todo = "record"
    BY <1>1 DEF mfa_record_attempt, TypesInv, FactorTypeOK, CallsRight
  <2>2. call \in Call /\ CallRight(call)
    BY <2>1, IdleCall, IdleRight DEF Call, Step, CallRight
  <2>3. Goes(r, call)
    BY <1>1 DEF mfa_record_attempt
  <2>4. factor[r].link \in Link \cup {NoLink}
    BY <2>1 DEF Call
  <2>. HIDE DEF call
  <2>. QED  BY <1>1, <2>2, <2>3, <2>4, GoesRight DEF mfa_record_attempt, TypesInv, FactorTypeOK
<1>2. CASE issueJWT(r)
  <2>1. [otp |-> TRUE, fresh |-> TRUE, link |-> factor[r].link] \in Token
    BY DEF TypesInv, FactorTypeOK, Call, Token
  <2>2. Goes(r, Idle)
    BY <1>2 DEF issueJWT
  <2>3. spent' \in [RecoveryCode -> Nat]
    BY <1>2 DEF issueJWT, TypesInv, FactorTypeOK
  <2>. QED  BY <1>2, <2>1, <2>2, <2>3, IdleCall, IdleRight, GoesRight
            DEF issueJWT, TypesInv, FactorTypeOK
<1>3. CASE hang_up(r)
  <2>1. Goes(r, Idle)
    BY <1>3 DEF hang_up
  <2>. QED  BY <1>3, <2>1, IdleCall, IdleRight, GoesRight DEF hang_up, TypesInv, FactorTypeOK
<1>. QED  BY <1>1, <1>2, <1>3

(* Time.                                                                   *)
LEMMA TimeTypes ==
  ASSUME TypesInv, failure_leaves_window \/ \E t \in tokens : token_ages(t)
  PROVE  TypesInv'
<1>1. CASE failure_leaves_window
  BY <1>1 DEF failure_leaves_window, TypesInv, FactorTypeOK, CallsRight
<1>2. ASSUME NEW t \in tokens, token_ages(t)
      PROVE  TypesInv'
  <2>1. [t EXCEPT !.fresh = FALSE] \in Token
    BY DEF TypesInv, FactorTypeOK, Token
  <2>. QED  BY <1>2, <2>1 DEF token_ages, TypesInv, FactorTypeOK, CallsRight
<1>. QED  BY <1>1, <1>2

LEMMA FactorTypeStep ==
  ASSUME TypesInv, [FactorNext]_factor_vars
  PROVE  TypesInv'
<1>1. CASE UNCHANGED factor_vars
  BY <1>1 DEF factor_vars, TypesInv, FactorTypeOK, CallsRight
<1>2. CASE FactorNext
  BY <1>2, EnrolTypes, ConfirmTypes, VerifyFactorTypes, AnswerTypes, TimeTypes DEF FactorNext
<1>. QED  BY <1>1, <1>2

LEMMA FactorTypeInit ==
  ASSUME FactorInit
  PROVE  TypesInv
<1>1. [otp |-> FALSE, fresh |-> TRUE, link |-> NoLink] \in Token
  BY DEF Token
<1>. QED  BY <1>1, SecondFactorAssumption, IdleCall, IdleRight
          DEF FactorInit, TypesInv, FactorTypeOK, CallsRight

(* The tables and the requests keep their types whatever the order in      *)
(* which the statements of enrolments, confirmations and verifications     *)
(* run.                                                                    *)
THEOREM FactorTypeCorrect == FactorSpec => []FactorTypeOK
<1>1. FactorInit => TypesInv
  BY FactorTypeInit
<1>2. TypesInv /\ [FactorNext]_factor_vars => TypesInv'
  BY FactorTypeStep
<1>3. TypesInv => FactorTypeOK
  BY DEF TypesInv
<1>. QED  BY <1>1, <1>2, <1>3, PTL DEF FactorSpec


-----------------------------------------------------------------------------
(* The lockout.                                                            *)

(* The requests that still have an attempt to count, when one of them goes *)
(* on and when one begins.                                                 *)
LEMMA Counting ==
  ASSUME TypesInv, NEW r \in Client, NEW call \in Call, Goes(r, call)
  PROVE  /\ Cardinality(Unrecorded) \in Nat /\ Cardinality(Unrecorded') \in Nat
         /\ Cardinality(Unrecorded') <= Cardinality(Client)
         /\ call.todo \notin {"read_pending", "read_secret", "burn", "record"} =>
              /\ Cardinality(Unrecorded') <= Cardinality(Unrecorded)
              /\ r \in Unrecorded => Cardinality(Unrecorded') + 1 <= Cardinality(Unrecorded)
         /\ r \in Unrecorded => Cardinality(Unrecorded') <= Cardinality(Unrecorded)
<1>1. /\ factor'[r] = call
      /\ \A s \in Client : s # r => factor'[s] = factor[s]
  BY GoesOne DEF TypesInv, FactorTypeOK
<1>2. Unrecorded \in SUBSET Client /\ Unrecorded' \in SUBSET Client
  BY DEF Unrecorded
<1>3. /\ IsFiniteSet(Unrecorded) /\ IsFiniteSet(Unrecorded')
      /\ Cardinality(Unrecorded') <= Cardinality(Client)
  BY <1>2, FS_Subset, SecondFactorAssumption
<1>4. Cardinality(Unrecorded) \in Nat /\ Cardinality(Unrecorded') \in Nat
  BY <1>3, FS_CardinalityType
<1>5. ASSUME call.todo \notin {"read_pending", "read_secret", "burn", "record"}
      PROVE  /\ Cardinality(Unrecorded') <= Cardinality(Unrecorded)
             /\ r \in Unrecorded => Cardinality(Unrecorded') + 1 <= Cardinality(Unrecorded)
  <2>1. Unrecorded' = Unrecorded \ {r}
    BY <1>1, <1>5 DEF Unrecorded
  <2>2. Cardinality(Unrecorded \ {r}) =
          IF r \in Unrecorded THEN Cardinality(Unrecorded) - 1 ELSE Cardinality(Unrecorded)
    BY <1>3, FS_RemoveElement
  <2>. QED  BY <1>4, <2>1, <2>2
<1>6. ASSUME r \in Unrecorded
      PROVE  Cardinality(Unrecorded') <= Cardinality(Unrecorded)
  <2>1. Unrecorded' \in SUBSET Unrecorded
    BY <1>1, <1>6 DEF Unrecorded
  <2>. QED  BY <1>3, <2>1, FS_Subset
<1>. QED  BY <1>3, <1>4, <1>5, <1>6

LEMMA FailuresStep ==
  ASSUME TypesInv, FailuresBounded, [FactorNext]_factor_vars
  PROVE  FailuresBounded'
<1>1. /\ MaxFail \in Nat /\ MaxFail > 0 /\ failures \in Nat /\ Cardinality(Client) \in Nat
      /\ failures + Cardinality(Unrecorded) < MaxFail + Cardinality(Client)
  BY SecondFactorAssumption, FS_CardinalityType DEF TypesInv, FactorTypeOK, FailuresBounded
<1>2. TypesInv'
  BY FactorTypeStep
<1>3. Cardinality(Unrecorded) \in Nat
  <2>1. Unrecorded \in SUBSET Client
    BY DEF Unrecorded
  <2>. QED  BY <2>1, FS_Subset, FS_CardinalityType, SecondFactorAssumption
<1>4. ASSUME UNCHANGED factor, failures' = failures \/ failures' = failures - 1
      PROVE  FailuresBounded'
  <2>1. Unrecorded' = Unrecorded
    BY <1>4 DEF Unrecorded
  <2>. QED  BY <1>1, <1>3, <1>4, <2>1 DEF FailuresBounded
<1>5. ASSUME NEW r \in Client, NEW call \in Call, Goes(r, call), failures' = failures,
             \/ call.todo \notin {"read_pending", "read_secret", "burn", "record"}
             \/ r \in Unrecorded
             \/ ~MFAIsLocked
      PROVE  FailuresBounded'
  <2>1. /\ Cardinality(Unrecorded') \in Nat
        /\ Cardinality(Unrecorded') <= Cardinality(Client)
        /\ \/ Cardinality(Unrecorded') <= Cardinality(Unrecorded)
           \/ failures < MaxFail
    BY <1>1, <1>5, Counting DEF MFAIsLocked
  <2>. QED  BY <1>1, <1>3, <1>5, <2>1 DEF FailuresBounded
<1>6. ASSUME NEW r \in Client, MfaEnroll(r) \/ MfaConfirm(r)
                               \/ \E link \in Link \cup {NoLink} : MfaVerify(r, link)
      PROVE  FailuresBounded'
  <2>1. PICK call : /\ Goes(r, call) /\ failures' = failures
                    /\ ~MFAIsLocked \/ call.todo = "insert"
    <3>1. ASSUME MfaEnroll(r)
          PROVE  \E call : /\ Goes(r, call) /\ failures' = failures
                           /\ call.todo = "insert"
      <4>1. [Idle EXCEPT !.todo = "insert", !.seed = seeds + 1, !.seen = pending].todo = "insert"
        BY DEF Idle
      <4>. QED  BY <3>1, <4>1 DEF MfaEnroll
    <3>. QED  BY <1>6, <3>1 DEF MfaConfirm, MfaVerify
  <2>2. factor'[r] = call /\ factor' \in [Client -> Call]
    BY <1>2, <2>1 DEF Goes, TypesInv, FactorTypeOK
  <2>. QED  BY <1>5, <2>1, <2>2
<1>7. ASSUME NEW r \in Client,
             \/ mfa_begin_enroll(r) \/ mfa_confirm(r) \/ issueJWT(r) \/ hang_up(r)
      PROVE  FailuresBounded'
  <2>1. Goes(r, Idle) /\ failures' = failures
    BY <1>7 DEF mfa_begin_enroll, mfa_confirm, issueJWT, hang_up
  <2>. QED  BY <1>5, <2>1, IdleCall
<1>8. ASSUME NEW r \in Client,
             \/ \E valid \in BOOLEAN : mfa_pending_secret(r, valid)
             \/ \E code \in RecoveryCode \cup {NoCode} : mfa_confirmed_secret(r, code)
             \/ mfa_burn_recovery_code(r)
      PROVE  FailuresBounded'
  <2>1. r \in Unrecorded /\ failures' = failures
    BY <1>8 DEF mfa_pending_secret, mfa_confirmed_secret, mfa_burn_recovery_code, Unrecorded
  <2>2. PICK call : Goes(r, call)
    BY <1>8 DEF mfa_pending_secret, mfa_confirmed_secret, mfa_burn_recovery_code
  <2>3. factor'[r] = call /\ factor' \in [Client -> Call]
    BY <1>2, <2>2 DEF Goes, TypesInv, FactorTypeOK
  <2>. QED  BY <1>5, <2>1, <2>2, <2>3
<1>9. ASSUME NEW r \in Client, mfa_record_attempt(r)
      PROVE  FailuresBounded'
  <2> DEFINE call == IF factor[r].valid THEN [factor[r] EXCEPT !.todo = factor[r].goal] ELSE Idle
  <2>1. /\ factor[r] \in Call /\ factor[r].goal \in {"confirm", "issue"}
        /\ r \in Unrecorded
    BY <1>9 DEF mfa_record_attempt, TypesInv, FactorTypeOK, CallsRight, CallRight, Unrecorded
  <2>2. /\ call \in Call
        /\ call.todo \notin {"read_pending", "read_secret", "burn", "record"}
    BY <2>1, IdleCall DEF Call, Step
  <2>3. Goes(r, call) /\ failures' \in {failures, failures + 1}
    BY <1>9 DEF mfa_record_attempt
  <2>. HIDE DEF call
  <2>4. /\ Cardinality(Unrecorded') \in Nat
        /\ Cardinality(Unrecorded') + 1 <= Cardinality(Unrecorded)
    BY <2>1, <2>2, <2>3, Counting
  <2>. QED  BY <1>1, <1>3, <2>3, <2>4 DEF FailuresBounded
<1>10. CASE UNCHANGED factor_vars
  BY <1>4, <1>10 DEF factor_vars
<1>11. CASE failure_leaves_window \/ \E t \in tokens : token_ages(t)
  BY <1>4, <1>11 DEF failure_leaves_window, token_ages
<1>. QED  BY <1>6, <1>7, <1>8, <1>9, <1>10, <1>11 DEF FactorNext

(* Attempts that are told apart in one statement and counted in another    *)
(* never overshoot the lockout by more than the requests that are in       *)
(* flight: the bound is inductive only with those that have not counted.   *)
THEOREM FailuresAlwaysBounded == FactorSpec => []FailuresBounded
<1>1. FactorInit => TypesInv /\ FailuresBounded
  <2>1. ASSUME FactorInit PROVE FailuresBounded
    <3>1. failures = 0 /\ Unrecorded = {}
      BY <2>1, IdleCall DEF FactorInit, Unrecorded
    <3>2. Cardinality(Client) \in Nat /\ Cardinality(Unrecorded) = 0
      BY <3>1, FS_EmptySet, FS_CardinalityType, SecondFactorAssumption
    <3>. QED  BY <3>1, <3>2, SecondFactorAssumption DEF FailuresBounded
  <2>. QED  BY <2>1, FactorTypeInit
<1>2. TypesInv /\ FailuresBounded /\ [FactorNext]_factor_vars => (TypesInv /\ FailuresBounded)'
  BY FactorTypeStep, FailuresStep
<1>. QED  BY <1>1, <1>2, PTL DEF FactorSpec

-----------------------------------------------------------------------------
(* Recovery codes.                                                         *)

(* Before a seed is confirmed there are no codes, and nobody holds one.    *)
RecoveryInv ==
  /\ RecoveryCodeOnce
  /\ confirmed = 0 => recovery = {} /\ \A c \in RecoveryCode : spent[c] = 0 /\ Holders(c) = {}

LEMMA Holding ==
  ASSUME TypesInv, NEW r \in Client, NEW call \in Call, Goes(r, call), NEW c \in RecoveryCode
  PROVE  Holders(c)' = IF call.valid /\ call.code = c THEN Holders(c) \cup {r}
                       ELSE Holders(c) \ {r}
<1>1. /\ factor'[r] = call
      /\ \A s \in Client : s # r => factor'[s] = factor[s]
  BY GoesOne DEF TypesInv, FactorTypeOK
<1>. QED  BY <1>1 DEF Holders

LEMMA FewHolders ==
  ASSUME NEW c
  PROVE  IsFiniteSet(Holders(c)) /\ Cardinality(Holders(c)) \in Nat
<1>1. Holders(c) \in SUBSET Client
  BY DEF Holders
<1>. QED  BY <1>1, FS_Subset, FS_CardinalityType, SecondFactorAssumption

(* Whatever hands no code to anybody.                                      *)
LEMMA NobodyGains ==
  ASSUME TypesInv, RecoveryInv, UNCHANGED <<recovery, spent>>,
         confirmed' = confirmed \/ confirmed' # 0,
         \A c \in RecoveryCode : Holders(c)' \subseteq Holders(c)
  PROVE  RecoveryInv'
<1>1. ASSUME NEW c \in RecoveryCode
      PROVE  /\ Cardinality(Holders(c)') \in Nat
             /\ Cardinality(Holders(c)') <= Cardinality(Holders(c))
  <2>1. Holders(c)' \in SUBSET Holders(c)
    OBVIOUS
  <2>. QED  BY <2>1, FewHolders, FS_Subset, FS_CardinalityType
<1>2. \A c \in RecoveryCode : spent[c] \in Nat /\ Cardinality(Holders(c)) \in Nat
  BY FewHolders DEF TypesInv, FactorTypeOK
<1>3. ASSUME NEW c \in RecoveryCode
      PROVE  /\ c \in recovery' => spent'[c] = 0 /\ Holders(c)' = {}
             /\ spent'[c] + Cardinality(Holders(c)') <= 1
             /\ confirmed' = 0 => spent'[c] = 0 /\ Holders(c)' = {}
  BY <1>1, <1>2, <1>3 DEF RecoveryInv, RecoveryCodeOnce
<1>4. confirmed' = 0 => recovery' = {}
  BY DEF RecoveryInv
<1>. QED  BY <1>3, <1>4 DEF RecoveryInv, RecoveryCodeOnce

(* The burn makes a live code the hold of one request.                     *)
LEMMA BurnKeeps ==
  ASSUME TypesInv, RecoveryInv, NEW r \in Client, mfa_burn_recovery_code(r)
  PROVE  RecoveryInv'
<1> DEFINE code == factor[r].code
           call == [factor[r] EXCEPT !.todo = "record", !.valid = code \in recovery]
<1>1. factor[r] \in Call /\ (code \in recovery) \in BOOLEAN
  BY DEF TypesInv, FactorTypeOK
<1>2. call \in Call /\ call.code = code /\ (call.valid <=> code \in recovery)
  BY <1>1 DEF Call, Step
<1>3. /\ Goes(r, call)
      /\ UNCHANGED <<confirmed, spent>> /\ recovery' = recovery \ {code}
  BY DEF mfa_burn_recovery_code, Burned
<1>. HIDE DEF call
<1>4. ASSUME NEW c \in RecoveryCode
      PROVE  /\ c \in recovery' => spent[c] = 0 /\ Holders(c)' = {}
             /\ spent[c] + Cardinality(Holders(c)') <= 1
             /\ confirmed = 0 => spent[c] = 0 /\ Holders(c)' = {}
  <2>1. CASE c = code /\ code \in recovery
    <3>1. Holders(c) = {} /\ spent[c] = 0 /\ confirmed # 0
      BY <2>1 DEF RecoveryInv, RecoveryCodeOnce
    <3>2. Holders(c)' = {r}
      BY <1>2, <1>3, <2>1, <3>1, Holding
    <3>3. Cardinality(Holders(c)') = 1
      BY <3>2, FS_Singleton
    <3>. QED  BY <1>3, <2>1, <3>1, <3>3
  <2>2. CASE ~(c = code /\ code \in recovery)
    <3>1. Holders(c)' = Holders(c) \ {r}
      BY <1>2, <1>3, <2>2, Holding
    <3>2. /\ Cardinality(Holders(c)') <= Cardinality(Holders(c))
          /\ Cardinality(Holders(c)') \in Nat /\ Cardinality(Holders(c)) \in Nat
      BY <3>1, FewHolders, FS_Subset, FS_CardinalityType, Holders(c)' \in SUBSET Holders(c)
    <3>3. spent[c] \in Nat /\ spent[c] + Cardinality(Holders(c)) <= 1
      BY DEF TypesInv, FactorTypeOK, RecoveryInv, RecoveryCodeOnce
    <3>. QED  BY <1>3, <3>1, <3>2, <3>3 DEF RecoveryInv, RecoveryCodeOnce
  <2>. QED  BY <2>1, <2>2
<1>5. confirmed' = 0 => recovery' = {}
  BY <1>3 DEF RecoveryInv
<1>. QED  BY <1>3, <1>4, <1>5 DEF RecoveryInv, RecoveryCodeOnce

(* The token spends the hold.                                              *)
LEMMA IssueKeeps ==
  ASSUME TypesInv, RecoveryInv, NEW r \in Client, issueJWT(r)
  PROVE  RecoveryInv'
<1>1. /\ factor[r].valid
      /\ Goes(r, Idle) /\ UNCHANGED <<confirmed, recovery>>
      /\ spent' = [c \in RecoveryCode |-> IF c = factor[r].code THEN spent[c] + 1 ELSE spent[c]]
  BY DEF issueJWT, TypesInv, CallsRight, CallRight
<1>2. ASSUME NEW c \in RecoveryCode
      PROVE  /\ c \in recovery => spent'[c] = 0 /\ Holders(c)' = {}
             /\ spent'[c] + Cardinality(Holders(c)') <= 1
             /\ confirmed = 0 => spent'[c] = 0 /\ Holders(c)' = {}
  <2>1. Holders(c)' = Holders(c) \ {r}
    BY <1>1, Holding, IdleCall
  <2>2. /\ spent[c] \in Nat /\ Cardinality(Holders(c)) \in Nat
        /\ spent[c] + Cardinality(Holders(c)) <= 1
    BY FewHolders DEF TypesInv, FactorTypeOK, RecoveryInv, RecoveryCodeOnce
  <2>3. Cardinality(Holders(c)') =
          IF r \in Holders(c) THEN Cardinality(Holders(c)) - 1 ELSE Cardinality(Holders(c))
    BY <2>1, FewHolders, FS_RemoveElement
  <2>4. r \in Holders(c) <=> c = factor[r].code
    BY <1>1 DEF Holders
  <2>5. spent'[c] = IF r \in Holders(c) THEN spent[c] + 1 ELSE spent[c]
    BY <1>1, <2>4
  <2>6. c \in recovery \/ confirmed = 0 => spent[c] = 0 /\ Holders(c) = {}
    BY DEF RecoveryInv, RecoveryCodeOnce
  <2>. QED  BY <2>1, <2>2, <2>3, <2>5, <2>6
<1>3. confirmed' = 0 => recovery' = {}
  BY <1>1 DEF RecoveryInv
<1>. QED  BY <1>1, <1>2, <1>3 DEF RecoveryInv, RecoveryCodeOnce

(* A confirmation hands out codes that nobody can hold yet.                *)
LEMMA ConfirmKeeps ==
  ASSUME TypesInv, RecoveryInv, NEW r \in Client, mfa_confirm(r)
  PROVE  RecoveryInv'
<1>1. Goes(r, Idle) /\ UNCHANGED spent
  BY DEF mfa_confirm
<1>2. \A c \in RecoveryCode : Holders(c)' \subseteq Holders(c)
  BY <1>1, Holding, IdleCall
<1>3. CASE ~Confirmable
  BY <1>1, <1>2, <1>3, NobodyGains DEF mfa_confirm
<1>4. CASE Confirmable
  <2>1. /\ \A c \in RecoveryCode : spent[c] = 0 /\ Holders(c)' = {}
    BY <1>2, <1>4 DEF Confirmable, RecoveryInv
  <2>2. confirmed' # 0
    <3>1. Max(pending) \in pending /\ pending \in SUBSET (1..MaxSeeds)
      BY <1>4, Latest DEF Confirmable, TypesInv, FactorTypeOK
    <3>2. PICK m \in pending : confirmed' = m
      BY <1>4, <3>1 DEF mfa_confirm
    <3>. QED  BY <3>1, <3>2, SecondFactorAssumption
  <2>. QED  BY <1>1, <2>1, <2>2, FS_EmptySet DEF RecoveryInv, RecoveryCodeOnce
<1>. QED  BY <1>3, <1>4

LEMMA RecoveryStep ==
  ASSUME TypesInv, RecoveryInv, [FactorNext]_factor_vars
  PROVE  RecoveryInv'
<1>1. factor' \in [Client -> Call]
  BY FactorTypeStep DEF TypesInv, FactorTypeOK
<1>2. ASSUME NEW r \in Client, NEW call \in Call, Goes(r, call),
             \/ ~call.valid
             \/ call.code = NoCode
             \/ factor[r].valid /\ call.code = factor[r].code,
             confirmed' = confirmed, recovery' = recovery, spent' = spent
      PROVE  RecoveryInv'
  <2>1. ASSUME NEW c \in RecoveryCode
        PROVE  Holders(c)' \subseteq Holders(c)
    <3>1. CASE call.valid /\ call.code = c
      <4>1. r \in Holders(c)
        BY <1>2, <3>1, SecondFactorAssumption DEF Holders
      <4>. QED  BY <1>2, <3>1, <4>1, Holding
    <3>2. CASE ~(call.valid /\ call.code = c)
      BY <1>2, <3>2, Holding
    <3>. QED  BY <3>1, <3>2
  <2>. QED  BY <1>2, <2>1, NobodyGains
<1>3. ASSUME NEW r \in Client,
             \/ MfaEnroll(r) \/ mfa_begin_enroll(r) \/ MfaConfirm(r) \/ hang_up(r)
             \/ \E link \in Link \cup {NoLink} : MfaVerify(r, link)
      PROVE  RecoveryInv'
  <2>1. PICK call : /\ Goes(r, call) /\ confirmed' = confirmed /\ recovery' = recovery /\ spent' = spent
                    /\ ~call.valid
    <3>1. CASE MfaEnroll(r)
      <4>1. ~[Idle EXCEPT !.todo = "insert", !.seed = seeds + 1, !.seen = pending].valid
        BY DEF Idle
      <4>. QED  BY <3>1, <4>1 DEF MfaEnroll
    <3>2. CASE MfaConfirm(r)
      <4>1. ~[Idle EXCEPT !.todo = "read_pending", !.goal = "confirm"].valid
        BY DEF Idle
      <4>. QED  BY <3>2, <4>1 DEF MfaConfirm
    <3>3. ASSUME NEW link \in Link \cup {NoLink}, MfaVerify(r, link)
          PROVE  \E call : /\ Goes(r, call) /\ confirmed' = confirmed /\ recovery' = recovery /\ spent' = spent
                           /\ ~call.valid
      <4>1. ~[Idle EXCEPT !.todo = "read_secret", !.goal = "issue", !.link = link].valid
        BY DEF Idle
      <4>. QED  BY <3>3, <4>1 DEF MfaVerify
    <3>4. CASE mfa_begin_enroll(r) \/ hang_up(r)
      BY <3>4, IdleCall DEF mfa_begin_enroll, hang_up
    <3>. QED  BY <1>3, <3>1, <3>2, <3>3, <3>4
  <2>2. call \in Call
    BY <1>1, <2>1 DEF Goes, TypesInv, FactorTypeOK
  <2>. QED  BY <1>2, <2>1, <2>2
<1>4. ASSUME NEW r \in Client, NEW valid \in BOOLEAN, mfa_pending_secret(r, valid)
      PROVE  RecoveryInv'
  <2>1. factor[r] \in Call /\ factor[r].code = NoCode
    BY <1>4 DEF mfa_pending_secret, TypesInv, FactorTypeOK, CallsRight, CallRight
  <2>2. PICK call : Goes(r, call) /\ call.code = NoCode
    <3> DEFINE checked == [factor[r] EXCEPT !.todo = "record", !.valid = valid]
    <3>1. checked.code = NoCode
      BY <2>1 DEF Call
    <3>2. Goes(r, IF pending = {} THEN Idle ELSE checked)
      BY <1>4 DEF mfa_pending_secret
    <3>. HIDE DEF checked
    <3>. QED  BY <3>1, <3>2, IdleCall
  <2>3. call \in Call
    BY <1>1, <2>2 DEF Goes, TypesInv, FactorTypeOK
  <2>. QED  BY <1>2, <1>4, <2>2, <2>3 DEF mfa_pending_secret
<1>5. ASSUME NEW r \in Client, NEW code \in RecoveryCode \cup {NoCode},
             mfa_confirmed_secret(r, code)
      PROVE  RecoveryInv'
  <2>1. factor[r] \in Call /\ factor[r].code = NoCode /\ ~factor[r].valid
    BY <1>5 DEF mfa_confirmed_secret, TypesInv, FactorTypeOK, CallsRight, CallRight
  <2>2. PICK call : Goes(r, call) /\ (call.code = NoCode \/ ~call.valid)
    <3> DEFINE right == [factor[r] EXCEPT !.todo = "record", !.valid = TRUE]
               other == [factor[r] EXCEPT !.todo = "burn", !.code = code]
    <3>1. right.code = NoCode /\ ~other.valid
      BY <2>1 DEF Call
    <3>2. Goes(r, Idle) \/ Goes(r, right) \/ Goes(r, other)
      BY <1>5 DEF mfa_confirmed_secret
    <3>. HIDE DEF right, other
    <3>. QED  BY <3>1, <3>2, IdleCall
  <2>3. call \in Call
    BY <1>1, <2>2 DEF Goes, TypesInv, FactorTypeOK
  <2>. QED  BY <1>2, <1>5, <2>2, <2>3 DEF mfa_confirmed_secret
<1>6. ASSUME NEW r \in Client, mfa_record_attempt(r)
      PROVE  RecoveryInv'
  <2>1. factor[r] \in Call
    BY DEF TypesInv, FactorTypeOK
  <2>2. PICK call : /\ Goes(r, call)
                    /\ \/ ~call.valid
                       \/ factor[r].valid /\ call.code = factor[r].code
    <3> DEFINE on == [factor[r] EXCEPT !.todo = factor[r].goal]
    <3>1. on.code = factor[r].code
      BY <2>1 DEF Call
    <3>2. Goes(r, IF factor[r].valid THEN on ELSE Idle)
      BY <1>6 DEF mfa_record_attempt
    <3>. HIDE DEF on
    <3>. QED  BY <3>1, <3>2, IdleCall
  <2>3. call \in Call
    BY <1>1, <2>2 DEF Goes, TypesInv, FactorTypeOK
  <2>. QED  BY <1>2, <1>6, <2>2, <2>3 DEF mfa_record_attempt
<1>7. ASSUME UNCHANGED <<factor, confirmed, recovery, spent>>
      PROVE  RecoveryInv'
  <2>1. \A c \in RecoveryCode : Holders(c)' = Holders(c)
    BY <1>7 DEF Holders
  <2>. QED  BY <1>7, <2>1, NobodyGains
<1>8. CASE UNCHANGED factor_vars
  BY <1>7, <1>8 DEF factor_vars
<1>9. CASE failure_leaves_window \/ \E t \in tokens : token_ages(t)
  BY <1>7, <1>9 DEF failure_leaves_window, token_ages
<1>. QED  BY <1>3, <1>4, <1>5, <1>6, <1>8, <1>9, BurnKeeps, IssueKeeps, ConfirmKeeps
          DEF FactorNext

LEMMA RecoveryInit ==
  ASSUME FactorInit
  PROVE  RecoveryInv
<1>1. \A c \in RecoveryCode : Holders(c) = {} /\ spent[c] = 0
  BY IdleCall DEF FactorInit, Holders
<1>. QED  BY <1>1, FS_EmptySet DEF FactorInit, RecoveryInv, RecoveryCodeOnce

(* However many requests present a recovery code at once, it earns one     *)
(* token: inductive with what is so before any code exists.                *)
THEOREM RecoveryCodesSpentOnce == FactorSpec => []RecoveryCodeOnce
<1>1. FactorInit => TypesInv /\ RecoveryInv
  BY FactorTypeInit, RecoveryInit
<1>2. TypesInv /\ RecoveryInv /\ [FactorNext]_factor_vars => (TypesInv /\ RecoveryInv)'
  BY FactorTypeStep, RecoveryStep
<1>3. RecoveryInv => RecoveryCodeOnce
  BY DEF RecoveryInv
<1>. QED  BY <1>1, <1>2, <1>3, PTL DEF FactorSpec

-----------------------------------------------------------------------------
(* Links.                                                                  *)

(* What a token says was linked, and what a request is about to say, is    *)
(* what a factor was accepted for.                                         *)
LinksInv ==
  /\ \A t \in tokens : t.otp => t.link \in proved
  /\ \A r \in Client : factor[r].todo = "issue" => factor[r].link \in proved

(* A confirmed seed is never taken back, and what was proved stays so.     *)
LEMMA FactorGrows ==
  ASSUME TypesInv, [FactorNext]_factor_vars
  PROVE  proved \subseteq proved' /\ (confirmed # 0 => confirmed' = confirmed)
<1>1. CASE UNCHANGED factor_vars
  BY <1>1 DEF factor_vars
<1>2. ASSUME NEW r \in Client, mfa_confirm(r)
      PROVE  proved' = proved /\ (confirmed # 0 => confirmed' = confirmed)
  BY <1>2 DEF mfa_confirm, Confirmable
<1>3. ASSUME NEW r \in Client,
             \/ MfaEnroll(r) \/ mfa_begin_enroll(r) \/ MfaConfirm(r)
             \/ \E valid \in BOOLEAN : mfa_pending_secret(r, valid)
             \/ \E link \in Link \cup {NoLink} : MfaVerify(r, link)
             \/ \E code \in RecoveryCode \cup {NoCode} : mfa_confirmed_secret(r, code)
             \/ mfa_burn_recovery_code(r) \/ issueJWT(r) \/ hang_up(r)
      PROVE  proved' = proved /\ confirmed' = confirmed
  BY <1>3 DEF MfaEnroll, mfa_begin_enroll, MfaConfirm, mfa_pending_secret, MfaVerify,
              mfa_confirmed_secret, mfa_burn_recovery_code, issueJWT, hang_up
<1>4. ASSUME NEW r \in Client, mfa_record_attempt(r)
      PROVE  proved \subseteq proved' /\ confirmed' = confirmed
  BY <1>4 DEF mfa_record_attempt
<1>5. CASE failure_leaves_window \/ \E t \in tokens : token_ages(t)
  BY <1>5 DEF failure_leaves_window, token_ages
<1>. QED  BY <1>1, <1>2, <1>3, <1>4, <1>5 DEF FactorNext

LEMMA LinksStep ==
  ASSUME TypesInv, LinksInv, [FactorNext]_factor_vars
  PROVE  LinksInv'
<1>. USE FactorGrows
<1>1. factor' \in [Client -> Call]
  BY FactorTypeStep DEF TypesInv, FactorTypeOK
<1>2. ASSUME NEW r \in Client, NEW call, Goes(r, call), tokens' = tokens,
             call.todo = "issue" => call.link \in proved'
      PROVE  LinksInv'
  <2>1. /\ factor'[r] = call
        /\ \A s \in Client : s # r => factor'[s] = factor[s]
    BY <1>2 DEF Goes, TypesInv, FactorTypeOK
  <2>2. /\ \A t \in tokens' : t.otp => t.link \in proved'
        /\ \A s \in Client : factor'[s].todo = "issue" => factor'[s].link \in proved'
    BY <1>2, <2>1 DEF LinksInv
  <2>. QED  BY <2>2 DEF LinksInv
<1>3. ASSUME NEW r \in Client, MfaEnroll(r) \/ MfaConfirm(r)
                               \/ \E link \in Link \cup {NoLink} : MfaVerify(r, link)
      PROVE  LinksInv'
  <2>1. /\ [Idle EXCEPT !.todo = "insert", !.seed = seeds + 1, !.seen = pending].todo = "insert"
        /\ [Idle EXCEPT !.todo = "read_pending", !.goal = "confirm"].todo = "read_pending"
        /\ \A link : [Idle EXCEPT !.todo = "read_secret", !.goal = "issue",
                                  !.link = link].todo = "read_secret"
    BY DEF Idle
  <2>2. PICK call : Goes(r, call) /\ call.todo # "issue" /\ tokens' = tokens
    <3>1. CASE MfaEnroll(r)
      BY <2>1, <3>1 DEF MfaEnroll
    <3>2. CASE MfaConfirm(r)
      BY <2>1, <3>2 DEF MfaConfirm
    <3>3. CASE \E link \in Link \cup {NoLink} : MfaVerify(r, link)
      BY <2>1, <3>3 DEF MfaVerify
    <3>. QED  BY <1>3, <3>1, <3>2, <3>3
  <2>. QED  BY <1>2, <2>2
<1>4. ASSUME NEW r \in Client, mfa_begin_enroll(r) \/ mfa_confirm(r) \/ hang_up(r)
      PROVE  LinksInv'
  <2>1. Goes(r, Idle) /\ tokens' = tokens
    BY <1>4 DEF mfa_begin_enroll, mfa_confirm, hang_up
  <2>. QED  BY <1>2, <2>1, IdleCall
<1>5. ASSUME NEW r \in Client,
             \/ \E valid \in BOOLEAN : mfa_pending_secret(r, valid)
             \/ \E code \in RecoveryCode \cup {NoCode} : mfa_confirmed_secret(r, code)
             \/ mfa_burn_recovery_code(r)
      PROVE  LinksInv'
  <2>1. factor[r] \in Call
    BY DEF TypesInv, FactorTypeOK
  <2>2. /\ \A v : [factor[r] EXCEPT !.todo = "record", !.valid = v].todo = "record"
        /\ \A c : [factor[r] EXCEPT !.todo = "burn", !.code = c].todo = "burn"
    BY <2>1 DEF Call
  <2>3. PICK call : Goes(r, call) /\ call.todo # "issue" /\ tokens' = tokens
    <3>1. CASE \E valid \in BOOLEAN : mfa_pending_secret(r, valid)
      <4>1. PICK valid \in BOOLEAN : mfa_pending_secret(r, valid)
        BY <3>1
      <4>2. \/ Goes(r, Idle)
            \/ Goes(r, [factor[r] EXCEPT !.todo = "record", !.valid = valid])
        BY <4>1 DEF mfa_pending_secret
      <4>. QED  BY <2>2, <4>1, <4>2, IdleCall DEF mfa_pending_secret
    <3>2. CASE \E code \in RecoveryCode \cup {NoCode} : mfa_confirmed_secret(r, code)
      BY <2>2, <3>2, IdleCall DEF mfa_confirmed_secret
    <3>3. CASE mfa_burn_recovery_code(r)
      BY <2>2, <3>3 DEF mfa_burn_recovery_code
    <3>. QED  BY <1>5, <3>1, <3>2, <3>3
  <2>. QED  BY <1>2, <2>3
<1>6. ASSUME NEW r \in Client, mfa_record_attempt(r)
      PROVE  LinksInv'
  <2> DEFINE on == [factor[r] EXCEPT !.todo = factor[r].goal]
  <2>1. factor[r] \in Call
    BY DEF TypesInv, FactorTypeOK
  <2>2. on.todo = factor[r].goal /\ on.link = factor[r].link
    BY <2>1 DEF Call
  <2>3. /\ Goes(r, IF factor[r].valid THEN on ELSE Idle) /\ tokens' = tokens
        /\ factor[r].valid /\ factor[r].goal = "issue" => factor[r].link \in proved'
    BY <1>6 DEF mfa_record_attempt
  <2>. HIDE DEF on
  <2>4. CASE factor[r].valid
    BY <1>2, <2>2, <2>3, <2>4
  <2>5. CASE ~factor[r].valid
    BY <1>2, <2>3, <2>5, IdleCall
  <2>. QED  BY <2>4, <2>5
<1>7. ASSUME NEW r \in Client, issueJWT(r)
      PROVE  LinksInv'
  <2> DEFINE new == [otp |-> TRUE, fresh |-> TRUE, link |-> factor[r].link]
  <2>1. /\ Goes(r, Idle) /\ proved' = proved
        /\ tokens' = tokens \cup {new} /\ factor[r].link \in proved
    BY <1>7 DEF issueJWT, LinksInv
  <2>2. \A s \in Client : factor'[s] = factor[s] \/ factor'[s] = Idle
    BY <2>1 DEF Goes, TypesInv, FactorTypeOK
  <2>3. new.link = factor[r].link
    OBVIOUS
  <2>. HIDE DEF new
  <2>4. \A t \in tokens' : t.otp => t.link \in proved'
    BY <2>1, <2>3 DEF LinksInv
  <2>5. \A s \in Client : factor'[s].todo = "issue" => factor'[s].link \in proved'
    BY <2>1, <2>2, IdleCall DEF LinksInv
  <2>. QED  BY <2>4, <2>5 DEF LinksInv
<1>8. CASE UNCHANGED factor_vars
  BY <1>8 DEF factor_vars, LinksInv
<1>9. CASE failure_leaves_window
  BY <1>9 DEF failure_leaves_window, LinksInv
<1>10. ASSUME NEW t \in tokens, token_ages(t)
      PROVE  LinksInv'
  <2>1. t \in Token
    BY DEF TypesInv, FactorTypeOK
  <2>2. [t EXCEPT !.fresh = FALSE].link = t.link /\ t.otp
    BY <1>10, <2>1 DEF token_ages, Token
  <2>3. t.link \in proved
    BY <2>2 DEF LinksInv
  <2>4. /\ \A u \in tokens' : u \in tokens \/ u = [t EXCEPT !.fresh = FALSE]
        /\ UNCHANGED <<factor, proved>>
    BY <1>10 DEF token_ages
  <2>. QED  BY <2>2, <2>3, <2>4 DEF LinksInv
<1>. QED  BY <1>3, <1>4, <1>5, <1>6, <1>7, <1>8, <1>9, <1>10 DEF FactorNext

LEMMA LinksInit ==
  ASSUME FactorInit
  PROVE  LinksInv
BY IdleCall DEF FactorInit, LinksInv

-----------------------------------------------------------------------------
(* Types.                                                                  *)

Policies ==
  /\ beneficiaries \subseteq Link /\ flagged \subseteq Link /\ watchlist_entries \subseteq Link
  /\ warning_rules \subseteq Rule /\ paid \subseteq Link
  /\ warning_acks \in [Link -> SUBSET {"early", "ripe"}]
  /\ recent \in 0..Busy + 1

Requests ==
  /\ order \in [Client -> Order] /\ promise \in [Client -> Promise] /\ answer \in Answer

(* The factor's part of the invariant is SecondFactor's own.               *)
GateTypes == TypesInv /\ Policies /\ Requests

(* Among rules one is the most severe.                                     *)
LEMMA MostSevere ==
  ASSUME NEW S \in SUBSET Rule, S # {}
  PROVE  \E w \in S : \A v \in S : Severity(v) <= Severity(w)
<1>1. \A w \in S : /\ w.decision \in {"warn", "review", "block"}
                   /\ w.decision = "warn" => Severity(w) = 1
                   /\ w.decision = "review" => Severity(w) = 2
                   /\ w.decision = "block" => Severity(w) = 3
  BY PaymentGateAssumption DEF WarningRule, Severity
<1>. HIDE DEF Severity
<1>2. CASE \E w \in S : w.decision = "block"
  BY <1>1, <1>2
<1>3. CASE (\E w \in S : w.decision = "review") /\ \A w \in S : w.decision # "block"
  BY <1>1, <1>3
<1>4. CASE \A w \in S : w.decision = "warn"
  BY <1>1, <1>4
<1>. QED  BY <1>1, <1>2, <1>3, <1>4

(* What a rule decides, and what the evaluation makes of it.               *)
LEMMA RuleType ==
  ASSUME Policies, NEW p, NEW n
  PROVE  /\ RuleFor(p, n).decision \in {"none", "warn", "review", "block"}
         /\ RuleFor(p, n).required_ack \in BOOLEAN
<1>1. CASE Matching(p, n) = {}
  BY <1>1 DEF RuleFor, NoRule
<1>2. CASE Matching(p, n) # {}
  <2>1. Matching(p, n) \in SUBSET Rule
    BY DEF Matching, Policies
  <2>. HIDE DEF Matching
  <2>2. RuleFor(p, n) \in Matching(p, n)
    BY <1>2, <2>1, MostSevere DEF RuleFor, Severest
  <2>3. RuleFor(p, n) \in WarningRule
    BY <2>1, <2>2, PaymentGateAssumption
  <2>. HIDE DEF RuleFor
  <2>. QED  BY <2>3 DEF WarningRule
<1>. QED  BY <1>1, <1>2

LEMMA DecisionType ==
  ASSUME Policies, NEW p, NEW n
  PROVE  /\ DecisionFor(p, n) \in {"allow", "warn", "step_up", "review", "block"}
         /\ RuleFor(p, n).decision \in {"review", "block"} =>
              DecisionFor(p, n) = RuleFor(p, n).decision
         /\ RuleFor(p, n).decision \notin {"review", "block"} =>
              DecisionFor(p, n) \in {"allow", "warn", "step_up"}
<1>1. RuleFor(p, n).decision \in {"none", "warn", "review", "block"}
  BY RuleType
<1>2. StepUp(p, n) \in BOOLEAN
  BY DEF StepUp
<1>. HIDE DEF RuleFor, StepUp
<1>. QED  BY <1>1, <1>2 DEF DecisionFor

LEMMA EvaluatedType ==
  ASSUME Policies, NEW p \in Link, NEW t \in Token
  PROVE  /\ Evaluated(p, t) \in Promise /\ Evaluated(p, t) # NoPromise
         /\ Evaluated(p, t).link = p /\ Evaluated(p, t).token = t /\ ~Evaluated(p, t).step_up
         /\ Evaluated(p, t).decision = DecisionFor(p, recent)
         /\ Evaluated(p, t).required_ack = RuleFor(p, recent).required_ack
<1> DEFINE d == DecisionFor(p, recent)
           k == RuleFor(p, recent).required_ack
<1>1. d \in {"allow", "warn", "step_up", "review", "block"} /\ k \in BOOLEAN
  BY DecisionType, RuleType
<1>2. Evaluated(p, t) = [decision |-> d, step_up |-> FALSE, required_ack |-> k,
                         link |-> p, token |-> t]
  BY DEF Evaluated
<1>. HIDE DEF d, k
<1>3. Evaluated(p, t).decision # "none"
  BY <1>1, <1>2
<1>4. Evaluated(p, t) # NoPromise
  BY <1>3 DEF NoPromise
<1>. QED  BY <1>1, <1>2, <1>4 DEF Promise, d, k

LEMMA AnOrder ==
  ASSUME Requests, NEW r \in Client, order[r].op \in {"send", "preview"}
  PROVE  /\ order[r] \in [op: {"send", "preview"}, todo: {"mfa_enabled", "client_transfer"},
                          link: Link, token: Token, due: BOOLEAN]
         /\ order[r] # NoOrder
BY DEF Requests, Order, NoOrder

LEMMA NoOrderOp == NoOrder.op = "none"
BY DEF NoOrder

(* The answer to a payment keeps the types.                                *)
LEMMA EndsType ==
  ASSUME Requests, NEW r \in Client,
         NEW outcome \in {"posted", "held", "under_review", "blocked", "unacknowledged",
                          "step_up_required"}, Ends(r, outcome)
  PROVE  order' \in [Client -> Order] /\ answer' \in Answer
<1>1. order' \in [Client -> Order]
  BY DEF Ends, Requests, Order
<1>2. promise[r] \in Promise /\ NoPromise \in Promise
  BY DEF Requests, Promise
<1>3. answer' \in Answer
  BY <1>2 DEF Ends, Answer
<1>. QED  BY <1>1, <1>3

(* Steps of the gate that serve one request.                               *)
LEMMA ServeTypes ==
  ASSUME Policies, Requests, tokens \subseteq Token, NEW r \in Client,
         \/ \E op \in {"send", "preview"}, p \in Link, t \in tokens : EvaluateTransfer(r, op, p, t)
         \/ mfa_enabled(r) \/ TransferIntent(r) \/ client_transfer(r) \/ abandon(r)
  PROVE  Policies' /\ Requests'
<1>1. \A s \in Client : promise[s] \in Promise
  BY DEF Requests
<1>2. NoPromise \in Promise /\ NoAnswer \in Answer /\ NoOrder \in Order
  BY DEF Promise, Answer, Order
<1>3. ASSUME NEW gated \in BOOLEAN, Shows(r, gated)
      PROVE  Requests'
  <2>1. order' \in [Client -> Order]
    BY <1>2, <1>3 DEF Shows, Requests
  <2>2. CASE promise[r] = NoPromise
    BY <1>2, <1>3, <2>1, <2>2 DEF Shows, Requests
  <2>3. CASE promise[r] # NoPromise
    <3>1. /\ [promise[r] EXCEPT !.step_up = TRUE] \in Promise
          /\ [promise[r] EXCEPT !.decision = "allow"] \in Promise
      BY <1>1, <2>3 DEF Promise
    <3> DEFINE up == [promise[r] EXCEPT !.step_up = TRUE]
               allowed == [promise[r] EXCEPT !.decision = "allow"]
    <3>2. \E s \in {promise[r], up, allowed} : promise' = [promise EXCEPT ![r] = s]
      BY <1>3, <2>3 DEF Shows
    <3>. HIDE DEF up, allowed
    <3>3. promise' \in [Client -> Promise]
      BY <1>1, <3>1, <3>2 DEF Requests, up, allowed
    <3>. QED  BY <1>2, <1>3, <2>1, <3>3 DEF Shows, Requests
  <2>. QED  BY <2>2, <2>3
<1>4. ASSUME NEW op \in {"send", "preview"}, NEW p \in Link, NEW t \in tokens,
             EvaluateTransfer(r, op, p, t)
      PROVE  Policies' /\ Requests'
  <2> DEFINE due == StepUp(p, recent) /\ MFAEnabled
             todo == IF StepUp(p, recent) /\ ~Exempt(t, p) THEN "mfa_enabled"
                     ELSE "client_transfer"
             new == [op |-> op, link |-> p, token |-> t, due |-> due, todo |-> todo]
  <2>1. due \in BOOLEAN /\ todo \in {"mfa_enabled", "client_transfer"} /\ t \in Token
    BY DEF StepUp, MFAEnabled
  <2>2. order' = [order EXCEPT ![r] = new]
    BY <1>4 DEF EvaluateTransfer
  <2>. HIDE DEF due, todo
  <2>3. new \in Order
    BY <2>1 DEF Order
  <2>. HIDE DEF new
  <2>4. order' \in [Client -> Order]
    BY <2>2, <2>3 DEF Requests
  <2>5. promise' \in [Client -> Promise]
    BY <1>1, <1>4, <2>1, EvaluatedType DEF EvaluateTransfer, Requests
  <2>. QED  BY <1>2, <1>4, <2>4, <2>5 DEF EvaluateTransfer, policy, Policies, Requests
<1>5. CASE mfa_enabled(r)
  <2>1. Policies'
    BY <1>5 DEF mfa_enabled, policy, Policies
  <2>2. CASE ~MFAEnabled
    <3>1. [order[r] EXCEPT !.todo = "client_transfer"] \in Order
      <4>1. order[r].op \in {"send", "preview"}
        BY <1>5 DEF mfa_enabled, Requests, Order, NoOrder
      <4>. QED  BY <4>1, AnOrder DEF Order
    <3>2. /\ order' = [order EXCEPT ![r].todo = "client_transfer"]
          /\ answer' = NoAnswer /\ promise' = promise
      BY <1>5, <2>2 DEF mfa_enabled, Shows, Ends
    <3>. QED  BY <1>2, <2>1, <3>1, <3>2 DEF Requests
  <2>3. CASE Shows(r, TRUE)
    BY <1>3, <2>1, <2>3
  <2>4. CASE Ends(r, "step_up_required") /\ UNCHANGED promise
    BY <2>1, <2>4, EndsType DEF Requests
  <2>. QED  BY <1>5, <2>2, <2>3, <2>4 DEF mfa_enabled
<1>6. CASE TransferIntent(r)
  BY <1>3, <1>6 DEF TransferIntent, policy, Policies
<1>7. CASE client_transfer(r)
  <2> DEFINE outcome == EnforcedOn(order[r].link)
  <2>1. outcome \in {"posted", "held", "under_review", "blocked", "unacknowledged"}
    BY DEF EnforcedOn
  <2>2. Ends(r, outcome)
    BY <1>7 DEF client_transfer
  <2>3. promise' \in [Client -> Promise]
    BY <1>2, <1>7 DEF client_transfer, Unpromised, Requests
  <2>4. recent' \in 0..Busy + 1
    BY <1>7, PaymentGateAssumption DEF client_transfer, Policies
  <2>. HIDE DEF outcome
  <2>5. order' \in [Client -> Order] /\ answer' \in Answer
    BY <2>1, <2>2, EndsType
  <2>6. paid' \subseteq Link
    <3>1. order[r].link \in Link
      BY <1>7, AnOrder DEF client_transfer
    <3>. QED  BY <1>7, <3>1 DEF client_transfer, Policies
  <2>. QED  BY <1>7, <2>3, <2>4, <2>5, <2>6 DEF client_transfer, Policies, Requests
<1>8. CASE abandon(r)
  BY <1>2, <1>8 DEF abandon, policy, Policies, Requests
<1>. QED  BY <1>4, <1>5, <1>6, <1>7, <1>8

(* Whatever changes the policy.                                            *)
PolicyStep ==
  \/ \E p \in Link : \/ RecordWarningAck(p) \/ \E was \in {"early", "ripe"} : ack_ages(p, was)
                      \/ ToggleBeneficiary(p) \/ ToggleFlag(p)
                      \/ consoleToggleWatchlistEntry(p) \/ payee_is_paid(p)
  \/ \E w \in Rule : \/ consoleToggleWarningRule(w)
                   \/ \E v \in Rule : consoleUpdateWarningRule(v, w)
  \/ payment_leaves_window

LEMMA ChangeTypes ==
  ASSUME Policies, Requests, Changes, PolicyStep
  PROVE  Policies' /\ Requests'
<1>1. Requests'
  BY DEF Changes, Unpromised, Requests, Promise, Answer
<1>2. ASSUME NEW p \in Link,
             RecordWarningAck(p) \/ \E was \in {"early", "ripe"} : ack_ages(p, was)
      PROVE  Policies'
  <2>1. warning_acks[p] \subseteq {"early", "ripe"}
    BY DEF Policies
  <2>. QED  BY <1>2, <2>1 DEF RecordWarningAck, ack_ages, policy, Policies
<1>3. ASSUME NEW p \in Link,
             \/ ToggleBeneficiary(p) \/ ToggleFlag(p) \/ consoleToggleWatchlistEntry(p)
             \/ payee_is_paid(p)
      PROVE  Policies'
  BY <1>3 DEF ToggleBeneficiary, ToggleFlag, consoleToggleWatchlistEntry, payee_is_paid, Toggled,
              Policies
<1>4. ASSUME NEW w \in Rule,
             consoleToggleWarningRule(w) \/ \E v \in Rule : consoleUpdateWarningRule(v, w)
      PROVE  Policies'
  BY <1>4 DEF consoleToggleWarningRule, consoleUpdateWarningRule, ChangesRules, Toggled, Policies
<1>5. ASSUME payment_leaves_window
      PROVE  Policies'
  BY <1>5, PaymentGateAssumption DEF payment_leaves_window, policy, Policies
<1>. QED  BY <1>1, <1>2, <1>3, <1>4, <1>5 DEF PolicyStep

LEMMA FactorStepTypes ==
  ASSUME Policies, Requests, FactorStep
  PROVE  Policies' /\ Requests'
<1>1. promise' \in [Client -> Promise]
  BY DEF FactorStep, Unpromised, Requests, Promise
<1>. QED  BY <1>1 DEF FactorStep, policy, Policies, Requests, Answer

LEMMA GateTypeStep ==
  ASSUME GateTypes, [GateNext]_<<factor_vars, gate_vars>>
  PROVE  GateTypes'
<1>1. /\ TypesInv /\ Policies /\ Requests
      /\ tokens \subseteq Token
  BY DEF GateTypes, TypesInv, FactorTypeOK
<1>2. TypesInv'
  BY <1>1, FactorTypeStep DEF GateNext, FactorStep
<1>3. CASE GateStep
  BY <1>1, <1>2, <1>3, ServeTypes, ChangeTypes DEF GateStep, PolicyStep, GateTypes
<1>4. CASE FactorStep
  BY <1>1, <1>2, <1>4, FactorStepTypes DEF GateTypes
<1>5. CASE UNCHANGED gate_vars
  BY <1>1, <1>2, <1>5 DEF gate_vars, policy, GateTypes, Policies, Requests
<1>. QED  BY <1>3, <1>4, <1>5 DEF GateNext

LEMMA GateTypeInit ==
  ASSUME GateInit
  PROVE  GateTypes
<1>1. TypesInv
  BY FactorTypeInit DEF GateInit
<1>2. Policies
  BY PaymentGateAssumption DEF GateInit, Policies
<1>3. Requests
  BY DEF GateInit, Requests, Order, Promise, Answer
<1>. QED  BY <1>1, <1>2, <1>3 DEF GateTypes

(* The tables, the requests, the previews and the answers keep their       *)
(* types whatever is verified, paid or changed meanwhile.                  *)
THEOREM GateTypeCorrect == GateSpec => []GateTypeOK
<1>1. GateInit => GateTypes
  BY GateTypeInit
<1>2. GateTypes /\ [GateNext]_<<factor_vars, gate_vars>> => GateTypes'
  BY GateTypeStep
<1>3. GateTypes => GateTypeOK
  BY DEF GateTypes, TypesInv, Policies, Requests, GateTypeOK
<1>. QED  BY <1>1, <1>2, <1>3, PTL DEF GateSpec

-----------------------------------------------------------------------------
(* A factor for this very payment.                                         *)

(* A payment that is due a factor and needs no more of one has it.         *)
OrderRight(r) ==
  order[r].op \in {"send", "preview"} /\ order[r].due =>
    /\ confirmed # 0
    /\ order[r].todo = "client_transfer" => order[r].link \in proved

LinkedInv == LinksInv /\ \A r \in Client : OrderRight(r)

LEMMA OrderStays ==
  ASSUME GateTypes, LinkedInv, NEW r \in Client,
         order'[r] = order[r] \/ order'[r] = NoOrder,
         proved \subseteq proved', confirmed # 0 => confirmed' # 0
  PROVE  OrderRight(r)'
<1>1. CASE order'[r] = NoOrder
  BY <1>1, NoOrderOp DEF OrderRight
<1>2. CASE order'[r] = order[r]
  BY <1>2 DEF OrderRight, LinkedInv
<1>. QED  BY <1>1, <1>2

LEMMA EvaluateLinked ==
  ASSUME GateTypes, LinkedInv, NEW r \in Client, NEW op \in {"send", "preview"},
         NEW p \in Link, NEW t \in tokens, EvaluateTransfer(r, op, p, t),
         UNCHANGED factor_vars
  PROVE  OrderRight(r)'
<1> DEFINE due == StepUp(p, recent) /\ MFAEnabled
           todo == IF StepUp(p, recent) /\ ~Exempt(t, p) THEN "mfa_enabled" ELSE "client_transfer"
           new == [op |-> op, link |-> p, token |-> t, due |-> due, todo |-> todo]
<1>1. order' = [order EXCEPT ![r] = new]
  BY DEF EvaluateTransfer
<1>2. order'[r] = new
  <2>. HIDE DEF new
  <2>. QED  BY <1>1 DEF GateTypes, Requests
<1>3. due => confirmed # 0 /\ (todo = "client_transfer" => p \in proved)
  BY DEF MFAEnabled, Exempt, LinkedInv, LinksInv
<1>4. UNCHANGED <<confirmed, proved>>
  BY DEF factor_vars
<1>5. order'[r].due = due /\ order'[r].todo = todo /\ order'[r].link = p
  BY <1>2
<1>. HIDE DEF due, todo, new
<1>. QED  BY <1>3, <1>4, <1>5 DEF OrderRight

LEMMA LinkedStep ==
  ASSUME GateTypes, LinkedInv, [GateNext]_<<factor_vars, gate_vars>>
  PROVE  LinkedInv'
<1>1. LinksInv'
  BY LinksStep DEF GateNext, FactorStep, GateTypes, LinkedInv
<1>2. proved \subseteq proved' /\ (confirmed # 0 => confirmed' # 0)
  BY FactorGrows DEF GateNext, FactorStep, GateTypes
<1>3. ASSUME \A r \in Client : order'[r] = order[r] \/ order'[r] = NoOrder \/ OrderRight(r)'
      PROVE  LinkedInv'
  BY <1>1, <1>2, <1>3, OrderStays DEF LinkedInv
<1>4. order \in [Client -> Order]
  BY DEF GateTypes, Requests
<1>5. CASE FactorStep \/ UNCHANGED gate_vars \/ Changes
  BY <1>3, <1>5 DEF FactorStep, gate_vars, Changes
<1>6. ASSUME NEW r \in Client, NEW op \in {"send", "preview"}, NEW p \in Link, NEW t \in tokens,
             EvaluateTransfer(r, op, p, t), UNCHANGED factor_vars
      PROVE  LinkedInv'
  <2>1. \A s \in Client : s # r => order'[s] = order[s]
    BY <1>4, <1>6 DEF EvaluateTransfer
  <2>. QED  BY <1>3, <1>6, <2>1, EvaluateLinked
<1>7. ASSUME NEW r \in Client, mfa_enabled(r), UNCHANGED factor_vars
      PROVE  LinkedInv'
  <2>1. CASE ~MFAEnabled /\ order' = [order EXCEPT ![r].todo = "client_transfer"]
    <3>1. order[r].op \in {"send", "preview"}
      BY <1>4, <1>7 DEF mfa_enabled, Order, NoOrder
    <3>2. ~order[r].due
      BY <2>1, <3>1 DEF LinkedInv, OrderRight, MFAEnabled
    <3>3. order'[r].due = order[r].due /\ \A s \in Client : s # r => order'[s] = order[s]
      BY <1>4, <2>1, <3>1, AnOrder DEF GateTypes
    <3>. QED  BY <1>3, <3>2, <3>3 DEF OrderRight
  <2>2. CASE order' = [order EXCEPT ![r] = NoOrder]
    BY <1>3, <1>4, <2>2
  <2>. QED  BY <1>7, <2>1, <2>2 DEF mfa_enabled, Shows, Ends
<1>8. ASSUME NEW r \in Client, TransferIntent(r) \/ client_transfer(r) \/ abandon(r)
      PROVE  LinkedInv'
  <2>1. order' = [order EXCEPT ![r] = NoOrder]
    BY <1>8 DEF TransferIntent, Shows, client_transfer, Ends, abandon
  <2>. QED  BY <1>3, <1>4, <2>1
<1>. QED  BY <1>5, <1>6, <1>7, <1>8 DEF GateNext, GateStep

(* A payment that needs a second factor goes through only if a factor was  *)
(* accepted for this very payment.  What makes it inductive: a token, and  *)
(* a request about to issue one, say only what was proved, and a factor    *)
(* once confirmed is never taken back between the evaluation and the       *)
(* transfer.                                                               *)
THEOREM PaymentsAlwaysLinked == GateSpec => []LinkedPayments
<1>1. GateInit => GateTypes /\ LinkedInv
  <2>1. ASSUME GateInit PROVE LinkedInv
    <3>1. LinksInv
      BY <2>1, LinksInit DEF GateInit
    <3>2. \A r \in Client : order[r].op = "none"
      BY <2>1, NoOrderOp DEF GateInit
    <3>. QED  BY <3>1, <3>2 DEF LinkedInv, OrderRight
  <2>. QED  BY <2>1, GateTypeInit
<1>2. GateTypes /\ LinkedInv /\ [GateNext]_<<factor_vars, gate_vars>> => (GateTypes /\ LinkedInv)'
  BY GateTypeStep, LinkedStep
<1>3. LinkedInv => LinkedPayments
  BY DEF LinkedInv, LinksInv, OrderRight, LinkedPayments
<1>. QED  BY <1>1, <1>2, <1>3, PTL DEF GateSpec

(* What SecondFactor promises by itself it promises behind the gate.       *)
THEOREM FactorBehindTheGate == GateSpec => FactorSpec
<1>1. GateInit => FactorInit
  BY DEF GateInit
<1>2. [GateNext]_<<factor_vars, gate_vars>> => [FactorNext]_factor_vars
  BY DEF GateNext, FactorStep
<1>. QED  BY <1>1, <1>2, PTL DEF GateSpec, FactorSpec

-----------------------------------------------------------------------------
(* Previews.                                                               *)

Gated(p, t) == StepUp(p, recent) /\ ~Exempt(t, p)

(* What was shown is what holds now: a step-up that is not due is taken    *)
(* out of the decision.                                                    *)
Holds(s) ==
  /\ s.step_up <=> Gated(s.link, s.token) /\ MFAEnabled
  /\ s.required_ack = RuleFor(s.link, recent).required_ack
  /\ s.decision = IF ~s.step_up /\ DecisionFor(s.link, recent) = "step_up" THEN "allow"
                  ELSE DecisionFor(s.link, recent)

(* A request whose preview nothing has changed: it holds once it is shown, *)
(* and a request on the way asks for a factor where one is due.            *)
PromiseRight(r) ==
  promise[r] # NoPromise =>
    /\ order[r].op \in {"send", "preview"} =>
         /\ order[r].todo = "mfa_enabled" => Gated(order[r].link, order[r].token)
         /\ order[r].todo = "client_transfer" =>
              ~(Gated(order[r].link, order[r].token) /\ MFAEnabled)
    /\ order[r].op = "preview" => promise[r] = Evaluated(order[r].link, order[r].token)
    /\ order[r].op # "preview" => Holds(promise[r])

PreviewInv == PreviewKept /\ \A r \in Client : PromiseRight(r)

LEMMA KeptWithoutAnswer ==
  ASSUME answer = NoAnswer
  PROVE  PreviewKept
BY DEF PreviewKept

(* What the evaluation reads.                                              *)
LEMMA SameEvaluation ==
  ASSUME UNCHANGED <<policy, recent>>, confirmed' = confirmed
  PROVE  /\ \A p, t : Gated(p, t)' = Gated(p, t)
         /\ \A s : Holds(s)' = Holds(s)
         /\ \A p, t : Evaluated(p, t)' = Evaluated(p, t)
         /\ MFAEnabled' = MFAEnabled
<1>1. \A p, n : Reasons(p, n)' = Reasons(p, n)
  BY DEF policy, Reasons
<1>2. \A p, n : Band(p, n)' = Band(p, n)
  BY <1>1 DEF Band, Score
<1>3. \A p, n : StepUp(p, n)' = StepUp(p, n) /\ RuleFor(p, n)' = RuleFor(p, n)
  <2>1. \A p, n : Matching(p, n)' = Matching(p, n)
    BY <1>1, <1>2 DEF policy, Matching
  <2>2. \A p, n : RuleFor(p, n)' = RuleFor(p, n)
    BY <2>1 DEF RuleFor
  <2>. QED  BY <1>2, <2>2 DEF policy, StepUp
<1>4. \A p, n : DecisionFor(p, n)' = DecisionFor(p, n)
  BY <1>3 DEF DecisionFor
<1>. HIDE DEF RuleFor, StepUp, DecisionFor
<1>. QED  BY <1>3, <1>4 DEF Gated, Exempt, Holds, MFAEnabled, Evaluated

(* A request that a step leaves alone.                                     *)
LEMMA PromiseStays ==
  ASSUME GateTypes, PreviewInv, UNCHANGED <<policy, recent>>, confirmed' = confirmed,
         NEW r \in Client, promise'[r] = promise[r],
         \/ order'[r] = order[r]
         \/ order[r].op = "send" /\ order'[r] = NoOrder
  PROVE  PromiseRight(r)'
<1>1. PromiseRight(r)
  BY DEF PreviewInv
<1>2. CASE order'[r] = order[r]
  BY <1>1, <1>2, SameEvaluation DEF PromiseRight
<1>3. CASE order[r].op = "send" /\ order'[r] = NoOrder
  <2>1. order[r].op # "preview" /\ order'[r].op = "none"
    BY <1>3, NoOrderOp
  <2>2. (promise[r] # NoPromise => Holds(promise[r]))'
    BY <1>1, <2>1, SameEvaluation DEF PromiseRight
  <2>. QED  BY <2>1, <2>2 DEF PromiseRight
<1>. QED  BY <1>2, <1>3

(* When whatever the decision depends on changes, no promise is left.      *)
LEMMA NothingPromised ==
  ASSUME Unpromised, answer' = NoAnswer
  PROVE  PreviewInv'
<1>1. PreviewKept'
  BY DEF PreviewKept
<1>2. \A r \in Client : promise'[r] = NoPromise
  BY DEF Unpromised
<1>. QED  BY <1>1, <1>2 DEF PreviewInv, PromiseRight

(* The evaluation of a request that sends or previews.                     *)
LEMMA EvaluateKept ==
  ASSUME GateTypes, PreviewInv, NEW r \in Client, NEW op \in {"send", "preview"},
         NEW p \in Link, NEW t \in tokens, EvaluateTransfer(r, op, p, t),
         UNCHANGED factor_vars
  PROVE  PromiseRight(r)'
<1> DEFINE due == StepUp(p, recent) /\ MFAEnabled
           todo == IF Gated(p, t) THEN "mfa_enabled" ELSE "client_transfer"
           new == [op |-> op, link |-> p, token |-> t, due |-> due, todo |-> todo]
<1>1. order' = [order EXCEPT ![r] = new]
  BY DEF EvaluateTransfer, Gated
<1>2. order'[r] = new
  <2>. HIDE DEF new
  <2>. QED  BY <1>1 DEF GateTypes, Requests
<1>3. /\ order'[r].op = op /\ order'[r].link = p /\ order'[r].token = t
      /\ order'[r].todo = todo
  BY <1>2
<1>4. UNCHANGED <<policy, recent>> /\ confirmed' = confirmed
  BY DEF EvaluateTransfer, factor_vars
<1>5. order[r].op = "none" /\ PromiseRight(r)
  BY NoOrderOp DEF EvaluateTransfer, PreviewInv
<1>6. promise \in [Client -> Promise]
  BY DEF GateTypes, Requests
<1>7. CASE op = "send"
  <2>1. promise' = promise
    BY <1>7 DEF EvaluateTransfer
  <2>2. (promise[r] # NoPromise => Holds(promise[r]))'
    BY <1>4, <1>5, <2>1, SameEvaluation DEF PromiseRight
  <2>3. (order[r].todo = "mfa_enabled" => Gated(order[r].link, order[r].token))'
    BY <1>3, <1>4, SameEvaluation
  <2>4. (order[r].todo = "client_transfer" => ~(Gated(order[r].link, order[r].token)))'
    BY <1>3, <1>4, SameEvaluation
  <2>. QED  BY <1>3, <1>7, <2>2, <2>3, <2>4 DEF PromiseRight
<1>8. CASE op = "preview"
  <2>1. promise'[r] = Evaluated(p, t)
    BY <1>6, <1>8 DEF EvaluateTransfer
  <2>2. (promise[r] = Evaluated(order[r].link, order[r].token))'
    BY <1>3, <1>4, <2>1, SameEvaluation
  <2>3. (order[r].todo = "mfa_enabled" => Gated(order[r].link, order[r].token))'
    BY <1>3, <1>4, SameEvaluation
  <2>4. (order[r].todo = "client_transfer" => ~(Gated(order[r].link, order[r].token)))'
    BY <1>3, <1>4, SameEvaluation
  <2>. QED  BY <1>3, <1>8, <2>2, <2>3, <2>4 DEF PromiseRight
<1>. QED  BY <1>7, <1>8

(* The preview that is shown.                                              *)
LEMMA ShowsKept ==
  ASSUME GateTypes, PreviewInv, NEW r \in Client, NEW gated \in BOOLEAN, Shows(r, gated),
         order[r].op = "preview", UNCHANGED <<policy, recent>>, confirmed' = confirmed,
         gated <=> order[r].todo = "mfa_enabled",
         gated => MFAEnabled
  PROVE  PromiseRight(r)'
<1> DEFINE p == order[r].link
           t == order[r].token
           d == DecisionFor(p, recent)
           k == RuleFor(p, recent).required_ack
<1>1. p \in Link /\ t \in Token /\ order[r].todo \in {"mfa_enabled", "client_transfer"}
  BY AnOrder DEF GateTypes
<1>2. promise[r] \in Promise /\ order \in [Client -> Order] /\ promise \in [Client -> Promise]
  BY DEF GateTypes, Requests
<1>3. order'[r].op = "none"
  BY <1>2, NoOrderOp DEF Shows
<1>4. CASE promise[r] = NoPromise
  BY <1>2, <1>4 DEF Shows, PromiseRight
<1>5. CASE promise[r] # NoPromise
  <2>1. /\ promise[r] = Evaluated(p, t)
        /\ gated => Gated(p, t) /\ MFAEnabled
        /\ ~gated => ~(Gated(p, t) /\ MFAEnabled)
    BY <1>1, <1>5 DEF PreviewInv, PromiseRight
  <2>2. /\ promise[r].link = p /\ promise[r].token = t /\ ~promise[r].step_up
        /\ promise[r].decision = d /\ promise[r].required_ack = k
    BY <1>1, <2>1, EvaluatedType DEF GateTypes
  <2>3. PICK s : /\ promise'[r] = s /\ s.link = p /\ s.token = t /\ s.required_ack = k
                 /\ s.step_up <=> gated
                 /\ s.decision = IF ~gated /\ d = "step_up" THEN "allow" ELSE d
    <3> DEFINE up == [promise[r] EXCEPT !.step_up = TRUE]
               allowed == [promise[r] EXCEPT !.decision = "allow"]
    <3>1. /\ up.link = p /\ up.token = t /\ up.required_ack = k /\ up.step_up /\ up.decision = d
          /\ allowed.link = p /\ allowed.token = t /\ allowed.required_ack = k
          /\ ~allowed.step_up /\ allowed.decision = "allow"
      BY <1>2, <1>5, <2>2 DEF Promise
    <3>2. /\ gated => promise' = [promise EXCEPT ![r] = up]
          /\ ~gated /\ promise[r].decision = "step_up" =>
               promise' = [promise EXCEPT ![r] = allowed]
          /\ ~gated /\ promise[r].decision # "step_up" =>
               promise' = [promise EXCEPT ![r] = promise[r]]
      BY <1>5 DEF Shows
    <3>. HIDE DEF up, allowed
    <3>. QED  BY <1>2, <2>2, <3>1, <3>2
  <2>. HIDE DEF p, t
  <2>4. Holds(s)
    BY <2>1, <2>3 DEF Holds
  <2>5. (promise[r] # NoPromise => Holds(promise[r]))'
    BY <2>3, <2>4, SameEvaluation
  <2>. QED  BY <1>3, <2>5 DEF PromiseRight
<1>. QED  BY <1>4, <1>5

(* A payment that is answered was promised what it meets.                  *)
LEMMA AnswerKept ==
  ASSUME GateTypes, PreviewInv, NEW r \in Client, NEW outcome, Ends(r, outcome),
         order[r].op = "send",
         \/ /\ order[r].todo = "mfa_enabled" /\ MFAEnabled /\ outcome = "step_up_required"
         \/ order[r].todo = "client_transfer" /\ outcome = EnforcedOn(order[r].link)
  PROVE  PreviewKept'
<1> DEFINE p == order[r].link
           shown == promise[r]
<1>1. answer'.outcome = outcome
  BY DEF Ends
<1>2. CASE ~(shown # NoPromise /\ shown.link = p /\ shown.token = order[r].token)
  <2>1. answer'.promise = NoPromise
    BY <1>2 DEF Ends
  <2>. QED  BY <2>1 DEF PreviewKept
<1>3. CASE shown # NoPromise /\ shown.link = p /\ shown.token = order[r].token
  <2>1. answer'.promise = shown
    BY <1>3 DEF Ends
  <2>2. /\ order[r].todo = "mfa_enabled" => Gated(p, order[r].token)
        /\ order[r].todo = "client_transfer" => ~(Gated(p, order[r].token) /\ MFAEnabled)
        /\ Holds(shown)
    BY <1>3 DEF PreviewInv, PromiseRight
  <2>3. CASE order[r].todo = "mfa_enabled" /\ MFAEnabled /\ outcome = "step_up_required"
    <3>1. shown.step_up
      BY <1>3, <2>2, <2>3 DEF Holds
    <3>. QED  BY <1>1, <2>1, <2>3, <3>1 DEF PreviewKept
  <2>4. CASE order[r].todo = "client_transfer" /\ outcome = EnforcedOn(p)
    <3> DEFINE rule == RuleFor(p, recent)
               d == DecisionFor(p, recent)
    <3>1. /\ ~shown.step_up /\ shown.required_ack = rule.required_ack
          /\ shown.decision = IF d = "step_up" THEN "allow" ELSE d
      BY <1>3, <2>2, <2>4 DEF Holds
    <3>2. /\ rule.decision \in {"none", "warn", "review", "block"}
          /\ rule.decision \in {"review", "block"} => d = rule.decision
          /\ rule.decision \notin {"review", "block"} => d \in {"allow", "warn", "step_up"}
      BY RuleType, DecisionType DEF GateTypes
    <3>3. /\ outcome # "step_up_required"
          /\ outcome = "blocked" => rule.decision = "block"
          /\ outcome = "unacknowledged" => rule.required_ack
          /\ outcome = "held" => rule.decision = "review"
          /\ outcome = "posted" => rule.decision \notin {"block", "review"}
      <4>. HIDE DEF RuleFor
      <4>. QED  BY <2>4 DEF EnforcedOn, Others
    <3>. HIDE DEF rule, d
    <3>4. /\ outcome = "blocked" => shown.decision = "block"
          /\ outcome = "unacknowledged" => shown.required_ack
          /\ outcome = "held" => shown.decision = "review"
          /\ outcome = "posted" => shown.decision \in {"allow", "warn"}
      BY <3>1, <3>2, <3>3
    <3>. QED  BY <1>1, <2>1, <3>1, <3>3, <3>4 DEF PreviewKept
  <2>. QED  BY <2>3, <2>4
<1>. QED  BY <1>2, <1>3

LEMMA PreviewStep ==
  ASSUME GateTypes, PreviewInv, [GateNext]_<<factor_vars, gate_vars>>
  PROVE  PreviewInv'
<1>1. /\ order \in [Client -> Order] /\ promise \in [Client -> Promise]
      /\ TypesInv
  BY DEF GateTypes, Requests
<1>2. ASSUME NEW r \in Client, PreviewKept', PromiseRight(r)',
             UNCHANGED <<policy, recent>>, confirmed' = confirmed,
             \A s \in Client : s # r => order'[s] = order[s] /\ promise'[s] = promise[s]
      PROVE  PreviewInv'
  <2>1. \A s \in Client : s # r => PromiseRight(s)'
    BY <1>2, PromiseStays
  <2>. QED  BY <1>2, <2>1 DEF PreviewInv
<1>3. CASE FactorStep
  <2>1. answer' = NoAnswer /\ UNCHANGED <<policy, recent, order>>
    BY <1>3 DEF FactorStep
  <2>2. CASE Unpromised
    BY <2>1, <2>2, NothingPromised
  <2>3. CASE confirmed' = confirmed /\ UNCHANGED promise
    <3>1. \A r \in Client : PromiseRight(r)'
      BY <2>1, <2>3, PromiseStays
    <3>2. PreviewKept'
      BY <2>1 DEF PreviewKept
    <3>. QED  BY <3>1, <3>2 DEF PreviewInv
  <2>. QED  BY <1>3, <2>2, <2>3 DEF FactorStep
<1>4. CASE Changes
  BY <1>4, NothingPromised DEF Changes
<1>5. CASE UNCHANGED <<factor_vars, gate_vars>>
  <2>1. UNCHANGED <<policy, recent>> /\ confirmed' = confirmed
        /\ UNCHANGED <<order, promise, answer>>
    BY <1>5 DEF factor_vars, gate_vars, policy
  <2>2. \A r \in Client : PromiseRight(r)'
    BY <2>1, PromiseStays
  <2>3. PreviewKept'
    BY <2>1 DEF PreviewInv, PreviewKept
  <2>. QED  BY <2>2, <2>3 DEF PreviewInv
<1>6. ASSUME NEW r \in Client, NEW op \in {"send", "preview"}, NEW p \in Link, NEW t \in tokens,
             EvaluateTransfer(r, op, p, t), UNCHANGED factor_vars
      PROVE  PreviewInv'
  <2>1. /\ answer' = NoAnswer /\ UNCHANGED <<policy, recent>> /\ confirmed' = confirmed
        /\ \A s \in Client : s # r => order'[s] = order[s] /\ promise'[s] = promise[s]
    BY <1>1, <1>6 DEF EvaluateTransfer, factor_vars
  <2>2. PreviewKept'
    BY <2>1 DEF PreviewKept
  <2>. QED  BY <1>2, <1>6, <2>1, <2>2, EvaluateKept
<1>7. ASSUME NEW r \in Client, mfa_enabled(r), UNCHANGED factor_vars
      PROVE  PreviewInv'
  <2>1. /\ UNCHANGED <<policy, recent>> /\ confirmed' = confirmed
        /\ order[r].op \in {"send", "preview"} /\ order[r].todo = "mfa_enabled"
    BY <1>1, <1>7 DEF mfa_enabled, factor_vars, Order, NoOrder
  <2>2. CASE ~MFAEnabled /\ order' = [order EXCEPT ![r].todo = "client_transfer"]
             /\ answer' = NoAnswer /\ UNCHANGED promise
    <3>1. order'[r] = [order[r] EXCEPT !.todo = "client_transfer"]
      BY <1>1, <2>2
    <3>2. /\ order'[r].op = order[r].op /\ order'[r].link = order[r].link
          /\ order'[r].token = order[r].token /\ order'[r].todo = "client_transfer"
      BY <2>1, <3>1, AnOrder DEF GateTypes
    <3>3. PromiseRight(r)
      BY DEF PreviewInv
    <3>4. (order[r].todo = "client_transfer" =>
             ~(Gated(order[r].link, order[r].token) /\ MFAEnabled))'
      BY <2>1, <2>2, SameEvaluation
    <3>5. (promise[r] # NoPromise /\ order[r].op = "preview" =>
             promise[r] = Evaluated(order[r].link, order[r].token))'
      BY <2>1, <2>2, <3>2, <3>3, SameEvaluation DEF PromiseRight
    <3>6. (promise[r] # NoPromise /\ order[r].op # "preview" => Holds(promise[r]))'
      BY <2>1, <2>2, <3>2, <3>3, SameEvaluation DEF PromiseRight
    <3>7. PromiseRight(r)'
      BY <3>2, <3>4, <3>5, <3>6 DEF PromiseRight
    <3>8. PreviewKept'
      BY <2>2 DEF PreviewKept
    <3>. QED  BY <1>1, <1>2, <2>1, <2>2, <3>7, <3>8
  <2>3. CASE MFAEnabled /\ order[r].op = "preview" /\ Shows(r, TRUE)
    <3>1. PromiseRight(r)'
      BY <2>1, <2>3, ShowsKept
    <3>2. PreviewKept'
      BY <2>3 DEF Shows, PreviewKept
    <3>3. \A s \in Client : s # r => order'[s] = order[s] /\ promise'[s] = promise[s]
      BY <1>1, <2>3 DEF Shows
    <3>. QED  BY <1>2, <2>1, <3>1, <3>2, <3>3
  <2>4. CASE /\ MFAEnabled /\ order[r].op = "send" /\ Ends(r, "step_up_required")
             /\ UNCHANGED promise
    <3>1. PreviewKept'
      BY <2>1, <2>4, AnswerKept
    <3>2. order' = [order EXCEPT ![r] = NoOrder]
      BY <2>4 DEF Ends
    <3>3. /\ order'[r] = NoOrder
          /\ \A s \in Client : s # r => order'[s] = order[s] /\ promise'[s] = promise[s]
      BY <1>1, <2>4, <3>2
    <3>4. PromiseRight(r)'
      BY <2>1, <2>4, <3>3, PromiseStays
    <3>. QED  BY <1>2, <2>1, <3>1, <3>3, <3>4
  <2>. QED  BY <1>7, <2>2, <2>3, <2>4 DEF mfa_enabled
<1>8. ASSUME NEW r \in Client, TransferIntent(r), UNCHANGED factor_vars
      PROVE  PreviewInv'
  <2>1. /\ order[r].op = "preview" /\ order[r].todo = "client_transfer" /\ Shows(r, FALSE)
        /\ UNCHANGED <<policy, recent>> /\ confirmed' = confirmed
    BY <1>8 DEF TransferIntent, factor_vars
  <2>2. PromiseRight(r)'
    BY <2>1, ShowsKept
  <2>3. PreviewKept'
    BY <2>1 DEF Shows, PreviewKept
  <2>4. \A s \in Client : s # r => order'[s] = order[s] /\ promise'[s] = promise[s]
    BY <1>1, <2>1 DEF Shows
  <2>. QED  BY <1>2, <2>1, <2>2, <2>3, <2>4
<1>9. ASSUME NEW r \in Client, client_transfer(r), UNCHANGED factor_vars
      PROVE  PreviewInv'
  <2> DEFINE outcome == EnforcedOn(order[r].link)
  <2>1. /\ order[r].op = "send" /\ order[r].todo = "client_transfer" /\ Ends(r, outcome)
        /\ confirmed' = confirmed
    BY <1>9 DEF client_transfer, factor_vars
  <2>2. PreviewKept'
    BY <2>1, AnswerKept
  <2>3. CASE Unpromised
    <3>1. \A s \in Client : promise'[s] = NoPromise
      BY <2>3 DEF Unpromised
    <3>. QED  BY <2>2, <3>1 DEF PreviewInv, PromiseRight
  <2>4. CASE UNCHANGED <<recent, paid, promise>>
    <3>0. UNCHANGED <<policy, recent>>
      BY <1>9, <2>4 DEF client_transfer, policy
    <3>1. /\ order'[r] = NoOrder
          /\ \A s \in Client : s # r => order'[s] = order[s]
      BY <1>1, <2>1 DEF Ends
    <3>2. PromiseRight(r)'
      BY <2>1, <2>4, <3>0, <3>1, PromiseStays
    <3>. QED  BY <1>2, <2>1, <2>2, <2>4, <3>0, <3>1, <3>2
  <2>. QED  BY <1>9, <2>3, <2>4 DEF client_transfer
<1>10. ASSUME NEW r \in Client, abandon(r), UNCHANGED factor_vars
      PROVE  PreviewInv'
  <2>1. /\ answer' = NoAnswer /\ UNCHANGED <<policy, recent>> /\ confirmed' = confirmed
        /\ order' = [order EXCEPT ![r] = NoOrder]
        /\ order[r].op = "preview" => promise' = [promise EXCEPT ![r] = NoPromise]
        /\ order[r].op # "preview" => promise' = promise
    BY <1>10 DEF abandon, factor_vars
  <2>2. order'[r] = NoOrder /\ PreviewKept'
    BY <1>1, <2>1 DEF PreviewKept
  <2>3. \A s \in Client : s # r => order'[s] = order[s] /\ promise'[s] = promise[s]
    BY <1>1, <2>1
  <2>4. CASE order[r].op = "preview"
    <3>1. promise'[r] = NoPromise
      BY <1>1, <2>1, <2>4
    <3>2. PromiseRight(r)'
      BY <3>1 DEF PromiseRight
    <3>. QED  BY <1>2, <2>1, <2>2, <2>3, <3>2
  <2>5. CASE order[r].op # "preview"
    <3>1. order[r].op = "send"
      BY <1>1, <1>10, <2>5 DEF abandon, Order, NoOrder
    <3>2. PromiseRight(r)'
      BY <2>1, <2>2, <2>5, <3>1, PromiseStays
    <3>. QED  BY <1>2, <2>1, <2>2, <2>3, <3>2
  <2>. QED  BY <2>4, <2>5
<1>. QED  BY <1>3, <1>4, <1>5, <1>6, <1>7, <1>8, <1>9, <1>10 DEF GateNext, GateStep

(* Preview and enforcement cannot diverge: a payment that is sent while    *)
(* nothing has changed meets what its preview showed.  Inductive with what *)
(* a preview shows of the present and with what a request on the way has   *)
(* already found out.                                                      *)
THEOREM PreviewsAlwaysKept == GateSpec => []PreviewKept
<1>1. GateInit => GateTypes /\ PreviewInv
  <2>1. ASSUME GateInit PROVE PreviewInv
    BY <2>1 DEF GateInit, PreviewInv, PreviewKept, PromiseRight
  <2>. QED  BY <2>1, GateTypeInit
<1>2. GateTypes /\ PreviewInv /\ [GateNext]_<<factor_vars, gate_vars>> => (GateTypes /\ PreviewInv)'
  BY GateTypeStep, PreviewStep
<1>3. PreviewInv => PreviewKept
  BY DEF PreviewInv
<1>. QED  BY <1>1, <1>2, <1>3, PTL DEF GateSpec

=============================================================================
