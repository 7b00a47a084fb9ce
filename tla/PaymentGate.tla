---------------------------- MODULE PaymentGate -----------------------------
(***************************************************************************)
(* What stands between a customer of bank0 and a payment: the step-up to a *)
(* second factor linked to that payment, the warning rules, the watchlist  *)
(* and the preview that promises what sending will do.  Composes           *)
(* SecondFactor with handlers_transfers.go (stepUpGate, CreateTransfer,    *)
(* TransferIntent), handlers_warnings.go, console_fraud.go and             *)
(* 00015_fraud.sql; the money itself is the business of Ledger.            *)
(*                                                                         *)
(* A link is a payment: debit, credit and amount.  Sending one is three    *)
(* transactions: evaluate_transfer, then mfa_enabled if the token does not *)
(* exempt the payment, then client_transfer, which evaluates once more.    *)
(*                                                                         *)
(* Definitions named X_variant are X with a fault, for checking that the   *)
(* properties notice it.                                                   *)
(***************************************************************************)
EXTENDS SecondFactor

CONSTANTS
  Large,   \* payments at or above auth.step_up_limit_minor
  Busy,    \* bound: payments in 24 hours that raise the risk score
  Rule     \* the rows of warning_rules, active or not

(* What the evaluation may say of a payment; the two other reasons of the  *)
(* code, the value sent in 24 hours and a young debit account, add points  *)
(* in the same way.                                                        *)
Reason == {"destination_flagged", "velocity_count_24h", "first_payment_to_payee"}

(* A rule matches on a reason, on a band, or on both; "any" and 0 are NULL.*)
WarningRule ==
  [match_reason_code: Reason \cup {"any"}, match_min_band: 0..3,
   decision: {"warn", "review", "block"}, required_ack: BOOLEAN]

ASSUME PaymentGateAssumption ==
  /\ Large \subseteq Link /\ Busy \in Nat
  /\ Rule \subseteq WarningRule
  /\ \A w \in Rule : w.match_reason_code # "any" \/ w.match_min_band # 0

VARIABLES
  beneficiaries,     \* payments whose payee the customer has saved
  flagged,           \* payments to a destination reported or staged as a mule
  warning_rules,     \* the rules that are active
  watchlist_entries, \* payments that screening matches
  warning_acks,      \* acknowledged warnings: just made, or past the cooling-off
  recent,            \* the customer's payments of the last 24 hours
  paid,              \* payments whose payee the customer has paid before
  order,             \* what each request has yet to do to send or preview
  promise,           \* history: the preview each request got, while nothing changed
  answer             \* what the latest step answered to somebody who sent a payment

policy    == <<beneficiaries, flagged, warning_rules, watchlist_entries, paid>>
gate_vars == <<policy, warning_acks, recent, order, promise, answer>>

NoRule == [decision |-> "none", required_ack |-> FALSE]

NoOrder == [op |-> "none"]
Order ==
  {NoOrder} \cup
  [op: {"send", "preview"}, todo: {"mfa_enabled", "client_transfer"}, link: Link,
   token: Token, due: BOOLEAN]

NoPromise == [decision |-> "none"]
Promise ==
  {NoPromise} \cup
  [decision: {"allow", "warn", "step_up", "review", "block"}, step_up: BOOLEAN,
   required_ack: BOOLEAN, link: Link, token: Token]

NoAnswer == [outcome |-> "none"]
Answer ==
  {NoAnswer} \cup
  [outcome: {"posted", "held", "under_review", "blocked", "unacknowledged", "step_up_required"},
   promise: Promise]

GateInit ==
  /\ FactorInit
  /\ beneficiaries = {} /\ flagged = {} /\ watchlist_entries = {}
  /\ warning_rules = {}
  /\ warning_acks = [p \in Link |-> {}]
  /\ recent = 0 /\ paid = {}
  /\ order = [r \in Client |-> NoOrder]
  /\ promise = [r \in Client |-> NoPromise]
  /\ answer = NoAnswer

(* Whatever the decision depends on has changed.                           *)
Unpromised == promise' = [r \in Client |-> NoPromise]

-----------------------------------------------------------------------------
(* The evaluation, in the database.  n is the number of payments of the    *)
(* last 24 hours that it looks at.                                         *)
Reasons(p, n) ==
  {x \in Reason : \/ x = "destination_flagged" /\ p \in flagged
                  \/ x = "velocity_count_24h" /\ n >= Busy
                  \/ x = "first_payment_to_payee" /\ p \notin paid}

Score(p, n) ==
  LET points(x, weight) == IF x \in Reasons(p, n) THEN weight ELSE 0
  IN  points("destination_flagged", 3) + points("velocity_count_24h", 2)
        + points("first_payment_to_payee", 1)

(* 1 is low, 2 medium, 3 high.                                             *)
Band(p, n) == IF Score(p, n) >= 4 THEN 3 ELSE IF Score(p, n) >= 2 THEN 2 ELSE 1

Matching(p, n) ==
  {w \in warning_rules : /\ w.match_reason_code \in Reasons(p, n) \cup {"any"}
                         /\ w.match_min_band <= Band(p, n)}

Severity(w) == [warn |-> 1, review |-> 2, block |-> 3][w.decision]

(* The most severe of some rules; priority and age, which order the rules  *)
(* of one decision, stay as they are.                                      *)
Severest(rules) == CHOOSE w \in rules : \A v \in rules : Severity(v) <= Severity(w)

RuleFor(p, n) == IF Matching(p, n) = {} THEN NoRule ELSE Severest(Matching(p, n))

StepUp(p, n) == p \in Large \/ Band(p, n) = 3 \/ p \notin beneficiaries
DecisionFor(p, n) ==
  LET rule == RuleFor(p, n).decision
  IN  CASE rule \in {"block", "review"}                      -> rule
        [] rule \notin {"block", "review"} /\ StepUp(p, n)  -> "step_up"
        [] rule = "warn" /\ ~StepUp(p, n)                    -> "warn"
        [] rule = "none" /\ ~StepUp(p, n)                    -> "allow"

(* The token is exempt when its factor is fresh and was linked to this     *)
(* very payment.                                                           *)
Exempt_any_link(t, p) == t.otp /\ t.fresh
Exempt(t, p) == t.otp /\ t.fresh /\ t.link = p

(* What transfer() does, under the evaluation that leaves the payment      *)
(* itself out of its own count.                                            *)
Others_itself == recent + 1
Others == recent

EnforcedOn(p) ==
  LET rule    == RuleFor(p, Others)
      unacked == rule.required_ack /\ "ripe" \notin warning_acks[p]
  IN  CASE p \in watchlist_entries   -> "under_review"
        [] p \notin watchlist_entries /\ rule.decision = "block" -> "blocked"
        [] p \notin watchlist_entries /\ rule.decision # "block" /\ unacked -> "unacknowledged"
        [] p \notin watchlist_entries /\ rule.decision = "review" /\ ~unacked -> "held"
        [] OTHER -> "posted"

-----------------------------------------------------------------------------
(* Sending and previewing.                                                 *)

Ends(r, outcome) ==
  /\ answer' = [outcome |-> outcome,
                promise |-> IF promise[r] # NoPromise /\ promise[r].link = order[r].link
                               /\ promise[r].token = order[r].token
                            THEN promise[r] ELSE NoPromise]
  /\ order' = [order EXCEPT ![r] = NoOrder]

(* The preview shows the evaluation, a step-up that is not due taken out.  *)
Evaluated(p, t) ==
  [decision |-> DecisionFor(p, recent), step_up |-> FALSE,
   required_ack |-> RuleFor(p, recent).required_ack, link |-> p, token |-> t]

Shows(r, gated) ==
  /\ promise' =
       [promise EXCEPT ![r] =
          CASE promise[r] = NoPromise -> NoPromise
            [] promise[r] # NoPromise /\ gated -> [promise[r] EXCEPT !.step_up = TRUE]
            [] promise[r] # NoPromise /\ ~gated /\ promise[r].decision = "step_up" ->
                 [promise[r] EXCEPT !.decision = "allow"]
            [] OTHER -> promise[r]]
  /\ order' = [order EXCEPT ![r] = NoOrder]
  /\ answer' = NoAnswer

EvaluateTransfer(r, op, p, t) ==
  /\ order[r] = NoOrder
  /\ order' = [order EXCEPT
       ![r] = [op |-> op, link |-> p, token |-> t, due |-> StepUp(p, recent) /\ MFAEnabled,
               todo |-> IF StepUp(p, recent) /\ ~Exempt(t, p)
                        THEN "mfa_enabled" ELSE "client_transfer"]]
  /\ promise' = IF op = "preview" THEN [promise EXCEPT ![r] = Evaluated(p, t)] ELSE promise
  /\ answer' = NoAnswer
  /\ UNCHANGED <<policy, warning_acks, recent>>

mfa_enabled(r) ==
  /\ order[r].op # "none" /\ order[r].todo = "mfa_enabled"
  /\ \/ /\ ~MFAEnabled
        /\ order' = [order EXCEPT ![r].todo = "client_transfer"]
        /\ answer' = NoAnswer
        /\ UNCHANGED promise
     \/ MFAEnabled /\ order[r].op = "preview" /\ Shows(r, TRUE)
     \/ MFAEnabled /\ order[r].op = "send" /\ Ends(r, "step_up_required") /\ UNCHANGED promise
  /\ UNCHANGED <<policy, warning_acks, recent>>

TransferIntent(r) ==
  /\ order[r].op = "preview" /\ order[r].todo = "client_transfer"
  /\ Shows(r, FALSE)
  /\ UNCHANGED <<policy, warning_acks, recent>>

(* A payment that is refused leaves nothing behind.                        *)
client_transfer(r) ==
  LET outcome == EnforcedOn(order[r].link)
  IN  /\ order[r].op = "send" /\ order[r].todo = "client_transfer"
      /\ Ends(r, outcome)
      /\ IF outcome \in {"posted", "held", "under_review"}
         THEN /\ Unpromised
              /\ recent' = IF recent > Busy THEN recent ELSE recent + 1
              /\ paid' = IF outcome = "posted" THEN paid \cup {order[r].link} ELSE paid
         ELSE UNCHANGED <<recent, paid, promise>>
      /\ UNCHANGED <<beneficiaries, flagged, warning_rules, watchlist_entries, warning_acks>>

(* The client goes away.                                                   *)
abandon(r) ==
  /\ order[r] # NoOrder
  /\ order' = [order EXCEPT ![r] = NoOrder]
  /\ promise' = IF order[r].op = "preview" THEN [promise EXCEPT ![r] = NoPromise] ELSE promise
  /\ answer' = NoAnswer
  /\ UNCHANGED <<policy, warning_acks, recent>>

-----------------------------------------------------------------------------
(* What may change between a preview and the payment.                      *)

Changes ==
  /\ Unpromised
  /\ answer' = NoAnswer
  /\ UNCHANGED order

(* RecordWarningAck; the acknowledgement outlives the cooling-off, and is  *)
(* stale half an hour later.                                               *)
RecordWarningAck(p) ==
  /\ warning_acks' = [warning_acks EXCEPT ![p] = warning_acks[p] \cup {"early"}]
  /\ UNCHANGED <<policy, recent>>

ack_ages(p, was) ==
  /\ was \in warning_acks[p]
  /\ warning_acks' = [warning_acks EXCEPT
       ![p] = (warning_acks[p] \ {was}) \cup (IF was = "early" THEN {"ripe"} ELSE {})]
  /\ UNCHANGED <<policy, recent>>

payment_leaves_window ==
  /\ recent > 0
  /\ recent' = recent - 1
  /\ UNCHANGED <<policy, warning_acks>>

Toggled(set, p) == IF p \in set THEN set \ {p} ELSE set \cup {p}

(* The customer saves or removes a payee.                                  *)
ToggleBeneficiary(p) ==
  /\ beneficiaries' = Toggled(beneficiaries, p)
  /\ UNCHANGED <<flagged, warning_rules, watchlist_entries, paid, warning_acks, recent>>

(* A scenario is staged or a dispute opened, or they end.                  *)
ToggleFlag(p) ==
  /\ flagged' = Toggled(flagged, p)
  /\ UNCHANGED <<beneficiaries, warning_rules, watchlist_entries, paid, warning_acks, recent>>

consoleToggleWatchlistEntry(p) ==
  /\ watchlist_entries' = Toggled(watchlist_entries, p)
  /\ UNCHANGED <<beneficiaries, flagged, warning_rules, paid, warning_acks, recent>>

ChangesRules == UNCHANGED <<beneficiaries, flagged, watchlist_entries, paid, warning_acks, recent>>

(* Create or toggle, and edit: an active row becomes another.              *)
consoleToggleWarningRule(w) == warning_rules' = Toggled(warning_rules, w) /\ ChangesRules

consoleUpdateWarningRule(v, w) ==
  /\ v \in warning_rules /\ w \notin warning_rules
  /\ warning_rules' = (warning_rules \ {v}) \cup {w}
  /\ ChangesRules

(* A payment that was held is released, or another one to that payee is    *)
(* posted.                                                                 *)
payee_is_paid(p) ==
  /\ paid' = paid \cup {p}
  /\ UNCHANGED <<beneficiaries, flagged, warning_rules, watchlist_entries, warning_acks, recent>>

GateStep ==
  \/ \E r \in Client :
       \/ \E op \in {"send", "preview"}, p \in Link, t \in tokens : EvaluateTransfer(r, op, p, t)
       \/ mfa_enabled(r) \/ TransferIntent(r) \/ client_transfer(r) \/ abandon(r)
  \/ /\ Changes
     /\ \/ \E p \in Link : \/ RecordWarningAck(p) \/ \E was \in {"early", "ripe"} : ack_ages(p, was)
                            \/ ToggleBeneficiary(p) \/ ToggleFlag(p)
                            \/ consoleToggleWatchlistEntry(p) \/ payee_is_paid(p)
        \/ \E w \in Rule : \/ consoleToggleWarningRule(w)
                         \/ \E v \in Rule : consoleUpdateWarningRule(v, w)
        \/ payment_leaves_window

(* A second factor that is switched on, or a token that ages, also changes *)
(* what a payment meets.                                                   *)
FactorStep ==
  /\ FactorNext
  /\ IF confirmed' = confirmed /\ tokens \subseteq tokens' THEN UNCHANGED promise ELSE Unpromised
  /\ answer' = NoAnswer
  /\ UNCHANGED <<policy, warning_acks, recent, order>>

GateNext ==
  \/ GateStep /\ UNCHANGED factor_vars
  \/ FactorStep

GateSpec == GateInit /\ [][GateNext]_<<factor_vars, gate_vars>>

-----------------------------------------------------------------------------
(* Properties.                                                             *)

(* The tables keep their column types.                                     *)
GateTypeOK ==
  /\ FactorTypeOK
  /\ beneficiaries \subseteq Link /\ flagged \subseteq Link /\ watchlist_entries \subseteq Link
  /\ warning_rules \subseteq Rule /\ paid \subseteq Link
  /\ warning_acks \in [Link -> SUBSET {"early", "ripe"}]
  /\ recent \in 0..Busy + 1
  /\ order \in [Client -> Order] /\ promise \in [Client -> Promise] /\ answer \in Answer

(* "A generic fresh OTP never authorizes an arbitrary payment": a payment  *)
(* that needs a second factor goes through only if a factor was accepted   *)
(* for this very payment, whatever was verified, recovered, enrolled or    *)
(* retried on the way to its token.                                        *)
LinkedPayments ==
  /\ \A t \in tokens : t.otp => t.link \in proved
  /\ \A r \in Client :
       (order[r].op = "send" /\ order[r].todo = "client_transfer" /\ order[r].due) =>
         order[r].link \in proved

(* "Preview and enforcement cannot diverge": while nothing changes, the    *)
(* payment meets what the preview showed.  Screening alone goes unshown.   *)
PreviewKept ==
  (answer # NoAnswer /\ answer.promise # NoPromise) =>
    LET shown == answer.promise
    IN  /\ answer.outcome = "step_up_required" <=> shown.step_up
        /\ answer.outcome = "blocked"        => shown.decision = "block"
        /\ answer.outcome = "unacknowledged" => shown.required_ack
        /\ answer.outcome = "held"           => shown.decision = "review"
        /\ answer.outcome = "posted"         => shown.decision \in {"allow", "warn"}

=============================================================================
