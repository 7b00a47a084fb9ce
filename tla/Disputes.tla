------------------------------ MODULE Disputes ------------------------------
(***************************************************************************)
(* The cases that customers raise against settled transfers, and the       *)
(* claims that operators decide: 00013_disputes.sql, composed with Ledger. *)
(* A reimbursement is a transfer like any other, from EXTERNAL_CLEARING to *)
(* the debit account of the disputed transfer, under a key derived from    *)
(* the id of the case.                                                     *)
(*                                                                         *)
(* One action is one function call, that is one transaction.  The audit    *)
(* rows and the notifications that each call also writes are left out, and *)
(* so are category, scam type, notes and the deadline, which nothing reads.*)
(***************************************************************************)
EXTENDS Ledger

CONSTANTS
  EXTERNAL_CLEARING,  \* the system account that pays reimbursements
  ClaimKey,           \* per case, the key 'dispute-reimburse-<id>'
  reimbursement_cap_minor,     \* of bank_settings; no function changes them
  reimbursement_excess_minor,
  MaxDisputes         \* bound: rows of the table disputes

ASSUME DisputesAssumption ==
  /\ EXTERNAL_CLEARING \in System
  /\ MaxDisputes \in Nat
  /\ ClaimKey \in [1..MaxDisputes -> KeyName]
  /\ \A i, j \in 1..MaxDisputes : ClaimKey[i] = ClaimKey[j] => i = j
  /\ reimbursement_cap_minor \in Nat
  /\ reimbursement_excess_minor \in Nat

VARIABLES
  disputes,     \* the table disputes
  description   \* of each transfer: the case that it reimburses, or 0

case_vars == <<disputes, description>>
allvars   == <<vars, case_vars>>

OpenStatus == {"open", "under_review"}
Closed     == {"resolved", "rejected"}

Dispute ==
  [transfer_id: 1..MaxTransfers, raised_by: User, status: OpenStatus \cup Closed,
   decision: {"pending", "reimbursed", "partially_reimbursed", "declined"},
   reimbursed_amount_minor: 0..MaxAmount,   \* 0 stands for NULL, too
   recall_status: {"none", "requested", "funds_returned", "refused"}]

Party(u, t) ==
  \E a \in {transfers[t].debit, transfers[t].credit} \cap Customer : Owner[a] = u

InitCases ==
  /\ Init
  /\ disputes = <<>>
  /\ description = <<>>

(* The transfer that the step adds, if any, reimburses case i.             *)
Describe(i) ==
  description' = [t \in DOMAIN transfers' |->
                    IF t \in DOMAIN transfers THEN description[t] ELSE i]

-----------------------------------------------------------------------------
(* The functions.                                                          *)

(* At most one case of a raiser is open on a transfer (uq_disputes_one_open).*)
raise_dispute(u, t) ==
  /\ Len(disputes) < MaxDisputes
  /\ Party(u, t)
  /\ transfers[t].status \in Settled
  /\ \A i \in DOMAIN disputes :
       ~(disputes[i].transfer_id = t /\ disputes[i].raised_by = u
           /\ disputes[i].status \in OpenStatus)
  /\ disputes' =
       Append(disputes, [transfer_id |-> t, raised_by |-> u, status |-> "open",
                         decision |-> "pending", reimbursed_amount_minor |-> 0,
                         recall_status |-> "none"])
  /\ UNCHANGED <<vars, description>>

resolve_dispute_any_state(i, st) ==
  /\ i \in DOMAIN disputes
  /\ st \in {"under_review"} \cup Closed
  /\ disputes' = [disputes EXCEPT ![i].status = st]
  /\ UNCHANGED <<vars, description>>

(* Close a case without a decision on money, or take it up.                *)
resolve_dispute(i, st) ==
  /\ i \in DOMAIN disputes
  /\ st \in {"under_review"} \cup Closed
  /\ disputes[i].status \in OpenStatus
  /\ disputes' = [disputes EXCEPT ![i].status = st]
  /\ UNCHANGED <<vars, description>>

Lesser(m, n)  == IF m < n THEN m ELSE n
Greater(m, n) == IF m > n THEN m ELSE n

Payout_unclamped(m, vulnerable) ==
  LET capped == Lesser(m, reimbursement_cap_minor)
  IN  IF vulnerable THEN capped ELSE capped - reimbursement_excess_minor

(* The cap, then the excess, which a vulnerable customer does not bear.    *)
Payout(m, vulnerable) ==
  LET capped == Lesser(m, reimbursement_cap_minor)
  IN  IF vulnerable THEN capped ELSE Greater(capped - reimbursement_excess_minor, 0)

Decide(i, st, decision, payout) ==
  disputes' = [disputes EXCEPT ![i].status = st, ![i].decision = decision,
                               ![i].reimbursed_amount_minor = payout]

decline(i) ==
  /\ i \in DOMAIN disputes
  /\ disputes[i].status \in OpenStatus
  /\ Decide(i, "rejected", "declined", 0)
  /\ UNCHANGED <<vars, description>>

Reimburse(i, decision, m, vulnerable) ==
  LET payout == Payout(m, vulnerable)
  IN  /\ Decide(i, "resolved", decision, payout)
      /\ \/ /\ payout > 0
            /\ deposit(ClaimKey[i], EXTERNAL_CLEARING,
                       transfers[disputes[i].transfer_id].debit, payout)
            /\ Describe(i)
         \/ payout <= 0 /\ UNCHANGED <<vars, description>>

reimburse_again(i, decision, m, vulnerable) ==
  /\ i \in DOMAIN disputes
  /\ m <= transfers[disputes[i].transfer_id].amount
  /\ Reimburse(i, decision, m, vulnerable)

(* A claim that is granted pays the debit account, unless the excess eats  *)
(* it all.                                                                 *)
reimburse(i, decision, m, vulnerable) ==
  /\ i \in DOMAIN disputes
  /\ disputes[i].status \in OpenStatus
  /\ m <= transfers[disputes[i].transfer_id].amount
  /\ Reimburse(i, decision, m, vulnerable)

(* The simulated recall; its answer may come after the decision.           *)
set_dispute_recall(i, st) ==
  /\ i \in DOMAIN disputes
  /\ \/ st = "requested" /\ disputes[i].recall_status = "none"
     \/ st \in {"funds_returned", "refused"} /\ disputes[i].recall_status = "requested"
  /\ disputes' = [disputes EXCEPT ![i].recall_status = st]
  /\ UNCHANGED <<vars, description>>

(* Any other movement of money leaves the cases alone.  Nobody else sends  *)
(* the key of a case: it contains the random id of the case.               *)
AsideCases ==
  /\ \A k \in Caller \X {ClaimKey[i] : i \in 1..MaxDisputes} :
       idempotency_keys[k] = Unclaimed => idempotency_keys'[k] = Unclaimed
  /\ Describe(0)
  /\ UNCHANGED disputes

-----------------------------------------------------------------------------
decide_dispute(i) ==
  \/ decline(i)
  \/ \E decision \in {"reimbursed", "partially_reimbursed"}, m \in Amount,
        vulnerable \in BOOLEAN : reimburse(i, decision, m, vulnerable)

CaseStep ==
  \/ \E u \in User, t \in DOMAIN transfers : raise_dispute(u, t)
  \/ \E i \in DOMAIN disputes :
       \/ \E st \in {"under_review"} \cup Closed : resolve_dispute(i, st)
       \/ decide_dispute(i)
       \/ \E st \in {"requested", "funds_returned", "refused"} : set_dispute_recall(i, st)

NextCases == CaseStep \/ (Next /\ AsideCases)

SpecCases == InitCases /\ [][NextCases]_allvars

-----------------------------------------------------------------------------
(* Properties.                                                             *)

(* The tables keep their column types.                                     *)
CasesTypeOK ==
  /\ TypeOK
  /\ disputes \in Seq(Dispute) /\ Len(disputes) <= MaxDisputes
  /\ description \in [DOMAIN transfers -> 0..MaxDisputes]

(* What a case says was reimbursed is what the ledger paid: to the debit   *)
(* account of the disputed transfer, once, even when the key of the case   *)
(* was swept since.  ("a replayed decide can never pay twice")             *)
PaidAsDecided ==
  \A i \in 1..MaxDisputes :
    LET paying == {t \in DOMAIN transfers : description[t] = i}
    IN  IF i \in DOMAIN disputes /\ disputes[i].reimbursed_amount_minor > 0
        THEN \E t \in paying :
               /\ paying = {t}
               /\ transfers[t].status \in Settled
               /\ transfers[t].debit  = EXTERNAL_CLEARING
               /\ transfers[t].credit = transfers[disputes[i].transfer_id].debit
               /\ transfers[t].amount = disputes[i].reimbursed_amount_minor
               /\ t > disputes[i].transfer_id
        ELSE paying = {}

(* A closed case is closed as it is: only the recall may still move, from  *)
(* none over requested to one answer.                                      *)
RecallOrder == [none |-> {"requested"}, requested |-> {"funds_returned", "refused"},
                funds_returned |-> {}, refused |-> {}]

ClosedStands ==
  [][\A i \in DOMAIN disputes :
       /\ i \in DOMAIN disputes'
       /\ LET old == disputes[i]
              new == disputes'[i]
          IN  /\ old.status \in Closed =>
                   new = [old EXCEPT !.recall_status = new.recall_status]
              /\ new.recall_status \in {old.recall_status} \cup RecallOrder[old.recall_status]
    ]_allvars

=============================================================================
