--------------------------- MODULE BackOfficeProofs ---------------------------
(***************************************************************************)
(* Proofs about the two that work the ledger on their own: Disputes, for   *)
(* any accounts, users, cap, excess and number of cases, and Maintenance,  *)
(* for any users and tokens.  The desk of disputes moves money only as the *)
(* ledger allows, and the ledger paid what each case says; the sweep frees *)
(* all that is reserved unless refresh tokens block it again and again.    *)
(***************************************************************************)
EXTENDS Disputes, Maintenance, LedgerProofs

-----------------------------------------------------------------------------
(* Disputes.                                                               *)

(* The transfers that reimburse case i.                                    *)
Paying(i) == {t \in DOMAIN transfers : description[t] = i}

(* What PaidAsDecided says of a case that was paid m for transfer t.       *)
PaidFor(i, t, m) ==
  \E p \in Paying(i) :
    /\ Paying(i) = {p}
    /\ transfers[p].status \in Settled
    /\ transfers[p].debit  = EXTERNAL_CLEARING
    /\ transfers[p].credit = transfers[t].debit
    /\ transfers[p].amount = m
    /\ p > t

(* And of any case.                                                        *)
CasePaid(i) ==
  IF i \in DOMAIN disputes /\ disputes[i].reimbursed_amount_minor > 0
  THEN PaidFor(i, disputes[i].transfer_id, disputes[i].reimbursed_amount_minor)
  ELSE Paying(i) = {}

LEMMA PaidByCase ==
  /\ PaidAsDecided  <=> \A i \in 1..MaxDisputes : CasePaid(i)
  /\ PaidAsDecided' <=> \A i \in 1..MaxDisputes : CasePaid(i)'
BY DEF PaidAsDecided, CasePaid, PaidFor, Paying

(* Cases are about transfers that exist, and an open one has paid nothing. *)
CaseRows ==
  /\ disputes \in Seq(Dispute) /\ Len(disputes) <= MaxDisputes
  /\ description \in [DOMAIN transfers -> 0..MaxDisputes]
  /\ \A i \in DOMAIN disputes :
       /\ disputes[i].transfer_id \in DOMAIN transfers
       /\ disputes[i].status \in OpenStatus => disputes[i].reimbursed_amount_minor = 0

(* The inductive invariant.  PaidAsDecided needs CaseRows: a decision pays *)
(* for the first time only because an open case has paid nothing.          *)
CasesInv == FundsInv /\ CaseRows /\ PaidAsDecided

LEMMA CaseType ==
  ASSUME CaseRows, NEW i \in DOMAIN disputes
  PROVE  /\ i \in 1..Len(disputes) /\ i \in 1..MaxDisputes
         /\ disputes[i] \in Dispute /\ disputes[i].transfer_id \in DOMAIN transfers
BY DisputesAssumption DEF CaseRows

(* No claim pays more than was asked for.                                  *)
LEMMA PayoutBound ==
  ASSUME NEW m \in Amount, NEW v \in BOOLEAN
  PROVE  Payout(m, v) \in 0..m /\ m \in 1..MaxAmount
BY LedgerAssumption, DisputesAssumption DEF Payout, Lesser, Greater, Amount

-----------------------------------------------------------------------------
(* What a decision does to the ledger: it leaves it alone or deposits.     *)
LEMMA DecisionMoves ==
  ASSUME CasesInv, NEW i \in DOMAIN disputes, NEW decision, NEW m \in Amount,
         NEW v \in BOOLEAN, reimburse(i, decision, m, v)
  PROVE  [Next]_vars
<1> DEFINE payout == Payout(m, v)
           victim == transfers[disputes[i].transfer_id].debit
<1>1. payout \in 0..m /\ m \in 1..MaxAmount
  BY PayoutBound
<1>2. CASE payout <= 0
  <2>1. UNCHANGED vars
    BY <1>1, <1>2 DEF reimburse, Reimburse
  <2> QED
    BY <2>1
<1>3. CASE payout > 0
  <2>1. payout \in Amount
    BY <1>1, <1>3, LedgerAssumption DEF Amount
  <2>2. ClaimKey[i] \in KeyName /\ EXTERNAL_CLEARING \in System
    BY CaseType, DisputesAssumption DEF CasesInv
  <2>3. victim \in Account
    BY CaseType, RowType DEF CasesInv, FundsInv, Transfer
  <2>4. deposit(ClaimKey[i], EXTERNAL_CLEARING, victim, payout)
    BY <1>1, <1>3 DEF reimburse, Reimburse
  <2> HIDE DEF payout, victim
  <2> QED
    BY <2>1, <2>2, <2>3, <2>4 DEF Next, Submit
<1> QED
  BY <1>1, <1>2, <1>3

(* Every step of the cases is a step of the ledger, or none.               *)
LEMMA CasesStepLedger ==
  ASSUME CasesInv, [NextCases]_allvars
  PROVE  [Next]_vars
<1>1. CASE \E u \in User, t \in DOMAIN transfers : raise_dispute(u, t)
  BY <1>1 DEF raise_dispute
<1>2. CASE \E i \in DOMAIN disputes :
             \/ \E st \in {"under_review"} \cup Closed : resolve_dispute(i, st)
             \/ \E st \in {"requested", "funds_returned", "refused"} : set_dispute_recall(i, st)
             \/ decline(i)
  BY <1>2 DEF resolve_dispute, set_dispute_recall, decline
<1>3. CASE \E i \in DOMAIN disputes, decision \in {"reimbursed", "partially_reimbursed"},
              m \in Amount, v \in BOOLEAN : reimburse(i, decision, m, v)
  BY <1>3, DecisionMoves
<1>4. CASE Next \/ UNCHANGED allvars
  BY <1>4 DEF allvars
<1> QED
  BY <1>1, <1>2, <1>3, <1>4 DEF NextCases, CaseStep, decide_dispute

-----------------------------------------------------------------------------
(* What is paid stays paid.                                                *)

(* The transfers that a step adds reimburse the case that it decides.      *)
LEMMA Described ==
  ASSUME NEW i, NEW j, Describe(i), DOMAIN transfers \subseteq DOMAIN transfers'
  PROVE  Paying(j)' = IF i = j THEN Paying(j) \cup (DOMAIN transfers' \ DOMAIN transfers)
                               ELSE Paying(j)
BY DEF Describe, Paying

(* A case that a step neither pays nor describes anew stays paid or unpaid.*)
LEMMA PaidRemains ==
  ASSUME CasesInv, [Next]_vars, NEW i \in 1..MaxDisputes, Paying(i)' = Paying(i),
         i \in DOMAIN disputes =>
           /\ i \in DOMAIN disputes'
           /\ disputes'[i].transfer_id = disputes[i].transfer_id
           /\ disputes'[i].reimbursed_amount_minor = disputes[i].reimbursed_amount_minor,
         i \in DOMAIN disputes' \ DOMAIN disputes => disputes'[i].reimbursed_amount_minor = 0
  PROVE  CasePaid(i)'
<1>1. CasePaid(i)
  BY PaidByCase DEF CasesInv
<1>2. CASE i \in DOMAIN disputes /\ disputes[i].reimbursed_amount_minor > 0
  <2> DEFINE t == disputes[i].transfer_id
             m == disputes[i].reimbursed_amount_minor
  <2>1. PICK p \in Paying(i) :
          /\ Paying(i) = {p}
          /\ transfers[p].status \in Settled
          /\ transfers[p].debit  = EXTERNAL_CLEARING
          /\ transfers[p].credit = transfers[t].debit
          /\ transfers[p].amount = m
          /\ p > t
    BY <1>1, <1>2 DEF CasePaid, PaidFor
  <2>2. p \in DOMAIN transfers /\ t \in DOMAIN transfers
    BY <1>2, CaseType DEF CasesInv, Paying
  <2>3. /\ transfers'[p].status \in Settled
        /\ transfers'[p].debit  = EXTERNAL_CLEARING
        /\ transfers'[p].credit = transfers'[t].debit
        /\ transfers'[p].amount = m
    BY <2>1, <2>2, RowsRemain DEF CasesInv
  <2>4. t = disputes'[i].transfer_id /\ m = disputes'[i].reimbursed_amount_minor
    BY <1>2
  <2> QED
    BY <1>2, <2>1, <2>3, <2>4 DEF CasePaid, PaidFor
<1>3. CASE ~(i \in DOMAIN disputes /\ disputes[i].reimbursed_amount_minor > 0)
  <2>1. Paying(i)' = {}
    BY <1>1, <1>3 DEF CasePaid
  <2>2. ~(i \in DOMAIN disputes' /\ disputes'[i].reimbursed_amount_minor > 0)
    BY <1>3
  <2> QED
    BY <2>1, <2>2 DEF CasePaid
<1> QED
  BY <1>2, <1>3

(* The table of cases keeps its shape while rows of transfers stay.        *)
LEMMA CaseRowsNext ==
  ASSUME CasesInv, [Next]_vars,
         disputes' \in Seq(Dispute), Len(disputes') <= MaxDisputes,
         description' \in [DOMAIN transfers' -> 0..MaxDisputes],
         \A i \in DOMAIN disputes' :
           /\ disputes'[i].transfer_id \in DOMAIN transfers
           /\ disputes'[i].status \in OpenStatus => disputes'[i].reimbursed_amount_minor = 0
  PROVE  CaseRows'
BY RowsRemain DEF CaseRows, CasesInv

-----------------------------------------------------------------------------
(* One lemma per kind of step.                                             *)

(* A new case has paid nothing.                                            *)
LEMMA RaiseCases ==
  ASSUME CasesInv, NEW u \in User, NEW t \in DOMAIN transfers, raise_dispute(u, t)
  PROVE  CaseRows' /\ PaidAsDecided'
<1> DEFINE row == [transfer_id |-> t, raised_by |-> u, status |-> "open",
                   decision |-> "pending", reimbursed_amount_minor |-> 0,
                   recall_status |-> "none"]
<1>1. row \in Dispute
  BY RowType, LedgerAssumption DEF Dispute, OpenStatus, CasesInv, FundsInv
<1>2. disputes' = Append(disputes, row) /\ UNCHANGED <<vars, description>>
      /\ Len(disputes) < MaxDisputes
  BY DEF raise_dispute
<1>3. row.transfer_id = t /\ row.reimbursed_amount_minor = 0
  OBVIOUS
<1> HIDE DEF row
<1>4. UNCHANGED transfers /\ [Next]_vars
  BY <1>2 DEF vars
<1>5. /\ disputes' \in Seq(Dispute) /\ Len(disputes') <= MaxDisputes
      /\ \A i \in DOMAIN disputes : i \in DOMAIN disputes' /\ disputes'[i] = disputes[i]
      /\ \A i \in DOMAIN disputes' \ DOMAIN disputes : disputes'[i] = row
  BY <1>1, <1>2, DisputesAssumption DEF CasesInv, CaseRows
<1>6. CaseRows'
  BY <1>2, <1>3, <1>4, <1>5, CaseRowsNext DEF CasesInv, CaseRows
<1>7. \A i \in 1..MaxDisputes : Paying(i)' = Paying(i)
  BY <1>2, <1>4 DEF Paying
<1>8. \A i \in 1..MaxDisputes : CasePaid(i)'
  BY <1>3, <1>4, <1>5, <1>7, PaidRemains
<1> QED
  BY <1>6, <1>8, PaidByCase

(* A case that changes hands, closes or recalls pays nothing.              *)
LEMMA ChangeCases ==
  ASSUME CasesInv, NEW i \in DOMAIN disputes, NEW row \in Dispute,
         disputes' = [disputes EXCEPT ![i] = row],
         row.transfer_id = disputes[i].transfer_id,
         row.reimbursed_amount_minor = disputes[i].reimbursed_amount_minor,
         row.status \in OpenStatus => disputes[i].status \in OpenStatus,
         UNCHANGED <<vars, description>>
  PROVE  CaseRows' /\ PaidAsDecided'
<1>1. UNCHANGED transfers /\ [Next]_vars
  BY DEF vars
<1>2. /\ disputes' \in Seq(Dispute) /\ Len(disputes') = Len(disputes)
      /\ DOMAIN disputes' = DOMAIN disputes
      /\ \A j \in DOMAIN disputes : disputes'[j] = IF j = i THEN row ELSE disputes[j]
  BY ExceptSeq, CaseType DEF CasesInv, CaseRows
<1>3. CaseRows'
  BY <1>1, <1>2, CaseRowsNext DEF CasesInv, CaseRows
<1>4. \A j \in 1..MaxDisputes : Paying(j)' = Paying(j)
  BY <1>1 DEF Paying
<1>5. \A j \in 1..MaxDisputes : CasePaid(j)'
  BY <1>1, <1>2, <1>4, PaidRemains
<1> QED
  BY <1>3, <1>5, PaidByCase

(* Another movement of money reimburses nobody.                            *)
LEMMA AsideKeepsCases ==
  ASSUME CasesInv, [Next]_vars, AsideCases
  PROVE  CaseRows' /\ PaidAsDecided'
<1>1. DOMAIN transfers \subseteq DOMAIN transfers'
  BY RowsRemain DEF CasesInv
<1>2. description' \in [DOMAIN transfers' -> 0..MaxDisputes]
  BY <1>1, DisputesAssumption DEF AsideCases, Describe, CasesInv, CaseRows
<1>3. CaseRows'
  BY <1>2, CaseRowsNext DEF AsideCases, CasesInv, CaseRows
<1>4. \A i \in 1..MaxDisputes : Paying(i)' = Paying(i)
  BY <1>1, Described DEF AsideCases
<1>5. \A i \in 1..MaxDisputes : CasePaid(i)'
  BY <1>4, PaidRemains DEF AsideCases
<1> QED
  BY <1>3, <1>5, PaidByCase

(* A decision in favour pays the debit account once, or pays nothing.      *)
LEMMA ReimburseCases ==
  ASSUME CasesInv, NEW i \in DOMAIN disputes,
         NEW decision \in {"reimbursed", "partially_reimbursed"}, NEW m \in Amount,
         NEW v \in BOOLEAN, reimburse(i, decision, m, v)
  PROVE  CaseRows' /\ PaidAsDecided'
<1> DEFINE payout == Payout(m, v)
           row    == [disputes[i] EXCEPT !.status = "resolved", !.decision = decision,
                                         !.reimbursed_amount_minor = payout]
           paid   == disputes[i].transfer_id
           victim == transfers[paid].debit
           moved  == [debit |-> EXTERNAL_CLEARING, credit |-> victim, amount |-> payout,
                      reverses |-> 0, status |-> "posted", hold |-> "captured"]
<1>1. payout \in 0..m /\ m \in 1..MaxAmount
  BY PayoutBound
<1>2. payout \in 0..MaxAmount
  BY <1>1, LedgerAssumption
<1>3. /\ i \in 1..MaxDisputes /\ disputes[i] \in Dispute /\ paid \in DOMAIN transfers
      /\ disputes[i].status \in OpenStatus /\ disputes[i].reimbursed_amount_minor = 0
  BY CaseType DEF CasesInv, CaseRows, reimburse
<1>4. row \in Dispute
  BY <1>2, <1>3 DEF Dispute, Closed
<1>5. /\ row.transfer_id = paid /\ row.reimbursed_amount_minor = payout
      /\ row.status \notin OpenStatus
  BY <1>3 DEF Dispute, OpenStatus
<1>6. disputes' = [disputes EXCEPT ![i] = row]
  BY DEF reimburse, Reimburse, Decide
<1>7. [Next]_vars
  BY DecisionMoves
<1> HIDE DEF row
<1>8. CASE payout <= 0
  <2>1. payout = 0 /\ UNCHANGED <<vars, description>>
    BY <1>1, <1>8 DEF reimburse, Reimburse
  <2> QED
    BY <1>3, <1>4, <1>5, <1>6, <2>1, ChangeCases
<1>9. CASE payout > 0
  <2>1. deposit(ClaimKey[i], EXTERNAL_CLEARING, victim, payout) /\ Describe(i)
    BY <1>1, <1>9 DEF reimburse, Reimburse
  <2>2. transfers' = Append(transfers, moved)
    BY <2>1 DEF deposit, Admit, Record
  <2>3. /\ DOMAIN transfers' = DOMAIN transfers \cup {NextId}
        /\ NextId \notin DOMAIN transfers /\ transfers'[NextId] = moved
        /\ NextId > paid
    BY <1>3, <2>2 DEF CasesInv, FundsInv, TypeOK, NextId
  <2>4. /\ moved.debit = EXTERNAL_CLEARING /\ moved.credit = victim
        /\ moved.amount = payout /\ moved.status \in Settled
    BY DEF Settled
  <2> HIDE DEF payout, moved
  <2>5. description' \in [DOMAIN transfers' -> 0..MaxDisputes]
    BY <1>3, <2>1, <2>3, DisputesAssumption DEF Describe, CasesInv, CaseRows
  <2>6. /\ disputes' \in Seq(Dispute) /\ Len(disputes') = Len(disputes)
        /\ DOMAIN disputes' = DOMAIN disputes
        /\ \A j \in DOMAIN disputes : disputes'[j] = IF j = i THEN row ELSE disputes[j]
    BY <1>4, <1>6, ExceptSeq, CaseType DEF CasesInv, CaseRows
  <2>7. CaseRows'
    BY <1>3, <1>5, <1>7, <2>5, <2>6, CaseRowsNext DEF CasesInv, CaseRows
  <2>8. Paying(i) = {}
    BY <1>3, PaidByCase DEF CasesInv, CasePaid
  <2>9. Paying(i)' = {NextId}
    BY <2>1, <2>3, <2>8, Described
  <2>10. transfers'[paid].debit = victim
    BY <1>3, <1>7, RowsRemain DEF CasesInv
  <2>11. CasePaid(i)'
    <3>1. disputes'[i].transfer_id = paid /\ disputes'[i].reimbursed_amount_minor = payout
      BY <1>5, <2>6
    <3> QED
      BY <1>9, <2>3, <2>4, <2>6, <2>9, <2>10, <3>1 DEF CasePaid, PaidFor
  <2>12. \A j \in 1..MaxDisputes : j # i => CasePaid(j)'
    <3>1. \A j \in 1..MaxDisputes : j # i => Paying(j)' = Paying(j)
      BY <2>1, <2>3, Described
    <3> QED
      BY <1>7, <2>6, <3>1, PaidRemains
  <2> QED
    BY <2>7, <2>11, <2>12, PaidByCase
<1> QED
  BY <1>1, <1>8, <1>9

-----------------------------------------------------------------------------
(* The invariant holds at the start, and every step keeps it.              *)
LEMMA CasesInit == InitCases => CasesInv
<1> SUFFICES ASSUME InitCases PROVE CasesInv
  OBVIOUS
<1>1. FundsInv
  BY FundsInit DEF InitCases
<1>2. disputes \in Seq(Dispute) /\ Len(disputes) = 0 /\ DOMAIN disputes = {}
  BY EmptySeq DEF InitCases
<1>3. transfers = <<>> /\ description = <<>> /\ DOMAIN transfers = {}
  BY DEF InitCases, Init
<1>4. CaseRows
  BY <1>2, <1>3, DisputesAssumption DEF CaseRows
<1>5. PaidAsDecided
  BY <1>2, <1>3, PaidByCase DEF CasePaid, Paying
<1> QED
  BY <1>1, <1>4, <1>5 DEF CasesInv

LEMMA CasesNext ==
  ASSUME CasesInv, [NextCases]_allvars
  PROVE  CasesInv'
<1>1. [Next]_vars
  BY CasesStepLedger
<1>2. FundsInv'
  BY <1>1, FundsNext DEF CasesInv
<1>3. CASE \E u \in User, t \in DOMAIN transfers : raise_dispute(u, t)
  BY <1>2, <1>3, RaiseCases DEF CasesInv
<1>4. CASE \E i \in DOMAIN disputes, st \in {"under_review"} \cup Closed : resolve_dispute(i, st)
  <2>1. PICK i \in DOMAIN disputes, st \in {"under_review"} \cup Closed : resolve_dispute(i, st)
    BY <1>4
  <2> DEFINE row == [disputes[i] EXCEPT !.status = st]
  <2>2. disputes[i] \in Dispute
    BY CaseType DEF CasesInv
  <2>3. /\ row \in Dispute /\ row.transfer_id = disputes[i].transfer_id
        /\ row.reimbursed_amount_minor = disputes[i].reimbursed_amount_minor
    BY <2>2 DEF Dispute, OpenStatus
  <2>4. /\ disputes' = [disputes EXCEPT ![i] = row] /\ UNCHANGED <<vars, description>>
        /\ disputes[i].status \in OpenStatus
    BY <2>1 DEF resolve_dispute
  <2> HIDE DEF row
  <2> QED
    BY <1>2, <2>3, <2>4, ChangeCases DEF CasesInv
<1>5. CASE \E i \in DOMAIN disputes : decline(i)
  <2>1. PICK i \in DOMAIN disputes : decline(i)
    BY <1>5
  <2> DEFINE row == [disputes[i] EXCEPT !.status = "rejected", !.decision = "declined",
                                        !.reimbursed_amount_minor = 0]
  <2>2. /\ disputes[i] \in Dispute
        /\ disputes[i].status \in OpenStatus /\ disputes[i].reimbursed_amount_minor = 0
    BY <2>1, CaseType DEF decline, CasesInv, CaseRows
  <2>3. /\ row \in Dispute /\ row.transfer_id = disputes[i].transfer_id
        /\ row.reimbursed_amount_minor = disputes[i].reimbursed_amount_minor
    BY <2>2, LedgerAssumption DEF Dispute, Closed
  <2>4. disputes' = [disputes EXCEPT ![i] = row] /\ UNCHANGED <<vars, description>>
    BY <2>1 DEF decline, Decide
  <2> HIDE DEF row
  <2> QED
    BY <1>2, <2>2, <2>3, <2>4, ChangeCases DEF CasesInv
<1>6. CASE \E i \in DOMAIN disputes, st \in {"requested", "funds_returned", "refused"} :
             set_dispute_recall(i, st)
  <2>1. PICK i \in DOMAIN disputes, st \in {"requested", "funds_returned", "refused"} :
          set_dispute_recall(i, st)
    BY <1>6
  <2> DEFINE row == [disputes[i] EXCEPT !.recall_status = st]
  <2>2. disputes[i] \in Dispute
    BY CaseType DEF CasesInv
  <2>3. /\ row \in Dispute /\ row.transfer_id = disputes[i].transfer_id
        /\ row.reimbursed_amount_minor = disputes[i].reimbursed_amount_minor
        /\ row.status = disputes[i].status
    BY <2>2 DEF Dispute
  <2>4. disputes' = [disputes EXCEPT ![i] = row] /\ UNCHANGED <<vars, description>>
    BY <2>1 DEF set_dispute_recall
  <2> HIDE DEF row
  <2> QED
    BY <1>2, <2>3, <2>4, ChangeCases DEF CasesInv
<1>7. CASE \E i \in DOMAIN disputes, decision \in {"reimbursed", "partially_reimbursed"},
              m \in Amount, v \in BOOLEAN : reimburse(i, decision, m, v)
  BY <1>2, <1>7, ReimburseCases DEF CasesInv
<1>8. CASE Next /\ AsideCases
  BY <1>1, <1>2, <1>8, AsideKeepsCases DEF CasesInv
<1>9. CASE UNCHANGED allvars
  <2>1. UNCHANGED <<disputes, description, transfers>>
    BY <1>9 DEF allvars, case_vars, vars
  <2>2. CaseRows'
    BY <2>1 DEF CasesInv, CaseRows
  <2>3. PaidAsDecided'
    BY <2>1 DEF CasesInv, PaidAsDecided
  <2> QED
    BY <1>2, <2>2, <2>3 DEF CasesInv
<1> QED
  BY <1>3, <1>4, <1>5, <1>6, <1>7, <1>8, <1>9 DEF NextCases, CaseStep, decide_dispute

LEMMA CasesCorrect == SpecCases => []CasesInv
<1>1. CasesInv /\ [NextCases]_allvars => CasesInv'
  BY CasesNext
<1> QED
  BY CasesInit, <1>1, PTL DEF SpecCases

(* The columns keep their types, descriptions of reimbursements included.  *)
THEOREM CasesTypeCorrect == SpecCases => []CasesTypeOK
<1>1. CasesInv => CasesTypeOK
  BY DEF CasesInv, CaseRows, FundsInv, CasesTypeOK
<1> QED
  BY <1>1, CasesCorrect, PTL

(* What a case says was reimbursed is what the ledger paid, once.          *)
THEOREM PaidAsDecidedAlways == SpecCases => []PaidAsDecided
<1>1. CasesInv => PaidAsDecided
  BY DEF CasesInv
<1> QED
  BY <1>1, CasesCorrect, PTL

(* What ClosedStands says of a step.                                       *)
CaseStands(i) ==
  /\ i \in DOMAIN disputes'
  /\ LET old == disputes[i]
         new == disputes'[i]
     IN  /\ old.status \in Closed =>
              new = [old EXCEPT !.recall_status = new.recall_status]
         /\ new.recall_status \in {old.recall_status} \cup RecallOrder[old.recall_status]

(* A row that is left alone stands.                                        *)
LEMMA SameCaseStands ==
  ASSUME CaseRows, NEW i \in DOMAIN disputes, i \in DOMAIN disputes',
         disputes'[i] = disputes[i]
  PROVE  CaseStands(i)
<1>1. disputes[i] \in Dispute
  BY CaseType
<1>2. disputes[i] = [disputes[i] EXCEPT !.recall_status = disputes[i].recall_status]
  BY <1>1 DEF Dispute
<1> QED
  BY <1>2 DEF CaseStands

(* A call that changes one row, of an open case or in its recall only, lets*)
(* the closed cases stand.                                                 *)
LEMMA OneCaseStands ==
  ASSUME CaseRows, NEW i \in DOMAIN disputes, NEW row \in Dispute,
         disputes' = [disputes EXCEPT ![i] = row],
         \/ disputes[i].status \in OpenStatus /\ row.recall_status = disputes[i].recall_status
         \/ /\ row = [disputes[i] EXCEPT !.recall_status = row.recall_status]
            /\ row.recall_status \in RecallOrder[disputes[i].recall_status]
  PROVE  \A j \in DOMAIN disputes : CaseStands(j)
<1>1. /\ DOMAIN disputes' = DOMAIN disputes
      /\ \A j \in DOMAIN disputes : disputes'[j] = IF j = i THEN row ELSE disputes[j]
  BY ExceptSeq, CaseType DEF CaseRows
<1>2. CaseStands(i)
  BY <1>1 DEF CaseStands, OpenStatus, Closed
<1>3. \A j \in DOMAIN disputes : j # i => CaseStands(j)
  BY <1>1, SameCaseStands
<1> QED
  BY <1>2, <1>3

LEMMA CasesStand ==
  ASSUME CasesInv, [NextCases]_allvars
  PROVE  \A j \in DOMAIN disputes : CaseStands(j)
<1>0. CaseRows
  BY DEF CasesInv
<1>1. CASE \E u \in User, t \in DOMAIN transfers : raise_dispute(u, t)
  <2>1. PICK row : disputes' = Append(disputes, row)
    BY <1>1 DEF raise_dispute
  <2>2. \A j \in DOMAIN disputes : j \in DOMAIN disputes' /\ disputes'[j] = disputes[j]
    BY <1>0, <2>1 DEF CaseRows
  <2> QED
    BY <1>0, <2>2, SameCaseStands
<1>2. CASE \E i \in DOMAIN disputes, st \in {"under_review"} \cup Closed : resolve_dispute(i, st)
  <2>1. PICK i \in DOMAIN disputes, st \in {"under_review"} \cup Closed : resolve_dispute(i, st)
    BY <1>2
  <2> DEFINE row == [disputes[i] EXCEPT !.status = st]
  <2>2. disputes[i] \in Dispute
    BY <1>0, CaseType
  <2>3. row \in Dispute /\ row.recall_status = disputes[i].recall_status
    BY <2>2 DEF Dispute, OpenStatus
  <2>4. disputes' = [disputes EXCEPT ![i] = row] /\ disputes[i].status \in OpenStatus
    BY <2>1 DEF resolve_dispute
  <2> HIDE DEF row
  <2> QED
    BY <1>0, <2>3, <2>4, OneCaseStands
<1>3. CASE \E i \in DOMAIN disputes : decline(i)
  <2>1. PICK i \in DOMAIN disputes : decline(i)
    BY <1>3
  <2> DEFINE row == [disputes[i] EXCEPT !.status = "rejected", !.decision = "declined",
                                        !.reimbursed_amount_minor = 0]
  <2>2. disputes[i] \in Dispute /\ disputes[i].status \in OpenStatus
    BY <1>0, <2>1, CaseType DEF decline
  <2>3. 0 \in 0..MaxAmount
    BY LedgerAssumption
  <2>4. row \in Dispute /\ row.recall_status = disputes[i].recall_status
    BY <2>2, <2>3 DEF Dispute, Closed
  <2>5. disputes' = [disputes EXCEPT ![i] = row]
    BY <2>1 DEF decline, Decide
  <2> HIDE DEF row
  <2> QED
    BY <1>0, <2>2, <2>4, <2>5, OneCaseStands
<1>4. CASE \E i \in DOMAIN disputes, st \in {"requested", "funds_returned", "refused"} :
             set_dispute_recall(i, st)
  <2>1. PICK i \in DOMAIN disputes, st \in {"requested", "funds_returned", "refused"} :
          set_dispute_recall(i, st)
    BY <1>4
  <2> DEFINE row == [disputes[i] EXCEPT !.recall_status = st]
  <2>2. disputes[i] \in Dispute
    BY <1>0, CaseType
  <2>3. /\ row \in Dispute /\ row.recall_status = st
        /\ row = [disputes[i] EXCEPT !.recall_status = row.recall_status]
    BY <2>2 DEF Dispute
  <2>4. disputes' = [disputes EXCEPT ![i] = row] /\ st \in RecallOrder[disputes[i].recall_status]
    BY <2>1 DEF set_dispute_recall, RecallOrder
  <2> HIDE DEF row
  <2> QED
    BY <1>0, <2>3, <2>4, OneCaseStands
<1>5. CASE \E i \in DOMAIN disputes, decision \in {"reimbursed", "partially_reimbursed"},
              m \in Amount, v \in BOOLEAN : reimburse(i, decision, m, v)
  <2>1. PICK i \in DOMAIN disputes, decision \in {"reimbursed", "partially_reimbursed"},
             m \in Amount, v \in BOOLEAN : reimburse(i, decision, m, v)
    BY <1>5
  <2> DEFINE row == [disputes[i] EXCEPT !.status = "resolved", !.decision = decision,
                                        !.reimbursed_amount_minor = Payout(m, v)]
  <2>2. disputes[i] \in Dispute /\ disputes[i].status \in OpenStatus
    BY <1>0, <2>1, CaseType DEF reimburse
  <2>3. Payout(m, v) \in 0..MaxAmount
    BY PayoutBound, LedgerAssumption
  <2>4. row \in Dispute /\ row.recall_status = disputes[i].recall_status
    BY <2>2, <2>3 DEF Dispute, Closed
  <2>5. disputes' = [disputes EXCEPT ![i] = row]
    BY <2>1 DEF reimburse, Reimburse, Decide
  <2> HIDE DEF row
  <2> QED
    BY <1>0, <2>2, <2>4, <2>5, OneCaseStands
<1>6. CASE (Next /\ AsideCases) \/ UNCHANGED allvars
  <2>1. disputes' = disputes
    BY <1>6 DEF AsideCases, allvars, case_vars
  <2> QED
    BY <1>0, <2>1, SameCaseStands
<1> QED
  BY <1>1, <1>2, <1>3, <1>4, <1>5, <1>6 DEF NextCases, CaseStep, decide_dispute

(* A closed case stays as it was closed; its recall is asked once and      *)
(* answered once.                                                          *)
THEOREM ClosedCasesStand == SpecCases => ClosedStands
<1>1. CasesInv /\ [NextCases]_allvars => \A j \in DOMAIN disputes : CaseStands(j)
  BY CasesStand
<1>2. (\A j \in DOMAIN disputes : CaseStands(j)) =>
        [\A i \in DOMAIN disputes :
           /\ i \in DOMAIN disputes'
           /\ LET old == disputes[i]
                  new == disputes'[i]
              IN  /\ old.status \in Closed =>
                       new = [old EXCEPT !.recall_status = new.recall_status]
                  /\ new.recall_status \in {old.recall_status} \cup RecallOrder[old.recall_status]
        ]_allvars
  BY DEF CaseStands
<1> QED
  BY <1>1, <1>2, CasesCorrect, PTL DEF SpecCases, ClosedStands

(* The desk of disputes moves money only as the ledger allows: what holds  *)
(* of Ledger alone holds beside it.                                        *)
THEOREM CasesImplementLedger == SpecCases => Spec
<1>1. InitCases => Init
  BY DEF InitCases
<1>2. CasesInv /\ [NextCases]_allvars => [Next]_vars
  BY CasesStepLedger
<1> QED
  BY <1>1, <1>2, CasesCorrect, PTL DEF SpecCases, Spec

-----------------------------------------------------------------------------
(* Maintenance.                                                            *)

(* The tokens have no part in what happens to money: a step of either is a *)
(* step of each of the two, and a sweep is one of both.                    *)
LEMMA MaintenanceSteps ==
  ASSUME [NextMaintenance]_mvars
  PROVE  /\ [Next]_vars
         /\ [SignIns!NextSessions]_signin_vars
<1>1. CASE MoveMoney /\ UNCHANGED signin_vars
  BY <1>1 DEF MoveMoney, Next
<1>2. CASE SignIns!Serve /\ UNCHANGED vars
  BY <1>2 DEF SignIns!NextSessions
<1>3. CASE Sweep
  BY <1>3 DEF Sweep, Next, SignIns!NextSessions
<1>4. CASE UNCHANGED mvars
  BY <1>4 DEF mvars
<1> QED
  BY <1>1, <1>2, <1>3, <1>4 DEF NextMaintenance

(* Ledger and Sessions each keep what was proved of them alone, although   *)
(* what one of them has in its tables can undo the sweep of the other.     *)
THEOREM MaintenanceKeepsBoth == SpecMaintenance => Spec /\ SignIns!SpecSessions
<1>1. InitMaintenance => Init /\ SignIns!InitSessions
  BY DEF InitMaintenance
<1>2. [NextMaintenance]_mvars => [Next]_vars /\ [SignIns!NextSessions]_SignIns!svars
  BY MaintenanceSteps DEF signin_vars, SignIns!svars
<1> QED
  BY <1>1, <1>2, PTL DEF SpecMaintenance, Spec, SignIns!SpecSessions

(* The fairness of the ticker, with what it takes for a sweep to get       *)
(* through written out: holds are not overdue for ever, with nothing that  *)
(* blocks the sweep, without one.                                          *)
TicksGoOn == []<>(lapsed = {} \/ Blocked) \/ []<><<Sweep>>_mvars

LEMMA TicksSweep ==
  SpecMaintenance /\ TicksGoOn => []<>Blocked \/ SweepsGoOn
<1>1. Sweep => (lapsed = {})'
  BY DEF Sweep, RunMaintenance, expire_holds, Expire, Overdue
<1> QED
  BY <1>1, PTL DEF TicksGoOn, SweepsGoOn

(* Whatever customers, operators and staff do or leave undone, every hold  *)
(* ends, unless refresh tokens block the sweep again and again: no other   *)
(* content of the two components' tables can keep money reserved for ever. *)
THEOREM FundsFreedIfUnblocked ==
  SpecMaintenance /\ TicksGoOn /\ (\A t \in 1..MaxTransfers : WindowEnds(t))
    => FundsFreedUnlessBlocked
<1>1. SpecMaintenance => Spec
  BY MaintenanceKeepsBoth
<1> QED
  BY <1>1, TicksSweep, SweptFundsAreFreed DEF FundsFreedUnlessBlocked

=============================================================================
