---------------------------- MODULE MakerChecker ----------------------------
(***************************************************************************)
(* The operator side of bank0: who may move money, and whose second pair   *)
(* of eyes it takes.  Composes Ledger with the table admin_actions (the    *)
(* approval, screening and limit queues) and the threshold in              *)
(* bank_settings: 00009_maker_checker.sql, the admin_* and client_*        *)
(* wrappers of 00008_transfers.sql and the console handlers.               *)
(*                                                                         *)
(* One action is one transaction.  The rows of admin_actions that only     *)
(* record what was done (risk_hold, and the console's audit trail) are     *)
(* left out.                                                               *)
(***************************************************************************)
EXTENDS Ledger

CONSTANTS
  Operator,    \* staff with the role operator: credit, withdraw, post, cancel
  Admin,       \* staff with the role admin: that, and approve, reverse, settings
  NoOne,       \* NULL
  Threshold,   \* the values of maker_checker_threshold_minor
  MaxActions   \* bound: rows of the table admin_actions

Staff == Operator \cup Admin

ASSUME MakerCheckerAssumption ==
  /\ User \cap Staff = {}
  /\ NoOne \notin User \cup Staff
  /\ Threshold \subseteq Nat
  /\ MaxActions \in Nat

VARIABLES
  admin_actions,                 \* the queued rows of the table admin_actions
  maker_checker_threshold_minor  \* bank_settings

desk_vars == <<admin_actions, maker_checker_threshold_minor>>
allvars   == <<vars, desk_vars>>

(* target_id is a transfer, or an account in a limit_request; requested    *)
(* stands for requested_limit_minor in the detail of a limit_request.      *)
MoneyQueue == {"approval_request", "screening_hold"}
AdminAction ==
  [action: MoneyQueue, actor_user_id: User \cup Staff, target_id: 1..MaxTransfers,
   requested: {0}, approved_by: Staff \cup {NoOne}]
  \cup
  [action: {"limit_request"}, actor_user_id: User, target_id: Customer,
   requested: Limit, approved_by: Staff \cup {NoOne}]

Rows(action)     == {r \in DOMAIN admin_actions : admin_actions[r].action = action}
Open(action)     == {r \in Rows(action) : admin_actions[r].approved_by = NoOne}
RowsOf(t)        == {r \in Rows("approval_request") \cup Rows("screening_hold") :
                       admin_actions[r].target_id = t}
OpenRowsOf(t)    == {r \in RowsOf(t) : admin_actions[r].approved_by = NoOne}

Enqueue(action, actor, target, requested) ==
  /\ Len(admin_actions) < MaxActions
  /\ admin_actions' =
       Append(admin_actions,
              [action |-> action, actor_user_id |-> actor, target_id |-> target,
               requested |-> requested, approved_by |-> NoOne])
  /\ UNCHANGED maker_checker_threshold_minor

Handle(r, by) ==
  /\ admin_actions' = [admin_actions EXCEPT ![r].approved_by = by]
  /\ UNCHANGED maker_checker_threshold_minor

InitDesk ==
  /\ Init
  /\ admin_actions = <<>>
  /\ maker_checker_threshold_minor \in Threshold

-----------------------------------------------------------------------------
(* The customers.                                                          *)

(* A payment that screening parks also joins the screening queue.          *)
client_pays(u, n, d, c, m) ==
  /\ client_transfer(u, n, d, c, m)
  /\ IF transfers'[NextId].status = "under_review"
     THEN Enqueue("screening_hold", u, NextId, 0)
     ELSE UNCHANGED desk_vars

(* What waits for an approval is not the customer's to post.               *)
client_post_transfer(t) ==
  /\ t \in DOMAIN transfers
  /\ transfers[t].debit \in Customer
  /\ OpenRowsOf(t) = {}
  /\ post_transfer(t, {"pending"})
  /\ UNCHANGED desk_vars

request_limit_change(a, l) ==
  /\ account_status[a] # "closed"
  /\ l # transfer_limit_minor[a]
  /\ Enqueue("limit_request", Owner[a], a, l)
  /\ UNCHANGED vars

-----------------------------------------------------------------------------
(* The staff.                                                              *)

RequiresApproval(m) == m > maker_checker_threshold_minor

admin_deposit(n, s, a, m) ==
  /\ ~RequiresApproval(m)
  /\ deposit(n, s, a, m)
  /\ UNCHANGED desk_vars

admin_withdraw(n, a, s, m) ==
  /\ ~RequiresApproval(m)
  /\ withdraw(n, a, s, m)
  /\ UNCHANGED desk_vars

(* Stage the movement and queue it.  The console read the threshold in a   *)
(* transaction before, so by now any amount may be staged.  Under a key    *)
(* seen before, nothing is staged but the row is queued all the same.      *)
request_money_with_approval(maker, n, d, c, m) ==
  \/ /\ request_transfer(n, d, c, m)
     /\ Enqueue("approval_request", maker, NextId, 0)
  \/ /\ idempotency_keys[<<Sentinel, n>>].request_hash = <<d, c, m>>
     /\ Enqueue("approval_request", maker, idempotency_keys[<<Sentinel, n>>].transfer_id, 0)
     /\ UNCHANGED vars

(* The Post and Cancel buttons of the transfer list.                       *)
consolePostTransfer(t) ==
  /\ post_transfer(t, {"pending"})
  /\ UNCHANGED desk_vars

consoleCancelTransfer(t) ==
  /\ cancel_transfer(t)
  /\ UNCHANGED desk_vars

approve_request_unposted(r, by) ==
  /\ r \in Open("approval_request") \cup Open("screening_hold")
  /\ admin_actions[r].actor_user_id # by
  /\ Handle(r, by)
  /\ UNCHANGED vars

approve_request_own(r, by) ==
  LET row == admin_actions[r]
      from == IF row.action = "screening_hold" THEN {"under_review"} ELSE {"pending"}
  IN  /\ r \in Open("approval_request") \cup Open("screening_hold")
      /\ post_transfer(row.target_id, from)
      /\ Handle(r, by)

(* A transfer that is posted by now is left alone, and the row is handled. *)
approve_request(r, by) ==
  LET row == admin_actions[r]
      from == IF row.action = "screening_hold" THEN {"under_review"} ELSE {"pending"}
  IN  /\ r \in Open("approval_request") \cup Open("screening_hold")
      /\ row.actor_user_id # by
      /\ \/ post_transfer(row.target_id, from)
         \/ transfers[row.target_id].status = "posted" /\ UNCHANGED vars
      /\ Handle(r, by)

(* The maker may withdraw a request of their own.                          *)
reject_request(r, by) ==
  LET t == admin_actions[r].target_id
  IN  /\ r \in Open("approval_request") \cup Open("screening_hold")
      /\ \/ cancel_transfer(t)
         \/ transfers[t].status = "canceled" /\ UNCHANGED vars
      /\ Handle(r, by)

approve_limit_change(r, by) ==
  LET row == admin_actions[r]
  IN  /\ r \in Open("limit_request")
      /\ row.actor_user_id # by
      /\ update_transfer_limit(row.target_id, row.requested)
      /\ Handle(r, by)

reject_limit_change(r, by) ==
  /\ r \in Open("limit_request")
  /\ Handle(r, by)
  /\ UNCHANGED vars

update_bank_settings(l) ==
  /\ maker_checker_threshold_minor' = l
  /\ UNCHANGED <<admin_actions, vars>>

-----------------------------------------------------------------------------
Customers ==
  \/ \E d \in Customer, c \in Account, m \in Amount, n \in KeyName :
       client_pays(Owner[d], n, d, c, m)
  \/ \E t \in DOMAIN transfers :
       \/ client_post_transfer(t)
       \/ client_cancel_transfer(t) /\ UNCHANGED desk_vars
       \/ client_confirm_transfer(t) /\ UNCHANGED desk_vars
  \/ \E a \in Customer, l \in Limit : request_limit_change(a, l)

Cashiers ==
  \E n \in KeyName, s \in System, a \in Customer, m \in Amount :
    \/ admin_deposit(n, s, a, m)
    \/ admin_withdraw(n, a, s, m)
    \/ \E maker \in Staff : \/ request_money_with_approval(maker, n, s, a, m)
                            \/ request_money_with_approval(maker, n, a, s, m)

Console ==
  \/ \E t \in DOMAIN transfers : consolePostTransfer(t) \/ consoleCancelTransfer(t)
  \/ Administer /\ UNCHANGED desk_vars

Approvers ==
  \E r \in DOMAIN admin_actions, by \in Admin :
    \/ approve_request(r, by)
    \/ reject_request(r, by)
    \/ approve_limit_change(r, by)
    \/ reject_limit_change(r, by)

NextDesk ==
  \/ Customers \/ Cashiers \/ Console \/ Approvers
  \/ Reverse /\ UNCHANGED desk_vars
  \/ RunMaintenance /\ UNCHANGED desk_vars
  \/ (\E t \in DOMAIN transfers : window_lapses(t)) /\ UNCHANGED desk_vars
  \/ \E l \in Threshold : update_bank_settings(l)

SpecDesk == InitDesk /\ [][NextDesk]_allvars

-----------------------------------------------------------------------------
(* Properties.                                                             *)

(* The tables keep their column types.                                     *)
DeskTypeOK ==
  /\ TypeOK
  /\ admin_actions \in Seq(AdminAction) /\ Len(admin_actions) <= MaxActions
  /\ maker_checker_threshold_minor \in Threshold

(* Nothing waits out of sight: a parked payment has exactly one open row   *)
(* in the screening queue, a pending one an open approval row ("no orphaned*)
(* hold without a queue row"), and a row that was handled leaves no        *)
(* transfer waiting.                                                       *)
NoOrphanedHold ==
  \A t \in DOMAIN transfers :
    /\ transfers[t].status = "under_review" =>
         \E r \in Open("screening_hold") : OpenRowsOf(t) = {r}
    /\ transfers[t].status = "pending" =>
         OpenRowsOf(t) \cap Rows("approval_request") # {}
    /\ transfers[t].status \in Awaiting => OpenRowsOf(t) = RowsOf(t)

(* What waits in a queue takes effect only by the decision of an admin who *)
(* did not ask for it, once; but for the Post button of the transfer list, *)
(* which reaches staged movements and not parked payments, and for staff   *)
(* that sets a ceiling unasked.                                            *)
Decides(r) == admin_actions'[r].approved_by \in Admin \ {admin_actions[r].actor_user_id}

DecidesOn(t) == \E r \in OpenRowsOf(t) : Decides(r)

Grants(a) ==
  \E r \in Open("limit_request") :
    /\ admin_actions[r].target_id = a
    /\ admin_actions[r].requested = transfer_limit_minor'[a]
    /\ Decides(r)

MoneyNeedsDecision ==
  \A t \in DOMAIN transfers :
    (OpenRowsOf(t) # {} /\ transfers'[t].status # transfers[t].status
       /\ transfers'[t].status = "posted") =>
      DecidesOn(t) \/ (transfers[t].status = "pending" /\ consolePostTransfer(t))

LimitNeedsDecision ==
  \A a \in Customer :
    transfer_limit_minor'[a] # transfer_limit_minor[a] =>
      (admin_actions' = admin_actions /\ Administer) \/ Grants(a)

QueuedNeedsDecision == [][MoneyNeedsDecision /\ LimitNeedsDecision]_allvars

-----------------------------------------------------------------------------
(* What documents say of the desk and the code does not do.                *)

(* "Idempotent on idempotencyKey (request_transfer's gate)": a retried     *)
(* staging call leaves one row in the queue.                               *)
StagedOnce ==
  \A t \in DOMAIN transfers : Cardinality(RowsOf(t)) <= 1

(* Above the threshold a movement "require[s] a second admin via the       *)
(* Approvals queue": what was staged settles only with an approver.        *)
FourEyes ==
  \A t \in DOMAIN transfers :
    (transfers[t].status = "posted" /\ RowsOf(t) \cap Rows("approval_request") # {}) =>
      \E r \in RowsOf(t) :
        admin_actions[r].approved_by \in Admin \ {admin_actions[r].actor_user_id}

=============================================================================
