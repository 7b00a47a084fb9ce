------------------------- MODULE MakerCheckerProofs -------------------------
(***************************************************************************)
(* Proofs about MakerChecker, for any bank and any staff: the desk only    *)
(* does what the ledger allows, so that all that is proved of Ledger holds *)
(* behind it; nothing waits out of sight; what waits in a queue takes      *)
(* effect only by a decision; and what it takes for StagedOnce and         *)
(* FourEyes to be as the documents say.                                    *)
(***************************************************************************)
EXTENDS MakerChecker, LedgerProofs

-----------------------------------------------------------------------------
(* The inductive invariant: rows of the money queues name transfers; a     *)
(* payment held for its customer is in no queue, so that the customer may  *)
(* release it; and a key of the staff names no parked payment, so that a   *)
(* repeated staging call queues none a second time.                        *)
MoneyRows == Rows("approval_request") \cup Rows("screening_hold")

RowsNamed == \A r \in MoneyRows : admin_actions[r].target_id \in DOMAIN transfers

HeldUnqueued == \A t \in DOMAIN transfers : transfers[t].status = "held" => RowsOf(t) = {}

StagingKey(key) ==
  key # Unclaimed =>
    /\ key.transfer_id \in DOMAIN transfers
    /\ transfers[key.transfer_id].status \notin {"held", "under_review"}

StagingKeys == \A n \in KeyName : StagingKey(idempotency_keys[<<Sentinel, n>>])

DeskInv ==
  FundsInv /\ DeskTypeOK /\ RowsNamed /\ HeldUnqueued /\ StagingKeys /\ NoOrphanedHold

-----------------------------------------------------------------------------
(* The rows of the table admin_actions.                                    *)

(* What the type says of one row.                                          *)
LEMMA DeskRowType ==
  ASSUME DeskTypeOK, NEW r \in DOMAIN admin_actions
  PROVE  /\ admin_actions[r] \in AdminAction
         /\ admin_actions[r].action \in MoneyQueue \cup {"limit_request"}
         /\ admin_actions[r].action = "limit_request" =>
              /\ admin_actions[r].actor_user_id \in User
              /\ admin_actions[r].target_id \in Customer
              /\ admin_actions[r].requested \in Limit
         /\ r \in Nat /\ r <= Len(admin_actions)
<1>1. admin_actions[r] \in AdminAction
  BY DEF DeskTypeOK
<1> QED
  BY <1>1 DEF DeskTypeOK, AdminAction, MoneyQueue

(* Queueing adds one open row at the end.                                  *)
LEMMA EnqueuedRows ==
  ASSUME DeskTypeOK, NEW action, NEW actor, NEW target, NEW requested,
         Enqueue(action, actor, target, requested)
  PROVE  LET new == Len(admin_actions) + 1
         IN  /\ new \notin DOMAIN admin_actions
             /\ DOMAIN admin_actions' = DOMAIN admin_actions \cup {new}
             /\ \A r \in DOMAIN admin_actions : admin_actions'[r] = admin_actions[r]
             /\ admin_actions'[new].action = action
             /\ admin_actions'[new].target_id = target
             /\ admin_actions'[new].approved_by = NoOne
BY DEF DeskTypeOK, Enqueue

(* A row that was handled says of its request what it said.                *)
LEMMA HandledRow ==
  ASSUME NEW row \in AdminAction, NEW by
  PROVE  /\ [row EXCEPT !.approved_by = by].action = row.action
         /\ [row EXCEPT !.approved_by = by].target_id = row.target_id
         /\ [row EXCEPT !.approved_by = by].actor_user_id = row.actor_user_id
         /\ [row EXCEPT !.approved_by = by].requested = row.requested
         /\ [row EXCEPT !.approved_by = by].approved_by = by
BY DEF AdminAction

(* Handling changes who decided on one row.                                *)
LEMMA HandledRows ==
  ASSUME DeskTypeOK, NEW r \in DOMAIN admin_actions, NEW by, Handle(r, by)
  PROVE  /\ DOMAIN admin_actions' = DOMAIN admin_actions
         /\ \A s \in DOMAIN admin_actions \ {r} : admin_actions'[s] = admin_actions[s]
         /\ admin_actions'[r].action = admin_actions[r].action
         /\ admin_actions'[r].target_id = admin_actions[r].target_id
         /\ admin_actions'[r].actor_user_id = admin_actions[r].actor_user_id
         /\ admin_actions'[r].requested = admin_actions[r].requested
         /\ admin_actions'[r].approved_by = by
<1>1. /\ DOMAIN admin_actions' = DOMAIN admin_actions
      /\ admin_actions'[r] = [admin_actions[r] EXCEPT !.approved_by = by]
      /\ \A s \in DOMAIN admin_actions \ {r} : admin_actions'[s] = admin_actions[s]
  BY DEF DeskTypeOK, Handle
<1>2. PICK row \in AdminAction : row = admin_actions[r]
  BY DeskRowType
<1> QED
  BY <1>1, <1>2, HandledRow

(* Membership in the sets of rows, row by row.                             *)
LEMMA RowMembers ==
  ASSUME NEW t, NEW r
  PROVE  /\ r \in RowsOf(t) <=> /\ r \in DOMAIN admin_actions
                               /\ admin_actions[r].action \in MoneyQueue
                               /\ admin_actions[r].target_id = t
         /\ r \in OpenRowsOf(t) <=> r \in RowsOf(t) /\ admin_actions[r].approved_by = NoOne
         /\ r \in MoneyRows <=> r \in DOMAIN admin_actions /\ admin_actions[r].action \in MoneyQueue
BY DEF RowsOf, OpenRowsOf, MoneyRows, Rows, MoneyQueue

LEMMA RowMembersNext ==
  ASSUME NEW t, NEW r
  PROVE  /\ r \in RowsOf(t)' <=> /\ r \in DOMAIN admin_actions'
                                /\ admin_actions'[r].action \in MoneyQueue
                                /\ admin_actions'[r].target_id = t
         /\ r \in OpenRowsOf(t)' <=> r \in RowsOf(t)' /\ admin_actions'[r].approved_by = NoOne
         /\ r \in MoneyRows' <=> r \in DOMAIN admin_actions' /\ admin_actions'[r].action \in MoneyQueue
BY DEF RowsOf, OpenRowsOf, MoneyRows, Rows, MoneyQueue

-----------------------------------------------------------------------------
(* What a step of the ledger does to a waiting transfer.                   *)

(* Nothing starts to wait: what waits after a step waited before it.       *)
LEMMA StillWaiting ==
  ASSUME TypeOK, RowsStand, NEW t \in DOMAIN transfers, transfers'[t].status \in Awaiting
  PROVE  transfers'[t].status = transfers[t].status
<1>1. transfers[t].status \in TransferStatus
  BY RowType DEF Transfer
<1>2. transfers'[t].status \in {transfers[t].status} \cup LifeCycle[transfers[t].status]
  BY DEF RowsStand
<1> QED
  BY <1>1, <1>2 DEF TransferStatus, LifeCycle, Awaiting

(* Every step of the desk is a step of the ledger, or leaves it alone.     *)
LEMMA DeskSteps ==
  ASSUME DeskTypeOK, [NextDesk]_allvars
  PROVE  [Next]_vars
<1>1. CASE Customers
  <2>1. CASE \E d \in Customer, c \in Account, m \in Amount, n \in KeyName :
               client_pays(Owner[d], n, d, c, m)
    BY <2>1 DEF client_pays, Next, Submit
  <2>2. CASE \E t \in DOMAIN transfers :
               \/ client_post_transfer(t)
               \/ client_cancel_transfer(t) /\ UNCHANGED desk_vars
               \/ client_confirm_transfer(t) /\ UNCHANGED desk_vars
    BY <2>2 DEF client_post_transfer, Next, Resolve
  <2>3. CASE \E a \in Customer, l \in Limit : request_limit_change(a, l)
    BY <2>3 DEF request_limit_change
  <2> QED
    BY <1>1, <2>1, <2>2, <2>3 DEF Customers
<1>2. CASE Cashiers
  <2>1. PICK n \in KeyName, s \in System, a \in Customer, m \in Amount :
          \/ admin_deposit(n, s, a, m)
          \/ admin_withdraw(n, a, s, m)
          \/ \E maker \in Staff : \/ request_money_with_approval(maker, n, s, a, m)
                                  \/ request_money_with_approval(maker, n, a, s, m)
    BY <1>2 DEF Cashiers
  <2>2. s \in Account /\ a \in Account
    BY DEF Account
  <2> QED
    BY <2>1, <2>2 DEF admin_deposit, admin_withdraw, request_money_with_approval, Next, Submit
<1>3. CASE Console
  BY <1>3 DEF Console, consolePostTransfer, consoleCancelTransfer, post_transfer,
              cancel_transfer, Next, Resolve
<1>4. CASE Approvers
  <2>1. PICK r \in DOMAIN admin_actions, by \in Admin :
          \/ approve_request(r, by) \/ reject_request(r, by)
          \/ approve_limit_change(r, by) \/ reject_limit_change(r, by)
    BY <1>4 DEF Approvers
  <2>2. CASE approve_request(r, by) \/ reject_request(r, by)
    BY <2>2 DEF approve_request, reject_request, post_transfer, cancel_transfer, Next, Resolve
  <2>3. CASE approve_limit_change(r, by)
    <3>1. admin_actions[r].target_id \in Account /\ admin_actions[r].requested \in Limit
      BY <2>3, DeskRowType DEF approve_limit_change, Open, Rows, Account
    <3> QED
      BY <2>3, <3>1 DEF approve_limit_change, Next, Administer
  <2>4. CASE reject_limit_change(r, by)
    BY <2>4 DEF reject_limit_change
  <2> QED
    BY <2>1, <2>2, <2>3, <2>4
<1>5. CASE (\E l \in Threshold : update_bank_settings(l)) \/ UNCHANGED allvars
  BY <1>5 DEF update_bank_settings, allvars
<1> QED
  BY <1>1, <1>2, <1>3, <1>4, <1>5 DEF NextDesk, Next

-----------------------------------------------------------------------------
(* How the queues follow: one lemma per kind of step.                      *)

(* The part of NoOrphanedHold about transfer t with status st.             *)
InSight(t, st) ==
  /\ st = "under_review" => \E r \in Open("screening_hold") : OpenRowsOf(t) = {r}
  /\ st = "pending" => OpenRowsOf(t) \cap Rows("approval_request") # {}
  /\ st \in Awaiting => OpenRowsOf(t) = RowsOf(t)
  /\ st = "held" => RowsOf(t) = {}

QueuesRight == RowsNamed /\ \A t \in DOMAIN transfers : InSight(t, transfers[t].status)

LEMMA QueuesRightParts ==
  QueuesRight <=> RowsNamed /\ HeldUnqueued /\ NoOrphanedHold
BY DEF QueuesRight, InSight, HeldUnqueued, NoOrphanedHold

LEMMA QueuesRightPartsNext ==
  QueuesRight' <=> RowsNamed' /\ HeldUnqueued' /\ NoOrphanedHold'
BY DEF QueuesRight, InSight, HeldUnqueued, NoOrphanedHold

(* A transfer without rows: only a held or a finished one may have none.   *)
LEMMA InSightUnqueuedNext ==
  ASSUME NEW t, NEW st, RowsOf(t)' = {}, st \notin {"pending", "under_review"}
  PROVE  InSight(t, st)'
BY DEF InSight, OpenRowsOf

(* What does not wait may have any rows.                                   *)
LEMMA InSightDoneNext ==
  ASSUME NEW t, NEW st, st \notin Awaiting
  PROVE  InSight(t, st)'
BY DEF InSight, Awaiting

(* To check the queues after a step, transfer by transfer.                 *)
LEMMA QueuesRightNext ==
  ASSUME RowsNamed',
         \A t \in DOMAIN transfers' : \A st : st = transfers'[t].status => InSight(t, st)'
  PROVE  QueuesRight'
BY DEF QueuesRight, InSight

(* The rows of t are what they were: so is what they say of it.            *)
LEMMA InSightSame ==
  ASSUME NEW t, NEW st, InSight(t, st), RowsOf(t)' = RowsOf(t),
         \A r \in RowsOf(t) : admin_actions'[r] = admin_actions[r]
  PROVE  InSight(t, st)'
<1>1. OpenRowsOf(t)' = OpenRowsOf(t)
  BY DEF OpenRowsOf
<1>2. CASE st = "under_review"
  <2>1. PICK r \in Open("screening_hold") : OpenRowsOf(t) = {r}
    BY <1>2 DEF InSight
  <2>2. r \in RowsOf(t) /\ r \in RowsOf(t)'
    BY <2>1, RowMembers
  <2>3. r \in DOMAIN admin_actions'
    BY <2>2, RowMembersNext
  <2>4. r \in Open("screening_hold")'
    BY <2>1, <2>2, <2>3 DEF Open, Rows
  <2> QED
    BY <1>1, <1>2, <2>1, <2>4 DEF InSight
<1>3. CASE st = "pending"
  <2>1. PICK r \in OpenRowsOf(t) : r \in Rows("approval_request")
    BY <1>3 DEF InSight
  <2>2. r \in RowsOf(t) /\ r \in RowsOf(t)'
    BY <2>1, RowMembers
  <2>3. r \in DOMAIN admin_actions'
    BY <2>2, RowMembersNext
  <2>4. r \in Rows("approval_request")'
    BY <2>1, <2>2, <2>3 DEF Rows
  <2> QED
    BY <1>1, <1>3, <2>1, <2>4 DEF InSight
<1>4. CASE st \notin {"under_review", "pending"}
  BY <1>1, <1>4 DEF InSight
<1> QED
  BY <1>2, <1>3, <1>4

(* A transfer that is new had no rows.                                     *)
LEMMA NewUnqueued ==
  ASSUME RowsNamed, NEW t, t \notin DOMAIN transfers
  PROVE  RowsOf(t) = {}
BY RowMembers DEF RowsNamed

(* A step that leaves the table of rows alone, and starts no transfer that *)
(* would need one.                                                         *)
LEMMA DeskAside ==
  ASSUME TypeOK, QueuesRight, RowsStand, UNCHANGED admin_actions,
         \A t \in DOMAIN transfers' \ DOMAIN transfers :
           transfers'[t].status \notin {"pending", "under_review"}
  PROVE  QueuesRight'
<1>1. \A t : RowsOf(t)' = RowsOf(t)
  BY DEF RowsOf, Rows
<1>2. RowsNamed'
  BY RowMembers, RowMembersNext DEF QueuesRight, RowsNamed, RowsStand, MoneyRows, Rows
<1>3. ASSUME NEW t \in DOMAIN transfers', NEW st, st = transfers'[t].status
      PROVE  InSight(t, st)'
  <2>1. CASE t \in DOMAIN transfers /\ st \in Awaiting
    <3>1. InSight(t, st)
      BY <1>3, <2>1, StillWaiting DEF QueuesRight
    <3> QED
      BY <1>1, <3>1, InSightSame
  <2>2. CASE t \notin DOMAIN transfers
    <3>1. RowsOf(t)' = {}
      BY <1>1, <2>2, NewUnqueued DEF QueuesRight
    <3> QED
      BY <1>3, <2>2, <3>1, InSightUnqueuedNext
  <2>3. CASE st \notin Awaiting
    BY <2>3, InSightDoneNext
  <2> QED
    BY <2>1, <2>2, <2>3
<1> QED
  BY <1>2, <1>3, QueuesRightNext

(* Handling a row of a money queue, after which its transfer waits no more.*)
LEMMA DeskDecides ==
  ASSUME TypeOK, DeskTypeOK, QueuesRight, RowsStand, DOMAIN transfers' = DOMAIN transfers,
         NEW r \in DOMAIN admin_actions, NEW by, Handle(r, by),
         r \in MoneyRows => transfers'[admin_actions[r].target_id].status \notin Awaiting
  PROVE  QueuesRight'
<1>1. admin_actions[r] \in AdminAction
  BY DeskRowType
<1>2. /\ DOMAIN admin_actions' = DOMAIN admin_actions
      /\ admin_actions'[r].action = admin_actions[r].action
      /\ admin_actions'[r].target_id = admin_actions[r].target_id
      /\ \A s \in DOMAIN admin_actions \ {r} : admin_actions'[s] = admin_actions[s]
  BY HandledRows
<1>3. \A t, s : s \in RowsOf(t)' <=> s \in RowsOf(t)
  BY <1>2, RowMembers, RowMembersNext
<1>4. \A t : RowsOf(t)' = RowsOf(t)
  <2> SUFFICES ASSUME NEW t PROVE RowsOf(t)' = RowsOf(t)
    OBVIOUS
  <2>1. RowsOf(t)' \subseteq RowsOf(t) /\ RowsOf(t) \subseteq RowsOf(t)'
    BY <1>3
  <2> QED
    BY <2>1, Zenon
<1>5. RowsNamed'
  BY <1>2, RowMembers, RowMembersNext DEF QueuesRight, RowsNamed
<1>6. ASSUME NEW t \in DOMAIN transfers', NEW st, st = transfers'[t].status
      PROVE  InSight(t, st)'
  <2>1. CASE st \in Awaiting
    <3>1. InSight(t, st)
      BY <1>6, <2>1, StillWaiting DEF QueuesRight
    <3>2. r \notin RowsOf(t)
      BY <1>6, <2>1, RowMembers
    <3>3. \A s \in RowsOf(t) : admin_actions'[s] = admin_actions[s]
      BY <1>2, <3>2, RowMembers
    <3> QED
      BY <1>4, <3>1, <3>3, InSightSame
  <2>2. CASE st \notin Awaiting
    BY <2>2, InSightDoneNext
  <2> QED
    BY <2>1, <2>2
<1> QED
  BY <1>5, <1>6, QueuesRightNext

(* A row of the queue of limits is about no transfer.                      *)
LEMMA DeskAsksForLimit ==
  ASSUME TypeOK, DeskTypeOK, QueuesRight, UNCHANGED transfers,
         NEW actor, NEW a, NEW l, Enqueue("limit_request", actor, a, l)
  PROVE  QueuesRight'
<1> DEFINE new == Len(admin_actions) + 1
<1>1. /\ new \notin DOMAIN admin_actions
      /\ DOMAIN admin_actions' = DOMAIN admin_actions \cup {new}
      /\ \A r \in DOMAIN admin_actions : admin_actions'[r] = admin_actions[r]
      /\ admin_actions'[new].action = "limit_request"
  BY EnqueuedRows
<1> HIDE DEF new
<1>2. ASSUME NEW t PROVE RowsOf(t)' = RowsOf(t)
  <2>1. \A s : s \in RowsOf(t)' <=> s \in RowsOf(t)
    BY <1>1, RowMembers, RowMembersNext DEF MoneyQueue
  <2>2. RowsOf(t)' \subseteq RowsOf(t) /\ RowsOf(t) \subseteq RowsOf(t)'
    BY <2>1
  <2> QED
    BY <2>2, Zenon
<1>3. RowsNamed'
  BY <1>1, RowMembers, RowMembersNext DEF QueuesRight, RowsNamed, MoneyQueue
<1>4. ASSUME NEW t \in DOMAIN transfers', NEW st, st = transfers'[t].status
      PROVE  InSight(t, st)'
  <2>1. InSight(t, st)
    BY <1>4 DEF QueuesRight
  <2>2. \A s \in RowsOf(t) : admin_actions'[s] = admin_actions[s]
    BY <1>1, RowMembers
  <2> QED
    BY <1>2, <2>1, <2>2, InSightSame
<1> QED
  BY <1>3, <1>4, QueuesRightNext

(* Queueing a movement.  A transfer that is new is queued where it should  *)
(* be; one that exists is queued again for approval, and is not parked.    *)
LEMMA DeskQueues ==
  ASSUME TypeOK, DeskTypeOK, QueuesRight, RowsStand,
         NEW action \in MoneyQueue, NEW actor, NEW target \in DOMAIN transfers',
         Enqueue(action, actor, target, 0),
         DOMAIN transfers' \subseteq DOMAIN transfers \cup {target},
         target \notin DOMAIN transfers =>
           transfers'[target].status =
             IF action = "screening_hold" THEN "under_review" ELSE "pending",
         target \in DOMAIN transfers =>
           /\ action = "approval_request"
           /\ transfers'[target].status \notin {"held", "under_review"}
  PROVE  QueuesRight'
<1> DEFINE new == Len(admin_actions) + 1
<1>1. /\ new \notin DOMAIN admin_actions
      /\ DOMAIN admin_actions' = DOMAIN admin_actions \cup {new}
      /\ \A r \in DOMAIN admin_actions : admin_actions'[r] = admin_actions[r]
      /\ admin_actions'[new].action = action
      /\ admin_actions'[new].target_id = target
      /\ admin_actions'[new].approved_by = NoOne
  BY EnqueuedRows
<1> HIDE DEF new
<1>2. RowsNamed'
  <2>1. DOMAIN transfers \subseteq DOMAIN transfers'
    BY DEF RowsStand
  <2> SUFFICES ASSUME NEW r \in MoneyRows'
               PROVE  admin_actions'[r].target_id \in DOMAIN transfers'
    BY DEF RowsNamed
  <2>2. r = new \/ (r \in MoneyRows /\ admin_actions'[r] = admin_actions[r])
    BY <1>1, RowMembers, RowMembersNext
  <2>3. CASE r = new
    BY <1>1, <2>3
  <2>4. CASE r \in MoneyRows /\ admin_actions'[r] = admin_actions[r]
    <3>1. admin_actions[r].target_id \in DOMAIN transfers
      BY <2>4 DEF QueuesRight, RowsNamed
    <3> QED
      BY <2>1, <2>4, <3>1
  <2> QED
    BY <2>2, <2>3, <2>4
<1>3. ASSUME NEW t \in DOMAIN transfers', t # target, NEW st, st = transfers'[t].status
      PROVE  InSight(t, st)'
  <2>1. CASE st \in Awaiting
    <3>1. InSight(t, st)
      BY <1>3, <2>1, StillWaiting DEF QueuesRight
    <3>2. \A s : s \in RowsOf(t)' <=> s \in RowsOf(t)
      BY <1>1, <1>3, RowMembers, RowMembersNext
    <3>3. RowsOf(t)' \subseteq RowsOf(t) /\ RowsOf(t) \subseteq RowsOf(t)'
      BY <3>2
    <3>4. RowsOf(t)' = RowsOf(t)
      BY <3>3, Zenon
    <3>5. \A s \in RowsOf(t) : admin_actions'[s] = admin_actions[s]
      BY <1>1, RowMembers
    <3> QED
      BY <3>1, <3>4, <3>5, InSightSame
  <2>2. CASE st \notin Awaiting
    BY <2>2, InSightDoneNext
  <2> QED
    BY <2>1, <2>2
<1>4. new \in RowsOf(target)' /\ new \in OpenRowsOf(target)'
  BY <1>1, RowMembersNext
<1>5. \A s : s \in RowsOf(target)' <=> s \in RowsOf(target) \/ s = new
  BY <1>1, RowMembers, RowMembersNext
<1>6. \A s \in RowsOf(target) : s \in OpenRowsOf(target)' <=> s \in OpenRowsOf(target)
  BY <1>1, RowMembers, RowMembersNext
<1>7. ASSUME NEW st, st = transfers'[target].status
      PROVE  InSight(target, st)'
  <2>1. CASE target \notin DOMAIN transfers
    <3>1. RowsOf(target) = {}
      BY <2>1, NewUnqueued DEF QueuesRight
    <3>2. \A s : (s \in RowsOf(target)' <=> s = new) /\ (s \in OpenRowsOf(target)' <=> s = new)
      BY <1>4, <1>5, <3>1, RowMembersNext
    <3>3. RowsOf(target)' = {new} /\ OpenRowsOf(target)' = {new}
      BY <3>2, Zenon
    <3>4. new \in Rows(action)' /\ new \in Open(action)'
      BY <1>1 DEF Open, Rows
    <3> QED
      BY <1>7, <2>1, <3>3, <3>4 DEF InSight, MoneyQueue
  <2>2. CASE target \in DOMAIN transfers /\ st \in Awaiting
    <3>1. InSight(target, st)
      BY <1>7, <2>2, StillWaiting DEF QueuesRight
    <3>2. st = "pending"
      BY <1>7, <2>2 DEF Awaiting
    <3>3. OpenRowsOf(target) = RowsOf(target)
      BY <2>2, <3>1 DEF InSight
    <3>4. \A s : s \in OpenRowsOf(target)' <=> s \in RowsOf(target)'
      BY <1>4, <1>5, <1>6, <3>3, RowMembersNext
    <3>5. OpenRowsOf(target)' \subseteq RowsOf(target)' /\ RowsOf(target)' \subseteq OpenRowsOf(target)'
      BY <3>4
    <3>6. OpenRowsOf(target)' = RowsOf(target)'
      BY <3>5, Zenon
    <3>7. new \in Rows("approval_request")'
      BY <1>1, <2>2 DEF Rows
    <3> QED
      BY <1>4, <3>2, <3>6, <3>7 DEF InSight
  <2>3. CASE st \notin Awaiting
    BY <2>3, InSightDoneNext
  <2> QED
    BY <2>1, <2>2, <2>3
<1> QED
  BY <1>2, <1>3, <1>7, QueuesRightNext

-----------------------------------------------------------------------------
(* The other parts of the invariant.                                       *)

(* A row with the columns of its action may be queued.                     *)
LEMMA EnqueueType ==
  ASSUME DeskTypeOK, TypeOK', NEW action, NEW actor, NEW target, NEW requested,
         Enqueue(action, actor, target, requested),
         \/ /\ action \in MoneyQueue /\ actor \in User \cup Staff
            /\ target \in 1..MaxTransfers /\ requested = 0
         \/ /\ action = "limit_request" /\ actor \in User
            /\ target \in Customer /\ requested \in Limit
  PROVE  DeskTypeOK'
<1> DEFINE row == [action |-> action, actor_user_id |-> actor, target_id |-> target,
                   requested |-> requested, approved_by |-> NoOne]
<1>1. row \in AdminAction
  BY DEF AdminAction
<1>2. admin_actions' = Append(admin_actions, row) /\ Len(admin_actions) < MaxActions
  BY DEF Enqueue
<1> HIDE DEF row
<1>3. admin_actions' \in Seq(AdminAction) /\ Len(admin_actions') = Len(admin_actions) + 1
  BY <1>1, <1>2 DEF DeskTypeOK
<1>4. Len(admin_actions) \in Nat /\ MaxActions \in Nat
  BY MakerCheckerAssumption DEF DeskTypeOK
<1>5. maker_checker_threshold_minor' \in Threshold
  BY DEF DeskTypeOK, Enqueue
<1> QED
  BY <1>2, <1>3, <1>4, <1>5 DEF DeskTypeOK

(* An admin may be the one who decided.                                    *)
LEMMA HandleType ==
  ASSUME DeskTypeOK, TypeOK', NEW r \in DOMAIN admin_actions, NEW by \in Staff, Handle(r, by)
  PROVE  DeskTypeOK'
<1>1. [admin_actions[r] EXCEPT !.approved_by = by] \in AdminAction
  BY DeskRowType DEF AdminAction
<1>2. admin_actions' \in Seq(AdminAction) /\ Len(admin_actions') = Len(admin_actions)
  BY <1>1 DEF DeskTypeOK, Handle
<1> QED
  BY <1>2 DEF DeskTypeOK, Handle

(* A new claim by the staff names no parked payment.                       *)
LEMMA StagingNext ==
  ASSUME FundsInv, StagingKeys, [Next]_vars
  PROVE  StagingKeys'
<1>1. TypeOK /\ HoldMatchesStatus /\ RowsStand /\ KeysStand
  BY HistoryNext DEF FundsInv
<1>2. Unclaimed \notin KeyRow
  BY DEF Unclaimed, KeyRow
<1> SUFFICES ASSUME NEW n \in KeyName
             PROVE  StagingKey(idempotency_keys[<<Sentinel, n>>])'
  BY DEF StagingKeys
<1> DEFINE k == <<Sentinel, n>>
<1>3. k \in Key /\ \A u \in User, m \in KeyName : <<u, m>> # k
  BY LedgerAssumption DEF Key, Caller
<1> HIDE DEF k
<1>4. CASE idempotency_keys'[k] \in {idempotency_keys[k], Unclaimed}
  <2>1. CASE idempotency_keys'[k] = Unclaimed
    BY <2>1 DEF StagingKey, k
  <2>2. CASE idempotency_keys'[k] = idempotency_keys[k] /\ idempotency_keys[k] # Unclaimed
    <3>1. PICK t \in DOMAIN transfers :
            /\ t = idempotency_keys[k].transfer_id
            /\ transfers[t].status \notin {"held", "under_review"}
      BY <2>2 DEF StagingKeys, StagingKey, k
    <3>2. t \in DOMAIN transfers' /\ transfers'[t].status \notin {"held", "under_review"}
      BY <1>1, <3>1, StillWaiting DEF RowsStand, Awaiting
    <3> QED
      BY <2>2, <3>1, <3>2 DEF StagingKey, k
  <2> QED
    BY <1>4, <2>1, <2>2
<1>5. CASE idempotency_keys'[k] \notin {idempotency_keys[k], Unclaimed}
  <2>1. CASE Submit
    <3>1. PICK m \in Amount, o \in KeyName :
            \/ \E d, c \in Account : request_transfer(o, d, c, m)
            \/ \E d \in Customer, c \in Account : client_transfer(Owner[d], o, d, c, m)
            \/ \E s \in System, a \in Account : deposit(o, s, a, m)
            \/ \E a \in Account, s \in System : withdraw(o, a, s, m)
      BY <2>1 DEF Submit
    <3>2. PICK kk \in Key, d \in Account, c \in Account, st \in {"pending", "posted", "held", "under_review"} :
            /\ Admit(kk, d, c, m, st)
            /\ st \in {"pending", "posted"} \/ \E u \in User : kk = <<u, o>>
      <4>1. /\ <<Sentinel, o>> \in Key /\ System \subseteq Account
            /\ \A d \in Customer : d \in Account /\ Owner[d] \in User /\ <<Owner[d], o>> \in Key
        BY LedgerAssumption DEF Key, Caller, Account
      <4>2. CASE \E d, c \in Account : request_transfer(o, d, c, m)
        BY <4>1, <4>2 DEF request_transfer
      <4>3. CASE \E d \in Customer, c \in Account : client_transfer(Owner[d], o, d, c, m)
        BY <4>1, <4>3 DEF client_transfer
      <4>4. CASE \/ \E s \in System, a \in Account : deposit(o, s, a, m)
                 \/ \E a \in Account, s \in System : withdraw(o, a, s, m)
        BY <4>1, <4>4 DEF deposit, withdraw
      <4> QED
        BY <3>1, <4>2, <4>3, <4>4
    <3>3. /\ idempotency_keys' = [idempotency_keys EXCEPT ![kk] =
                                   [request_hash |-> <<d, c, m>>, transfer_id |-> NextId]]
          /\ NextId \in DOMAIN transfers' /\ transfers'[NextId].status = st
      BY <1>1, <3>2 DEF Admit, Record, Claim, NextId, TypeOK
    <3>4. idempotency_keys' \in [Key -> KeyRow \cup {Unclaimed}]
      BY <1>1, TypeNext DEF TypeOK
    <3>5. kk = k
      BY <1>1, <1>3, <1>5, <3>3 DEF TypeOK
    <3>6. idempotency_keys'[k].transfer_id = NextId
      BY <1>1, <1>3, <3>3, <3>5 DEF TypeOK
    <3>7. st \in {"pending", "posted"}
      BY <1>3, <3>2, <3>5
    <3> QED
      BY <3>3, <3>6, <3>7 DEF StagingKey, k
  <2>2. CASE Reverse
    <3>1. PICK t \in DOMAIN transfers, o \in KeyName :
            reverse_transfer(o, t) \/ reverse_again(o, t)
      BY <2>2 DEF Reverse
    <3>2. CASE reverse_transfer(o, t)
      <4>1. idempotency_keys' = [idempotency_keys EXCEPT ![<<Sentinel, o>>] =
                                   [request_hash |-> <<t, "reverse">>, transfer_id |-> NextId]]
        BY <3>2 DEF reverse_transfer, Refund, Claim
      <4>2. NextId \in DOMAIN transfers' /\ transfers'[NextId].status = "posted"
        BY <1>1, <3>2 DEF reverse_transfer, Refund, NextId, TypeOK
      <4>3. idempotency_keys'[k].transfer_id = NextId
        BY <1>1, <1>3, <1>5, <4>1 DEF TypeOK
      <4> QED
        BY <4>2, <4>3 DEF StagingKey, k
    <3>3. CASE reverse_again(o, t)
      <4>1. PICK r \in DOMAIN transfers :
              /\ transfers[r].reverses = t
              /\ idempotency_keys' = [idempotency_keys EXCEPT ![<<Sentinel, o>>] =
                                        [request_hash |-> <<t, "reverse">>, transfer_id |-> r]]
        BY <3>3 DEF reverse_again, Claim
      <4>2. transfers' = transfers
        BY <3>3 DEF reverse_again
      <4>3. t # 0
        BY <1>1, RowType
      <4>4. transfers[r].status \notin Awaiting
        BY <1>1, <4>1, <4>3 DEF HoldMatchesStatus
      <4>5. idempotency_keys'[k].transfer_id = r
        BY <1>1, <1>3, <1>5, <4>1 DEF TypeOK
      <4> QED
        BY <4>2, <4>4, <4>5 DEF StagingKey, k, Awaiting
    <3> QED
      BY <3>1, <3>2, <3>3
  <2>3. CASE RunMaintenance
    BY <1>3, <1>5, <2>3 DEF RunMaintenance, cleanup_idempotency_keys
  <2>4. CASE \/ Resolve \/ Administer \/ UNCHANGED vars
             \/ \E t \in DOMAIN transfers : window_lapses(t)
    BY <1>5, <2>4
       DEF Resolve, client_cancel_transfer, client_confirm_transfer, post_transfer, Post,
           cancel_transfer, Administer, set_account_status, update_transfer_limit,
           window_lapses, vars
  <2> QED
    BY <2>1, <2>2, <2>3, <2>4 DEF Next
<1> QED
  BY <1>4, <1>5

-----------------------------------------------------------------------------
(* What each function of the ledger does to the rows of transfers.         *)

LEMMA AdmitRow ==
  ASSUME TypeOK, NEW k, NEW d, NEW c, NEW m, NEW st, Admit(k, d, c, m, st)
  PROVE  /\ NextId \notin DOMAIN transfers /\ NextId \in 1..MaxTransfers
         /\ DOMAIN transfers' = DOMAIN transfers \cup {NextId}
         /\ \A t \in DOMAIN transfers : transfers'[t] = transfers[t]
         /\ transfers'[NextId].status = st
BY NextIdType DEF TypeOK, Admit, Record, NextId

LEMMA PostRow ==
  ASSUME TypeOK, NEW t, NEW S, post_transfer(t, S)
  PROVE  /\ t \in DOMAIN transfers /\ DOMAIN transfers' = DOMAIN transfers
         /\ \A s \in DOMAIN transfers \ {t} : transfers'[s] = transfers[s]
         /\ transfers'[t].status = "posted"
<1>1. t \in DOMAIN transfers /\ transfers[t] \in Transfer
  BY RowType DEF post_transfer
<1> QED
  BY <1>1 DEF TypeOK, post_transfer, Post, CloseHold, Transfer

LEMMA CancelRow ==
  ASSUME TypeOK, NEW t, cancel_transfer(t)
  PROVE  /\ t \in DOMAIN transfers /\ DOMAIN transfers' = DOMAIN transfers
         /\ \A s \in DOMAIN transfers \ {t} : transfers'[s] = transfers[s]
         /\ transfers'[t].status = "canceled"
<1>1. t \in DOMAIN transfers /\ transfers[t] \in Transfer
  BY RowType DEF cancel_transfer
<1> QED
  BY <1>1 DEF TypeOK, cancel_transfer, CloseHold, Transfer

(* A reversal adds a row that is posted; a repeated one adds none.         *)
LEMMA ReverseRow ==
  ASSUME TypeOK, Reverse
  PROVE  \A t \in DOMAIN transfers' \ DOMAIN transfers : transfers'[t].status = "posted"
<1>1. PICK t \in DOMAIN transfers, n \in KeyName : reverse_transfer(n, t) \/ reverse_again(n, t)
  BY DEF Reverse
<1>2. CASE reverse_transfer(n, t)
  BY <1>2 DEF TypeOK, reverse_transfer, Refund
<1>3. CASE reverse_again(n, t)
  BY <1>3 DEF reverse_again
<1> QED
  BY <1>1, <1>2, <1>3

(* The rows of the others are as many as before.                           *)
LEMMA SameRows ==
  ASSUME TypeOK,
         RunMaintenance \/ Administer \/ UNCHANGED vars
           \/ (\E t \in DOMAIN transfers : window_lapses(t))
  PROVE  DOMAIN transfers' = DOMAIN transfers
BY DEF RunMaintenance, expire_holds, Expire, Administer, set_account_status,
       update_transfer_limit, window_lapses, vars

-----------------------------------------------------------------------------
(* The invariant holds from the start and after every step.                *)

LEMMA DeskStart == InitDesk => DeskInv
<1> SUFFICES ASSUME InitDesk PROVE DeskInv
  OBVIOUS
<1>1. FundsInv /\ TypeOK
  BY FundsInit DEF InitDesk, FundsInv
<1>2. DOMAIN admin_actions = {} /\ DOMAIN transfers = {}
  BY DEF InitDesk, Init
<1>3. admin_actions \in Seq(AdminAction) /\ Len(admin_actions) = 0
  BY EmptySeq DEF InitDesk
<1>4. DeskTypeOK
  BY <1>1, <1>3, MakerCheckerAssumption DEF DeskTypeOK, InitDesk
<1>5. RowsNamed /\ HeldUnqueued /\ NoOrphanedHold
  BY <1>2, RowMembers DEF RowsNamed, HeldUnqueued, NoOrphanedHold
<1>6. StagingKeys
  BY LedgerAssumption DEF StagingKeys, StagingKey, InitDesk, Init, Key, Caller
<1> QED
  BY <1>1, <1>4, <1>5, <1>6 DEF DeskInv

(* A customer's payment.                                                   *)
LEMMA ClientPays ==
  ASSUME DeskInv, QueuesRight, TypeOK', RowsStand,
         NEW d \in Customer, NEW n \in KeyName, NEW c \in Account, NEW m \in Amount,
         client_pays(Owner[d], n, d, c, m)
  PROVE  DeskTypeOK' /\ QueuesRight'
<1>0. TypeOK /\ DeskTypeOK
  BY DEF DeskInv, FundsInv
<1>1. PICK st \in {"posted", "held", "under_review"} : Admit(<<Owner[d], n>>, d, c, m, st)
  BY DEF client_pays, client_transfer
<1>2. /\ NextId \notin DOMAIN transfers /\ NextId \in 1..MaxTransfers
      /\ DOMAIN transfers' = DOMAIN transfers \cup {NextId}
      /\ transfers'[NextId].status = st
  BY <1>0, <1>1, AdmitRow
<1>3. CASE st = "under_review"
  <2>1. Enqueue("screening_hold", Owner[d], NextId, 0)
    BY <1>2, <1>3 DEF client_pays
  <2>2. Owner[d] \in User \cup Staff /\ "screening_hold" \in MoneyQueue
    BY LedgerAssumption DEF MoneyQueue
  <2>3. DeskTypeOK'
    BY <1>0, <1>2, <2>1, <2>2, EnqueueType
  <2>4. QueuesRight'
    BY <1>0, <1>2, <1>3, <2>1, <2>2, DeskQueues
  <2> QED
    BY <2>3, <2>4
<1>4. CASE st # "under_review"
  <2>1. UNCHANGED desk_vars
    BY <1>2, <1>4 DEF client_pays
  <2>2. QueuesRight'
    BY <1>0, <1>1, <1>2, <1>4, <2>1, DeskAside DEF desk_vars
  <2> QED
    BY <1>0, <2>1, <2>2 DEF DeskTypeOK, desk_vars
<1> QED
  BY <1>3, <1>4

(* A cashier stages a movement, or does so again under the same key.       *)
LEMMA Stages ==
  ASSUME DeskInv, QueuesRight, TypeOK', RowsStand,
         NEW maker \in Staff, NEW n \in KeyName, NEW d \in Account, NEW c \in Account,
         NEW m \in Amount, request_money_with_approval(maker, n, d, c, m)
  PROVE  DeskTypeOK' /\ QueuesRight'
<1>0. TypeOK /\ DeskTypeOK /\ StagingKeys
  BY DEF DeskInv, FundsInv
<1>1. "approval_request" \in MoneyQueue /\ maker \in User \cup Staff
  BY DEF MoneyQueue
<1>2. CASE request_transfer(n, d, c, m) /\ Enqueue("approval_request", maker, NextId, 0)
  <2>1. /\ NextId \notin DOMAIN transfers /\ NextId \in 1..MaxTransfers
        /\ DOMAIN transfers' = DOMAIN transfers \cup {NextId}
        /\ transfers'[NextId].status = "pending"
    BY <1>0, <1>2, AdmitRow DEF request_transfer
  <2>2. DeskTypeOK'
    BY <1>0, <1>1, <1>2, <2>1, EnqueueType
  <2>3. QueuesRight'
    BY <1>0, <1>1, <1>2, <2>1, DeskQueues
  <2> QED
    BY <2>2, <2>3
<1>3. ASSUME NEW key, key = idempotency_keys[<<Sentinel, n>>],
             key.request_hash = <<d, c, m>>,
             Enqueue("approval_request", maker, key.transfer_id, 0), UNCHANGED vars
      PROVE  DeskTypeOK' /\ QueuesRight'
  <2>1. key # Unclaimed
    <3>1. (\A q : q = <<d, c, m>> => Len(q) = 3) /\ (\A q : q = <<>> => Len(q) = 0)
      OBVIOUS
    <3>2. Unclaimed.request_hash = <<>>
      BY DEF Unclaimed
    <3> HIDE DEF Unclaimed
    <3>3. Len(key.request_hash) = 3
      BY <1>3, <3>1
    <3>4. Len(Unclaimed.request_hash) = 0
      BY <3>1, <3>2
    <3> QED
      BY <3>3, <3>4
  <2>2. /\ key.transfer_id \in DOMAIN transfers
        /\ transfers[key.transfer_id].status \notin {"held", "under_review"}
    BY <1>0, <1>3, <2>1 DEF StagingKeys, StagingKey
  <2>3. PICK t \in DOMAIN transfers : t = key.transfer_id
    BY <2>2
  <2>4. t \in 1..MaxTransfers /\ transfers' = transfers
    BY <1>0, <1>3, RowType DEF vars
  <2>5. DeskTypeOK'
    BY <1>0, <1>1, <1>3, <2>3, <2>4, EnqueueType
  <2>6. QueuesRight'
    BY <1>0, <1>1, <1>3, <2>2, <2>3, <2>4, DeskQueues
  <2> QED
    BY <2>5, <2>6
<1> QED
  BY <1>2, <1>3 DEF request_money_with_approval

(* An admin decides on a row.                                              *)
LEMMA Decided ==
  ASSUME DeskInv, QueuesRight, TypeOK', RowsStand,
         NEW r \in DOMAIN admin_actions, NEW by \in Admin,
         \/ approve_request(r, by) \/ reject_request(r, by)
         \/ approve_limit_change(r, by) \/ reject_limit_change(r, by)
  PROVE  DeskTypeOK' /\ QueuesRight'
<1>0. TypeOK /\ DeskTypeOK /\ by \in Staff
  BY DEF DeskInv, FundsInv, Staff
<1>1. Handle(r, by)
  BY DEF approve_request, reject_request, approve_limit_change, reject_limit_change
<1>2. DeskTypeOK'
  BY <1>0, <1>1, HandleType
<1>3. DOMAIN transfers' = DOMAIN transfers
      /\ (r \in MoneyRows => transfers'[admin_actions[r].target_id].status \notin Awaiting)
  <2> DEFINE t == admin_actions[r].target_id
  <2>1. CASE approve_request(r, by)
    <3>1. \/ post_transfer(t, {"under_review"}) \/ post_transfer(t, {"pending"})
          \/ transfers[t].status = "posted" /\ UNCHANGED vars
      BY <2>1 DEF approve_request
    <3> HIDE DEF t
    <3>2. DOMAIN transfers' = DOMAIN transfers /\ transfers'[t].status = "posted"
      BY <1>0, <3>1, PostRow DEF vars
    <3> QED
      BY <3>2 DEF Awaiting, t
  <2>2. CASE reject_request(r, by)
    <3>1. cancel_transfer(t) \/ (transfers[t].status = "canceled" /\ UNCHANGED vars)
      BY <2>2 DEF reject_request
    <3> HIDE DEF t
    <3>2. DOMAIN transfers' = DOMAIN transfers /\ transfers'[t].status = "canceled"
      BY <1>0, <3>1, CancelRow DEF vars
    <3> QED
      BY <3>2 DEF Awaiting, t
  <2>3. CASE approve_limit_change(r, by) \/ reject_limit_change(r, by)
    <3>1. r \in Rows("limit_request") /\ transfers' = transfers
      BY <2>3 DEF approve_limit_change, reject_limit_change, update_transfer_limit, vars, Open
    <3> QED
      BY <3>1 DEF MoneyRows, Rows
  <2> QED
    BY <2>1, <2>2, <2>3
<1>4. QueuesRight'
  BY <1>0, <1>1, <1>3, DeskDecides
<1> QED
  BY <1>2, <1>4

(* Every step keeps the invariant.                                         *)
LEMMA DeskNext ==
  ASSUME DeskInv, [NextDesk]_allvars
  PROVE  DeskInv'
<1>0. TypeOK /\ DeskTypeOK /\ FundsInv /\ StagingKeys /\ QueuesRight
  BY QueuesRightParts DEF DeskInv, FundsInv
<1>1. [Next]_vars
  BY <1>0, DeskSteps
<1>2. FundsInv' /\ TypeOK' /\ RowsStand /\ StagingKeys'
  BY <1>0, <1>1, FundsNext, TypeNext, HistoryNext, StagingNext
<1>3. ASSUME UNCHANGED desk_vars \/ (\E l \in Threshold : update_bank_settings(l)),
             \A t \in DOMAIN transfers' \ DOMAIN transfers :
               transfers'[t].status \notin {"pending", "under_review"}
      PROVE  DeskTypeOK' /\ QueuesRight'
  <2>1. UNCHANGED admin_actions /\ maker_checker_threshold_minor' \in Threshold
    BY <1>0, <1>3 DEF desk_vars, update_bank_settings, DeskTypeOK
  <2>2. QueuesRight'
    BY <1>0, <1>2, <1>3, <2>1, DeskAside
  <2> QED
    BY <1>0, <1>2, <2>1, <2>2 DEF DeskTypeOK
<1>4. DeskTypeOK' /\ QueuesRight'
  <2>1. CASE Customers
    <3>1. CASE \E d \in Customer, c \in Account, m \in Amount, n \in KeyName :
                 client_pays(Owner[d], n, d, c, m)
      BY <1>0, <1>2, <3>1, ClientPays
    <3>2. CASE \E t \in DOMAIN transfers :
                 \/ client_post_transfer(t)
                 \/ client_cancel_transfer(t) /\ UNCHANGED desk_vars
                 \/ client_confirm_transfer(t) /\ UNCHANGED desk_vars
      <4>1. UNCHANGED desk_vars
        BY <3>2 DEF client_post_transfer
      <4>2. DOMAIN transfers' = DOMAIN transfers
        BY <1>0, <3>2, PostRow, CancelRow
           DEF client_post_transfer, client_cancel_transfer, client_confirm_transfer
      <4> QED
        BY <1>3, <4>1, <4>2
    <3>3. CASE \E a \in Customer, l \in Limit : request_limit_change(a, l)
      <4>1. PICK a \in Customer, l \in Limit : request_limit_change(a, l)
        BY <3>3
      <4>2. Enqueue("limit_request", Owner[a], a, l) /\ UNCHANGED transfers /\ Owner[a] \in User
        BY <4>1, LedgerAssumption DEF request_limit_change, vars
      <4>3. QueuesRight'
        BY <1>0, <4>2, DeskAsksForLimit
      <4>4. DeskTypeOK'
        BY <1>0, <1>2, <4>2, EnqueueType
      <4> QED
        BY <4>3, <4>4
    <3> QED
      BY <2>1, <3>1, <3>2, <3>3 DEF Customers
  <2>2. CASE Cashiers
    <3>1. PICK n \in KeyName, s \in System, a \in Customer, m \in Amount :
            \/ admin_deposit(n, s, a, m)
            \/ admin_withdraw(n, a, s, m)
            \/ \E maker \in Staff : \/ request_money_with_approval(maker, n, s, a, m)
                                    \/ request_money_with_approval(maker, n, a, s, m)
      BY <2>2 DEF Cashiers
    <3>2. s \in Account /\ a \in Account
      BY DEF Account
    <3>3. CASE admin_deposit(n, s, a, m) \/ admin_withdraw(n, a, s, m)
      <4>1. UNCHANGED desk_vars /\ (deposit(n, s, a, m) \/ withdraw(n, a, s, m))
        BY <3>3 DEF admin_deposit, admin_withdraw
      <4>2. \A t \in DOMAIN transfers' \ DOMAIN transfers : transfers'[t].status = "posted"
        BY <1>0, <4>1, AdmitRow DEF deposit, withdraw
      <4> QED
        BY <1>3, <4>1, <4>2
    <3>4. CASE \E maker \in Staff : \/ request_money_with_approval(maker, n, s, a, m)
                                   \/ request_money_with_approval(maker, n, a, s, m)
      BY <1>0, <1>2, <3>2, <3>4, Stages
    <3> QED
      BY <3>1, <3>3, <3>4
  <2>3. CASE Console
    <3>1. UNCHANGED desk_vars
      BY <2>3 DEF Console, consolePostTransfer, consoleCancelTransfer
    <3>2. DOMAIN transfers' = DOMAIN transfers
      BY <1>0, <2>3, PostRow, CancelRow, SameRows
         DEF Console, consolePostTransfer, consoleCancelTransfer
    <3> QED
      BY <1>3, <3>1, <3>2
  <2>4. CASE Approvers
    BY <1>0, <1>2, <2>4, Decided DEF Approvers
  <2>5. CASE Reverse /\ UNCHANGED desk_vars
    <3>1. \A t \in DOMAIN transfers' \ DOMAIN transfers : transfers'[t].status = "posted"
      BY <1>0, <2>5, ReverseRow
    <3> QED
      BY <1>3, <2>5, <3>1
  <2>6. CASE \/ RunMaintenance /\ UNCHANGED desk_vars
             \/ (\E t \in DOMAIN transfers : window_lapses(t)) /\ UNCHANGED desk_vars
             \/ \E l \in Threshold : update_bank_settings(l)
             \/ UNCHANGED allvars
    <3>1. DOMAIN transfers' = DOMAIN transfers
      BY <1>0, <2>6, SameRows DEF update_bank_settings, allvars, vars
    <3>2. UNCHANGED desk_vars \/ (\E l \in Threshold : update_bank_settings(l))
      BY <2>6 DEF allvars
    <3> QED
      BY <1>3, <3>1, <3>2
  <2> QED
    BY <2>1, <2>2, <2>3, <2>4, <2>5, <2>6 DEF NextDesk
<1> QED
  BY <1>2, <1>4, QueuesRightPartsNext DEF DeskInv

(* The invariant of the desk, for any bank and any staff.                  *)
THEOREM DeskCorrect == SpecDesk => []DeskInv
<1>1. DeskInv /\ [NextDesk]_allvars => DeskInv'
  BY DeskNext
<1> QED
  BY DeskStart, <1>1, PTL DEF SpecDesk

(* The tables of the desk keep their column types.                         *)
THEOREM DeskTypeCorrect == SpecDesk => []DeskTypeOK
<1>1. DeskInv => DeskTypeOK
  BY DEF DeskInv
<1> QED
  BY DeskCorrect, <1>1, PTL

(* No funds wait without an open row of a queue ("no orphaned hold without *)
(* a queue row", place_transfer_hold).                                     *)
THEOREM NothingWaitsOutOfSight == SpecDesk => []NoOrphanedHold
<1>1. DeskInv => NoOrphanedHold
  BY DEF DeskInv
<1> QED
  BY DeskCorrect, <1>1, PTL

(* The desk implements the ledger: what the handlers of the console and of *)
(* the customers do, with their queues, is one of the ledger's functions,  *)
(* so every theorem about Spec is one about the desk.                      *)
THEOREM DeskImplementsLedger == SpecDesk => Spec
<1>1. InitDesk => Init
  BY DEF InitDesk
<1>2. DeskInv /\ [NextDesk]_allvars => [Next]_vars
  BY DeskSteps DEF DeskInv
<1> QED
  BY DeskCorrect, <1>1, <1>2, PTL DEF SpecDesk, Spec

-----------------------------------------------------------------------------
(* Decisions.                                                              *)

(* A transfer that is queued and posts was decided on, or posted from the  *)
(* console's list.                                                         *)
LEMMA MoneyDecided ==
  ASSUME DeskInv, [NextDesk]_allvars
  PROVE  MoneyNeedsDecision
<1>0. TypeOK /\ DeskTypeOK /\ HeldUnqueued /\ RowsStand
  BY DeskSteps, HistoryNext DEF DeskInv, FundsInv
<1> SUFFICES ASSUME NEW t \in DOMAIN transfers, OpenRowsOf(t) # {},
                    transfers'[t].status # transfers[t].status, transfers'[t].status = "posted"
             PROVE  DecidesOn(t) \/ (transfers[t].status = "pending" /\ consolePostTransfer(t))
  BY DEF MoneyNeedsDecision
<1>1. \A k, d, c, m, st : ~Admit(k, d, c, m, st)
  BY <1>0, AdmitRow
<1>2. RowsOf(t) # {} /\ transfers[t].status # "held"
  BY <1>0, RowMembers DEF HeldUnqueued
<1>3. \A s, S : post_transfer(s, S) => s = t /\ transfers[t].status \in S
  BY <1>0, PostRow DEF post_transfer
<1>4. \A s : ~cancel_transfer(s)
  BY <1>0, CancelRow
<1>5. transfers' # transfers
  OBVIOUS
<1>6. CASE Customers
  <2>1. \A u, n, d, c, m : ~client_pays(u, n, d, c, m)
    BY <1>1 DEF client_pays, client_transfer
  <2>2. \A a, l : ~request_limit_change(a, l)
    BY <1>5 DEF request_limit_change, vars
  <2>3. \A s : ~client_post_transfer(s)
    BY <1>3 DEF client_post_transfer
  <2>4. \A s : ~client_cancel_transfer(s)
    BY <1>4 DEF client_cancel_transfer
  <2>5. \A s : ~client_confirm_transfer(s)
    BY <1>2, <1>3 DEF client_confirm_transfer
  <2> QED
    BY <1>6, <2>1, <2>2, <2>3, <2>4, <2>5 DEF Customers
<1>7. CASE Cashiers
  <2>1. /\ \A n, s, c, m : ~admin_deposit(n, s, c, m) /\ ~admin_withdraw(n, c, s, m)
        /\ \A n, d, c, m : ~request_transfer(n, d, c, m)
    BY <1>1 DEF admin_deposit, admin_withdraw, deposit, withdraw, request_transfer
  <2>2. ~UNCHANGED vars
    BY <1>5 DEF vars
  <2>3. \A by, n, d, c, m : ~request_money_with_approval(by, n, d, c, m)
    BY <2>1, <2>2 DEF request_money_with_approval
  <2> QED
    BY <1>7, <2>1, <2>3 DEF Cashiers
<1>8. CASE Console
  BY <1>3, <1>4, <1>5, <1>8
     DEF Console, consolePostTransfer, consoleCancelTransfer, Administer, set_account_status,
         update_transfer_limit
<1>9. CASE Approvers
  <2>1. PICK r \in DOMAIN admin_actions, by \in Admin :
          \/ approve_request(r, by) \/ reject_request(r, by)
          \/ approve_limit_change(r, by) \/ reject_limit_change(r, by)
    BY <1>9 DEF Approvers
  <2>2. approve_request(r, by)
    BY <1>4, <1>5, <2>1
       DEF reject_request, approve_limit_change, update_transfer_limit, reject_limit_change, vars
  <2>3. r \in Open("approval_request") \cup Open("screening_hold")
        /\ admin_actions[r].actor_user_id # by /\ Handle(r, by)
    BY <2>2 DEF approve_request
  <2>4. admin_actions[r].target_id = t
    BY <1>3, <1>5, <2>2 DEF approve_request, vars
  <2>5. r \in OpenRowsOf(t)
    BY <2>3, <2>4 DEF OpenRowsOf, RowsOf, Open
  <2>6. admin_actions'[r].approved_by = by
    BY <1>0, <2>3, HandledRows
  <2> QED
    BY <2>3, <2>5, <2>6 DEF DecidesOn, Decides
<1>10. CASE Reverse
  <2>1. PICK s \in DOMAIN transfers, n \in KeyName :
          reverse_transfer(n, s) \/ reverse_again(n, s)
    BY <1>10 DEF Reverse
  <2>2. reverse_transfer(n, s) /\ transfers[s] \in Transfer
    BY <1>0, <1>5, <2>1, RowType DEF reverse_again
  <2>3. transfers'[t] = IF t = s THEN [transfers[s] EXCEPT !.status = "reversed"] ELSE transfers[t]
    BY <1>0, <2>2 DEF reverse_transfer, Refund, TypeOK
  <2> QED
    BY <2>2, <2>3 DEF Transfer
<1>11. CASE RunMaintenance
  <2>1. transfers'[t] = IF t \in lapsed
                        THEN [transfers[t] EXCEPT !.hold = "expired", !.status = SweptStatus(@)]
                        ELSE transfers[t]
    BY <1>11 DEF RunMaintenance, expire_holds, Expire, Overdue
  <2>2. transfers[t] \in Transfer
    BY <1>0, RowType
  <2> QED
    BY <2>1, <2>2 DEF SweptStatus, Transfer
<1>12. CASE \/ \E s \in DOMAIN transfers : window_lapses(s)
            \/ \E l \in Threshold : update_bank_settings(l)
            \/ UNCHANGED allvars
  BY <1>5, <1>12 DEF window_lapses, update_bank_settings, allvars, vars
<1> QED
  BY <1>6, <1>7, <1>8, <1>9, <1>10, <1>11, <1>12 DEF NextDesk

(* A limit that moves was set by staff, or granted to its open request.    *)
LEMMA LimitDecided ==
  ASSUME DeskInv, [NextDesk]_allvars
  PROVE  LimitNeedsDecision
<1>0. TypeOK /\ DeskTypeOK
  BY DEF DeskInv, FundsInv
<1> SUFFICES ASSUME NEW a \in Customer, transfer_limit_minor'[a] # transfer_limit_minor[a]
             PROVE  (admin_actions' = admin_actions /\ Administer) \/ Grants(a)
  BY DEF LimitNeedsDecision
<1>1. transfer_limit_minor' # transfer_limit_minor
  OBVIOUS
<1>2. /\ \A k, d, c, m, st : ~Admit(k, d, c, m, st)
      /\ \A s, S : ~post_transfer(s, S)
      /\ \A s : ~cancel_transfer(s) /\ ~window_lapses(s)
      /\ ~Reverse /\ ~RunMaintenance /\ ~UNCHANGED vars
  BY <1>1 DEF Admit, Record, post_transfer, Post, cancel_transfer, window_lapses, Reverse,
              reverse_transfer, Refund, reverse_again, RunMaintenance, vars, account_vars
<1>3. ~Customers /\ ~Cashiers
  <2>1. /\ \A u, n, d, c, m : ~client_pays(u, n, d, c, m)
        /\ \A n, d, c, m : ~request_transfer(n, d, c, m) /\ ~deposit(n, d, c, m)
                           /\ ~withdraw(n, d, c, m)
    BY <1>2 DEF client_pays, client_transfer, request_transfer, deposit, withdraw
  <2>2. \A s : /\ ~client_post_transfer(s) /\ ~client_cancel_transfer(s)
               /\ ~client_confirm_transfer(s)
    BY <1>2 DEF client_post_transfer, client_cancel_transfer, client_confirm_transfer
  <2>3. \A c, l : ~request_limit_change(c, l)
    BY <1>2 DEF request_limit_change
  <2>4. ~Customers
    BY <2>1, <2>2, <2>3 DEF Customers
  <2>5. ~Cashiers
    <3>1. \A n, s, c, m : ~admin_deposit(n, s, c, m) /\ ~admin_withdraw(n, c, s, m)
      BY <2>1 DEF admin_deposit, admin_withdraw
    <3>2. ~UNCHANGED vars
      BY <1>2
    <3>3. \A by, n, d, c, m : ~request_money_with_approval(by, n, d, c, m)
      BY <2>1, <3>2 DEF request_money_with_approval
    <3> QED
      BY <3>1, <3>3 DEF Cashiers
  <2> QED
    BY <2>4, <2>5
<1>4. CASE Console
  BY <1>2, <1>4 DEF Console, consolePostTransfer, consoleCancelTransfer, desk_vars
<1>5. CASE Approvers
  <2>1. PICK r \in DOMAIN admin_actions, by \in Admin :
          \/ approve_request(r, by) \/ reject_request(r, by)
          \/ approve_limit_change(r, by) \/ reject_limit_change(r, by)
    BY <1>5 DEF Approvers
  <2>2. approve_limit_change(r, by)
    BY <1>2, <2>1 DEF approve_request, reject_request, reject_limit_change
  <2>3. /\ r \in Open("limit_request") /\ admin_actions[r].actor_user_id # by
        /\ Handle(r, by)
        /\ transfer_limit_minor' =
             [transfer_limit_minor EXCEPT ![admin_actions[r].target_id] = admin_actions[r].requested]
    BY <2>2 DEF approve_limit_change, update_transfer_limit
  <2>4. a = admin_actions[r].target_id /\ transfer_limit_minor'[a] = admin_actions[r].requested
    BY <1>0, <2>3 DEF TypeOK, Account
  <2>5. admin_actions'[r].approved_by = by
    BY <1>0, <2>3, HandledRows
  <2> QED
    BY <2>3, <2>4, <2>5 DEF Grants, Decides
<1>6. CASE (\E l \in Threshold : update_bank_settings(l)) \/ UNCHANGED allvars
  BY <1>2, <1>6 DEF update_bank_settings, allvars
<1> QED
  BY <1>2, <1>3, <1>4, <1>5, <1>6 DEF NextDesk

(* What waits in a queue takes effect only by the decision of an admin who *)
(* did not ask for it (approve_request, approve_limit_change).             *)
THEOREM QueuesNeedDecisions == SpecDesk => QueuedNeedsDecision
<1>1. DeskInv /\ [NextDesk]_allvars => [MoneyNeedsDecision /\ LimitNeedsDecision]_allvars
  BY MoneyDecided, LimitDecided
<1> QED
  BY DeskCorrect, <1>1, PTL DEF SpecDesk, QueuedNeedsDecision

-----------------------------------------------------------------------------
(* What documents say of the desk, and what it takes for it to be so.      *)

(* No staging call is repeated under its key.                              *)
StagesAfresh ==
  \A r \in DOMAIN admin_actions' \ DOMAIN admin_actions :
    admin_actions'[r].action \in MoneyQueue =>
      admin_actions'[r].target_id \notin DOMAIN transfers

(* The Post button is for transfers that are in no queue.                  *)
PostsUnqueued == \A t \in DOMAIN transfers : consolePostTransfer(t) => OpenRowsOf(t) = {}

(* A row is queued or handled; an approval row that is queued names a      *)
(* transfer that was there, or a new one that waits.                       *)
Queued(r) ==
  /\ r \notin DOMAIN admin_actions
  /\ DOMAIN admin_actions' = DOMAIN admin_actions \cup {r}
  /\ \A s \in DOMAIN admin_actions : admin_actions'[s] = admin_actions[s]
  /\ \/ admin_actions'[r].action # "approval_request"
     \/ admin_actions'[r].target_id \in DOMAIN transfers
     \/ /\ DOMAIN transfers' = DOMAIN transfers \cup {admin_actions'[r].target_id}
        /\ transfers'[admin_actions'[r].target_id].status = "pending"

HandledBy(r, by) ==
  /\ r \in DOMAIN admin_actions /\ admin_actions[r].approved_by = NoOne
  /\ DOMAIN admin_actions' = DOMAIN admin_actions
  /\ \A s \in DOMAIN admin_actions \ {r} : admin_actions'[s] = admin_actions[s]
  /\ admin_actions'[r].action = admin_actions[r].action
  /\ admin_actions'[r].target_id = admin_actions[r].target_id
  /\ admin_actions'[r].actor_user_id = admin_actions[r].actor_user_id

LEMMA RowsEvolve ==
  ASSUME DeskInv, [NextDesk]_allvars
  PROVE  UNCHANGED admin_actions \/ (\E r : Queued(r)) \/ (\E r, by : HandledBy(r, by))
<1>0. TypeOK /\ DeskTypeOK
  BY DEF DeskInv, FundsInv
<1>1. ASSUME NEW action, NEW actor, NEW target, NEW requested,
             Enqueue(action, actor, target, requested),
             \/ action # "approval_request"
             \/ target \in DOMAIN transfers
             \/ /\ DOMAIN transfers' = DOMAIN transfers \cup {target}
                /\ transfers'[target].status = "pending"
      PROVE  \E r : Queued(r)
  <2>1. Queued(Len(admin_actions) + 1)
    BY <1>0, <1>1, EnqueuedRows DEF Queued
  <2> QED
    BY <2>1
<1>2. CASE Customers
  <2>1. ASSUME NEW d \in Customer, NEW c \in Account, NEW m \in Amount, NEW n \in KeyName,
               client_pays(Owner[d], n, d, c, m)
        PROVE  UNCHANGED admin_actions \/ \E r : Queued(r)
    <3>1. UNCHANGED desk_vars \/ Enqueue("screening_hold", Owner[d], NextId, 0)
      BY <2>1 DEF client_pays
    <3> QED
      BY <1>1, <3>1 DEF desk_vars
  <2>2. ASSUME NEW a \in Customer, NEW l \in Limit, request_limit_change(a, l)
        PROVE  \E r : Queued(r)
    <3>1. Enqueue("limit_request", Owner[a], a, l)
      BY <2>2 DEF request_limit_change
    <3> QED
      BY <1>1, <3>1
  <2> QED
    BY <1>2, <2>1, <2>2 DEF Customers, client_post_transfer, desk_vars
<1>3. CASE Cashiers
  <2>1. ASSUME NEW maker, NEW n, NEW d, NEW c, NEW m, NEW by \in Staff,
               n \in KeyName, d \in Account, c \in Account, m \in Amount,
               request_money_with_approval(by, n, d, c, m)
        PROVE  \E r : Queued(r)
    <3>1. CASE request_transfer(n, d, c, m) /\ Enqueue("approval_request", by, NextId, 0)
      <4>1. DOMAIN transfers' = DOMAIN transfers \cup {NextId} /\ transfers'[NextId].status = "pending"
        BY <1>0, <3>1, AdmitRow DEF request_transfer
      <4> QED
        BY <1>1, <3>1, <4>1
    <3>2. CASE /\ idempotency_keys[<<Sentinel, n>>].request_hash = <<d, c, m>>
               /\ Enqueue("approval_request", by, idempotency_keys[<<Sentinel, n>>].transfer_id, 0)
      <4>1. idempotency_keys[<<Sentinel, n>>].transfer_id \in DOMAIN transfers
        <5>1. Len(<<d, c, m>>) = 3 /\ Len(<<>>) = 0
          OBVIOUS
        <5>2. <<d, c, m>> # <<>>
          BY <5>1
        <5>3. idempotency_keys[<<Sentinel, n>>] # Unclaimed
          BY <3>2, <5>2 DEF Unclaimed
        <5> QED
          BY <2>1, <5>3 DEF DeskInv, StagingKeys, StagingKey
      <4> QED
        BY <1>1, <3>2, <4>1
    <3> QED
      BY <2>1, <3>1, <3>2 DEF request_money_with_approval
  <2>2. Customer \subseteq Account /\ System \subseteq Account
    BY DEF Account
  <2> QED
    BY <1>3, <2>1, <2>2 DEF Cashiers, admin_deposit, admin_withdraw, desk_vars
<1>4. CASE Approvers
  <2>1. PICK r \in DOMAIN admin_actions, by \in Admin :
          \/ approve_request(r, by) \/ reject_request(r, by)
          \/ approve_limit_change(r, by) \/ reject_limit_change(r, by)
    BY <1>4 DEF Approvers
  <2>2. Handle(r, by) /\ admin_actions[r].approved_by = NoOne
    BY <2>1 DEF approve_request, reject_request, approve_limit_change, reject_limit_change, Open
  <2>3. HandledBy(r, by)
    BY <1>0, <2>2, HandledRows DEF HandledBy
  <2> QED
    BY <2>3
<1>5. CASE \/ Console
           \/ Reverse /\ UNCHANGED desk_vars
           \/ RunMaintenance /\ UNCHANGED desk_vars
           \/ (\E t \in DOMAIN transfers : window_lapses(t)) /\ UNCHANGED desk_vars
           \/ \E l \in Threshold : update_bank_settings(l)
           \/ UNCHANGED allvars
  BY <1>5 DEF Console, consolePostTransfer, consoleCancelTransfer, update_bank_settings,
              desk_vars, allvars
<1> QED
  BY <1>2, <1>3, <1>4, <1>5 DEF NextDesk

(* A retry is all that puts a transfer into the queue twice.               *)
OneRowEach ==
  \A r, s \in MoneyRows : admin_actions[r].target_id = admin_actions[s].target_id => r = s

LEMMA OneRowNext ==
  ASSUME DeskInv, OneRowEach, [NextDesk]_allvars, StagesAfresh
  PROVE  OneRowEach'
<1>1. CASE UNCHANGED admin_actions
  BY <1>1 DEF OneRowEach, MoneyRows, Rows
<1>2. ASSUME NEW n, Queued(n)
      PROVE  OneRowEach'
  <2>1. ASSUME NEW r \in MoneyRows', r # n
        PROVE  /\ r \in MoneyRows /\ admin_actions'[r] = admin_actions[r]
               /\ admin_actions'[r].target_id \in DOMAIN transfers
    <3>1. r \in DOMAIN admin_actions /\ admin_actions'[r] = admin_actions[r]
      BY <1>2, <2>1, RowMembersNext DEF Queued
    <3>2. r \in MoneyRows
      BY <2>1, <3>1, RowMembers, RowMembersNext
    <3> QED
      BY <3>1, <3>2 DEF DeskInv, RowsNamed
  <2>2. n \in MoneyRows' => admin_actions'[n].target_id \notin DOMAIN transfers
    BY <1>2, RowMembersNext DEF Queued, StagesAfresh
  <2> QED
    BY <2>1, <2>2 DEF OneRowEach
<1>3. ASSUME NEW n, NEW by, HandledBy(n, by)
      PROVE  OneRowEach'
  <2>1. ASSUME NEW r \in MoneyRows'
        PROVE  r \in MoneyRows /\ admin_actions'[r].target_id = admin_actions[r].target_id
    BY <1>3, <2>1, RowMembers, RowMembersNext DEF HandledBy
  <2> QED
    BY <2>1 DEF OneRowEach
<1> QED
  BY <1>1, <1>2, <1>3, RowsEvolve

(* "Idempotent on idempotencyKey" is what request_money_with_approval says *)
(* of itself; while no call is repeated under its key, a transfer has one  *)
(* row in the queues at most.                                              *)
THEOREM StagedOnceUnlessRepeated ==
  SpecDesk /\ [][StagesAfresh]_allvars => []StagedOnce
<1>1. InitDesk => OneRowEach
  BY DEF InitDesk, OneRowEach, MoneyRows, Rows
<1>2. DeskInv /\ OneRowEach /\ [NextDesk]_allvars /\ [StagesAfresh]_allvars => OneRowEach'
  <2>1. UNCHANGED allvars /\ OneRowEach => OneRowEach'
    BY DEF allvars, desk_vars, OneRowEach, MoneyRows, Rows
  <2> QED
    BY <2>1, OneRowNext
<1>3. OneRowEach => StagedOnce
  <2> SUFFICES ASSUME OneRowEach, NEW t \in DOMAIN transfers
               PROVE  Cardinality(RowsOf(t)) <= 1
    BY DEF StagedOnce
  <2>1. \A r, s \in RowsOf(t) : r = s
    BY RowMembers DEF OneRowEach
  <2>2. CASE RowsOf(t) = {}
    BY <2>2, FS_EmptySet
  <2>3. CASE RowsOf(t) # {}
    <3>1. PICK r : r \in RowsOf(t)
      BY <2>3
    <3>2. RowsOf(t) = {r}
      BY <2>1, <3>1
    <3> QED
      BY <3>2, FS_Singleton
  <2> QED
    BY <2>2, <2>3
<1> QED
  BY DeskCorrect, <1>1, <1>2, <1>3, PTL DEF SpecDesk

(* A transfer posts from its wait, or is posted as it is made.             *)
LEMMA PostsFromWait ==
  ASSUME TypeOK, RowsStand, NEW t \in DOMAIN transfers, transfers'[t].status = "posted",
         transfers[t].status # "posted"
  PROVE  transfers[t].status \in Awaiting
<1>1. transfers[t].status \in TransferStatus
  BY RowType DEF Transfer
<1>2. transfers'[t].status \in {transfers[t].status} \cup LifeCycle[transfers[t].status]
  BY DEF RowsStand
<1> QED
  BY <1>1, <1>2 DEF TransferStatus, LifeCycle, Awaiting

(* A second pair of eyes saw row r.                                        *)
SecondEyes(r) == admin_actions[r].approved_by \in Admin \ {admin_actions[r].actor_user_id}

LEMMA EyesStay ==
  ASSUME DeskInv, [NextDesk]_allvars, NEW r \in DOMAIN admin_actions, SecondEyes(r)
  PROVE  SecondEyes(r)'
<1>1. admin_actions[r].approved_by # NoOne
  BY MakerCheckerAssumption DEF SecondEyes, Staff
<1>2. r \in DOMAIN admin_actions' /\ admin_actions'[r] = admin_actions[r]
  BY <1>1, RowsEvolve DEF Queued, HandledBy
<1> QED
  BY <1>2 DEF SecondEyes

LEMMA RowsNameTheSame ==
  ASSUME DeskInv, [NextDesk]_allvars, NEW r \in DOMAIN admin_actions
  PROVE  /\ r \in DOMAIN admin_actions'
         /\ admin_actions'[r].action = admin_actions[r].action
         /\ admin_actions'[r].target_id = admin_actions[r].target_id
         /\ admin_actions'[r].actor_user_id = admin_actions[r].actor_user_id
BY RowsEvolve DEF Queued, HandledBy

LEMMA FourEyesNext ==
  ASSUME DeskInv, FourEyes, [NextDesk]_allvars, StagesAfresh, PostsUnqueued
  PROVE  FourEyes'
<1>0. TypeOK /\ DeskTypeOK /\ RowsStand /\ RowsNamed /\ NoOrphanedHold
  BY DeskSteps, HistoryNext DEF DeskInv, FundsInv
<1> SUFFICES ASSUME NEW t \in DOMAIN transfers', transfers'[t].status = "posted",
                    NEW q \in RowsOf(t)', admin_actions'[q].action = "approval_request"
             PROVE  \E r \in RowsOf(t)' : SecondEyes(r)'
  BY DEF FourEyes, SecondEyes, Rows
<1>1. q \in DOMAIN admin_actions' /\ admin_actions'[q].target_id = t
      /\ admin_actions'[q].action \in MoneyQueue
  BY RowMembersNext
<1>2. q \in DOMAIN admin_actions
  <2> SUFFICES ASSUME q \notin DOMAIN admin_actions PROVE FALSE
    OBVIOUS
  <2>1. t \notin DOMAIN transfers
    BY <1>1 DEF StagesAfresh
  <2>2. Queued(q)
    BY <1>1, RowsEvolve DEF Queued, HandledBy
  <2> QED
    BY <1>1, <2>1, <2>2 DEF Queued
<1>3. q \in RowsOf(t) /\ admin_actions[q].action = "approval_request"
  BY <1>1, <1>2, RowsNameTheSame, RowMembers
<1>4. t \in DOMAIN transfers
  BY <1>0, <1>3, RowMembers DEF RowsNamed
<1>5. ASSUME NEW r \in RowsOf(t)
      PROVE  r \in DOMAIN admin_actions /\ r \in RowsOf(t)'
  BY <1>5, RowMembers, RowMembersNext, RowsNameTheSame
<1>6. CASE transfers[t].status = "posted"
  <2>1. PICK r \in RowsOf(t) : SecondEyes(r)
    BY <1>3, <1>4, <1>6, RowMembers DEF FourEyes, SecondEyes, Rows
  <2> QED
    BY <1>5, <2>1, EyesStay
<1>7. CASE transfers[t].status # "posted"
  <2>1. transfers[t].status \in Awaiting
    BY <1>0, <1>4, <1>7, PostsFromWait
  <2>2. q \in OpenRowsOf(t)
    BY <1>0, <1>3, <1>4, <2>1 DEF NoOrphanedHold
  <2>3. DecidesOn(t)
    BY <1>4, <1>7, <2>2, MoneyDecided DEF MoneyNeedsDecision, PostsUnqueued
  <2>4. PICK r \in OpenRowsOf(t) : Decides(r)
    BY <2>3 DEF DecidesOn
  <2>5. r \in RowsOf(t)
    BY <2>4, RowMembers
  <2>6. SecondEyes(r)'
    BY <1>5, <2>4, <2>5, RowsNameTheSame DEF Decides, SecondEyes
  <2> QED
    BY <1>5, <2>5, <2>6
<1> QED
  BY <1>6, <1>7

(* Above the threshold a movement takes a second admin, as the documents   *)
(* say, while staging calls are not repeated and nobody uses the Post      *)
(* button on what is queued: approve_request lets nothing else through.    *)
THEOREM FourEyesByTheQueue ==
  SpecDesk /\ [][StagesAfresh /\ PostsUnqueued]_allvars => []FourEyes
<1>1. InitDesk => FourEyes
  BY DEF InitDesk, Init, FourEyes
<1>2. DeskInv /\ FourEyes /\ [NextDesk]_allvars /\ [StagesAfresh /\ PostsUnqueued]_allvars
        => FourEyes'
  <2>1. UNCHANGED allvars /\ FourEyes => FourEyes'
    BY DEF allvars, vars, desk_vars, FourEyes, RowsOf, Rows
  <2> QED
    BY <2>1, FourEyesNext
<1> QED
  BY DeskCorrect, <1>1, <1>2, PTL DEF SpecDesk

=============================================================================
