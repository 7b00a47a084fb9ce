------------------------------- MODULE Ledger -------------------------------
(***************************************************************************)
(* The double-entry ledger of bank0 and the life cycle of a transfer:      *)
(* the PL/pgSQL functions of db/migrations/00007_accounts.sql,             *)
(* 00008_transfers.sql and 00010_maintenance.sql over the tables accounts, *)
(* transfers, holds, ledger_entries and idempotency_keys.                  *)
(*                                                                         *)
(* One action is one function call, that is one database transaction: a    *)
(* function that raises rolls back all it wrote, so it is simply not       *)
(* enabled.  Any caller may call any function at any time; who may call    *)
(* what, and the admin_actions rows that some of them also write, is       *)
(* composed on top in MakerChecker.  The row locks that make the functions *)
(* atomic are the subject of LedgerLocks.                                  *)
(*                                                                         *)
(* Money is in minor units.  Transfer ids are the positions in the table   *)
(* transfers: ids are UUIDv7, minted in order.                             *)
(***************************************************************************)
EXTENDS Integers, Sequences, FiniteSets

CONSTANTS
  Customer,     \* ids of the accounts of kind 'customer'
  System,       \* ids of the accounts of kind 'system' (EXTERNAL_CLEARING)
  User,         \* customers
  Owner,        \* accounts.user_id: the user a customer account belongs to
  Sentinel,     \* the all-zero owner_id, the namespace of operator calls
  KeyName,      \* the Idempotency-Key values that callers send
  Status,       \* the account statuses that operators set
  Limit,        \* the transfer limits that operators set
  MaxAmount,    \* bound: amounts are 1..MaxAmount
  MaxTransfers  \* bound: rows of the table transfers

Account == Customer \cup System
Amount  == 1..MaxAmount
Caller  == User \cup {Sentinel}
Key     == Caller \X KeyName     \* the primary key (owner_id, key)

ASSUME LedgerAssumption ==
  /\ Customer \cap System = {}
  /\ Sentinel \notin User
  /\ Owner \in [Customer -> User]
  /\ Status \subseteq {"active", "frozen", "closed"}
  /\ Limit \subseteq Nat
  /\ MaxAmount \in Nat
  /\ MaxTransfers \in Nat

VARIABLES
  balance_minor,         \* accounts: the cached balance
  held_minor,            \* accounts: the cached sum of the active holds
  account_status,        \* accounts
  transfer_limit_minor,  \* accounts
  transfers,             \* the table transfers, each row with its hold
  lapsed,                \* the transfers whose active hold is past expires_at
  ledger_entries,        \* per account, the entries in insertion order
  idempotency_keys       \* the table idempotency_keys

account_vars == <<account_status, transfer_limit_minor>>
money_vars   == <<balance_minor, ledger_entries>>
vars == <<balance_minor, held_minor, account_vars, transfers, lapsed,
          ledger_entries, idempotency_keys>>

TransferStatus ==
  {"pending", "held", "under_review", "posted", "failed", "canceled", "reversed"}
HoldStatus == {"none", "active", "captured", "released", "expired"}

Awaiting == {"pending", "held", "under_review"}   \* holds its funds
Settled  == {"posted", "reversed"}                \* has its two ledger legs

(* A row of transfers with its row of holds: request_transfer inserts one  *)
(* hold for a transfer, on the debit account and for the same amount; a    *)
(* reversal has none.  reverses = 0 stands for NULL.                       *)
Transfer ==
  {row \in [debit: Account, credit: Account, amount: Amount, reverses: 0..MaxTransfers,
             status: TransferStatus, hold: HoldStatus] : row.debit # row.credit}

Entry == [transfer: 1..MaxTransfers, signed_amount: Int, balance_after: Int]

(* request_hash stands for the fingerprint of the arguments.               *)
Unclaimed == [request_hash |-> <<>>, transfer_id |-> 0]
KeyRow == [request_hash: (Account \X Account \X Amount) \cup ((1..MaxTransfers) \X {"reverse"}),
           transfer_id: 1..MaxTransfers]

-----------------------------------------------------------------------------
(* Reading the tables.                                                     *)

(* SUM(amount_minor) over a set T of the rows f, counted minor unit by     *)
(* minor unit.                                                             *)
Units(T, f)  == {u \in T \X Amount : u[2] <= f[u[1]].amount}
Weight(T, f) == Cardinality(Units(T, f))
AmountOf(T)  == Weight(T, transfers)

ActiveHolds(a) ==
  {t \in DOMAIN transfers : transfers[t].hold = "active" /\ transfers[t].debit = a}

Reserved(a) == AmountOf(ActiveHolds(a))

(* Definitions named X_variant are variants of X with a plausible fault;   *)
(* they are no part of the model.  PROJECT.json says which property each   *)
(* of them breaks.                                                         *)

Available_ignoring_holds(a) == balance_minor[a]

(* What request_transfer lets an account spend: it adds the holds afresh.  *)
Available(a) == balance_minor[a] - Reserved(a)

NextId == Len(transfers) + 1

Init ==
  /\ balance_minor        = [a \in Account |-> 0]
  /\ held_minor           = [a \in Account |-> 0]
  /\ account_status       = [a \in Account |-> "active"]
  /\ transfer_limit_minor \in {[a \in Account |-> l] : l \in Limit}
  /\ transfers            = <<>>
  /\ lapsed               = {}
  /\ ledger_entries       = [a \in Account |-> <<>>]
  /\ idempotency_keys     = [k \in Key |-> Unclaimed]

-----------------------------------------------------------------------------
(* The pieces that the functions share.                                    *)

Claim_ungated(k, hash, t) ==
  idempotency_keys' =
    [idempotency_keys EXCEPT ![k] = [request_hash |-> hash, transfer_id |-> t]]

Claim_uncompleted(k, hash, t) ==
  /\ idempotency_keys[k] = Unclaimed
  /\ idempotency_keys' =
       [idempotency_keys EXCEPT ![k] = [request_hash |-> hash, transfer_id |-> 0]]

Claim(k, hash, t) ==
  /\ idempotency_keys[k] = Unclaimed
  /\ idempotency_keys' =
       [idempotency_keys EXCEPT ![k] = [request_hash |-> hash, transfer_id |-> t]]

WriteLegs_stale_credit(t, d, c, m) ==
  /\ d \in Customer => balance_minor[d] >= m
  /\ ledger_entries' =
       [ledger_entries EXCEPT
          ![d] = Append(@, [transfer |-> t, signed_amount |-> -m,
                            balance_after |-> balance_minor[d] - m]),
          ![c] = Append(@, [transfer |-> t, signed_amount |-> m,
                            balance_after |-> balance_minor[c]])]
  /\ balance_minor' = [balance_minor EXCEPT ![d] = @ - m, ![c] = @ + m]

(* The two legs of transfer t.  The trigger on ledger_entries stamps the   *)
(* running balance and writes the cached one; the CHECK on accounts lets   *)
(* no customer go below zero.                                              *)
WriteLegs(t, d, c, m) ==
  /\ d \in Customer => balance_minor[d] >= m
  /\ ledger_entries' =
       [ledger_entries EXCEPT
          ![d] = Append(@, [transfer |-> t, signed_amount |-> -m,
                            balance_after |-> balance_minor[d] - m]),
          ![c] = Append(@, [transfer |-> t, signed_amount |-> m,
                            balance_after |-> balance_minor[c] + m])]
  /\ balance_minor' = [balance_minor EXCEPT ![d] = @ - m, ![c] = @ + m]

CloseHold_untriggered(t, st, h) ==
  /\ transfers' = [transfers EXCEPT ![t].status = st, ![t].hold = h]
  /\ lapsed' = lapsed \ {t}
  /\ UNCHANGED held_minor

(* Transfer t leaves its waiting state: its hold, if still active, takes   *)
(* status h, and the trigger on holds gives the funds back to the cache.   *)
CloseHold(t, st, h) ==
  LET active == transfers[t].hold = "active"
  IN  /\ transfers' = [transfers EXCEPT ![t].status = st,
                                        ![t].hold   = IF active THEN h ELSE @]
      /\ held_minor' = [held_minor EXCEPT
                          ![transfers[t].debit] =
                             IF active THEN @ - transfers[t].amount ELSE @]
      /\ lapsed' = lapsed \ {t}

(* The checks of request_transfer, under the locks on both accounts.       *)
MayRequest(d, c, m) ==
  /\ d # c
  /\ account_status[d] = "active"
  /\ account_status[c] = "active"
  /\ d \in Customer => m <= transfer_limit_minor[d] /\ m <= Available(d)

(* The rows that request_transfer inserts for a new transfer, and what its *)
(* caller makes of them in the same transaction: the transfer stays        *)
(* pending, place_transfer_hold parks it, or post_transfer posts it.       *)
Record(k, d, c, m, st) ==
  /\ Claim(k, <<d, c, m>>, NextId)
  /\ transfers' =
       Append(transfers, [debit |-> d, credit |-> c, amount |-> m, reverses |-> 0,
                          status |-> st,
                          hold |-> IF st = "posted" THEN "captured" ELSE "active"])
  /\ IF st = "posted"
     THEN WriteLegs(NextId, d, c, m) /\ UNCHANGED held_minor
     ELSE held_minor' = [held_minor EXCEPT ![d] = @ + m] /\ UNCHANGED money_vars
  /\ UNCHANGED <<lapsed, account_vars>>

(* A key seen before changes nothing: the call returns the transfer that it*)
(* names, or raises.                                                       *)
Admit(k, d, c, m, st) ==
  /\ NextId <= MaxTransfers
  /\ MayRequest(d, c, m)
  /\ Record(k, d, c, m, st)

-----------------------------------------------------------------------------
(* The functions.                                                          *)

request_transfer(n, d, c, m) == Admit(<<Sentinel, n>>, d, c, m, "pending")

(* A customer pays out of an account of their own.  The fraud and AML gate *)
(* posts the payment, holds it for confirmation or parks it for review (or *)
(* blocks it, which rolls everything back).                                *)
client_transfer(u, n, d, c, m) ==
  /\ Owner[d] = u
  /\ \E st \in {"posted", "held", "under_review"} : Admit(<<u, n>>, d, c, m, st)

(* Operator calls bypass the gate.                                         *)
deposit(n, s, a, m)  == Admit(<<Sentinel, n>>, s, a, m, "posted")
withdraw(n, a, s, m) == Admit(<<Sentinel, n>>, a, s, m, "posted")

Post(t) ==
  /\ WriteLegs(t, transfers[t].debit, transfers[t].credit, transfers[t].amount)
  /\ CloseHold(t, "posted", "captured")
  /\ UNCHANGED <<account_vars, idempotency_keys>>

(* A transfer that is already posted is left alone; any other state raises.*)
post_transfer(t, allow_from) ==
  /\ t \in DOMAIN transfers
  /\ transfers[t].status \in allow_from
  /\ Post(t)

cancel_transfer_any_state(t) ==
  /\ t \in DOMAIN transfers
  /\ transfers[t].status # "canceled"
  /\ CloseHold(t, "canceled", "released")
  /\ UNCHANGED <<money_vars, account_vars, idempotency_keys>>

cancel_transfer(t) ==
  /\ t \in DOMAIN transfers
  /\ transfers[t].status \in Awaiting
  /\ CloseHold(t, "canceled", "released")
  /\ UNCHANGED <<money_vars, account_vars, idempotency_keys>>

(* A customer cannot cancel what operators are reviewing.                  *)
client_cancel_transfer(t) ==
  /\ t \in DOMAIN transfers
  /\ transfers[t].debit \in Customer
  /\ transfers[t].status # "under_review"
  /\ cancel_transfer(t)

(* A customer releases a held payment of theirs within its window.         *)
client_confirm_transfer(t) ==
  /\ t \in DOMAIN transfers
  /\ transfers[t].debit \in Customer
  /\ t \notin lapsed
  /\ post_transfer(t, {"held"})

(* What a clawback may take from account a.  It trusts the cache.          *)
Reclaimable_raw_balance(a) == balance_minor[a]
Reclaimable(a) == balance_minor[a] - held_minor[a]

MayReverse(t) == t \in DOMAIN transfers /\ transfers[t].status = "posted"

Refund_unmarked(n, t) ==
  LET orig == transfers[t]
  IN  /\ Claim(<<Sentinel, n>>, <<t, "reverse">>, NextId)
      /\ transfers' =
           Append(transfers,
                  [debit |-> orig.credit, credit |-> orig.debit,
                   amount |-> orig.amount, reverses |-> t,
                   status |-> "posted", hold |-> "none"])
      /\ WriteLegs(NextId, orig.credit, orig.debit, orig.amount)
      /\ UNCHANGED <<held_minor, lapsed, account_vars>>

(* The money of transfer t goes back by a transfer of its own.             *)
Refund(n, t) ==
  LET orig == transfers[t]
  IN  /\ Claim(<<Sentinel, n>>, <<t, "reverse">>, NextId)
      /\ transfers' =
           Append([transfers EXCEPT ![t].status = "reversed"],
                  [debit |-> orig.credit, credit |-> orig.debit,
                   amount |-> orig.amount, reverses |-> t,
                   status |-> "posted", hold |-> "none"])
      /\ WriteLegs(NextId, orig.credit, orig.debit, orig.amount)
      /\ UNCHANGED <<held_minor, lapsed, account_vars>>

(* Does the recipient of transfer t still have the money?                  *)
Clawable(t) ==
  transfers[t].credit \in Customer =>
    Reclaimable(transfers[t].credit) >= transfers[t].amount

(* The first reversal of transfer t.                                       *)
reverse_transfer(n, t) ==
  /\ MayReverse(t)
  /\ NextId <= MaxTransfers
  /\ Clawable(t)
  /\ Refund(n, t)

reverse_again_names_original(n, t) ==
  /\ t \in DOMAIN transfers
  /\ transfers[t].status = "reversed"
  /\ Claim(<<Sentinel, n>>, <<t, "reverse">>, t)
  /\ UNCHANGED <<money_vars, held_minor, account_vars, transfers, lapsed>>

(* Any later reversal of t, under whatever key, finds the one that exists. *)
reverse_again(n, t) ==
  /\ t \in DOMAIN transfers
  /\ transfers[t].status = "reversed"
  /\ \E r \in DOMAIN transfers :
       transfers[r].reverses = t /\ Claim(<<Sentinel, n>>, <<t, "reverse">>, r)
  /\ UNCHANGED <<money_vars, held_minor, account_vars, transfers, lapsed>>

(* The sweep: every active hold past its time expires; a pending transfer  *)
(* fails, a parked one is canceled.                                        *)
Overdue_pending == {t \in lapsed : transfers[t].status = "pending"}
Overdue         == lapsed

SweptStatus_unparked(st) == IF st = "pending" THEN "failed" ELSE st
SweptStatus(st) == CASE st = "pending"                  -> "failed"
                     [] st \in {"held", "under_review"} -> "canceled"
                     [] OTHER                           -> st

Expire(E) ==
  /\ transfers' =
       [t \in DOMAIN transfers |->
          IF t \in E
          THEN [transfers[t] EXCEPT !.hold = "expired", !.status = SweptStatus(@)]
          ELSE transfers[t]]
  /\ held_minor' =
       [a \in Account |-> held_minor[a] - AmountOf(E \cap ActiveHolds(a))]
  /\ lapsed' = lapsed \ E

expire_holds == Expire(Overdue)

(* Keys live 7 days, longer than any hold: 15 minutes, or at most 4        *)
(* business days.  Which of the others are past it is left open.           *)
cleanup_idempotency_keys ==
  \E K \in SUBSET {k \in Key : idempotency_keys[k] # Unclaimed} :
    /\ \A k \in K : LET t == idempotency_keys[k].transfer_id
                    IN  transfers[t].hold = "active" => t \in lapsed
    /\ idempotency_keys' =
         [k \in Key |-> IF k \in K THEN Unclaimed ELSE idempotency_keys[k]]

(* Both sweeps run in one transaction, on one replica at a time.           *)
RunMaintenance ==
  /\ expire_holds
  /\ cleanup_idempotency_keys
  /\ UNCHANGED <<money_vars, account_vars>>

set_account_status(a, st) ==
  /\ account_status' = [account_status EXCEPT ![a] = st]
  /\ UNCHANGED <<money_vars, held_minor, transfer_limit_minor, transfers,
                 lapsed, idempotency_keys>>

update_transfer_limit(a, l) ==
  /\ transfer_limit_minor' = [transfer_limit_minor EXCEPT ![a] = l]
  /\ UNCHANGED <<money_vars, held_minor, account_status, transfers, lapsed,
                 idempotency_keys>>

(* Time passes beyond the expires_at of an active hold.                    *)
window_lapses(t) ==
  /\ t \in DOMAIN transfers \ lapsed
  /\ transfers[t].hold = "active"
  /\ lapsed' = lapsed \cup {t}
  /\ UNCHANGED <<money_vars, held_minor, account_vars, transfers, idempotency_keys>>

-----------------------------------------------------------------------------
Submit ==
  \E m \in Amount, n \in KeyName :
    \/ \E d, c \in Account : request_transfer(n, d, c, m)
    \/ \E d \in Customer, c \in Account : client_transfer(Owner[d], n, d, c, m)
    \/ \E s \in System, a \in Account : deposit(n, s, a, m)
    \/ \E a \in Account, s \in System : withdraw(n, a, s, m)

Resolve ==
  \E t \in DOMAIN transfers :
    \/ post_transfer(t, {"pending"})        \* console, client, approval
    \/ post_transfer(t, {"under_review"})   \* release of a screening hold
    \/ cancel_transfer(t)
    \/ client_cancel_transfer(t)
    \/ client_confirm_transfer(t)

Reverse ==
  \E t \in DOMAIN transfers, n \in KeyName :
    reverse_transfer(n, t) \/ reverse_again(n, t)

Administer ==
  \E a \in Account :
    \/ \E st \in Status : set_account_status(a, st)
    \/ \E l \in Limit : update_transfer_limit(a, l)

Next ==
  \/ Submit \/ Resolve \/ Reverse \/ Administer
  \/ RunMaintenance
  \/ \E t \in DOMAIN transfers : window_lapses(t)

Spec == Init /\ [][Next]_vars

-----------------------------------------------------------------------------
(* What reconcile() looks for; an empty result means the books are right.  *)

Postings(a) == {<<a, i>> : i \in DOMAIN ledger_entries[a]}
AllPostings == UNION {Postings(a) : a \in Account}
LegsOf(t)   == {p \in AllPostings : ledger_entries[p[1]][p[2]].transfer = t}

SignedSum(P) ==
  LET signed(p) == ledger_entries[p[1]][p[2]].signed_amount
  IN  Cardinality({u \in P \X Amount : u[2] <= signed(u[1])})
        - Cardinality({u \in P \X Amount : u[2] <= -signed(u[1])})

balance_drift       == {a \in Account : balance_minor[a] # SignedSum(Postings(a))}
transfer_unbalanced == {t \in DOMAIN transfers : SignedSum(LegsOf(t)) # 0}
global_nonzero      == SignedSum(AllPostings) # 0
held_drift          == {a \in Account : held_minor[a] # Reserved(a)}
missing_hold ==
  {t \in DOMAIN transfers : transfers[t].status \in {"held", "under_review"}
                            /\ transfers[t].hold # "active"}

-----------------------------------------------------------------------------
(* Properties.                                                             *)

(* The tables keep their column types.                                     *)
TypeOK ==
  /\ balance_minor \in [Account -> Int]
  /\ held_minor \in [Account -> Int]
  /\ account_status \in [Account -> {"active"} \cup Status]
  /\ transfer_limit_minor \in [Account -> Limit]
  /\ transfers \in Seq(Transfer) /\ Len(transfers) <= MaxTransfers
  /\ lapsed \subseteq DOMAIN transfers
  /\ ledger_entries \in [Account -> Seq(Entry)]
  /\ idempotency_keys \in [Key -> KeyRow \cup {Unclaimed}]

(* No customer has promised more than they own: whatever the interleaving  *)
(* of requests, reviews, sweeps and clawbacks, every waiting transfer can  *)
(* still settle without tripping the CHECK on the balance.                 *)
Solvent == \A a \in Customer : Reserved(a) <= balance_minor[a]

(* reconcile() never returns a row: the caches balance_minor and held_minor*)
(* agree with the journal and the holds, money is only moved, and a parked *)
(* transfer keeps its funds reserved.                                      *)
Reconciled ==
  /\ balance_drift = {}
  /\ transfer_unbalanced = {}
  /\ ~global_nonzero
  /\ held_drift = {}
  /\ missing_hold = {}

(* A statement reads as a chain: each entry's balance_after continues the  *)
(* one before it, and the last one is the account's balance.               *)
StatementChains ==
  \A a \in Account :
    LET e == ledger_entries[a]
    IN  /\ \A i \in DOMAIN e :
             e[i].balance_after = e[i].signed_amount
                                  + IF i = 1 THEN 0 ELSE e[i-1].balance_after
        /\ balance_minor[a] = IF e = <<>> THEN 0 ELSE e[Len(e)].balance_after

(* A transfer has its two legs, and only those, exactly when its status    *)
(* says that the money has moved (posted_at IS NOT NULL).                  *)
LegsMatchLifecycle ==
  \A t \in DOMAIN transfers :
    LET row == transfers[t]
        entries(a) == {i \in DOMAIN ledger_entries[a] : ledger_entries[a][i].transfer = t}
    IN  \A a \in Account :
          IF row.status \in Settled /\ a \in {row.debit, row.credit}
          THEN \E i \in entries(a) :
                 /\ entries(a) = {i}
                 /\ ledger_entries[a][i].signed_amount =
                      IF a = row.debit THEN -row.amount ELSE row.amount
          ELSE entries(a) = {}

(* Funds are reserved exactly as long as the transfer still waits; the hold*)
(* records how it ended.                                                   *)
HoldMatchesStatus ==
  \A t \in DOMAIN transfers :
    LET row == transfers[t]
    IN  /\ row.hold = "active" <=> row.status \in Awaiting
        /\ row.hold = "none" <=> row.reverses # 0
        /\ row.hold = "captured" <=> row.status \in Settled /\ row.reverses = 0
        /\ row.status = "failed" => row.hold = "expired"
        /\ t \in lapsed => row.hold = "active"

(* Every reversal of a transfer, under any key, converges on one: a        *)
(* transfer is reversed exactly when one transfer, its mirror image, names *)
(* it.  A reversal may itself be reversed.                                 *)
ReversedOnce ==
  \A t \in DOMAIN transfers :
    LET row == transfers[t]
        reversals == {r \in DOMAIN transfers : transfers[r].reverses = t}
    IN  IF row.status = "reversed"
        THEN \E r \in reversals :
               /\ reversals = {r} /\ t < r
               /\ transfers[r].debit = row.credit
               /\ transfers[r].credit = row.debit
               /\ transfers[r].amount = row.amount
        ELSE reversals = {}

(* A claimed key answers a replay with what it was claimed for: the payment*)
(* of its fingerprint, or the reversal of the transfer in it; and no two   *)
(* keys answer with the same payment.                                      *)
KeyNamesItsOutcome ==
  LET Claimed == {k \in Key : idempotency_keys[k] # Unclaimed}
      hash(k) == idempotency_keys[k].request_hash
      row(k)  == transfers[idempotency_keys[k].transfer_id]
  IN  \A k \in Claimed :
        /\ idempotency_keys[k].transfer_id \in DOMAIN transfers
        /\ IF Len(hash(k)) = 2
           THEN row(k).reverses = hash(k)[1]
           ELSE /\ hash(k) = <<row(k).debit, row(k).credit, row(k).amount>>
                /\ row(k).reverses = 0
                /\ \A j \in Claimed \ {k} :
                     idempotency_keys[j].transfer_id # idempotency_keys[k].transfer_id

(* What happened stays: a key answers the same until it is swept, the      *)
(* journal only grows, no row of transfers goes away or changes what it    *)
(* says of the payment, and a status only moves along the life cycle.      *)
LifeCycle ==
  [pending |-> {"posted", "canceled", "failed"}, held |-> {"posted", "canceled"},
   under_review |-> {"posted", "canceled"}, posted |-> {"reversed"},
   failed |-> {}, canceled |-> {}, reversed |-> {}]

KeysStand ==
  \A k \in Key : idempotency_keys[k] # Unclaimed =>
    idempotency_keys'[k] \in {idempotency_keys[k], Unclaimed}

JournalStands ==
  \A a \in Account :
    SubSeq(ledger_entries'[a], 1, Len(ledger_entries[a])) = ledger_entries[a]

RowsStand ==
  \A t \in DOMAIN transfers :
    /\ t \in DOMAIN transfers'
    /\ LET old == transfers[t]
           new == transfers'[t]
       IN  /\ new = [old EXCEPT !.status = new.status, !.hold = new.hold]
           /\ new.status \in {old.status} \cup LifeCycle[old.status]

HistoryStands == [][KeysStand /\ JournalStands /\ RowsStand]_vars

(* Reserved money is never stuck: every hold that nobody captures or       *)
(* releases comes to its end.  This takes sweeps that get through, which   *)
(* is the subject of Maintenance.                                          *)
FundsFreed ==
  \A t \in 1..MaxTransfers :
    t \in DOMAIN transfers ~> t \in DOMAIN transfers /\ transfers[t].hold # "active"

(* The ledger implements Payments: its statuses, holds, journal and cached *)
(* balances together do what one table of payments would do.               *)
AsPayments ==
  [t \in DOMAIN transfers |->
     [from |-> transfers[t].debit, to |-> transfers[t].credit,
      amount |-> transfers[t].amount, refunds |-> transfers[t].reverses,
      state |-> CASE transfers[t].status \in Awaiting -> "reserved"
                  [] transfers[t].status \in Settled  -> "settled"
                  [] OTHER                            -> "void"]]

Abstract == INSTANCE Payments WITH payments <- AsPayments
ImplementsPayments == Abstract!Spec

=============================================================================
