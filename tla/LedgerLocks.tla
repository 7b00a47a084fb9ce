----------------------------- MODULE LedgerLocks -----------------------------
(***************************************************************************)
(* How the functions of the ledger run side by side. Each call is one      *)
(* PostgreSQL transaction under READ COMMITTED: it sees what others have   *)
(* committed, takes row locks one after the other in the order of its      *)
(* statements, checks what it reads under them, and shows its own writes   *)
(* when it commits.  This module has the locks of request_transfer,        *)
(* post_transfer, cancel_transfer, reverse_transfer (00008_transfers.sql)  *)
(* and expire_holds (00010_maintenance.sql), and shows that they make each *)
(* call a single step of Ledger, and which of them can deadlock.           *)
(*                                                                         *)
(* A row that a transaction inserts is seen by nobody else before it       *)
(* commits, but for its primary key: a second INSERT of an idempotency key *)
(* waits for the first.  The row is numbered when it is committed.         *)
(***************************************************************************)
EXTENDS Ledger

CONSTANTS
  Api,       \* connections that serve calls
  Sweeper,   \* connections that run the maintenance loop, one per replica
  AccountId, \* the ids of the accounts, as numbers
  Outcome    \* what screening does with a customer's payment

Backend == Api \cup Sweeper

ASSUME LocksAssumption ==
  /\ Api \cap Sweeper = {} /\ IsFiniteSet(Api)   \* a pool of pgxpool
  /\ Outcome \subseteq {"posted", "held", "under_review"}
  /\ AccountId \in [Account -> Nat]
  /\ \A a, b \in Account : AccountId[a] = AccountId[b] => a = b

VARIABLES
  call,    \* per connection, the call in progress
  locked   \* and how many of its row locks it has

lock_vars == <<call, locked>>
allvars   == <<vars, lock_vars>>

Idle == [fn |-> "idle"]

-----------------------------------------------------------------------------
(* The row locks of a call, in the order in which it takes them.           *)

key_row(k)      == <<"idempotency_keys", k>>
transfer_row(t) == <<"transfers", t>>
hold_row(t)     == <<"holds", t>>
account_row(a)  == <<"accounts", a>>

BothAccounts_debit_first(d, c) == <<account_row(d), account_row(c)>>

(* FOR UPDATE in the order of the ids.                                     *)
BothAccounts(d, c) ==
  IF AccountId[d] < AccountId[c] THEN <<account_row(d), account_row(c)>>
                                 ELSE <<account_row(c), account_row(d)>>

RequestLocks_unlocked(c) == <<key_row(c.key)>>

RequestLocks(c) == <<key_row(c.key)>> \o BothAccounts(c.debit, c.credit)

PostLocks(c) ==
  <<transfer_row(c.transfer)>>
    \o BothAccounts(transfers[c.transfer].debit, transfers[c.transfer].credit)
    \o <<hold_row(c.transfer)>>

(* The account is locked by the trigger that gives the funds back.         *)
CancelLocks(c) ==
  <<transfer_row(c.transfer), hold_row(c.transfer),
    account_row(transfers[c.transfer].debit)>>

(* What is reversed already needs no accounts.                             *)
ReverseLocks(c) ==
  <<key_row(c.key), transfer_row(c.transfer)>>
    \o IF transfers[c.transfer].status = "reversed" THEN <<>>
       ELSE BothAccounts(transfers[c.transfer].debit, transfers[c.transfer].credit)

(* The sweep updates all its holds, then their transfers; the trigger on   *)
(* holds fires at the end, in the order of the holds.                      *)
SweepLocks(c) ==
  [i \in DOMAIN c.late |-> hold_row(c.late[i])]
    \o [i \in DOMAIN c.late |-> transfer_row(c.late[i])]
    \o [i \in DOMAIN c.late |-> account_row(transfers[c.late[i]].debit)]

Locks(c) ==
  CASE c.fn = "request" -> RequestLocks(c)
    [] c.fn = "post"    -> PostLocks(c)
    [] c.fn = "cancel"  -> CancelLocks(c)
    [] c.fn = "reverse" -> ReverseLocks(c)
    [] c.fn = "sweep"   -> SweepLocks(c)
    [] c.fn = "idle"    -> <<>>

RowsLocked(b) == {Locks(call[b])[i] : i \in 1..locked[b]}
Waiting(b)    == locked[b] < Len(Locks(call[b]))
NextRow(b)    == Locks(call[b])[locked[b] + 1]
Blockers(b)   == {o \in Backend \ {b} : Waiting(b) /\ NextRow(b) \in RowsLocked(o)}
Free(row)     == \A b \in Backend : row \notin RowsLocked(b)

(* What the call checks when it has taken its i-th lock; if that fails, it *)
(* raises, or finds that there is nothing left to do.                      *)
Passes(c, i) ==
  LET status == transfers[c.transfer].status
      last   == i = Len(Locks(c))
  IN  CASE c.fn = "request" -> /\ i = 1 => idempotency_keys[c.key] = Unclaimed
                               /\ last  => MayRequest(c.debit, c.credit, c.amount)
        [] c.fn = "post"    -> i = 1 => status \in c.from
        [] c.fn = "cancel"  -> i = 1 => status \in Awaiting
        [] c.fn = "reverse" -> /\ i = 1 => idempotency_keys[c.key] = Unclaimed
                               /\ i = 2 => status \in Settled
                               /\ last /\ status = "posted" => Clawable(c.transfer)
        [] c.fn = "sweep"   -> TRUE

-----------------------------------------------------------------------------
InitLocks ==
  /\ Init
  /\ call = [b \in Backend |-> Idle]
  /\ locked = [b \in Backend |-> 0]

Begin(b, c) ==
  /\ call[b] = Idle
  /\ call' = [call EXCEPT ![b] = c]
  /\ UNCHANGED <<vars, locked>>

(* request_transfer on its own, in deposit or withdraw, and in the         *)
(* customer's client_transfer.                                             *)
begin_request(b) ==
  \E n \in KeyName, d, c \in Account, m \in Amount :
    LET by(caller, st) ==
          Begin(b, [fn |-> "request", key |-> <<caller, n>>,
                    debit |-> d, credit |-> c, amount |-> m, ends |-> st])
    IN  \/ by(Sentinel, "pending")
        \/ {d, c} \cap System # {} /\ by(Sentinel, "posted")
        \/ d \in Customer /\ \E st \in Outcome : by(Owner[d], st)

begin_post(b) ==
  \E t \in DOMAIN transfers, from \in {{"pending"}, {"under_review"}} :
    Begin(b, [fn |-> "post", transfer |-> t, from |-> from])

begin_cancel(b) ==
  \E t \in DOMAIN transfers : Begin(b, [fn |-> "cancel", transfer |-> t])

begin_reverse(b) ==
  \E t \in DOMAIN transfers, n \in KeyName :
    Begin(b, [fn |-> "reverse", transfer |-> t, key |-> <<Sentinel, n>>])

(* One replica at a time holds the advisory lock.  The holds that are      *)
(* overdue are those of the statement's snapshot, in some order.           *)
begin_sweep(b) ==
  /\ \A o \in Sweeper : call[o] = Idle
  /\ \E late \in [1..Cardinality(lapsed) -> lapsed] :
       /\ \A i, j \in DOMAIN late : late[i] = late[j] => i = j
       /\ Begin(b, [fn |-> "sweep", late |-> late])

(* The sweep reads a hold again when it has its lock: one that is active no*)
(* longer is not its to expire.                                            *)
Stale(b) ==
  /\ call[b].fn = "sweep"
  /\ locked[b] < Len(call[b].late)
  /\ transfers[call[b].late[locked[b] + 1]].hold # "active"

skip_hold(b) ==
  /\ Stale(b)
  /\ Blockers(b) = {}
  /\ call' = [call EXCEPT ![b].late =
                SubSeq(@, 1, locked[b]) \o SubSeq(@, locked[b] + 2, Len(@))]
  /\ UNCHANGED <<vars, locked>>

(* The next row lock, once nobody else has it.                             *)
lock_row(b) ==
  /\ Waiting(b)
  /\ Blockers(b) = {}
  /\ ~Stale(b)
  /\ Passes(call[b], locked[b] + 1)
  /\ locked' = [locked EXCEPT ![b] = @ + 1]
  /\ UNCHANGED <<vars, call>>

End(b) ==
  /\ call' = [call EXCEPT ![b] = Idle]
  /\ locked' = [locked EXCEPT ![b] = 0]

Reversed(c) == transfers[c.transfer].status = "reversed"

(* What the call has written, for all to see.                              *)
Writes(c) ==
  \/ c.fn = "request" /\ NextId <= MaxTransfers
                      /\ Record(c.key, c.debit, c.credit, c.amount, c.ends)
  \/ c.fn = "post" /\ Post(c.transfer)
  \/ c.fn = "cancel" /\ CloseHold(c.transfer, "canceled", "released")
                     /\ UNCHANGED <<money_vars, account_vars, idempotency_keys>>
  \/ c.fn = "reverse" /\ ~Reversed(c) /\ NextId <= MaxTransfers
                      /\ Refund(c.key[2], c.transfer)
  \/ c.fn = "reverse" /\ Reversed(c) /\ reverse_again(c.key[2], c.transfer)
  \/ c.fn = "sweep" /\ Expire({c.late[i] : i \in DOMAIN c.late})
                    /\ cleanup_idempotency_keys
                    /\ UNCHANGED <<money_vars, account_vars>>

commit(b) ==
  /\ call[b] # Idle
  /\ ~Waiting(b)
  /\ Writes(call[b])
  /\ End(b)

(* The call raises, is the victim of a deadlock, or loses its client.      *)
rollback(b) ==
  /\ call[b] # Idle
  /\ End(b)
  /\ UNCHANGED vars

(* One UPDATE of one account.                                              *)
administer ==
  /\ \E a \in Account :
       /\ Free(account_row(a))
       /\ \/ \E st \in Status : set_account_status(a, st)
          \/ \E l \in Limit : update_transfer_limit(a, l)
  /\ UNCHANGED lock_vars

(* A sweep compares with the time at which it started, so what lapses later*)
(* lapses, for it, after it.                                               *)
lapse ==
  /\ \A b \in Sweeper : call[b] = Idle
  /\ \E t \in DOMAIN transfers : window_lapses(t)
  /\ UNCHANGED lock_vars

NextLocks ==
  \/ \E b \in Api : begin_request(b) \/ begin_post(b) \/ begin_cancel(b) \/ begin_reverse(b)
  \/ \E b \in Sweeper : begin_sweep(b) \/ skip_hold(b)
  \/ \E b \in Backend : lock_row(b) \/ commit(b) \/ rollback(b)
  \/ administer
  \/ lapse

SpecLocks == InitLocks /\ [][NextLocks]_allvars

-----------------------------------------------------------------------------
(* Properties.                                                             *)

(* However the calls interleave, each takes effect as a single step of     *)
(* Ledger, or not at all: what a call checked under its locks still holds  *)
(* when it commits.                                                        *)
AtomicCalls == [][Next]_vars

Circle(S) == S # {} /\ \A b \in S : Blockers(b) \cap S # {}

(* Calls that serve requests never wait for each other in a circle,        *)
(* whichever accounts they pay between and whatever they decide of one     *)
(* transfer: a circle takes the sweep.                                     *)
RequestsNeverDeadlock == \A S \in SUBSET Api : ~Circle(S)

(* "Deadlocks must stay 0": nor does the sweep close a circle.             *)
NoDeadlock == \A S \in SUBSET Backend : ~Circle(S)

=============================================================================
