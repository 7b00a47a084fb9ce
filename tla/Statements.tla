----------------------------- MODULE Statements -----------------------------
(***************************************************************************)
(* The statement of an account: GetAccountLedger over the view             *)
(* enriched_ledger (queries/transfers.sql, 00010).  It lists the entries   *)
(* by posted_at, which is now(): the time at which the transaction began   *)
(* and not the one at which it had the lock on the account.  This module   *)
(* adds the clock to LedgerLocks.                                          *)
(***************************************************************************)
EXTENDS LedgerLocks

CONSTANT MaxNow   \* bound: the time at which the clock stops

VARIABLES
  now,       \* the clock
  began,     \* per connection, now() of its transaction
  posted_at  \* per account, the column of its ledger_entries

clock_vars == <<now, began, posted_at>>

InitClock ==
  /\ now = 0
  /\ began = [b \in Backend |-> 0]
  /\ posted_at = [a \in Account |-> [i \in DOMAIN ledger_entries[a] |-> 0]]

(* now() is fixed when the transaction begins, and is the DEFAULT of the   *)
(* entries that it inserts.                                                *)
Stamp(b) ==
  /\ began' = [began EXCEPT ![b] = IF call[b] = Idle THEN now ELSE @]
  /\ posted_at' =
       [a \in Account |->
          IF Len(ledger_entries'[a]) > Len(ledger_entries[a])
          THEN Append(posted_at[a], began[b]) ELSE posted_at[a]]
  /\ UNCHANGED now

clock_ticks ==
  /\ now < MaxNow
  /\ now' = now + 1
  /\ UNCHANGED <<allvars, began, posted_at>>

NextStatements ==
  \/ NextLocks /\ \E b \in Backend : call'[b] # call[b] /\ Stamp(b)
  \/ NextLocks /\ UNCHANGED <<call, clock_vars>>
  \/ clock_ticks

SpecStatements ==
  InitLocks /\ InitClock /\ [][NextStatements]_<<allvars, clock_vars>>

-----------------------------------------------------------------------------
(* ORDER BY posted_at, id: ids are UUIDv7, in the order of the insertion.  *)
Earlier(a, i, j) ==
  \/ posted_at[a][i] < posted_at[a][j]
  \/ posted_at[a][i] = posted_at[a][j] /\ i < j

(* The entry that the statement lists before entry j, if any.              *)
ListedBefore(a, j) ==
  {i \in DOMAIN ledger_entries[a] :
     /\ Earlier(a, i, j)
     /\ ~\E k \in DOMAIN ledger_entries[a] : Earlier(a, i, k) /\ Earlier(a, k, j)}

(* Each line of the statement continues the one that is listed before it.  *)
Continues(a) ==
  \A j \in DOMAIN ledger_entries[a] :
    LET row(i) == ledger_entries[a][i]
    IN  \A i \in ListedBefore(a, j) :
          row(j).balance_after = row(i).balance_after + row(j).signed_amount

(* "ledger_entries newest-first with balance_after as a real running       *)
(* balance" (docs/05-admin-ui.md:118), for every account.                  *)
RunningBalance == \A a \in Account : Continues(a)

(* The calls that wrote the entries of an account began in the order in    *)
(* which they had the lock on it.                                          *)
StampedInOrder(a) ==
  \A i, j \in DOMAIN ledger_entries[a] : i < j => posted_at[a][i] <= posted_at[a][j]

(* What PostgreSQL runs side by side, one after the other.                 *)
OneAtATime == \A b, o \in Backend : call[b] # Idle /\ call[o] # Idle => b = o

=============================================================================
