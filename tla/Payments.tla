------------------------------ MODULE Payments ------------------------------
(***************************************************************************)
(* What the ledger of bank0 promises about payments, without its caches,   *)
(* journal, holds and keys: one table of payments.  A payment first        *)
(* reserves its amount and then settles or becomes void, or settles at     *)
(* once; what an account owns follows from the payments that settled.      *)
(* No customer ever promises more than they own, so settling needs no      *)
(* check of the funds.  Ledger is shown to implement this.                 *)
(***************************************************************************)
EXTENDS Integers, Sequences, FiniteSets

CONSTANTS
  Customer,     \* the accounts of customers
  System,       \* the accounts of the outside world
  MaxAmount,    \* bound: amounts are 1..MaxAmount
  MaxTransfers  \* bound: rows of the table of payments

Account == Customer \cup System
Amount  == 1..MaxAmount

VARIABLE payments  \* the payments, in the order they were made

Payment ==
  [from: Account, to: Account, amount: Amount, refunds: 0..MaxTransfers,
   state: {"reserved", "settled", "void"}]

In(st) == {p \in DOMAIN payments : payments[p].state = st}
Into(a) == {p \in DOMAIN payments : payments[p].to = a}
OutOf(a) == {p \in DOMAIN payments : payments[p].from = a}

(* The amounts of a set of payments, counted minor unit by unit.           *)
Total(P) == Cardinality({u \in P \X Amount : u[2] <= payments[u[1]].amount})

Owns(a)     == Total(In("settled") \cap Into(a)) - Total(In("settled") \cap OutOf(a))
Promised(a) == Total(In("reserved") \cap OutOf(a))

(* System accounts are the outside world, and may go below zero.           *)
CanSpend(a, m) == a \in Customer => Owns(a) - Promised(a) >= m

Init == payments = <<>>

Add(f, t, m, r, st) ==
  /\ Len(payments) < MaxTransfers
  /\ CanSpend(f, m)
  /\ payments' = Append(payments, [from |-> f, to |-> t, amount |-> m,
                                   refunds |-> r, state |-> st])

Pay ==
  \E f, t \in Account, m \in Amount, st \in {"reserved", "settled"} :
    f # t /\ Add(f, t, m, 0, st)

Settle ==
  \E p \in In("reserved") :
    payments' = [payments EXCEPT ![p].state = "settled"]

(* One payment is withdrawn, or several run out of time together.          *)
Withdraw ==
  \E P \in SUBSET In("reserved") :
    payments' = [p \in DOMAIN payments |->
                   IF p \in P THEN [payments[p] EXCEPT !.state = "void"]
                              ELSE payments[p]]

(* A settled payment is refunded at most once, by a payment that settles   *)
(* at once and only from funds that are not promised.                      *)
Refund ==
  \E p \in In("settled") :
    /\ \A q \in DOMAIN payments : payments[q].refunds # p
    /\ Add(payments[p].to, payments[p].from, payments[p].amount, p, "settled")

Next == Pay \/ Settle \/ Withdraw \/ Refund

Spec == Init /\ [][Next]_payments

=============================================================================
