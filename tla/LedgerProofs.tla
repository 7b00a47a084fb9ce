---------------------------- MODULE LedgerProofs ----------------------------
(***************************************************************************)
(* Proofs about Ledger, for any accounts, users, keys, amounts, limits and *)
(* any number of transfers: types, funds and holds; what history keeps; the*)
(* books (statements chain, a transfer has its legs when its status says so*)
(* and is reversed at most once, keys name what they were used for,        *)
(* reconcile() finds nothing); and that Ledger implements Payments.        *)
(***************************************************************************)
EXTENDS Ledger, TLAPS, FiniteSetTheorems, SequenceTheorems

-----------------------------------------------------------------------------
(* The sums.                                                               *)

(* A set of rows of a table of transfers has finitely many minor units.    *)
LEMMA UnitsFinite ==
  ASSUME NEW f, NEW T \in SUBSET (1..MaxTransfers)
  PROVE  IsFiniteSet(Units(T, f)) /\ Weight(T, f) \in Nat
<1>1. IsFiniteSet(1..MaxTransfers) /\ IsFiniteSet(Amount)
  BY FS_Interval, LedgerAssumption DEF Amount
<1>2. IsFiniteSet(T)
  BY <1>1, FS_Subset
<1>3. IsFiniteSet(T \X Amount)
  BY <1>1, <1>2, FS_Product
<1>4. Units(T, f) \in SUBSET (T \X Amount)
  BY DEF Units
<1> QED
  BY <1>3, <1>4, FS_Subset, FS_CardinalityType DEF Weight

(* Only the amounts of the rows count.                                     *)
LEMMA WeightSame ==
  ASSUME NEW f, NEW g, NEW T, \A t \in T : f[t].amount = g[t].amount
  PROVE  Weight(T, f) = Weight(T, g)
<1>1. Units(T, f) = Units(T, g)
  BY DEF Units
<1> QED
  BY <1>1 DEF Weight

(* The sum over two disjoint sets of rows.                                 *)
LEMMA WeightUnion ==
  ASSUME NEW f, NEW T \in SUBSET (1..MaxTransfers), NEW U \in SUBSET (1..MaxTransfers),
         T \cap U = {}
  PROVE  Weight(T \cup U, f) = Weight(T, f) + Weight(U, f)
<1>1. Units(T \cup U, f) = Units(T, f) \cup Units(U, f)
  BY DEF Units
<1>2. Units(T, f) \cap Units(U, f) = {}
  BY DEF Units
<1>3. IsFiniteSet(Units(T, f)) /\ IsFiniteSet(Units(U, f))
  BY UnitsFinite
<1>4. Cardinality(Units(T, f) \cap Units(U, f)) = 0
  BY <1>2, FS_EmptySet
<1>5. Cardinality(Units(T, f) \cup Units(U, f)) =
        Cardinality(Units(T, f)) + Cardinality(Units(U, f)) - 0
  BY <1>3, <1>4, FS_Union
<1>6. Weight(T, f) \in Nat /\ Weight(U, f) \in Nat
  BY UnitsFinite
<1>7. Weight(T \cup U, f) = Cardinality(Units(T, f) \cup Units(U, f))
  BY <1>1, Zenon DEF Weight
<1> QED
  BY <1>5, <1>6, <1>7 DEF Weight

(* The minor units of an amount m, as numbers, are the set 1..m.           *)
LEMMA CountingFromOne ==
  ASSUME NEW n \in Nat
  PROVE  IsFiniteSet(1..n) /\ Cardinality(1..n) = n
<1>1. IsFiniteSet(1..n) /\ Cardinality(1..n) = IF 1 > n THEN 0 ELSE n - 1 + 1
  BY FS_Interval
<1> QED
  BY <1>1

(* The sum over one row is its amount.                                     *)
LEMMA WeightOne ==
  ASSUME NEW f, NEW t, f[t].amount \in Amount
  PROVE  Weight({t}, f) = f[t].amount
<1> DEFINE m == f[t].amount
           b == [unit \in 1..m |-> <<t, unit>>]
<1> HIDE DEF b
<1>1. m \in Nat /\ \A unit \in 1..m : unit \in Amount
  BY LedgerAssumption DEF Amount
<1>2. Units({t}, f) = {<<t, unit>> : unit \in 1..m}
  BY <1>1, LedgerAssumption DEF Units, Amount
<1>3. b \in [1..m -> Units({t}, f)]
  BY <1>2 DEF b
<1>4. \A i, j \in 1..m : b[i] = b[j] => i = j
  BY DEF b
<1>5. \A u \in Units({t}, f) : \E i \in 1..m : b[i] = u
  BY <1>2 DEF b
<1>6. b \in Bijection(1..m, Units({t}, f))
  <2>1. b \in Injection(1..m, Units({t}, f))
    BY <1>3, <1>4, Zenon DEF Injection, IsInjective
  <2>2. b \in Surjection(1..m, Units({t}, f))
    BY <1>3, <1>5, Zenon DEF Surjection
  <2> QED
    BY <2>1, <2>2, Zenon DEF Bijection
<1>7. IsFiniteSet(1..m) /\ Cardinality(1..m) = m
  BY <1>1, CountingFromOne, Zenon
<1>8. ExistsBijection(1..m, Units({t}, f))
  BY <1>6 DEF ExistsBijection
<1> QED
  BY <1>7, <1>8, FS_Bijection DEF Weight

-----------------------------------------------------------------------------
(* Type correctness.                                                       *)

(* The rows of transfers are numbered from 1.                              *)
LEMMA RowType ==
  ASSUME TypeOK, NEW t \in DOMAIN transfers
  PROVE  /\ t \in 1..Len(transfers) /\ t \in 1..MaxTransfers
         /\ transfers[t] \in Transfer
BY LedgerAssumption DEF TypeOK

(* The number of the next row is one that the table may have.              *)
LEMMA NextIdType ==
  ASSUME TypeOK, NextId <= MaxTransfers
  PROVE  NextId \in 1..MaxTransfers /\ NextId \in Nat
BY LedgerAssumption DEF TypeOK, NextId

(* An account's active holds are rows of transfers, finitely many, and     *)
(* their sum is a number.                                                  *)
LEMMA HoldsType ==
  ASSUME TypeOK, NEW a \in Account, NEW T \in SUBSET DOMAIN transfers
  PROVE  AmountOf(T) \in Nat
<1>1. T \in SUBSET (1..MaxTransfers)
  BY RowType
<1> QED
  BY <1>1, UnitsFinite DEF AmountOf

(* Claiming a key keeps the table of keys well typed.                      *)
LEMMA ClaimType ==
  ASSUME TypeOK, NEW k \in Key, NEW h, NEW t,
         [request_hash |-> h, transfer_id |-> t] \in KeyRow, Claim(k, h, t)
  PROVE  idempotency_keys' \in [Key -> KeyRow \cup {Unclaimed}]
BY DEF TypeOK, Claim

(* Writing two legs keeps the balances and the journal well typed.         *)
LEMMA WriteLegsType ==
  ASSUME TypeOK, NEW t \in 1..MaxTransfers, NEW d \in Account, NEW c \in Account,
         NEW m \in Amount, WriteLegs(t, d, c, m)
  PROVE  /\ balance_minor' \in [Account -> Int]
         /\ ledger_entries' \in [Account -> Seq(Entry)]
<1> DEFINE out == [transfer |-> t, signed_amount |-> -m, balance_after |-> balance_minor[d] - m]
           in  == [transfer |-> t, signed_amount |-> m, balance_after |-> balance_minor[c] + m]
<1>1. m \in Int /\ balance_minor[d] \in Int /\ balance_minor[c] \in Int
  BY LedgerAssumption DEF TypeOK, Amount
<1>2. balance_minor' \in [Account -> Int]
  BY <1>1 DEF TypeOK, WriteLegs
<1>3. out \in Entry /\ in \in Entry
  BY <1>1 DEF Entry
<1> HIDE DEF out, in
<1>4. ledger_entries' = [ledger_entries EXCEPT ![d] = Append(@, out), ![c] = Append(@, in)]
  BY DEF WriteLegs, out, in
<1>5. \A e \in Seq(Entry) : Append(e, out) \in Seq(Entry) /\ Append(e, in) \in Seq(Entry)
  BY <1>3, AppendProperties
<1> QED
  BY <1>2, <1>4, <1>5 DEF TypeOK

(* Closing a hold keeps the transfers and the cached holds well typed.     *)
LEMMA CloseHoldType ==
  ASSUME TypeOK, NEW t \in DOMAIN transfers, NEW st \in TransferStatus, NEW h \in HoldStatus,
         CloseHold(t, st, h)
  PROVE  /\ transfers' \in Seq(Transfer) /\ Len(transfers') = Len(transfers)
         /\ DOMAIN transfers' = DOMAIN transfers
         /\ held_minor' \in [Account -> Int]
         /\ lapsed' \subseteq DOMAIN transfers'
<1> DEFINE hold == IF transfers[t].hold = "active" THEN h ELSE transfers[t].hold
           row  == [transfers[t] EXCEPT !.status = st, !.hold = hold]
<1>1. transfers[t] \in Transfer
  BY RowType
<1>2. row \in Transfer
  BY <1>1 DEF Transfer
<1>3. transfers' = [transfers EXCEPT ![t] = row]
  BY <1>1 DEF CloseHold, Transfer
<1> HIDE DEF row
<1>4. /\ transfers' \in Seq(Transfer) /\ Len(transfers') = Len(transfers)
      /\ DOMAIN transfers' = DOMAIN transfers
  BY <1>2, <1>3, ExceptSeq DEF TypeOK
<1>5. transfers[t].debit \in Account /\ transfers[t].amount \in Int
  BY <1>1, LedgerAssumption DEF Transfer, Amount
<1>6. held_minor' \in [Account -> Int]
  BY <1>5 DEF CloseHold, TypeOK
<1> QED
  BY <1>4, <1>6 DEF CloseHold, TypeOK

(* request_transfer, whatever its caller makes of the row, keeps the types. *)
LEMMA AdmitType ==
  ASSUME TypeOK, NEW k \in Key, NEW d \in Account, NEW c \in Account, NEW m \in Amount,
         NEW st \in {"pending", "held", "under_review", "posted"}, Admit(k, d, c, m, st)
  PROVE  TypeOK'
<1> DEFINE row == [debit |-> d, credit |-> c, amount |-> m, reverses |-> 0, status |-> st,
                   hold |-> IF st = "posted" THEN "captured" ELSE "active"]
<1>1. NextId \in 1..MaxTransfers /\ NextId = Len(transfers) + 1 /\ NextId <= MaxTransfers
  BY NextIdType DEF Admit, Record, NextId
<1>2. [request_hash |-> <<d, c, m>>, transfer_id |-> NextId] \in KeyRow
  BY <1>1 DEF KeyRow
<1>3. idempotency_keys' \in [Key -> KeyRow \cup {Unclaimed}]
  BY <1>2, ClaimType DEF Admit, Record
<1>4. row \in Transfer
  <2>1. d # c
    BY DEF Admit, Record, MayRequest
  <2> QED
    BY <2>1, LedgerAssumption DEF Transfer, TransferStatus, HoldStatus
<1>5. transfers' = Append(transfers, row)
  BY DEF Admit, Record
<1> HIDE DEF row
<1>6. /\ transfers' \in Seq(Transfer) /\ Len(transfers') = Len(transfers) + 1
      /\ DOMAIN transfers \subseteq DOMAIN transfers'
  BY <1>4, <1>5, AppendProperties DEF TypeOK
<1>7. /\ balance_minor' \in [Account -> Int] /\ held_minor' \in [Account -> Int]
      /\ ledger_entries' \in [Account -> Seq(Entry)]
  <2>1. CASE st = "posted"
    BY <1>1, <2>1, WriteLegsType DEF Admit, Record, TypeOK
  <2>2. CASE st # "posted"
    BY <2>2, LedgerAssumption DEF Admit, Record, TypeOK, money_vars, Amount
  <2> QED
    BY <2>1, <2>2
<1> QED
  BY <1>1, <1>3, <1>6, <1>7 DEF Admit, Record, TypeOK, account_vars

(* post_transfer keeps the types.                                          *)
LEMMA PostType ==
  ASSUME TypeOK, NEW t, NEW S, post_transfer(t, S)
  PROVE  TypeOK'
<1>1. t \in DOMAIN transfers
  BY DEF post_transfer, Post
<1>2. t \in 1..MaxTransfers /\ transfers[t] \in Transfer
  BY <1>1, RowType
<1>3. balance_minor' \in [Account -> Int] /\ ledger_entries' \in [Account -> Seq(Entry)]
  BY <1>2, WriteLegsType DEF post_transfer, Post, Transfer
<1>4. /\ transfers' \in Seq(Transfer) /\ Len(transfers') = Len(transfers)
      /\ DOMAIN transfers' = DOMAIN transfers
      /\ held_minor' \in [Account -> Int] /\ lapsed' \subseteq DOMAIN transfers'
  BY <1>1, CloseHoldType DEF post_transfer, Post, TransferStatus, HoldStatus
<1> QED
  BY <1>3, <1>4 DEF post_transfer, Post, TypeOK, account_vars

(* cancel_transfer keeps the types.                                        *)
LEMMA CancelType ==
  ASSUME TypeOK, NEW t, cancel_transfer(t)
  PROVE  TypeOK'
<1>1. t \in DOMAIN transfers
  BY DEF cancel_transfer
<1>2. /\ transfers' \in Seq(Transfer) /\ Len(transfers') = Len(transfers)
      /\ DOMAIN transfers' = DOMAIN transfers
      /\ held_minor' \in [Account -> Int] /\ lapsed' \subseteq DOMAIN transfers'
  BY <1>1, CloseHoldType DEF cancel_transfer, TransferStatus, HoldStatus
<1> QED
  BY <1>2 DEF cancel_transfer, TypeOK, account_vars, money_vars

(* A first reversal keeps the types.                                       *)
LEMMA ReverseType ==
  ASSUME TypeOK, NEW n \in KeyName, NEW t, reverse_transfer(n, t)
  PROVE  TypeOK'
<1> DEFINE orig == transfers[t]
           row  == [debit |-> orig.credit, credit |-> orig.debit, amount |-> orig.amount,
                    reverses |-> t, status |-> "posted", hold |-> "none"]
           done == [transfers EXCEPT ![t].status = "reversed"]
<1>1. t \in DOMAIN transfers
  BY DEF reverse_transfer, Clawable, Refund, MayReverse
<1>2. t \in 1..MaxTransfers /\ t \in 1..Len(transfers) /\ orig \in Transfer
  BY <1>1, RowType
<1>3. NextId \in 1..MaxTransfers /\ NextId = Len(transfers) + 1 /\ NextId <= MaxTransfers
  BY NextIdType DEF reverse_transfer, Clawable, Refund, NextId
<1>4. <<Sentinel, n>> \in Key
  BY DEF Key, Caller
<1>5. [request_hash |-> <<t, "reverse">>, transfer_id |-> NextId] \in KeyRow
  BY <1>2, <1>3 DEF KeyRow
<1>6. idempotency_keys' \in [Key -> KeyRow \cup {Unclaimed}]
  BY <1>4, <1>5, ClaimType DEF reverse_transfer, Clawable, Refund
<1>7. row \in Transfer
  BY <1>2, LedgerAssumption DEF Transfer, TransferStatus, HoldStatus
<1>8. [orig EXCEPT !.status = "reversed"] \in Transfer
  BY <1>2 DEF Transfer, TransferStatus
<1>9. done \in Seq(Transfer) /\ Len(done) = Len(transfers)
  BY <1>2, <1>8, ExceptSeq DEF TypeOK
<1>10. transfers' = Append(done, row)
  BY DEF reverse_transfer, Clawable, Refund
<1>11. balance_minor' \in [Account -> Int] /\ ledger_entries' \in [Account -> Seq(Entry)]
  BY <1>2, <1>3, WriteLegsType DEF reverse_transfer, Clawable, Refund, Transfer
<1> HIDE DEF row, done
<1>12. /\ transfers' \in Seq(Transfer) /\ Len(transfers') = Len(transfers) + 1
       /\ DOMAIN transfers \subseteq DOMAIN transfers'
  BY <1>7, <1>9, <1>10, AppendProperties DEF TypeOK
<1> QED
  BY <1>3, <1>6, <1>11, <1>12 DEF reverse_transfer, Clawable, Refund, TypeOK, account_vars

(* A later reversal, which only claims its key, keeps the types.           *)
LEMMA ReverseAgainType ==
  ASSUME TypeOK, NEW n \in KeyName, NEW t, reverse_again(n, t)
  PROVE  TypeOK'
<1>1. t \in 1..MaxTransfers
  BY RowType DEF reverse_again
<1>2. PICK r \in DOMAIN transfers : Claim(<<Sentinel, n>>, <<t, "reverse">>, r)
  BY DEF reverse_again
<1>3. r \in 1..MaxTransfers
  BY RowType
<1>4. <<Sentinel, n>> \in Key
  BY DEF Key, Caller
<1>5. [request_hash |-> <<t, "reverse">>, transfer_id |-> r] \in KeyRow
  BY <1>1, <1>3 DEF KeyRow
<1>6. idempotency_keys' \in [Key -> KeyRow \cup {Unclaimed}]
  BY <1>2, <1>4, <1>5, ClaimType
<1> QED
  BY <1>6 DEF reverse_again, TypeOK, money_vars, account_vars

(* The sweeps keep the types.                                              *)
LEMMA MaintenanceType ==
  ASSUME TypeOK, RunMaintenance
  PROVE  TypeOK'
<1> DEFINE row(t) == IF t \in Overdue
                     THEN [transfers[t] EXCEPT !.hold = "expired",
                                               !.status = SweptStatus(@)]
                     ELSE transfers[t]
<1>1. \A t \in DOMAIN transfers : row(t) \in Transfer
  <2> SUFFICES ASSUME NEW t \in DOMAIN transfers
               PROVE  row(t) \in Transfer
    OBVIOUS
  <2>1. transfers[t] \in Transfer
    BY RowType
  <2>2. SweptStatus(transfers[t].status) \in TransferStatus
    BY <2>1 DEF SweptStatus, Transfer, TransferStatus
  <2> QED
    BY <2>1, <2>2 DEF Transfer, HoldStatus
<1>2. transfers' = [t \in 1..Len(transfers) |-> row(t)]
  <2>1. DOMAIN transfers = 1..Len(transfers)
    BY DEF TypeOK
  <2>2. transfers' = [t \in DOMAIN transfers |-> row(t)]
    BY Zenon DEF RunMaintenance, expire_holds, Expire
  <2> QED
    BY <2>1, <2>2, Zenon
<1> HIDE DEF row
<1>3. /\ transfers' \in Seq(Transfer) /\ Len(transfers') = Len(transfers)
      /\ DOMAIN transfers' = DOMAIN transfers
  BY <1>1, <1>2 DEF TypeOK
<1> DEFINE freed(a) == AmountOf(Overdue \cap ActiveHolds(a))
<1>4. \A a \in Account : freed(a) \in Nat
  BY HoldsType DEF ActiveHolds
<1>5. held_minor' \in [Account -> Int]
  <2>1. held_minor' = [a \in Account |-> held_minor[a] - freed(a)]
    BY Zenon DEF RunMaintenance, expire_holds, Expire
  <2> HIDE DEF freed
  <2>2. \A a \in Account : held_minor[a] - freed(a) \in Int
    BY <1>4 DEF TypeOK
  <2> QED
    BY <2>1, <2>2, Zenon
<1>6. idempotency_keys' \in [Key -> KeyRow \cup {Unclaimed}]
  BY DEF RunMaintenance, cleanup_idempotency_keys, TypeOK
<1> QED
  BY <1>3, <1>5, <1>6 DEF RunMaintenance, expire_holds, Expire, TypeOK, money_vars, account_vars

(* An operator's change of a status or a limit keeps the types.            *)
LEMMA AdministerType ==
  ASSUME TypeOK, NEW a \in Account,
         \/ \E st \in Status : set_account_status(a, st)
         \/ \E l \in Limit : update_transfer_limit(a, l)
  PROVE  TypeOK'
BY DEF TypeOK, set_account_status, update_transfer_limit, money_vars

(* A window that lapses keeps the types.                                   *)
LEMMA LapseType ==
  ASSUME TypeOK, NEW t \in DOMAIN transfers, window_lapses(t)
  PROVE  TypeOK'
BY DEF TypeOK, window_lapses, money_vars, account_vars

(* Every table keeps its column types, whatever functions are called.      *)
LEMMA TypeNext ==
  ASSUME TypeOK, [Next]_vars
  PROVE  TypeOK'
<1>1. CASE Submit
  <2>1. PICK m \in Amount, n \in KeyName :
          \/ \E d, c \in Account : request_transfer(n, d, c, m)
          \/ \E d \in Customer, c \in Account : client_transfer(Owner[d], n, d, c, m)
          \/ \E s \in System, a \in Account : deposit(n, s, a, m)
          \/ \E a \in Account, s \in System : withdraw(n, a, s, m)
    BY <1>1 DEF Submit
  <2>2. /\ <<Sentinel, n>> \in Key
        /\ \A d \in Customer : d \in Account /\ <<Owner[d], n>> \in Key
        /\ System \subseteq Account
    BY LedgerAssumption DEF Key, Caller, Account
  <2>3. CASE \E d, c \in Account : request_transfer(n, d, c, m)
    BY <2>2, <2>3, AdmitType DEF request_transfer
  <2>4. CASE \E d \in Customer, c \in Account : client_transfer(Owner[d], n, d, c, m)
    BY <2>2, <2>4, AdmitType DEF client_transfer
  <2>5. CASE \E s \in System, a \in Account : deposit(n, s, a, m)
    BY <2>2, <2>5, AdmitType DEF deposit
  <2>6. CASE \E a \in Account, s \in System : withdraw(n, a, s, m)
    BY <2>2, <2>6, AdmitType DEF withdraw
  <2> QED
    BY <2>1, <2>3, <2>4, <2>5, <2>6
<1>2. CASE Resolve
  BY <1>2, PostType, CancelType
     DEF Resolve, client_cancel_transfer, client_confirm_transfer
<1>3. CASE Reverse
  BY <1>3, ReverseType, ReverseAgainType DEF Reverse
<1>4. CASE Administer
  BY <1>4, AdministerType DEF Administer
<1>5. CASE RunMaintenance
  BY <1>5, MaintenanceType
<1>6. CASE \E t \in DOMAIN transfers : window_lapses(t)
  BY <1>6, LapseType
<1>7. CASE UNCHANGED vars
  BY <1>7 DEF TypeOK, vars, account_vars
<1> QED
  BY <1>1, <1>2, <1>3, <1>4, <1>5, <1>6, <1>7 DEF Next

(* The empty bank has the column types.                                    *)
LEMMA TypeInit == Init => TypeOK
<1> SUFFICES ASSUME Init PROVE TypeOK
  OBVIOUS
<1>1. transfers \in Seq(Transfer) /\ Len(transfers) = 0 /\ lapsed = {}
  BY EmptySeq DEF Init
<1>2. /\ ledger_entries \in [Account -> Seq(Entry)]
      /\ transfer_limit_minor \in [Account -> Limit]
      /\ balance_minor \in [Account -> Int] /\ held_minor \in [Account -> Int]
  BY EmptySeq DEF Init
<1> QED
  BY <1>1, <1>2, LedgerAssumption DEF Init, TypeOK

(* In every run the tables keep their column types.                        *)
THEOREM TypeCorrect == Spec => []TypeOK
<1>1. TypeOK /\ [Next]_vars => TypeOK'
  BY TypeNext
<1> QED
  BY TypeInit, <1>1, PTL DEF Spec

-----------------------------------------------------------------------------
(* Reserved funds: how a step changes the sum of an account's active holds.*)

(* What an account has reserved is a number.                               *)
LEMMA ReservedType ==
  ASSUME TypeOK, NEW a
  PROVE  Reserved(a) \in Nat /\ ActiveHolds(a) \in SUBSET (1..MaxTransfers)
<1>1. ActiveHolds(a) \in SUBSET (1..MaxTransfers)
  BY RowType DEF ActiveHolds
<1> QED
  BY <1>1, UnitsFinite DEF Reserved, AmountOf

(* An account whose active holds stay the same reserves the same.          *)
LEMMA ReservedSame ==
  ASSUME NEW a, ActiveHolds(a)' = ActiveHolds(a),
         \A t \in ActiveHolds(a) : transfers'[t].amount = transfers[t].amount
  PROVE  Reserved(a)' = Reserved(a)
<1>1. Weight(ActiveHolds(a), transfers') = Weight(ActiveHolds(a), transfers)
  BY WeightSame
<1>2. Reserved(a)' = Weight(ActiveHolds(a)', transfers')
  BY DEF Reserved, AmountOf, Weight, Units
<1> QED
  BY <1>1, <1>2 DEF Reserved, AmountOf

(* A new active hold adds its amount to what its account reserves.         *)
LEMMA ReservedMore ==
  ASSUME TypeOK, NEW a, NEW n \in 1..MaxTransfers, n \notin ActiveHolds(a),
         transfers'[n].amount \in Amount,
         ActiveHolds(a)' = ActiveHolds(a) \cup {n},
         \A t \in ActiveHolds(a) : transfers'[t].amount = transfers[t].amount
  PROVE  Reserved(a)' = Reserved(a) + transfers'[n].amount
<1>1. {n} \in SUBSET (1..MaxTransfers) /\ {n} \cap ActiveHolds(a) = {}
  OBVIOUS
<1>2. ActiveHolds(a) \in SUBSET (1..MaxTransfers)
  BY ReservedType
<1>3. Weight(ActiveHolds(a), transfers') = Weight(ActiveHolds(a), transfers)
  BY WeightSame
<1>4. Weight({n}, transfers') = transfers'[n].amount
  BY WeightOne
<1>5. Weight(ActiveHolds(a) \cup {n}, transfers') =
        Weight(ActiveHolds(a), transfers') + Weight({n}, transfers')
  BY <1>1, <1>2, WeightUnion
<1>6. Reserved(a)' = Weight(ActiveHolds(a)', transfers')
  BY DEF Reserved, AmountOf, Weight, Units
<1> QED
  BY <1>3, <1>4, <1>5, <1>6 DEF Reserved, AmountOf

(* A hold that is no longer active frees its amount.                       *)
LEMMA ReservedLess ==
  ASSUME TypeOK, NEW a, NEW U \in SUBSET ActiveHolds(a),
         ActiveHolds(a)' = ActiveHolds(a) \ U,
         \A t \in ActiveHolds(a) : transfers'[t].amount = transfers[t].amount
  PROVE  Reserved(a)' = Reserved(a) - AmountOf(U)
<1> DEFINE rest == ActiveHolds(a) \ U
<1>1. rest \in SUBSET (1..MaxTransfers) /\ U \in SUBSET (1..MaxTransfers)
  BY ReservedType
<1>2. rest \cap U = {} /\ ActiveHolds(a) = rest \cup U
  OBVIOUS
<1>3. Weight(rest, transfers') = Weight(rest, transfers)
  BY WeightSame
<1>4. Reserved(a)' = Weight(rest, transfers')
  BY DEF Reserved, AmountOf, Weight, Units
<1> HIDE DEF rest
<1>5. Weight(rest \cup U, transfers) = Weight(rest, transfers) + Weight(U, transfers)
  BY <1>1, <1>2, WeightUnion
<1>6. Weight(rest, transfers) \in Nat /\ Weight(U, transfers) \in Nat
  BY <1>1, UnitsFinite
<1>7. Reserved(a) = Weight(rest \cup U, transfers)
  BY <1>2, Zenon DEF Reserved, AmountOf
<1> QED
  BY <1>3, <1>4, <1>5, <1>6, <1>7 DEF AmountOf

-----------------------------------------------------------------------------
(* The inductive invariant: the life cycle decides which holds are active, *)
(* the cache held_minor adds them up, and nobody has promised more than    *)
(* they own.  The clawback check reads the cache, so Solvent needs it, and *)
(* posting takes from the balance what its hold had reserved, so it needs  *)
(* the hold to be there.                                                   *)
HeldCached == held_drift = {}

FundsInv == TypeOK /\ HoldMatchesStatus /\ HeldCached /\ Solvent

(* The part of HoldMatchesStatus about one row.                            *)
RowCoherent(row, late) ==
  /\ row.hold = "active" <=> row.status \in Awaiting
  /\ row.hold = "none" <=> row.reverses # 0
  /\ row.hold = "captured" <=> row.status \in Settled /\ row.reverses = 0
  /\ row.status = "failed" => row.hold = "expired"
  /\ late => row.hold = "active"

(* HoldMatchesStatus speaks of one row at a time, before and after a step. *)
LEMMA HoldsByRow ==
  /\ HoldMatchesStatus <=>
       \A t \in DOMAIN transfers : RowCoherent(transfers[t], t \in lapsed)
  /\ HoldMatchesStatus' <=>
       \A t \in DOMAIN transfers' : RowCoherent(transfers'[t], t \in lapsed')
BY DEF HoldMatchesStatus, RowCoherent

(* So does HeldCached of one account.                                      *)
LEMMA HeldByAccount ==
  /\ HeldCached  <=> \A a \in Account : held_minor[a] = Reserved(a)
  /\ HeldCached' <=> \A a \in Account : held_minor'[a] = Reserved(a)'
BY DEF HeldCached, held_drift

(* The empty bank satisfies the inductive invariant.                       *)
LEMMA FundsInit == Init => FundsInv
<1> SUFFICES ASSUME Init PROVE FundsInv
  OBVIOUS
<1>1. TypeOK
  BY TypeInit
<1>2. DOMAIN transfers = {}
  BY DEF Init
<1>3. \A a : Reserved(a) = 0
  <2> TAKE a
  <2>1. Units(ActiveHolds(a), transfers) = {}
    BY <1>2 DEF ActiveHolds, Units
  <2> QED
    BY <2>1, FS_EmptySet DEF Reserved, AmountOf, Weight
<1>4. HoldMatchesStatus
  BY <1>2 DEF HoldMatchesStatus
<1>5. HeldCached
  BY <1>3, HeldByAccount DEF Init
<1>6. Solvent
  BY <1>3 DEF Solvent, Init, Account
<1> QED
  BY <1>1, <1>4, <1>5, <1>6 DEF FundsInv

(* What the two legs of a transfer do to the balance of any account.       *)
LEMMA LegsMoveMoney ==
  ASSUME NEW b \in [Account -> Int], NEW d \in Account, NEW c \in Account, d # c,
         NEW m \in Int, NEW a \in Account
  PROVE  [b EXCEPT ![d] = @ - m, ![c] = @ + m][a] =
           b[a] + (IF a = c THEN m ELSE 0) - (IF a = d THEN m ELSE 0)
OBVIOUS

(* No call can pay out of an account more than what it has not reserved.   *)
LEMMA AdmitFunds ==
  ASSUME FundsInv, NEW k \in Key, NEW d \in Account, NEW c \in Account, NEW m \in Amount,
         NEW st \in {"pending", "held", "under_review", "posted"}, Admit(k, d, c, m, st)
  PROVE  HoldMatchesStatus' /\ HeldCached' /\ Solvent'
<1> DEFINE row == [debit |-> d, credit |-> c, amount |-> m, reverses |-> 0, status |-> st,
                   hold |-> IF st = "posted" THEN "captured" ELSE "active"]
<1>1. /\ TypeOK /\ d # c /\ NextId \in 1..MaxTransfers
      /\ d \in Customer => m <= balance_minor[d] - Reserved(d)
  BY NextIdType DEF FundsInv, Admit, Record, MayRequest, Available
<1>2. /\ DOMAIN transfers' = DOMAIN transfers \cup {NextId} /\ NextId \notin DOMAIN transfers
      /\ \A t \in DOMAIN transfers : transfers'[t] = transfers[t]
      /\ transfers'[NextId] = row
  <2>1. transfers' = Append(transfers, row)
    BY DEF Admit, Record
  <2>2. transfers \in Seq(Transfer) /\ DOMAIN transfers = 1..Len(transfers)
    BY <1>1 DEF TypeOK
  <2> HIDE DEF row
  <2> QED
    BY <2>1, <2>2 DEF NextId
<1>3. HoldMatchesStatus'
  <2>1. lapsed' = lapsed /\ lapsed \subseteq DOMAIN transfers
    BY <1>1 DEF Admit, Record, TypeOK
  <2>2. RowCoherent(row, FALSE)
    BY DEF RowCoherent, Awaiting, Settled
  <2> HIDE DEF row
  <2>3. \A t \in DOMAIN transfers : RowCoherent(transfers[t], t \in lapsed)
    BY HoldsByRow DEF FundsInv
  <2>4. ASSUME NEW t \in DOMAIN transfers'
        PROVE  RowCoherent(transfers'[t], t \in lapsed')
    <3>1. CASE t \in DOMAIN transfers
      BY <1>2, <2>1, <2>3, <3>1
    <3>2. CASE t = NextId
      <4>1. (t \in lapsed') = FALSE
        BY <1>2, <2>1, <3>2
      <4> QED
        BY <1>2, <2>2, <3>2, <4>1
    <3> QED
      BY <1>2, <3>1, <3>2
  <2> QED
    BY <2>4, HoldsByRow
<1>4. ASSUME NEW a \in Account
      PROVE  Reserved(a)' = Reserved(a) + IF st # "posted" /\ a = d THEN m ELSE 0
  <2>1. \A t \in ActiveHolds(a) : transfers'[t].amount = transfers[t].amount
    BY <1>2 DEF ActiveHolds
  <2>2. Reserved(a) \in Nat /\ m \in Nat
    BY <1>1, ReservedType, LedgerAssumption DEF Amount
  <2>3. CASE st # "posted" /\ a = d
    <3>1. ActiveHolds(a)' = ActiveHolds(a) \cup {NextId} /\ NextId \notin ActiveHolds(a)
      BY <1>2, <2>3 DEF ActiveHolds
    <3>2. transfers'[NextId].amount = m
      BY <1>2
    <3> QED
      BY <1>1, <2>1, <2>3, <3>1, <3>2, ReservedMore
  <2>4. CASE ~(st # "posted" /\ a = d)
    <3>1. ActiveHolds(a)' = ActiveHolds(a)
      BY <1>2, <2>4 DEF ActiveHolds
    <3>2. Reserved(a)' = Reserved(a)
      BY <2>1, <3>1, ReservedSame
    <3> QED
      BY <2>2, <2>4, <3>2
  <2> QED
    BY <2>3, <2>4
<1>5. HeldCached'
  <2>1. \A a \in Account : held_minor[a] = Reserved(a)
    BY HeldByAccount DEF FundsInv
  <2>2. held_minor \in [Account -> Int] /\ m \in Int
    BY <1>1, LedgerAssumption DEF TypeOK, Amount
  <2>3. held_minor' = IF st = "posted" THEN held_minor
                      ELSE [held_minor EXCEPT ![d] = @ + m]
    BY DEF Admit, Record
  <2>4. ASSUME NEW a \in Account
        PROVE  held_minor'[a] = held_minor[a] + IF st # "posted" /\ a = d THEN m ELSE 0
    BY <2>2, <2>3
  <2> QED
    BY <1>4, <2>1, <2>4, HeldByAccount
<1>6. Solvent'
  <2>1. ASSUME NEW a \in Customer
        PROVE  Reserved(a)' <= balance_minor'[a]
    <3>1. /\ a \in Account /\ Reserved(a) <= balance_minor[a] /\ m \in Nat
          /\ balance_minor[a] \in Int /\ Reserved(a) \in Nat
      BY <1>1, ReservedType, LedgerAssumption DEF FundsInv, Solvent, TypeOK, Account, Amount
    <3>2. Reserved(a)' = Reserved(a) + IF st # "posted" /\ a = d THEN m ELSE 0
      BY <1>4, <3>1
    <3>3. CASE st = "posted"
      <4>1. balance_minor'[a] = balance_minor[a] + (IF a = c THEN m ELSE 0)
                                                 - (IF a = d THEN m ELSE 0)
        <5>1. balance_minor' = [balance_minor EXCEPT ![d] = @ - m, ![c] = @ + m]
          BY <3>3 DEF Admit, Record, WriteLegs
        <5>2. balance_minor \in [Account -> Int] /\ m \in Int
          BY <1>1, <3>1 DEF TypeOK
        <5> QED
          BY <1>1, <3>1, <5>1, <5>2, LegsMoveMoney
      <4> QED
        BY <1>1, <3>1, <3>2, <3>3, <4>1
    <3>4. CASE st # "posted"
      <4>1. balance_minor'[a] = balance_minor[a]
        BY <3>4 DEF Admit, Record, money_vars
      <4> QED
        BY <1>1, <3>1, <3>2, <3>4, <4>1
    <3> QED
      BY <3>3, <3>4
  <2> QED
    BY <2>1 DEF Solvent
<1> QED
  BY <1>3, <1>5, <1>6

(* A waiting transfer settles or is canceled: its funds are freed.         *)
LEMMA CloseFunds ==
  ASSUME FundsInv, NEW t \in DOMAIN transfers, transfers[t].status \in Awaiting,
         NEW st, NEW h, \/ st = "posted" /\ h = "captured"
                        \/ st = "canceled" /\ h = "released",
         CloseHold(t, st, h)
  PROVE  /\ HoldMatchesStatus' /\ HeldCached'
         /\ \A a \in Account :
              Reserved(a)' = Reserved(a) - IF a = transfers[t].debit
                                           THEN transfers[t].amount ELSE 0
<1> DEFINE row == [transfers[t] EXCEPT !.status = st, !.hold = h]
<1>1. TypeOK /\ transfers[t] \in Transfer /\ t \in 1..MaxTransfers
  BY RowType DEF FundsInv
<1>2. \A s \in DOMAIN transfers : RowCoherent(transfers[s], s \in lapsed)
  BY HoldsByRow DEF FundsInv
<1>3. transfers[t].hold = "active" /\ transfers[t].reverses = 0
  BY <1>2 DEF RowCoherent, Awaiting, Settled
<1>4. /\ DOMAIN transfers' = DOMAIN transfers
      /\ \A s \in DOMAIN transfers : transfers'[s] = IF s = t THEN row ELSE transfers[s]
  <2>1. transfers' = [transfers EXCEPT ![t] = row]
    BY <1>1, <1>3 DEF CloseHold, Transfer
  <2>2. transfers \in Seq(Transfer)
    BY <1>1 DEF TypeOK
  <2> HIDE DEF row
  <2> QED
    BY <2>1, <2>2
<1>5. /\ row.hold = h /\ row.status = st /\ row.debit = transfers[t].debit
      /\ row.amount = transfers[t].amount /\ row.reverses = 0
  BY <1>1, <1>3 DEF Transfer
<1> HIDE DEF row
<1>6. HoldMatchesStatus'
  <2>1. ASSUME NEW s \in DOMAIN transfers'
        PROVE  RowCoherent(transfers'[s], s \in lapsed')
    <3>1. (s \in lapsed') = (s \in lapsed /\ s # t)
      BY DEF CloseHold
    <3>2. CASE s = t
      <4>1. RowCoherent(row, FALSE)
        BY <1>5 DEF RowCoherent, Awaiting, Settled
      <4>2. (s \in lapsed') = FALSE
        BY <3>1, <3>2
      <4> QED
        BY <1>4, <3>2, <4>1, <4>2
    <3>3. CASE s # t
      <4>1. (s \in lapsed') = (s \in lapsed)
        BY <3>1, <3>3
      <4> QED
        BY <1>2, <1>4, <3>3, <4>1
    <3> QED
      BY <3>2, <3>3
  <2> QED
    BY <2>1, HoldsByRow
<1>7. ASSUME NEW a \in Account
      PROVE  Reserved(a)' = Reserved(a) - IF a = transfers[t].debit
                                          THEN transfers[t].amount ELSE 0
  <2>1. \A s \in ActiveHolds(a) : transfers'[s].amount = transfers[s].amount
    BY <1>4, <1>5 DEF ActiveHolds
  <2>2. Reserved(a) \in Nat
    BY <1>1, ReservedType
  <2>3. CASE a = transfers[t].debit
    <3>1. {t} \in SUBSET ActiveHolds(a) /\ ActiveHolds(a)' = ActiveHolds(a) \ {t}
      BY <1>3, <1>4, <1>5, <2>3 DEF ActiveHolds
    <3>2. AmountOf({t}) = transfers[t].amount
      BY <1>1, WeightOne DEF AmountOf, Transfer
    <3>3. Reserved(a)' = Reserved(a) - AmountOf({t})
      BY <1>1, <2>1, <3>1, ReservedLess
    <3> QED
      BY <2>3, <3>2, <3>3
  <2>4. CASE a # transfers[t].debit
    <3>1. ActiveHolds(a)' = ActiveHolds(a)
      BY <1>4, <1>5, <2>4 DEF ActiveHolds
    <3>2. Reserved(a)' = Reserved(a)
      BY <2>1, <3>1, ReservedSame
    <3> QED
      BY <2>2, <2>4, <3>2
  <2> QED
    BY <2>3, <2>4
<1>8. HeldCached'
  <2>1. \A a \in Account : held_minor[a] = Reserved(a)
    BY HeldByAccount DEF FundsInv
  <2>2. held_minor \in [Account -> Int] /\ transfers[t].amount \in Int
    BY <1>1, LedgerAssumption DEF TypeOK, Transfer, Amount
  <2>3. held_minor' = [held_minor EXCEPT ![transfers[t].debit] = @ - transfers[t].amount]
    BY <1>3 DEF CloseHold
  <2>4. ASSUME NEW a \in Account
        PROVE  held_minor'[a] = held_minor[a] - IF a = transfers[t].debit
                                                THEN transfers[t].amount ELSE 0
    BY <2>2, <2>3
  <2> QED
    BY <1>7, <2>1, <2>4, HeldByAccount
<1> QED
  BY <1>6, <1>7, <1>8

(* Canceling frees funds and moves none.                                   *)
LEMMA CancelFunds ==
  ASSUME FundsInv, NEW t, cancel_transfer(t)
  PROVE  HoldMatchesStatus' /\ HeldCached' /\ Solvent'
<1>1. t \in DOMAIN transfers /\ transfers[t].status \in Awaiting
  BY DEF cancel_transfer
<1>2. /\ HoldMatchesStatus' /\ HeldCached'
      /\ \A a \in Account :
           Reserved(a)' = Reserved(a) - IF a = transfers[t].debit
                                        THEN transfers[t].amount ELSE 0
  BY <1>1, CloseFunds DEF cancel_transfer
<1>3. Solvent'
  <2>1. ASSUME NEW a \in Customer
        PROVE  Reserved(a)' <= balance_minor'[a]
    <3>1. /\ a \in Account /\ Reserved(a) <= balance_minor[a] /\ Reserved(a) \in Nat
          /\ balance_minor[a] \in Int /\ balance_minor'[a] = balance_minor[a]
      BY ReservedType DEF FundsInv, Solvent, TypeOK, Account, cancel_transfer, money_vars
    <3>2. transfers[t].amount \in Nat
      BY <1>1, RowType, LedgerAssumption DEF FundsInv, Transfer, Amount
    <3>3. Reserved(a)' = Reserved(a) - IF a = transfers[t].debit
                                       THEN transfers[t].amount ELSE 0
      BY <1>2, <3>1
    <3> QED
      BY <3>1, <3>2, <3>3
  <2> QED
    BY <2>1 DEF Solvent
<1> QED
  BY <1>2, <1>3

(* Posting takes from the balance what its hold had reserved.              *)
LEMMA PostFunds ==
  ASSUME FundsInv, NEW t, NEW S \in SUBSET Awaiting, post_transfer(t, S)
  PROVE  HoldMatchesStatus' /\ HeldCached' /\ Solvent'
<1> DEFINE row == transfers[t]
<1>1. t \in DOMAIN transfers /\ row.status \in Awaiting
  BY DEF post_transfer, Post
<1>2. TypeOK /\ row \in Transfer
  BY <1>1, RowType DEF FundsInv
<1>3. /\ HoldMatchesStatus' /\ HeldCached'
      /\ \A a \in Account :
           Reserved(a)' = Reserved(a) - IF a = row.debit THEN row.amount ELSE 0
  BY <1>1, CloseFunds DEF post_transfer, Post
<1>4. /\ row.debit \in Account /\ row.credit \in Account /\ row.debit # row.credit
      /\ row.amount \in Nat
  BY <1>2, LedgerAssumption DEF Transfer, Amount
<1>5. balance_minor' = [balance_minor EXCEPT ![row.debit] = @ - row.amount,
                                             ![row.credit] = @ + row.amount]
  BY DEF post_transfer, Post, WriteLegs
<1>6. Solvent'
  <2>1. ASSUME NEW a \in Customer
        PROVE  Reserved(a)' <= balance_minor'[a]
    <3> HIDE DEF row
    <3>1. /\ a \in Account /\ Reserved(a) <= balance_minor[a] /\ Reserved(a) \in Nat
          /\ balance_minor \in [Account -> Int]
      BY <1>2, ReservedType DEF FundsInv, Solvent, TypeOK, Account
    <3>2. balance_minor'[a] = balance_minor[a]
                              + (IF a = row.credit THEN row.amount ELSE 0)
                              - (IF a = row.debit THEN row.amount ELSE 0)
      BY <1>4, <1>5, <3>1, LegsMoveMoney
    <3>3. Reserved(a)' = Reserved(a) - IF a = row.debit THEN row.amount ELSE 0
      BY <1>3, <3>1
    <3>4. balance_minor[a] \in Int
      BY <3>1
    <3> QED
      BY <1>4, <3>1, <3>2, <3>3, <3>4
  <2> QED
    BY <2>1 DEF Solvent
<1> QED
  BY <1>3, <1>6

(* A clawback takes only what the recipient has not reserved: this is the  *)
(* step that needs the cache held_minor to be right.                       *)
LEMMA ReverseFunds ==
  ASSUME FundsInv, NEW n \in KeyName, NEW t, reverse_transfer(n, t)
  PROVE  HoldMatchesStatus' /\ HeldCached' /\ Solvent'
<1> DEFINE orig == transfers[t]
           row  == [debit |-> orig.credit, credit |-> orig.debit, amount |-> orig.amount,
                    reverses |-> t, status |-> "posted", hold |-> "none"]
           old  == [orig EXCEPT !.status = "reversed"]
           done == [transfers EXCEPT ![t] = old]
<1>1. TypeOK /\ t \in DOMAIN transfers /\ orig.status = "posted"
  BY DEF FundsInv, reverse_transfer, Clawable, Refund, MayReverse
<1>2. orig \in Transfer /\ t \in 1..MaxTransfers
  BY <1>1, RowType
<1>3. /\ DOMAIN transfers' = DOMAIN transfers \cup {NextId} /\ NextId \notin DOMAIN transfers
      /\ \A s \in DOMAIN transfers : transfers'[s] = IF s = t THEN old ELSE transfers[s]
      /\ transfers'[NextId] = row
  <2>1. transfers' = Append(done, row)
    BY <1>1 DEF reverse_transfer, Clawable, Refund
  <2>2. transfers \in Seq(Transfer) /\ DOMAIN transfers = 1..Len(transfers)
    BY <1>1 DEF TypeOK
  <2>3. old \in Transfer /\ t \in 1..Len(transfers)
    BY <1>1, <1>2, <2>2 DEF Transfer, TransferStatus
  <2> HIDE DEF row, old
  <2>4. done \in Seq(Transfer) /\ Len(done) = Len(transfers)
    BY <2>2, <2>3, ExceptSeq
  <2>5. \A s \in DOMAIN transfers : done[s] = IF s = t THEN old ELSE transfers[s]
    BY <2>2
  <2> HIDE DEF done
  <2> QED
    BY <2>1, <2>2, <2>4, <2>5 DEF NextId
<1>4. /\ old.hold = orig.hold /\ old.status = "reversed" /\ old.reverses = orig.reverses
      /\ old.amount = orig.amount /\ old.debit = orig.debit
      /\ row.hold = "none" /\ row.status = "posted" /\ row.reverses = t
  BY <1>2 DEF Transfer
<1> HIDE DEF row, old
<1>5. \A s \in DOMAIN transfers : RowCoherent(transfers[s], s \in lapsed)
  BY HoldsByRow DEF FundsInv
<1>6. HoldMatchesStatus'
  <2>1. lapsed' = lapsed /\ lapsed \subseteq DOMAIN transfers
    BY <1>1 DEF reverse_transfer, Clawable, Refund, TypeOK
  <2>2. RowCoherent(row, FALSE)
    BY <1>2, <1>4 DEF RowCoherent, Awaiting, Settled
  <2>3. RowCoherent(old, t \in lapsed)
    BY <1>1, <1>4, <1>5 DEF RowCoherent, Awaiting, Settled
  <2>4. ASSUME NEW s \in DOMAIN transfers'
        PROVE  RowCoherent(transfers'[s], s \in lapsed')
    <3>1. CASE s \in DOMAIN transfers
      BY <1>3, <1>5, <2>1, <2>3, <3>1
    <3>2. CASE s = NextId
      <4>1. (s \in lapsed') = FALSE
        BY <1>3, <2>1, <3>2
      <4> QED
        BY <1>3, <2>2, <3>2, <4>1
    <3> QED
      BY <1>3, <3>1, <3>2
  <2> QED
    BY <2>4, HoldsByRow
<1>7. ASSUME NEW a \in Account
      PROVE  Reserved(a)' = Reserved(a)
  <2>1. \A s \in ActiveHolds(a) : transfers'[s].amount = transfers[s].amount
    BY <1>3, <1>4 DEF ActiveHolds
  <2>2. ActiveHolds(a)' = ActiveHolds(a)
    BY <1>3, <1>4 DEF ActiveHolds
  <2> QED
    BY <2>1, <2>2, ReservedSame
<1>8. \A a \in Account : held_minor[a] = Reserved(a)
  BY HeldByAccount DEF FundsInv
<1>9. HeldCached'
  <2>1. held_minor' = held_minor
    BY DEF reverse_transfer, Clawable, Refund
  <2> QED
    BY <1>7, <1>8, <2>1, HeldByAccount
<1>10. Solvent'
  <2>1. /\ orig.debit \in Account /\ orig.credit \in Account /\ orig.debit # orig.credit
        /\ orig.amount \in Nat
        /\ orig.credit \in Customer =>
             balance_minor[orig.credit] - held_minor[orig.credit] >= orig.amount
    BY <1>2, LedgerAssumption DEF Transfer, Amount, reverse_transfer, Clawable, Refund, Reclaimable
  <2>2. balance_minor' = [balance_minor EXCEPT ![orig.credit] = @ - orig.amount,
                                               ![orig.debit] = @ + orig.amount]
    BY DEF reverse_transfer, Clawable, Refund, WriteLegs
  <2> HIDE DEF orig
  <2>3. ASSUME NEW a \in Customer
        PROVE  Reserved(a)' <= balance_minor'[a]
    <3>1. /\ a \in Account /\ Reserved(a) <= balance_minor[a] /\ Reserved(a) \in Nat
          /\ balance_minor \in [Account -> Int]
      BY <1>1, ReservedType DEF FundsInv, Solvent, TypeOK, Account
    <3>2. balance_minor'[a] = balance_minor[a]
                              + (IF a = orig.debit THEN orig.amount ELSE 0)
                              - (IF a = orig.credit THEN orig.amount ELSE 0)
      BY <2>1, <2>2, <3>1, LegsMoveMoney
    <3>3. Reserved(a)' = Reserved(a) /\ held_minor[a] = Reserved(a)
      BY <1>7, <1>8, <3>1
    <3>4. balance_minor[a] \in Int
      BY <3>1
    <3> QED
      BY <2>1, <3>1, <3>2, <3>3, <3>4
  <2> QED
    BY <2>3 DEF Solvent
<1> QED
  BY <1>6, <1>9, <1>10

(* A step that leaves transfers, lapsed windows, balances and the cache    *)
(* alone.                                                                  *)
LEMMA QuietFunds ==
  ASSUME FundsInv, UNCHANGED <<transfers, lapsed, balance_minor, held_minor>>
  PROVE  HoldMatchesStatus' /\ HeldCached' /\ Solvent'
<1>1. \A a : ActiveHolds(a)' = ActiveHolds(a)
  BY DEF ActiveHolds
<1>2. \A a : Reserved(a)' = Reserved(a)
  BY <1>1, ReservedSame
<1>3. HoldMatchesStatus'
  BY DEF FundsInv, HoldMatchesStatus
<1>4. HeldCached'
  BY <1>2, HeldByAccount DEF FundsInv
<1>5. Solvent'
  BY <1>2 DEF FundsInv, Solvent
<1> QED
  BY <1>3, <1>4, <1>5

(* The sweep frees exactly the holds that it expires.                      *)
LEMMA MaintenanceFunds ==
  ASSUME FundsInv, RunMaintenance
  PROVE  HoldMatchesStatus' /\ HeldCached' /\ Solvent'
<1> DEFINE swept(t) == [transfers[t] EXCEPT !.hold = "expired", !.status = SweptStatus(@)]
<1>1. TypeOK /\ lapsed \subseteq DOMAIN transfers /\ lapsed' = {}
  BY DEF FundsInv, TypeOK, RunMaintenance, expire_holds, Expire, Overdue
<1>2. /\ DOMAIN transfers' = DOMAIN transfers
      /\ \A t \in DOMAIN transfers :
           transfers'[t] = IF t \in lapsed THEN swept(t) ELSE transfers[t]
  <2>1. transfers' = [t \in DOMAIN transfers |->
                        IF t \in lapsed THEN swept(t) ELSE transfers[t]]
    BY Zenon DEF RunMaintenance, expire_holds, Expire, Overdue
  <2> HIDE DEF swept
  <2> QED
    BY <2>1
<1>3. \A t \in DOMAIN transfers : RowCoherent(transfers[t], t \in lapsed)
  BY HoldsByRow DEF FundsInv
<1>4. \A t \in lapsed :
        /\ transfers[t].hold = "active"
        /\ swept(t).hold = "expired" /\ swept(t).amount = transfers[t].amount
        /\ RowCoherent(swept(t), FALSE)
  <2> TAKE t \in lapsed
  <2>1. transfers[t] \in Transfer
    BY <1>1, RowType
  <2>2. transfers[t].hold = "active" /\ transfers[t].status \in Awaiting
        /\ transfers[t].reverses = 0
    BY <1>1, <1>3 DEF RowCoherent, Awaiting, Settled
  <2>3. swept(t).status \in {"failed", "canceled"}
    BY <2>1, <2>2 DEF SweptStatus, Awaiting, Transfer
  <2>4. /\ swept(t).hold = "expired" /\ swept(t).reverses = 0
        /\ swept(t).amount = transfers[t].amount
    BY <2>1, <2>2 DEF Transfer
  <2> HIDE DEF swept
  <2> QED
    BY <2>2, <2>3, <2>4 DEF RowCoherent, Awaiting, Settled
<1> HIDE DEF swept
<1>5. HoldMatchesStatus'
  <2>1. ASSUME NEW t \in DOMAIN transfers'
        PROVE  RowCoherent(transfers'[t], t \in lapsed')
    <3>1. (t \in lapsed') = FALSE
      BY <1>1
    <3>2. CASE t \in lapsed
      BY <1>2, <1>4, <3>1, <3>2
    <3>3. CASE t \notin lapsed
      <4>1. (t \in lapsed) = FALSE
        BY <3>3
      <4> QED
        BY <1>2, <1>3, <3>1, <3>3, <4>1
    <3> QED
      BY <3>2, <3>3
  <2> QED
    BY <2>1, HoldsByRow
<1>6. ASSUME NEW a \in Account
      PROVE  Reserved(a)' = Reserved(a) - AmountOf(lapsed \cap ActiveHolds(a))
  <2>1. \A t \in ActiveHolds(a) : transfers'[t].amount = transfers[t].amount
    BY <1>2, <1>4 DEF ActiveHolds
  <2>2. ActiveHolds(a)' = ActiveHolds(a) \ (lapsed \cap ActiveHolds(a))
    <3>1. ASSUME NEW t
          PROVE  t \in ActiveHolds(a)' <=> t \in ActiveHolds(a) /\ t \notin lapsed
      <4>1. CASE t \in lapsed
        BY <1>1, <1>2, <1>4, <4>1 DEF ActiveHolds
      <4>2. CASE t \notin lapsed
        BY <1>2, <4>2 DEF ActiveHolds
      <4> QED
        BY <4>1, <4>2
    <3> QED
      BY <3>1
  <2>3. lapsed \cap ActiveHolds(a) \in SUBSET ActiveHolds(a)
    OBVIOUS
  <2> QED
    BY <1>1, <2>1, <2>2, <2>3, ReservedLess
<1>7. HeldCached'
  <2>1. \A a \in Account : held_minor[a] = Reserved(a)
    BY HeldByAccount DEF FundsInv
  <2>2. \A a \in Account : held_minor'[a] = held_minor[a] - AmountOf(lapsed \cap ActiveHolds(a))
    BY Zenon DEF RunMaintenance, expire_holds, Expire, Overdue
  <2> QED
    BY <1>6, <2>1, <2>2, HeldByAccount
<1>8. Solvent'
  <2>1. ASSUME NEW a \in Customer
        PROVE  Reserved(a)' <= balance_minor'[a]
    <3>1. /\ a \in Account /\ Reserved(a) <= balance_minor[a] /\ Reserved(a) \in Nat
          /\ balance_minor[a] \in Int /\ balance_minor'[a] = balance_minor[a]
      BY <1>1, ReservedType DEF FundsInv, Solvent, TypeOK, Account, RunMaintenance, money_vars
    <3>2. AmountOf(lapsed \cap ActiveHolds(a)) \in Nat
      BY <1>1, <3>1, HoldsType
    <3>3. Reserved(a)' = Reserved(a) - AmountOf(lapsed \cap ActiveHolds(a))
      BY <1>6, <3>1
    <3> QED
      BY <3>1, <3>2, <3>3
  <2> QED
    BY <2>1 DEF Solvent
<1> QED
  BY <1>5, <1>7, <1>8

(* A window that lapses marks an active hold and changes nothing else.     *)
LEMMA LapseFunds ==
  ASSUME FundsInv, NEW t \in DOMAIN transfers, window_lapses(t)
  PROVE  HoldMatchesStatus' /\ HeldCached' /\ Solvent'
<1>1. UNCHANGED <<transfers, balance_minor, held_minor>>
  BY DEF window_lapses, money_vars
<1>2. \A a : ActiveHolds(a)' = ActiveHolds(a)
  BY <1>1 DEF ActiveHolds
<1>3. \A a : Reserved(a)' = Reserved(a)
  BY <1>1, <1>2, ReservedSame
<1>4. HoldMatchesStatus'
  BY <1>1 DEF FundsInv, HoldMatchesStatus, window_lapses
<1>5. HeldCached'
  BY <1>1, <1>3, HeldByAccount DEF FundsInv
<1>6. Solvent'
  BY <1>1, <1>3 DEF FundsInv, Solvent
<1> QED
  BY <1>4, <1>5, <1>6

(* Every function preserves the inductive invariant.                       *)
LEMMA FundsNext ==
  ASSUME FundsInv, [Next]_vars
  PROVE  FundsInv'
<1>1. TypeOK'
  BY TypeNext DEF FundsInv
<1>2. CASE Submit
  <2>1. PICK m \in Amount, n \in KeyName :
          \/ \E d, c \in Account : request_transfer(n, d, c, m)
          \/ \E d \in Customer, c \in Account : client_transfer(Owner[d], n, d, c, m)
          \/ \E s \in System, a \in Account : deposit(n, s, a, m)
          \/ \E a \in Account, s \in System : withdraw(n, a, s, m)
    BY <1>2 DEF Submit
  <2>2. /\ <<Sentinel, n>> \in Key
        /\ \A d \in Customer : d \in Account /\ <<Owner[d], n>> \in Key
        /\ System \subseteq Account
    BY LedgerAssumption DEF Key, Caller, Account
  <2>3. CASE \E d, c \in Account : request_transfer(n, d, c, m)
    BY <1>1, <2>2, <2>3, AdmitFunds DEF request_transfer, FundsInv
  <2>4. CASE \E d \in Customer, c \in Account : client_transfer(Owner[d], n, d, c, m)
    BY <1>1, <2>2, <2>4, AdmitFunds DEF client_transfer, FundsInv
  <2>5. CASE \E s \in System, a \in Account : deposit(n, s, a, m)
    BY <1>1, <2>2, <2>5, AdmitFunds DEF deposit, FundsInv
  <2>6. CASE \E a \in Account, s \in System : withdraw(n, a, s, m)
    BY <1>1, <2>2, <2>6, AdmitFunds DEF withdraw, FundsInv
  <2> QED
    BY <2>1, <2>3, <2>4, <2>5, <2>6
<1>3. CASE Resolve
  <2>1. {"pending"} \in SUBSET Awaiting /\ {"under_review"} \in SUBSET Awaiting
        /\ {"held"} \in SUBSET Awaiting
    BY DEF Awaiting
  <2>2. HoldMatchesStatus' /\ HeldCached' /\ Solvent'
    BY <1>3, <2>1, PostFunds, CancelFunds
       DEF Resolve, client_cancel_transfer, client_confirm_transfer
  <2> QED
    BY <1>1, <2>2 DEF FundsInv
<1>4. CASE Reverse
  <2>1. CASE \E t \in DOMAIN transfers, n \in KeyName : reverse_transfer(n, t)
    BY <1>1, <2>1, ReverseFunds DEF FundsInv
  <2>2. CASE \E t \in DOMAIN transfers, n \in KeyName : reverse_again(n, t)
    <3>1. UNCHANGED <<transfers, lapsed, balance_minor, held_minor>>
      BY <2>2 DEF reverse_again, money_vars
    <3> QED
      BY <1>1, <3>1, QuietFunds DEF FundsInv
  <2> QED
    BY <1>4, <2>1, <2>2 DEF Reverse
<1>5. CASE Administer
  <2>1. UNCHANGED <<transfers, lapsed, balance_minor, held_minor>>
    BY <1>5 DEF Administer, set_account_status, update_transfer_limit, money_vars
  <2> QED
    BY <1>1, <2>1, QuietFunds DEF FundsInv
<1>6. CASE RunMaintenance
  BY <1>1, <1>6, MaintenanceFunds DEF FundsInv
<1>7. CASE \E t \in DOMAIN transfers : window_lapses(t)
  BY <1>1, <1>7, LapseFunds DEF FundsInv
<1>8. CASE UNCHANGED vars
  <2>1. UNCHANGED <<transfers, lapsed, balance_minor, held_minor>>
    BY <1>8 DEF vars
  <2> QED
    BY <1>1, <2>1, QuietFunds DEF FundsInv
<1> QED
  BY <1>2, <1>3, <1>4, <1>5, <1>6, <1>7, <1>8 DEF Next

(* Whatever the interleaving of requests, reviews, sweeps and clawbacks,   *)
(* the holds follow the life cycle, the cache adds them up and no customer *)
(* has promised more than they own.                                        *)
THEOREM FundsCorrect == Spec => []FundsInv
<1>1. FundsInv /\ [Next]_vars => FundsInv'
  BY FundsNext
<1> QED
  BY FundsInit, <1>1, PTL DEF Spec

(* Every waiting transfer can still settle: no CHECK on a balance fails.   *)
THEOREM SolventAlways == Spec => []Solvent
<1>1. FundsInv => Solvent
  BY DEF FundsInv
<1> QED
  BY <1>1, FundsCorrect, PTL

(* Funds are reserved exactly as long as their transfer waits.             *)
THEOREM HoldsFollowStatus == Spec => []HoldMatchesStatus
<1>1. FundsInv => HoldMatchesStatus
  BY DEF FundsInv
<1> QED
  BY <1>1, FundsCorrect, PTL

-----------------------------------------------------------------------------
(* The history: what a key answers, what the journal holds and what a      *)
(* transfer says of its payment never change, and its status moves along   *)
(* the life cycle.  The life cycle needs FundsInv: the sweep closes what   *)
(* is overdue without looking at its status, so only waiting transfers may *)
(* be overdue.                                                             *)

(* What RowsStand says of one row.                                         *)
RowStands(old, new) ==
  /\ new = [old EXCEPT !.status = new.status, !.hold = new.hold]
  /\ new.status \in {old.status} \cup LifeCycle[old.status]

LEMMA RowsByRow ==
  ASSUME \A t \in DOMAIN transfers :
           t \in DOMAIN transfers' /\ RowStands(transfers[t], transfers'[t])
  PROVE  RowsStand
BY DEF RowsStand, RowStands

(* A row that stays, stands.                                               *)
LEMMA SameRowStands ==
  ASSUME NEW row \in Transfer
  PROVE  RowStands(row, row)
BY DEF RowStands, Transfer

(* So does a row whose status moves along the life cycle.                  *)
LEMMA MovedRowStands ==
  ASSUME NEW row \in Transfer, NEW st \in TransferStatus, NEW h \in HoldStatus,
         st \in {row.status} \cup LifeCycle[row.status]
  PROVE  /\ RowStands(row, [row EXCEPT !.status = st, !.hold = h])
         /\ RowStands(row, [row EXCEPT !.status = st])
BY DEF RowStands, Transfer

(* The life cycle lets what waits settle or be canceled.                   *)
LEMMA WaitingMoves ==
  ASSUME NEW st \in Awaiting
  PROVE  /\ "posted" \in LifeCycle[st] /\ "canceled" \in LifeCycle[st]
         /\ SweptStatus(st) \in LifeCycle[st] /\ SweptStatus(st) \in TransferStatus
BY DEF Awaiting, LifeCycle, SweptStatus, TransferStatus

(* A sequence is a prefix of itself and of what it grows into.             *)
LEMMA PrefixKept ==
  ASSUME NEW S, NEW s \in Seq(S), NEW e \in S
  PROVE  SubSeq(s, 1, Len(s)) = s /\ SubSeq(Append(s, e), 1, Len(s)) = s
OBVIOUS

(* The journal stands while nothing is written to it.                      *)
LEMMA JournalSame ==
  ASSUME TypeOK, UNCHANGED ledger_entries
  PROVE  JournalStands
<1> SUFFICES ASSUME NEW a \in Account
             PROVE  SubSeq(ledger_entries[a], 1, Len(ledger_entries[a])) = ledger_entries[a]
  BY DEF JournalStands
<1>1. ledger_entries[a] \in Seq(Entry)
  BY DEF TypeOK
<1> QED
  BY <1>1

(* Two legs lengthen two statements and leave the others alone.            *)
LEMMA LegsExtend ==
  ASSUME TypeOK, NEW t \in 1..MaxTransfers, NEW d \in Account, NEW c \in Account, d # c,
         NEW m \in Amount, WriteLegs(t, d, c, m)
  PROVE  JournalStands
<1> DEFINE out == [transfer |-> t, signed_amount |-> -m, balance_after |-> balance_minor[d] - m]
           in  == [transfer |-> t, signed_amount |-> m, balance_after |-> balance_minor[c] + m]
<1>1. m \in Int /\ balance_minor[d] \in Int /\ balance_minor[c] \in Int
  BY LedgerAssumption DEF TypeOK, Amount
<1>2. out \in Entry /\ in \in Entry
  BY <1>1 DEF Entry
<1>3. ledger_entries' = [ledger_entries EXCEPT ![d] = Append(@, out), ![c] = Append(@, in)]
  BY DEF WriteLegs
<1> HIDE DEF out, in
<1> SUFFICES ASSUME NEW a \in Account
             PROVE  SubSeq(ledger_entries'[a], 1, Len(ledger_entries[a])) = ledger_entries[a]
  BY DEF JournalStands
<1>4. ledger_entries[a] \in Seq(Entry)
  BY DEF TypeOK
<1>5. \/ ledger_entries'[a] = ledger_entries[a]
      \/ ledger_entries'[a] = Append(ledger_entries[a], out)
      \/ ledger_entries'[a] = Append(ledger_entries[a], in)
  BY <1>3 DEF TypeOK
<1> QED
  BY <1>2, <1>4, <1>5, PrefixKept

-----------------------------------------------------------------------------
(* One lemma per operation.                                                *)

(* Every call that submits a payment is one admission.                     *)
LEMMA SubmitAdmits ==
  ASSUME Submit
  PROVE  \E k \in Key, d \in Account, c \in Account, m \in Amount,
            st \in {"pending", "held", "under_review", "posted"} : Admit(k, d, c, m, st)
<1>1. PICK m \in Amount, n \in KeyName :
        \/ \E d, c \in Account : request_transfer(n, d, c, m)
        \/ \E d \in Customer, c \in Account : client_transfer(Owner[d], n, d, c, m)
        \/ \E s \in System, a \in Account : deposit(n, s, a, m)
        \/ \E a \in Account, s \in System : withdraw(n, a, s, m)
  BY DEF Submit
<1>2. /\ <<Sentinel, n>> \in Key
      /\ \A d \in Customer : d \in Account /\ <<Owner[d], n>> \in Key
      /\ System \subseteq Account
  BY LedgerAssumption DEF Key, Caller, Account
<1>3. CASE \E d, c \in Account : request_transfer(n, d, c, m)
  BY <1>2, <1>3 DEF request_transfer
<1>4. CASE \E d \in Customer, c \in Account : client_transfer(Owner[d], n, d, c, m)
  BY <1>2, <1>4 DEF client_transfer
<1>5. CASE \E s \in System, a \in Account : deposit(n, s, a, m)
  BY <1>2, <1>5 DEF deposit
<1>6. CASE \E a \in Account, s \in System : withdraw(n, a, s, m)
  BY <1>2, <1>6 DEF withdraw
<1> QED
  BY <1>1, <1>3, <1>4, <1>5, <1>6

(* A claim takes a free key.                                               *)
LEMMA ClaimStands ==
  ASSUME TypeOK, NEW k, NEW h, NEW t, Claim(k, h, t)
  PROVE  KeysStand
BY DEF TypeOK, Claim, KeysStand

(* An admission adds a row, and two legs when it posts at once.            *)
LEMMA AdmitStands ==
  ASSUME TypeOK, NEW k \in Key, NEW d \in Account, NEW c \in Account, NEW m \in Amount,
         NEW st \in {"pending", "held", "under_review", "posted"}, Admit(k, d, c, m, st)
  PROVE  KeysStand /\ JournalStands /\ RowsStand
<1> DEFINE row == [debit |-> d, credit |-> c, amount |-> m, reverses |-> 0, status |-> st,
                   hold |-> IF st = "posted" THEN "captured" ELSE "active"]
<1>1. NextId \in 1..MaxTransfers /\ d # c
  BY NextIdType DEF Admit, MayRequest
<1>2. KeysStand
  BY ClaimStands DEF Admit, Record
<1>3. JournalStands
  <2>1. CASE st = "posted"
    BY <1>1, <2>1, LegsExtend DEF Admit, Record
  <2>2. CASE st # "posted"
    BY <2>2, JournalSame DEF Admit, Record, money_vars
  <2> QED
    BY <2>1, <2>2
<1>4. transfers' = Append(transfers, row)
  BY DEF Admit, Record
<1> HIDE DEF row
<1>5. RowsStand
  <2> SUFFICES ASSUME NEW t \in DOMAIN transfers
               PROVE  t \in DOMAIN transfers' /\ RowStands(transfers[t], transfers'[t])
    BY RowsByRow
  <2>1. t \in DOMAIN transfers' /\ transfers'[t] = transfers[t]
    BY <1>4 DEF TypeOK
  <2> QED
    BY <2>1, RowType, SameRowStands
<1> QED
  BY <1>2, <1>3, <1>5

(* Closing the hold of a waiting transfer moves the status of one row.     *)
LEMMA CloseStands ==
  ASSUME TypeOK, NEW t \in DOMAIN transfers, transfers[t].status \in Awaiting,
         NEW st \in {"posted", "canceled"}, NEW h \in HoldStatus, CloseHold(t, st, h)
  PROVE  RowsStand
<1> DEFINE hold == IF transfers[t].hold = "active" THEN h ELSE transfers[t].hold
<1>1. transfers[t] \in Transfer
  BY RowType
<1>2. hold \in HoldStatus /\ st \in TransferStatus
  BY <1>1 DEF Transfer, TransferStatus
<1>3. st \in LifeCycle[transfers[t].status]
  BY WaitingMoves
<1>4. /\ DOMAIN transfers' = DOMAIN transfers
      /\ transfers'[t] = [transfers[t] EXCEPT !.status = st, !.hold = hold]
      /\ \A s \in DOMAIN transfers \ {t} : transfers'[s] = transfers[s]
  BY <1>1 DEF CloseHold, Transfer
<1> HIDE DEF hold
<1>5. RowStands(transfers[t], transfers'[t])
  <2>1. st \in {transfers[t].status} \cup LifeCycle[transfers[t].status]
    BY <1>3
  <2>2. RowStands(transfers[t], [transfers[t] EXCEPT !.status = st, !.hold = hold])
    BY <1>1, <1>2, <2>1, MovedRowStands
  <2> QED
    BY <1>4, <2>2
<1>6. \A s \in DOMAIN transfers \ {t} : RowStands(transfers[s], transfers'[s])
  BY <1>4, RowType, SameRowStands
<1> QED
  BY <1>4, <1>5, <1>6, RowsByRow

(* Posting a waiting transfer writes its legs.                             *)
LEMMA PostStands ==
  ASSUME TypeOK, NEW t, NEW S \in SUBSET Awaiting, post_transfer(t, S)
  PROVE  KeysStand /\ JournalStands /\ RowsStand
<1>1. t \in DOMAIN transfers /\ transfers[t].status \in Awaiting
  BY DEF post_transfer
<1>2. t \in 1..MaxTransfers /\ transfers[t] \in Transfer
  BY <1>1, RowType
<1>3. JournalStands
  BY <1>2, LegsExtend DEF post_transfer, Post, Transfer
<1>4. RowsStand
  BY <1>1, CloseStands DEF post_transfer, Post, HoldStatus
<1> QED
  BY <1>3, <1>4 DEF post_transfer, Post, KeysStand

(* Cancelling one writes none.                                             *)
LEMMA CancelStands ==
  ASSUME TypeOK, NEW t, cancel_transfer(t)
  PROVE  KeysStand /\ JournalStands /\ RowsStand
<1>1. t \in DOMAIN transfers /\ transfers[t].status \in Awaiting
  BY DEF cancel_transfer
<1>2. RowsStand
  BY <1>1, CloseStands DEF cancel_transfer, HoldStatus
<1> QED
  BY <1>2, JournalSame DEF cancel_transfer, money_vars, KeysStand

(* A reversal takes one posted transfer to its end and adds its mirror.    *)
LEMMA ReverseStands ==
  ASSUME TypeOK, NEW n \in KeyName, NEW t, reverse_transfer(n, t)
  PROVE  KeysStand /\ JournalStands /\ RowsStand
<1> DEFINE orig == transfers[t]
           row  == [debit |-> orig.credit, credit |-> orig.debit, amount |-> orig.amount,
                    reverses |-> t, status |-> "posted", hold |-> "none"]
           done == [transfers EXCEPT ![t].status = "reversed"]
<1>1. t \in DOMAIN transfers /\ orig.status = "posted"
  BY DEF reverse_transfer, MayReverse
<1>2. t \in 1..MaxTransfers /\ orig \in Transfer
  BY <1>1, RowType
<1>3. NextId \in 1..MaxTransfers
  BY NextIdType DEF reverse_transfer
<1>4. KeysStand
  BY ClaimStands DEF reverse_transfer, Refund
<1>5. JournalStands
  BY <1>2, <1>3, LegsExtend DEF reverse_transfer, Refund, Transfer
<1>6. transfers' = Append(done, row)
  BY DEF reverse_transfer, Refund
<1>7. "reversed" \in TransferStatus /\ "reversed" \in {orig.status} \cup LifeCycle[orig.status]
  BY <1>1 DEF TransferStatus, LifeCycle
<1>8. RowStands(orig, [orig EXCEPT !.status = "reversed"])
  BY <1>2, <1>7, MovedRowStands DEF HoldStatus
<1>9. RowsStand
  <2> HIDE DEF row
  <2> SUFFICES ASSUME NEW s \in DOMAIN transfers
               PROVE  s \in DOMAIN transfers' /\ RowStands(transfers[s], transfers'[s])
    BY RowsByRow
  <2>1. s \in DOMAIN transfers'
        /\ transfers'[s] = IF s = t THEN [orig EXCEPT !.status = "reversed"] ELSE transfers[s]
    BY <1>6 DEF TypeOK
  <2>2. RowStands(transfers[s], transfers[s])
    BY RowType, SameRowStands
  <2> QED
    BY <1>8, <2>1, <2>2
<1> QED
  BY <1>4, <1>5, <1>9

(* A step that writes neither transfers nor the journal keeps both.        *)
LEMMA QuietStands ==
  ASSUME TypeOK, UNCHANGED <<transfers, ledger_entries>>
  PROVE  JournalStands /\ RowsStand
<1>1. RowsStand
  <2> SUFFICES ASSUME NEW t \in DOMAIN transfers
               PROVE  t \in DOMAIN transfers' /\ RowStands(transfers[t], transfers'[t])
    BY RowsByRow
  <2> QED
    BY RowType, SameRowStands
<1> QED
  BY <1>1, JournalSame

(* The sweep closes rows that wait: overdue holds are active ones.         *)
LEMMA MaintenanceStands ==
  ASSUME TypeOK, HoldMatchesStatus, RunMaintenance
  PROVE  KeysStand /\ JournalStands /\ RowsStand
<1>1. KeysStand
  BY DEF TypeOK, RunMaintenance, cleanup_idempotency_keys, KeysStand
<1>2. JournalStands
  BY JournalSame DEF RunMaintenance, money_vars
<1>3. /\ DOMAIN transfers' = DOMAIN transfers
      /\ \A t \in DOMAIN transfers :
           transfers'[t] = IF t \in lapsed
                           THEN [transfers[t] EXCEPT !.hold = "expired", !.status = SweptStatus(@)]
                           ELSE transfers[t]
  BY DEF RunMaintenance, expire_holds, Expire, Overdue
<1>4. \A t \in DOMAIN transfers : t \in lapsed => transfers[t].status \in Awaiting
  BY DEF HoldMatchesStatus
<1>5. RowsStand
  <2> SUFFICES ASSUME NEW t \in DOMAIN transfers
               PROVE  t \in DOMAIN transfers' /\ RowStands(transfers[t], transfers'[t])
    BY RowsByRow
  <2>1. transfers[t] \in Transfer
    BY RowType
  <2>2. CASE t \in lapsed
    <3> DEFINE st == SweptStatus(transfers[t].status)
    <3>1. st \in TransferStatus /\ st \in {transfers[t].status} \cup LifeCycle[transfers[t].status]
      BY <1>4, <2>2, WaitingMoves
    <3>2. transfers'[t] = [transfers[t] EXCEPT !.status = st, !.hold = "expired"]
      BY <1>3, <2>1, <2>2 DEF Transfer
    <3> HIDE DEF st
    <3>3. RowStands(transfers[t], [transfers[t] EXCEPT !.status = st, !.hold = "expired"])
      BY <2>1, <3>1, MovedRowStands DEF HoldStatus
    <3> QED
      BY <1>3, <3>2, <3>3
  <2>3. CASE t \notin lapsed
    BY <1>3, <2>1, <2>3, SameRowStands
  <2> QED
    BY <2>2, <2>3
<1> QED
  BY <1>1, <1>2, <1>5

-----------------------------------------------------------------------------
(* Every step, in a state where holds match statuses, keeps the history.   *)
LEMMA HistoryNext ==
  ASSUME FundsInv, [Next]_vars
  PROVE  KeysStand /\ JournalStands /\ RowsStand
<1>0. TypeOK /\ HoldMatchesStatus
  BY DEF FundsInv
<1>1. CASE Submit
  BY <1>0, <1>1, SubmitAdmits, AdmitStands
<1>2. CASE Resolve
  <2>1. {"pending"} \in SUBSET Awaiting /\ {"under_review"} \in SUBSET Awaiting
        /\ {"held"} \in SUBSET Awaiting
    BY DEF Awaiting
  <2> QED
    BY <1>0, <1>2, <2>1, PostStands, CancelStands
       DEF Resolve, client_cancel_transfer, client_confirm_transfer
<1>3. CASE Reverse
  <2>1. CASE \E t \in DOMAIN transfers, n \in KeyName : reverse_transfer(n, t)
    BY <1>0, <2>1, ReverseStands
  <2>2. CASE \E t \in DOMAIN transfers, n \in KeyName : reverse_again(n, t)
    BY <1>0, <2>2, QuietStands, ClaimStands DEF reverse_again, money_vars
  <2> QED
    BY <1>3, <2>1, <2>2 DEF Reverse
<1>4. CASE RunMaintenance
  BY <1>0, <1>4, MaintenanceStands
<1>5. CASE Administer \/ (\E t \in DOMAIN transfers : window_lapses(t)) \/ UNCHANGED vars
  <2>1. UNCHANGED <<transfers, ledger_entries, idempotency_keys>>
    BY <1>5 DEF Administer, set_account_status, update_transfer_limit, window_lapses,
                money_vars, vars
  <2> QED
    BY <1>0, <2>1, QuietStands DEF KeysStand
<1> QED
  BY <1>1, <1>2, <1>3, <1>4, <1>5 DEF Next

(* What happened stays, whatever happens next.                             *)
THEOREM HistoryAlwaysStands == Spec => HistoryStands
<1>1. FundsInv /\ [Next]_vars => [KeysStand /\ JournalStands /\ RowsStand]_vars
  BY HistoryNext
<1> QED
  BY <1>1, FundsCorrect, PTL DEF Spec, HistoryStands

(* A step of the ledger keeps what a transfer says and what has settled.   *)
LEMMA RowsRemain ==
  ASSUME FundsInv, [Next]_vars, NEW t \in DOMAIN transfers
  PROVE  /\ t \in DOMAIN transfers'
         /\ transfers'[t].debit  = transfers[t].debit
         /\ transfers'[t].credit = transfers[t].credit
         /\ transfers'[t].amount = transfers[t].amount
         /\ transfers[t].status \in Settled => transfers'[t].status \in Settled
<1> DEFINE old == transfers[t]
           new == transfers'[t]
<1>1. old \in Transfer
  BY RowType DEF FundsInv
<1>2. /\ t \in DOMAIN transfers'
      /\ new = [old EXCEPT !.status = new.status, !.hold = new.hold]
      /\ new.status \in {old.status} \cup LifeCycle[old.status]
  BY HistoryNext DEF RowsStand
<1>3. old.status \in Settled => new.status \in Settled
  BY <1>2 DEF Settled, LifeCycle
<1> HIDE DEF new
<1>4. new.debit = old.debit /\ new.credit = old.credit /\ new.amount = old.amount
  BY <1>1, <1>2 DEF Transfer
<1> QED
  BY <1>2, <1>3, <1>4 DEF new

-----------------------------------------------------------------------------
(* What one step does to the rows and to the journal.                      *)

Leg(t, m, b) == [transfer |-> t, signed_amount |-> m, balance_after |-> b]

(* Nothing is posted.                                                      *)
QuietJournal == UNCHANGED <<balance_minor, ledger_entries>>

(* Transfer t takes m from d to c.                                         *)
PostedLegs(t, d, c, m) ==
  /\ d \in Account /\ c \in Account /\ d # c /\ m \in Amount /\ t \in 1..MaxTransfers
  /\ balance_minor' = [balance_minor EXCEPT ![d] = @ - m, ![c] = @ + m]
  /\ ledger_entries' =
       [ledger_entries EXCEPT ![d] = Append(@, Leg(t, -m, balance_minor[d] - m)),
                              ![c] = Append(@, Leg(t, m, balance_minor[c] + m))]

(* Row n is new.                                                           *)
NewRow(n, row) ==
  /\ n = NextId /\ n \in 1..MaxTransfers /\ n \notin DOMAIN transfers
  /\ DOMAIN transfers' = DOMAIN transfers \cup {n}
  /\ transfers'[n] = row /\ row \in Transfer

(* The kinds of steps, by what they do to the rows: rows close without     *)
(* money moving, a new row waits, a row is posted, a new row is posted at  *)
(* once, and a posted row is reversed by a new one.                        *)
Closes ==
  /\ QuietJournal
  /\ DOMAIN transfers' = DOMAIN transfers
  /\ \A t \in DOMAIN transfers :
       \/ transfers'[t] = transfers[t]
       \/ /\ transfers[t].status \in Awaiting
          /\ transfers'[t].status \in {"canceled", "failed"}
          /\ transfers'[t] = [transfers[t] EXCEPT !.status = transfers'[t].status,
                                                  !.hold = transfers'[t].hold]

Waits(row) ==
  /\ QuietJournal
  /\ NewRow(NextId, row) /\ row.status \in Awaiting /\ row.reverses = 0
  /\ row.debit \in Customer => row.amount <= Available(row.debit)
  /\ \A t \in DOMAIN transfers : transfers'[t] = transfers[t]

Posts(t) ==
  /\ t \in DOMAIN transfers /\ transfers[t].status \in Awaiting
  /\ PostedLegs(t, transfers[t].debit, transfers[t].credit, transfers[t].amount)
  /\ DOMAIN transfers' = DOMAIN transfers
  /\ transfers'[t].status = "posted"
  /\ transfers'[t] = [transfers[t] EXCEPT !.status = "posted", !.hold = transfers'[t].hold]
  /\ \A s \in DOMAIN transfers \ {t} : transfers'[s] = transfers[s]

PostsNew(row) ==
  /\ NewRow(NextId, row) /\ row.status = "posted" /\ row.reverses = 0
  /\ row.debit \in Customer => row.amount <= Available(row.debit)
  /\ PostedLegs(NextId, row.debit, row.credit, row.amount)
  /\ \A t \in DOMAIN transfers : transfers'[t] = transfers[t]

Reverses(t, row) ==
  /\ t \in DOMAIN transfers /\ transfers[t].status = "posted"
  /\ NewRow(NextId, row) /\ row.status = "posted" /\ row.reverses = t
  /\ row.debit = transfers[t].credit /\ row.credit = transfers[t].debit
  /\ row.amount = transfers[t].amount
  /\ row.debit \in Customer => row.amount <= balance_minor[row.debit] - held_minor[row.debit]
  /\ PostedLegs(NextId, row.debit, row.credit, row.amount)
  /\ transfers'[t] = [transfers[t] EXCEPT !.status = "reversed"]
  /\ \A s \in DOMAIN transfers \ {t} : transfers'[s] = transfers[s]

BookStep ==
  \/ Closes
  \/ \E row \in Transfer : Waits(row) \/ PostsNew(row)
  \/ \E t \in DOMAIN transfers : Posts(t)
  \/ \E t \in DOMAIN transfers, row \in Transfer : Reverses(t, row)

(* Legs that are written are posted legs.                                  *)
LEMMA LegsPosted ==
  ASSUME NEW t \in 1..MaxTransfers, NEW d \in Account, NEW c \in Account, d # c,
         NEW m \in Amount, WriteLegs(t, d, c, m)
  PROVE  PostedLegs(t, d, c, m)
BY DEF WriteLegs, PostedLegs, Leg

(* A table that gets one more row.                                         *)
LEMMA RowAdded ==
  ASSUME TypeOK, NextId <= MaxTransfers, NEW done \in Seq(Transfer), Len(done) = Len(transfers),
         NEW row \in Transfer, transfers' = Append(done, row)
  PROVE  /\ NewRow(NextId, row)
         /\ \A s \in DOMAIN transfers : transfers'[s] = done[s]
<1>1. transfers \in Seq(Transfer) /\ DOMAIN transfers = 1..Len(transfers)
      /\ Len(transfers) \in Nat
  BY DEF TypeOK
<1>2. NextId \in 1..MaxTransfers
  BY NextIdType
<1> QED
  BY <1>1, <1>2 DEF NewRow, NextId

LEMMA AdmitBooks ==
  ASSUME TypeOK, NEW k \in Key, NEW d \in Account, NEW c \in Account, NEW m \in Amount,
         NEW st \in {"pending", "held", "under_review", "posted"}, Admit(k, d, c, m, st)
  PROVE  BookStep
<1> DEFINE row == [debit |-> d, credit |-> c, amount |-> m, reverses |-> 0, status |-> st,
                   hold |-> IF st = "posted" THEN "captured" ELSE "active"]
<1>1. /\ NextId \in 1..MaxTransfers /\ d # c /\ NextId <= MaxTransfers
      /\ d \in Customer => m <= Available(d)
  BY NextIdType DEF Admit, MayRequest
<1>2. transfers' = Append(transfers, row)
  BY DEF Admit, Record
<1>3. row \in Transfer
  BY <1>1, LedgerAssumption DEF Transfer, TransferStatus, HoldStatus
<1>4. /\ row.debit = d /\ row.credit = c /\ row.amount = m /\ row.reverses = 0
      /\ row.status = st
  OBVIOUS
<1> HIDE DEF row
<1>5. NewRow(NextId, row) /\ \A t \in DOMAIN transfers : transfers'[t] = transfers[t]
  BY <1>1, <1>2, <1>3, RowAdded DEF TypeOK
<1>6. CASE st = "posted"
  <2>1. PostedLegs(NextId, d, c, m)
    BY <1>1, <1>6, LegsPosted DEF Admit, Record
  <2>2. PostsNew(row)
    BY <1>1, <1>4, <1>5, <1>6, <2>1 DEF PostsNew
  <2> QED
    BY <1>3, <2>2 DEF BookStep
<1>7. CASE st # "posted"
  <2>1. QuietJournal
    BY <1>7 DEF Admit, Record, money_vars, QuietJournal
  <2>2. Waits(row)
    BY <1>1, <1>4, <1>5, <1>7, <2>1 DEF Waits, Awaiting
  <2> QED
    BY <1>3, <2>2 DEF BookStep
<1> QED
  BY <1>6, <1>7

(* Closing a waiting transfer without posting it.                          *)
LEMMA CancelBooks ==
  ASSUME TypeOK, NEW t, cancel_transfer(t)
  PROVE  BookStep
<1> DEFINE hold == IF transfers[t].hold = "active" THEN "released" ELSE transfers[t].hold
<1>1. t \in DOMAIN transfers /\ transfers[t] \in Transfer /\ transfers[t].status \in Awaiting
  BY RowType DEF cancel_transfer
<1>2. transfers' = [transfers EXCEPT ![t] = [transfers[t] EXCEPT !.status = "canceled",
                                                                !.hold = hold]]
  BY <1>1 DEF cancel_transfer, CloseHold, Transfer
<1> HIDE DEF hold
<1>3. /\ DOMAIN transfers' = DOMAIN transfers
      /\ \A s \in DOMAIN transfers \ {t} : transfers'[s] = transfers[s]
      /\ transfers'[t] = [transfers[t] EXCEPT !.status = "canceled", !.hold = hold]
  BY <1>1, <1>2 DEF TypeOK
<1>4. transfers'[t].status = "canceled" /\ transfers'[t].hold = hold
  BY <1>1, <1>3 DEF Transfer
<1>5. Closes
  BY <1>1, <1>3, <1>4 DEF Closes, QuietJournal, cancel_transfer, money_vars
<1> QED
  BY <1>5 DEF BookStep

(* Posting one.                                                            *)
LEMMA PostBooks ==
  ASSUME TypeOK, NEW t, NEW S \in SUBSET Awaiting, post_transfer(t, S)
  PROVE  BookStep
<1> DEFINE hold == IF transfers[t].hold = "active" THEN "captured" ELSE transfers[t].hold
<1>1. t \in DOMAIN transfers /\ transfers[t] \in Transfer /\ transfers[t].status \in Awaiting
      /\ t \in 1..MaxTransfers
  BY RowType DEF post_transfer
<1>2. transfers' = [transfers EXCEPT ![t] = [transfers[t] EXCEPT !.status = "posted",
                                                                !.hold = hold]]
  BY <1>1 DEF post_transfer, Post, CloseHold, Transfer
<1> HIDE DEF hold
<1>3. /\ DOMAIN transfers' = DOMAIN transfers
      /\ \A s \in DOMAIN transfers \ {t} : transfers'[s] = transfers[s]
      /\ transfers'[t] = [transfers[t] EXCEPT !.status = "posted", !.hold = hold]
  BY <1>1, <1>2 DEF TypeOK
<1>4. transfers'[t].status = "posted" /\ transfers'[t].hold = hold
  BY <1>1, <1>3 DEF Transfer
<1>5. PostedLegs(t, transfers[t].debit, transfers[t].credit, transfers[t].amount)
  BY <1>1, LegsPosted DEF post_transfer, Post, Transfer
<1>6. Posts(t)
  BY <1>1, <1>3, <1>4, <1>5 DEF Posts
<1> QED
  BY <1>1, <1>6 DEF BookStep

(* Reversing one.                                                          *)
LEMMA ReverseBooks ==
  ASSUME TypeOK, NEW n \in KeyName, NEW t, reverse_transfer(n, t)
  PROVE  BookStep
<1> DEFINE orig == transfers[t]
           old  == [orig EXCEPT !.status = "reversed"]
           row  == [debit |-> orig.credit, credit |-> orig.debit, amount |-> orig.amount,
                    reverses |-> t, status |-> "posted", hold |-> "none"]
           done == [transfers EXCEPT ![t] = old]
<1>1. t \in DOMAIN transfers /\ orig.status = "posted" /\ NextId <= MaxTransfers
  BY DEF reverse_transfer, MayReverse
<1>2. orig \in Transfer /\ t \in 1..MaxTransfers /\ t \in 1..Len(transfers)
  BY <1>1, RowType
<1>3. row \in Transfer /\ old \in Transfer
  BY <1>2 DEF Transfer, TransferStatus, HoldStatus
<1>4. NextId \in 1..MaxTransfers
  BY <1>1, NextIdType
<1>5. PostedLegs(NextId, orig.credit, orig.debit, orig.amount)
  BY <1>2, <1>4, LegsPosted DEF reverse_transfer, Refund, Transfer
<1>6. orig.credit \in Customer =>
        orig.amount <= balance_minor[orig.credit] - held_minor[orig.credit]
  <2> SUFFICES ASSUME orig.credit \in Customer
               PROVE  orig.amount <= balance_minor[orig.credit] - held_minor[orig.credit]
    OBVIOUS
  <2>1. balance_minor[orig.credit] - held_minor[orig.credit] >= orig.amount
    BY DEF reverse_transfer, Clawable, Reclaimable
  <2>2. orig.credit \in Account /\ orig.amount \in Int
    BY <1>2, LedgerAssumption DEF Transfer, Amount
  <2>3. balance_minor[orig.credit] \in Int /\ held_minor[orig.credit] \in Int
    BY <2>2 DEF TypeOK
  <2> HIDE DEF orig
  <2> QED
    BY <2>1, <2>2, <2>3
<1>7. transfers' = Append(done, row)
  BY <1>1 DEF reverse_transfer, Refund
<1>8. /\ row.debit = orig.credit /\ row.credit = orig.debit /\ row.amount = orig.amount
      /\ row.reverses = t /\ row.status = "posted"
  OBVIOUS
<1> HIDE DEF row, old
<1>9. done \in Seq(Transfer) /\ Len(done) = Len(transfers)
  BY <1>2, <1>3, ExceptSeq DEF TypeOK
<1>10. \A s \in DOMAIN transfers : done[s] = IF s = t THEN old ELSE transfers[s]
  BY DEF TypeOK
<1> HIDE DEF done
<1>11. NewRow(NextId, row) /\ \A s \in DOMAIN transfers : transfers'[s] = done[s]
  BY <1>1, <1>3, <1>7, <1>9, RowAdded
<1>12. transfers'[t] = [orig EXCEPT !.status = "reversed"]
  BY <1>1, <1>10, <1>11 DEF old
<1>13. \A s \in DOMAIN transfers \ {t} : transfers'[s] = transfers[s]
  BY <1>10, <1>11
<1>14. Reverses(t, row)
  BY <1>1, <1>5, <1>6, <1>8, <1>11, <1>12, <1>13 DEF Reverses
<1> QED
  BY <1>1, <1>3, <1>14 DEF BookStep

(* The sweep closes rows that wait.                                        *)
LEMMA MaintenanceBooks ==
  ASSUME TypeOK, HoldMatchesStatus, RunMaintenance
  PROVE  BookStep
<1>1. DOMAIN transfers' = DOMAIN transfers
  BY DEF RunMaintenance, expire_holds, Expire
<1>2. ASSUME NEW t \in DOMAIN transfers, transfers'[t] # transfers[t]
      PROVE  /\ transfers[t].status \in Awaiting
             /\ transfers'[t].status \in {"canceled", "failed"}
             /\ transfers'[t] = [transfers[t] EXCEPT !.status = transfers'[t].status,
                                                     !.hold = transfers'[t].hold]
  <2>1. /\ t \in lapsed
        /\ transfers'[t] = [transfers[t] EXCEPT !.hold = "expired", !.status = SweptStatus(@)]
    BY <1>2 DEF RunMaintenance, expire_holds, Expire, Overdue
  <2>2. transfers[t] \in Transfer /\ transfers[t].status \in Awaiting
    BY <2>1, RowType DEF HoldMatchesStatus
  <2>3. SweptStatus(transfers[t].status) \in {"canceled", "failed"}
    BY <2>2 DEF SweptStatus, Awaiting
  <2>4. /\ transfers'[t].status = SweptStatus(transfers[t].status)
        /\ transfers'[t].hold = "expired"
    BY <2>1, <2>2 DEF Transfer
  <2>5. transfers'[t] = [transfers[t] EXCEPT !.status = SweptStatus(transfers[t].status),
                                            !.hold = "expired"]
    BY <2>1, <2>2 DEF Transfer
  <2> QED
    BY <2>2, <2>3, <2>4, <2>5
<1>3. Closes
  BY <1>1, <1>2 DEF Closes, QuietJournal, RunMaintenance, money_vars
<1> QED
  BY <1>3 DEF BookStep

(* A step that touches neither the rows nor the journal closes no row.     *)
LEMMA QuietBooks ==
  ASSUME UNCHANGED <<transfers, balance_minor, ledger_entries>>
  PROVE  BookStep
BY DEF BookStep, Closes, QuietJournal

LEMMA BooksNext ==
  ASSUME FundsInv, [Next]_vars
  PROVE  BookStep
<1>0. TypeOK /\ HoldMatchesStatus
  BY DEF FundsInv
<1>1. CASE Submit
  BY <1>0, <1>1, SubmitAdmits, AdmitBooks
<1>2. CASE Resolve
  <2>1. {"pending"} \in SUBSET Awaiting /\ {"under_review"} \in SUBSET Awaiting
        /\ {"held"} \in SUBSET Awaiting
    BY DEF Awaiting
  <2> QED
    BY <1>0, <1>2, <2>1, PostBooks, CancelBooks
       DEF Resolve, client_cancel_transfer, client_confirm_transfer
<1>3. CASE Reverse
  BY <1>0, <1>3, ReverseBooks, QuietBooks DEF Reverse, reverse_again, money_vars
<1>4. CASE RunMaintenance
  BY <1>0, <1>4, MaintenanceBooks
<1>5. CASE Administer \/ (\E t \in DOMAIN transfers : window_lapses(t)) \/ UNCHANGED vars
  <2>1. UNCHANGED <<transfers, balance_minor, ledger_entries>>
    BY <1>5 DEF Administer, set_account_status, update_transfer_limit, window_lapses,
                money_vars, vars
  <2> QED
    BY <2>1, QuietBooks
<1> QED
  BY <1>1, <1>2, <1>3, <1>4, <1>5 DEF Next

(* Every step is a step of the books and keeps what a row says.            *)
LEMMA RowsKeep ==
  ASSUME FundsInv, [Next]_vars, NEW t \in DOMAIN transfers
  PROVE  /\ t \in DOMAIN transfers'
         /\ transfers'[t].debit = transfers[t].debit
         /\ transfers'[t].credit = transfers[t].credit
         /\ transfers'[t].amount = transfers[t].amount
         /\ transfers'[t].reverses = transfers[t].reverses
<1>1. transfers[t] \in Transfer
  BY RowType DEF FundsInv
<1>2. /\ t \in DOMAIN transfers'
      /\ transfers'[t] = [transfers[t] EXCEPT !.status = transfers'[t].status,
                                              !.hold = transfers'[t].hold]
  BY HistoryNext DEF RowsStand
<1> QED
  BY <1>1, <1>2 DEF Transfer

(* The rows after a step are those before it and perhaps one more.         *)
LEMMA RowsAfter ==
  ASSUME BookStep, TypeOK
  PROVE  /\ DOMAIN transfers \subseteq DOMAIN transfers'
         /\ DOMAIN transfers' \subseteq DOMAIN transfers \cup {NextId}
         /\ NextId \notin DOMAIN transfers /\ NextId \in Nat
         /\ \A t \in DOMAIN transfers : t \in 1..MaxTransfers /\ t < NextId
<1>1. /\ NextId \notin DOMAIN transfers /\ NextId \in Nat
      /\ \A t \in DOMAIN transfers : t < NextId
  BY DEF TypeOK, NextId
<1>2. \A t \in DOMAIN transfers : t \in 1..MaxTransfers
  BY RowType
<1>3. CASE Closes \/ (\E t \in DOMAIN transfers : Posts(t))
  BY <1>1, <1>2, <1>3 DEF Closes, Posts
<1>4. CASE \E row \in Transfer : Waits(row) \/ PostsNew(row)
  BY <1>1, <1>2, <1>4 DEF Waits, PostsNew, NewRow
<1>5. CASE \E t \in DOMAIN transfers, row \in Transfer : Reverses(t, row)
  BY <1>1, <1>2, <1>5 DEF Reverses, NewRow
<1> QED
  BY <1>3, <1>4, <1>5 DEF BookStep

-----------------------------------------------------------------------------
(* Statements.                                                             *)

(* What two legs do to the statement of one account.                       *)
LEMMA StatementAfter ==
  ASSUME TypeOK, NEW t, NEW d, NEW c, NEW m, PostedLegs(t, d, c, m), NEW a \in Account
  PROVE  /\ m \in Amount /\ m \in Nat
         /\ ledger_entries[a] \in Seq(Entry) /\ balance_minor[a] \in Int
         /\ a = d => /\ ledger_entries'[a] = Append(ledger_entries[a], Leg(t, -m, balance_minor[a] - m))
                     /\ balance_minor'[a] = balance_minor[a] - m
         /\ a = c => /\ ledger_entries'[a] = Append(ledger_entries[a], Leg(t, m, balance_minor[a] + m))
                     /\ balance_minor'[a] = balance_minor[a] + m
         /\ a \notin {d, c} => /\ ledger_entries'[a] = ledger_entries[a]
                               /\ balance_minor'[a] = balance_minor[a]
         /\ Leg(t, -m, balance_minor[a] - m) \in Entry
         /\ Leg(t, m, balance_minor[a] + m) \in Entry
<1>1. m \in Amount /\ m \in Nat /\ d # c /\ t \in 1..MaxTransfers
  BY LedgerAssumption DEF PostedLegs, Amount
<1>2. ledger_entries[a] \in Seq(Entry) /\ balance_minor[a] \in Int
  BY DEF TypeOK
<1>3. Leg(t, -m, balance_minor[a] - m) \in Entry /\ Leg(t, m, balance_minor[a] + m) \in Entry
  BY <1>1, <1>2 DEF Entry, Leg
<1>4. /\ ledger_entries' = [ledger_entries EXCEPT
                              ![d] = Append(@, Leg(t, -m, balance_minor[d] - m)),
                              ![c] = Append(@, Leg(t, m, balance_minor[c] + m))]
      /\ balance_minor' = [balance_minor EXCEPT ![d] = @ - m, ![c] = @ + m]
      /\ d \in Account /\ c \in Account
  BY DEF PostedLegs
<1>5. balance_minor \in [Account -> Int] /\ ledger_entries \in [Account -> Seq(Entry)]
  BY DEF TypeOK
<1>6. a = d => /\ ledger_entries'[a] = Append(ledger_entries[a], Leg(t, -m, balance_minor[a] - m))
               /\ balance_minor'[a] = balance_minor[a] - m
  BY <1>1, <1>4, <1>5
<1>7. a = c => /\ ledger_entries'[a] = Append(ledger_entries[a], Leg(t, m, balance_minor[a] + m))
               /\ balance_minor'[a] = balance_minor[a] + m
  BY <1>1, <1>4, <1>5
<1>8. a \notin {d, c} => /\ ledger_entries'[a] = ledger_entries[a]
                         /\ balance_minor'[a] = balance_minor[a]
  BY <1>4, <1>5
<1> QED
  BY <1>1, <1>2, <1>3, <1>6, <1>7, <1>8

(* The statement s of an account chains and ends at b.                     *)
ChainsTo(s, b) ==
  /\ \A i \in DOMAIN s :
       s[i].balance_after = s[i].signed_amount + IF i = 1 THEN 0 ELSE s[i-1].balance_after
  /\ b = IF s = <<>> THEN 0 ELSE s[Len(s)].balance_after

LEMMA ChainsByAccount ==
  /\ StatementChains <=> \A a \in Account : ChainsTo(ledger_entries[a], balance_minor[a])
  /\ StatementChains' <=> \A a \in Account : ChainsTo(ledger_entries'[a], balance_minor'[a])
BY DEF StatementChains, ChainsTo

(* A leg continues a statement that chains.                                *)
LEMMA ChainGrows ==
  ASSUME NEW s \in Seq(Entry), NEW b \in Int, ChainsTo(s, b), NEW t, NEW m \in Int,
         Leg(t, m, b + m) \in Entry
  PROVE  ChainsTo(Append(s, Leg(t, m, b + m)), b + m)
<1> DEFINE e == Leg(t, m, b + m)
           g == Append(s, e)
<1>1. e.balance_after = b + m /\ e.signed_amount = m /\ e \in Entry
  BY DEF Leg
<1> HIDE DEF e
<1>2. /\ Len(s) \in Nat /\ DOMAIN s = 1..Len(s) /\ DOMAIN g = 1..Len(s) + 1 /\ Len(g) = Len(s) + 1
      /\ \A i \in 1..Len(s) : g[i] = s[i]
      /\ g[Len(s) + 1] = e /\ g # <<>>
  BY <1>1
<1>3. s = <<>> <=> Len(s) = 0
  OBVIOUS
<1> HIDE DEF g
<1>4. ASSUME NEW i \in DOMAIN g
      PROVE  g[i].balance_after =
               g[i].signed_amount + IF i = 1 THEN 0 ELSE g[i-1].balance_after
  <2>1. CASE i \in 1..Len(s)
    <3>1. i # 1 => i - 1 \in 1..Len(s)
      BY <2>1
    <3> QED
      BY <1>2, <2>1, <3>1 DEF ChainsTo
  <2>2. CASE i = Len(s) + 1
    <3>1. IF i = 1 THEN b = 0 ELSE g[i-1].balance_after = b
      BY <1>2, <1>3, <2>2 DEF ChainsTo
    <3> QED
      BY <1>1, <1>2, <2>2, <3>1
  <2> QED
    BY <1>2, <2>1, <2>2
<1>5. b + m = g[Len(g)].balance_after
  BY <1>1, <1>2
<1>6. ChainsTo(g, b + m)
  BY <1>2, <1>4, <1>5 DEF ChainsTo
<1> QED
  BY <1>6 DEF g, e

LEMMA ChainsPosted ==
  ASSUME TypeOK, StatementChains, NEW t, NEW d, NEW c, NEW m, PostedLegs(t, d, c, m)
  PROVE  StatementChains'
<1> SUFFICES ASSUME NEW a \in Account
             PROVE  ChainsTo(ledger_entries'[a], balance_minor'[a])
  BY ChainsByAccount
<1>1. ChainsTo(ledger_entries[a], balance_minor[a])
  BY ChainsByAccount
<1>2. /\ m \in Int /\ -m \in Int /\ ledger_entries[a] \in Seq(Entry) /\ balance_minor[a] \in Int
      /\ balance_minor[a] + (-m) = balance_minor[a] - m
      /\ Leg(t, -m, balance_minor[a] - m) \in Entry /\ Leg(t, m, balance_minor[a] + m) \in Entry
  BY StatementAfter
<1>3. ChainsTo(Append(ledger_entries[a], Leg(t, m, balance_minor[a] + m)), balance_minor[a] + m)
  BY <1>1, <1>2, ChainGrows
<1>4. ChainsTo(Append(ledger_entries[a], Leg(t, -m, balance_minor[a] - m)), balance_minor[a] - m)
  <2>1. Leg(t, -m, balance_minor[a] + (-m)) \in Entry
    BY <1>2
  <2>2. ChainsTo(Append(ledger_entries[a], Leg(t, -m, balance_minor[a] + (-m))), balance_minor[a] + (-m))
    BY <1>1, <1>2, <2>1, ChainGrows
  <2> QED
    BY <1>2, <2>2
<1>5. CASE a = d
  <2>1. /\ ledger_entries'[a] = Append(ledger_entries[a], Leg(t, -m, balance_minor[a] - m))
        /\ balance_minor'[a] = balance_minor[a] - m
    BY <1>5, StatementAfter
  <2> QED
    BY <1>4, <2>1, Zenon
<1>6. CASE a = c
  <2>1. /\ ledger_entries'[a] = Append(ledger_entries[a], Leg(t, m, balance_minor[a] + m))
        /\ balance_minor'[a] = balance_minor[a] + m
    BY <1>6, StatementAfter
  <2> QED
    BY <1>3, <2>1, Zenon
<1>7. CASE a \notin {d, c}
  BY <1>1, <1>7, StatementAfter
<1> QED
  BY <1>5, <1>6, <1>7

(* Every step posts two legs or none.                                      *)
LEMMA LegsOrNone ==
  ASSUME BookStep
  PROVE  \/ QuietJournal
         \/ \E t, d, c, m : PostedLegs(t, d, c, m)
BY DEF BookStep, Closes, Waits, PostsNew, Posts, Reverses

LEMMA ChainsNext ==
  ASSUME TypeOK, StatementChains, BookStep
  PROVE  StatementChains'
<1>1. CASE QuietJournal
  BY <1>1 DEF QuietJournal, StatementChains
<1>2. CASE \E t, d, c, m : PostedLegs(t, d, c, m)
  BY <1>2, ChainsPosted
<1> QED
  BY <1>1, <1>2, LegsOrNone

(* Statements chain: every entry continues the one before it.              *)
THEOREM StatementsAlwaysChain == Spec => []StatementChains
<1>1. Init => StatementChains
  BY DEF Init, StatementChains, Account
<1>2. FundsInv /\ StatementChains /\ [Next]_vars => StatementChains'
  BY BooksNext, ChainsNext DEF FundsInv
<1> QED
  BY <1>1, <1>2, FundsCorrect, PTL DEF Spec

-----------------------------------------------------------------------------
(* Reversals.                                                              *)

Reversals(t) == {r \in DOMAIN transfers : transfers[r].reverses = t}

(* A reversal comes after what it reverses.                                *)
ReferencesBack ==
  \A r \in DOMAIN transfers :
    transfers[r].reverses # 0 => transfers[r].reverses \in DOMAIN transfers /\ transfers[r].reverses < r

ReversedInv == ReferencesBack /\ ReversedOnce

(* What ReversedOnce says of one transfer.                                 *)
Mirrors(new, old) ==
  new.debit = old.credit /\ new.credit = old.debit /\ new.amount = old.amount

ReversedAt(t) ==
  IF transfers[t].status = "reversed"
  THEN \E r \in Reversals(t) :
         Reversals(t) = {r} /\ t < r /\ Mirrors(transfers[r], transfers[t])
  ELSE Reversals(t) = {}

LEMMA ReversedByRow ==
  /\ ReversedOnce <=> \A t \in DOMAIN transfers : ReversedAt(t)
  /\ ReversedOnce' <=> \A t \in DOMAIN transfers' : ReversedAt(t)'
BY DEF ReversedOnce, ReversedAt, Reversals, Mirrors

(* A step that adds no reversal of t, and does not reverse t, keeps what   *)
(* ReversedOnce says of it.                                                *)
LEMMA ReversedKept ==
  ASSUME FundsInv, [Next]_vars, NEW t \in DOMAIN transfers, ReversedAt(t),
         Reversals(t)' = Reversals(t),
         transfers'[t].status = "reversed" <=> transfers[t].status = "reversed"
  PROVE  ReversedAt(t)'
<1>1. CASE transfers[t].status = "reversed"
  <2>1. PICK r \in Reversals(t) :
          Reversals(t) = {r} /\ t < r /\ Mirrors(transfers[r], transfers[t])
    BY <1>1 DEF ReversedAt
  <2>2. r \in DOMAIN transfers
    BY <2>1 DEF Reversals
  <2>3. Mirrors(transfers'[r], transfers'[t])
    BY <2>1, <2>2, RowsKeep DEF Mirrors
  <2>4. r \in Reversals(t)' /\ Reversals(t)' = {r}
    BY <2>1
  <2> QED
    BY <1>1, <2>1, <2>3, <2>4 DEF ReversedAt
<1>2. CASE transfers[t].status # "reversed"
  BY <1>2 DEF ReversedAt
<1> QED
  BY <1>1, <1>2

(* What reverses t after a step: what did before it, and perhaps a new row.*)
LEMMA ReversalsAfter ==
  ASSUME FundsInv, [Next]_vars, NEW t
  PROVE  Reversals(t)' = Reversals(t) \cup
           {r \in DOMAIN transfers' \ DOMAIN transfers : transfers'[r].reverses = t}
<1>1. \A r \in DOMAIN transfers :
        r \in DOMAIN transfers' /\ transfers'[r].reverses = transfers[r].reverses
  BY RowsKeep
<1>2. Reversals(t)' = {r \in DOMAIN transfers' : transfers'[r].reverses = t}
  BY DEF Reversals
<1> QED
  BY <1>1, <1>2 DEF Reversals

(* Nothing reverses a row that is new.                                     *)
LEMMA NewUnreversed ==
  ASSUME FundsInv, ReferencesBack, [Next]_vars, NEW n \in DOMAIN transfers',
         n \notin DOMAIN transfers, transfers'[n].reverses # n, n # 0,
         transfers'[n].status # "reversed"
  PROVE  ReversedAt(n)'
<1>1. BookStep /\ TypeOK
  BY BooksNext DEF FundsInv
<1>2. DOMAIN transfers' \ DOMAIN transfers = {n}
  BY <1>1, RowsAfter
<1>3. Reversals(n) = {}
  BY DEF Reversals, ReferencesBack
<1>4. Reversals(n)' = {}
  BY <1>2, <1>3, ReversalsAfter
<1> QED
  BY <1>4 DEF ReversedAt

(* A step that reverses nothing.                                           *)
LEMMA ReversedAside ==
  ASSUME FundsInv, ReversedInv, [Next]_vars,
         \A t \in DOMAIN transfers :
           transfers'[t].status = "reversed" <=> transfers[t].status = "reversed",
         \A n \in DOMAIN transfers' \ DOMAIN transfers :
           transfers'[n].reverses = 0 /\ transfers'[n].status # "reversed"
  PROVE  ReversedInv'
<1>1. BookStep /\ TypeOK
  BY BooksNext DEF FundsInv
<1>2. /\ DOMAIN transfers \subseteq DOMAIN transfers'
      /\ \A t \in DOMAIN transfers : t # 0
      /\ 0 \notin DOMAIN transfers'
  <2>1. NextId # 0
    BY <1>1 DEF TypeOK, NextId
  <2> QED
    BY <1>1, <2>1, RowsAfter
<1>3. ReferencesBack'
  BY <1>2, RowsKeep DEF ReversedInv, ReferencesBack
<1>4. ASSUME NEW t \in DOMAIN transfers'
      PROVE  ReversedAt(t)'
  <2>1. CASE t \in DOMAIN transfers
    <3>0. {r \in DOMAIN transfers' \ DOMAIN transfers : transfers'[r].reverses = t} = {}
      BY <1>2, <2>1
    <3>1. Reversals(t)' = Reversals(t)
      BY <3>0, ReversalsAfter
    <3>2. ReversedAt(t)
      BY <2>1, ReversedByRow DEF ReversedInv
    <3> QED
      BY <2>1, <3>1, <3>2, ReversedKept
  <2>2. CASE t \notin DOMAIN transfers
    BY <1>2, <2>2, NewUnreversed DEF ReversedInv
  <2> QED
    BY <2>1, <2>2
<1> QED
  BY <1>3, <1>4, ReversedByRow DEF ReversedInv

(* A step that reverses t.                                                 *)
LEMMA ReversedNow ==
  ASSUME FundsInv, ReversedInv, [Next]_vars, NEW t, NEW row, Reverses(t, row)
  PROVE  ReversedInv'
<1>1. BookStep /\ TypeOK
  BY BooksNext DEF FundsInv
<1> PICK n : n = NextId
  OBVIOUS
<1>2. /\ t \in DOMAIN transfers /\ t # n /\ t < n /\ n # 0
      /\ DOMAIN transfers' = DOMAIN transfers \cup {n} /\ n \notin DOMAIN transfers
      /\ DOMAIN transfers' \ DOMAIN transfers = {n}
  <2>1. NextId # 0
    BY <1>1 DEF TypeOK, NextId
  <2> QED
    BY <1>1, <2>1, RowsAfter DEF Reverses, NewRow
<1>3. /\ transfers'[n] = row /\ row.reverses = t /\ row.status = "posted"
      /\ Mirrors(row, transfers[t])
  BY DEF Reverses, NewRow, Mirrors
<1>4. transfers[t] \in Transfer /\ transfers[t].status = "posted"
  BY <1>1, RowType DEF Reverses
<1>5. transfers'[t].status = "reversed" /\ Mirrors(transfers'[n], transfers'[t])
  <2>1. transfers'[t] = [transfers[t] EXCEPT !.status = "reversed"]
    BY DEF Reverses
  <2> QED
    BY <1>3, <1>4, <2>1 DEF Transfer, Mirrors
<1>6. ReferencesBack'
  BY <1>2, <1>3, RowsKeep DEF ReversedInv, ReferencesBack
<1>7. ASSUME NEW s \in DOMAIN transfers'
      PROVE  ReversedAt(s)'
  <2>1. CASE s = n
    BY <1>2, <1>3, <2>1, NewUnreversed DEF ReversedInv
  <2>2. CASE s = t
    <3>1. Reversals(t) = {}
      BY <1>2, <1>4, ReversedByRow DEF ReversedInv, ReversedAt
    <3>2. Reversals(t)' = {n}
      BY <1>2, <1>3, <3>1, ReversalsAfter
    <3>3. \E r \in Reversals(t)' :
            Reversals(t)' = {r} /\ t < r /\ Mirrors(transfers'[r], transfers'[t])
      BY <1>2, <1>5, <3>2
    <3> QED
      BY <1>5, <2>2, <3>3 DEF ReversedAt
  <2>3. CASE s # n /\ s # t
    <3>1. s \in DOMAIN transfers /\ transfers'[s] = transfers[s]
      BY <1>2, <2>3 DEF Reverses
    <3>0. {r \in DOMAIN transfers' \ DOMAIN transfers : transfers'[r].reverses = s} = {}
      BY <1>2, <1>3, <2>3
    <3>2. Reversals(s)' = Reversals(s)
      BY <3>0, ReversalsAfter
    <3>3. ReversedAt(s)
      BY <3>1, ReversedByRow DEF ReversedInv
    <3> QED
      BY <3>1, <3>2, <3>3, ReversedKept
  <2> QED
    BY <2>1, <2>2, <2>3
<1> QED
  BY <1>6, <1>7, ReversedByRow DEF ReversedInv

LEMMA ReversedNext ==
  ASSUME FundsInv, ReversedInv, [Next]_vars
  PROVE  ReversedInv'
<1>0. BookStep /\ TypeOK
  BY BooksNext DEF FundsInv
<1>1. CASE Closes
  <2>1. \A t \in DOMAIN transfers :
          transfers'[t].status = "reversed" <=> transfers[t].status = "reversed"
    BY <1>1 DEF Closes, Awaiting
  <2>2. DOMAIN transfers' \ DOMAIN transfers = {}
    BY <1>1 DEF Closes
  <2> QED
    BY <2>1, <2>2, ReversedAside
<1>2. CASE \E row \in Transfer : Waits(row) \/ PostsNew(row)
  BY <1>2, ReversedAside DEF Waits, PostsNew, NewRow, Awaiting
<1>3. CASE \E t \in DOMAIN transfers : Posts(t)
  <2>1. PICK t \in DOMAIN transfers : Posts(t)
    BY <1>3
  <2>2. \A s \in DOMAIN transfers :
          transfers'[s].status = "reversed" <=> transfers[s].status = "reversed"
    BY <2>1 DEF Posts, Awaiting
  <2>3. DOMAIN transfers' \ DOMAIN transfers = {}
    BY <2>1 DEF Posts
  <2> QED
    BY <2>2, <2>3, ReversedAside
<1>4. CASE \E t \in DOMAIN transfers, row \in Transfer : Reverses(t, row)
  BY <1>4, ReversedNow
<1> QED
  BY <1>0, <1>1, <1>2, <1>3, <1>4 DEF BookStep

LEMMA ReversedAlways == Spec => []ReversedInv
<1>1. Init => ReversedInv
  BY DEF Init, ReversedInv, ReferencesBack, ReversedOnce
<1> QED
  BY <1>1, ReversedNext, FundsCorrect, PTL DEF Spec

(* All reversals of a transfer converge on one.                            *)
THEOREM ReversalsConverge == Spec => []ReversedOnce
<1>1. ReversedInv => ReversedOnce
  BY DEF ReversedInv
<1> QED
  BY <1>1, ReversedAlways, PTL

-----------------------------------------------------------------------------
(* Legs.                                                                   *)

EntriesOf(a, t) == {i \in DOMAIN ledger_entries[a] : ledger_entries[a][i].transfer = t}

(* Every entry is a leg of a row.                                          *)
EntriesNamed ==
  \A a \in Account : \A i \in DOMAIN ledger_entries[a] :
    ledger_entries[a][i].transfer \in DOMAIN transfers

LegsInv == EntriesNamed /\ LegsMatchLifecycle

(* What LegsMatchLifecycle says of one transfer and one account.           *)
SignedFor(row, a) == IF a = row.debit THEN -row.amount ELSE row.amount

LegAt(t, a) ==
  IF transfers[t].status \in Settled /\ a \in {transfers[t].debit, transfers[t].credit}
  THEN \E i \in EntriesOf(a, t) :
         /\ EntriesOf(a, t) = {i}
         /\ ledger_entries[a][i].signed_amount = SignedFor(transfers[t], a)
  ELSE EntriesOf(a, t) = {}

LEMMA LegsByRow ==
  /\ LegsMatchLifecycle <=> \A t \in DOMAIN transfers, a \in Account : LegAt(t, a)
  /\ LegsMatchLifecycle' <=> \A t \in DOMAIN transfers', a \in Account : LegAt(t, a)'
BY DEF LegsMatchLifecycle, LegAt, EntriesOf, SignedFor

(* The entries of one account after two legs.                              *)
LEMMA EntriesAfter ==
  ASSUME TypeOK, NEW t, NEW d, NEW c, NEW m, PostedLegs(t, d, c, m), NEW a \in Account
  PROVE  LET n == Len(ledger_entries[a]) + 1
         IN  /\ n \notin DOMAIN ledger_entries[a]
             /\ \A i \in DOMAIN ledger_entries[a] : ledger_entries'[a][i] = ledger_entries[a][i]
             /\ a \notin {d, c} => DOMAIN ledger_entries'[a] = DOMAIN ledger_entries[a]
             /\ a \in {d, c} =>
                  /\ DOMAIN ledger_entries'[a] = DOMAIN ledger_entries[a] \cup {n}
                  /\ ledger_entries'[a][n].transfer = t
                  /\ ledger_entries'[a][n].signed_amount = IF a = d THEN -m ELSE m
<1> DEFINE s == ledger_entries[a]
           n == Len(s) + 1
<1>1. /\ s \in Seq(Entry) /\ DOMAIN s = 1..Len(s) /\ Len(s) \in Nat
  BY StatementAfter
<1>2. ASSUME NEW e \in Entry, ledger_entries'[a] = Append(s, e)
      PROVE  /\ DOMAIN ledger_entries'[a] = DOMAIN s \cup {n}
             /\ ledger_entries'[a][n] = e
             /\ \A i \in DOMAIN s : ledger_entries'[a][i] = s[i]
  <2> HIDE DEF s
  <2> QED
    BY <1>1, <1>2
<1>3. CASE a = d
  <2> DEFINE e == Leg(t, -m, balance_minor[a] - m)
  <2>1. e \in Entry /\ ledger_entries'[a] = Append(s, e)
    BY <1>3, StatementAfter
  <2>2. e.transfer = t /\ e.signed_amount = -m
    BY DEF Leg
  <2> HIDE DEF e, s
  <2> QED
    BY <1>1, <1>2, <1>3, <2>1, <2>2 DEF s
<1>4. CASE a = c /\ a # d
  <2> DEFINE e == Leg(t, m, balance_minor[a] + m)
  <2>1. e \in Entry /\ ledger_entries'[a] = Append(s, e)
    BY <1>4, StatementAfter
  <2>2. e.transfer = t /\ e.signed_amount = m
    BY DEF Leg
  <2> HIDE DEF e, s
  <2> QED
    BY <1>1, <1>2, <1>4, <2>1, <2>2 DEF s
<1>5. CASE a \notin {d, c}
  BY <1>1, <1>5, StatementAfter
<1> QED
  BY <1>3, <1>4, <1>5

(* A leg stays as long as it is not posted again and nothing is added.     *)
LEMMA LegKept ==
  ASSUME FundsInv, [Next]_vars, NEW t \in DOMAIN transfers, NEW a \in Account, LegAt(t, a),
         EntriesOf(a, t)' = EntriesOf(a, t),
         \A i \in DOMAIN ledger_entries[a] : ledger_entries'[a][i] = ledger_entries[a][i],
         transfers'[t].status \in Settled <=> transfers[t].status \in Settled
  PROVE  LegAt(t, a)'
<1>1. /\ transfers'[t].debit = transfers[t].debit
      /\ transfers'[t].credit = transfers[t].credit
      /\ SignedFor(transfers'[t], a) = SignedFor(transfers[t], a)
  BY RowsKeep DEF SignedFor
<1>2. \A i \in EntriesOf(a, t) : i \in DOMAIN ledger_entries[a]
  BY DEF EntriesOf
<1> QED
  BY <1>1, <1>2 DEF LegAt

(* Legs are written for a row that had none.                               *)
LEMMA LegWritten ==
  ASSUME TypeOK, NEW t, NEW d, NEW c, NEW m, PostedLegs(t, d, c, m), NEW a \in Account,
         transfers'[t].status \in Settled, transfers'[t].debit = d, transfers'[t].credit = c,
         transfers'[t].amount = m, EntriesOf(a, t) = {}
  PROVE  LegAt(t, a)'
<1> DEFINE n == Len(ledger_entries[a]) + 1
<1>1. CASE a \in {d, c}
  <2>1. EntriesOf(a, t)' = {n}
    BY <1>1, EntriesAfter DEF EntriesOf
  <2>2. ledger_entries'[a][n].signed_amount = IF a = d THEN -m ELSE m
    BY <1>1, EntriesAfter
  <2> PICK k : k = n
    OBVIOUS
  <2>3. EntriesOf(a, t)' = {k} /\ ledger_entries'[a][k].signed_amount = SignedFor(transfers'[t], a)
    BY <2>1, <2>2 DEF SignedFor
  <2> QED
    BY <1>1, <2>3 DEF LegAt
<1>2. CASE a \notin {d, c}
  <2>1. EntriesOf(a, t)' = {}
    BY <1>2, EntriesAfter DEF EntriesOf
  <2> QED
    BY <1>2, <2>1 DEF LegAt
<1> QED
  BY <1>1, <1>2

(* Nobody else's entries change.                                           *)
LEMMA OthersEntries ==
  ASSUME TypeOK, NEW t, NEW d, NEW c, NEW m, PostedLegs(t, d, c, m),
         NEW a \in Account, NEW s, s # t
  PROVE  /\ EntriesOf(a, s)' = EntriesOf(a, s)
         /\ \A i \in DOMAIN ledger_entries[a] : ledger_entries'[a][i] = ledger_entries[a][i]
BY EntriesAfter DEF EntriesOf

(* A step that posts nothing.                                              *)
LEMMA LegsQuiet ==
  ASSUME FundsInv, LegsInv, [Next]_vars, QuietJournal,
         \A t \in DOMAIN transfers :
           transfers'[t].status \in Settled <=> transfers[t].status \in Settled,
         \A n \in DOMAIN transfers' \ DOMAIN transfers : transfers'[n].status \notin Settled
  PROVE  LegsInv'
<1>1. BookStep /\ TypeOK
  BY BooksNext DEF FundsInv
<1>2. EntriesNamed'
  BY <1>1, RowsAfter DEF LegsInv, EntriesNamed, QuietJournal
<1>3. ASSUME NEW t \in DOMAIN transfers', NEW a \in Account
      PROVE  LegAt(t, a)'
  <2>1. EntriesOf(a, t)' = EntriesOf(a, t)
    BY DEF EntriesOf, QuietJournal
  <2>2. CASE t \in DOMAIN transfers
    <3>1. LegAt(t, a)
      BY <2>2, LegsByRow DEF LegsInv
    <3> QED
      BY <2>1, <2>2, <3>1, LegKept DEF QuietJournal
  <2>3. CASE t \notin DOMAIN transfers
    <3>1. EntriesOf(a, t) = {}
      BY <2>3 DEF EntriesOf, LegsInv, EntriesNamed
    <3> QED
      BY <2>1, <2>3, <3>1 DEF LegAt
  <2> QED
    BY <2>2, <2>3
<1> QED
  BY <1>2, <1>3, LegsByRow DEF LegsInv

(* A step that posts row t, which had no legs.                             *)
LEMMA LegsPost ==
  ASSUME FundsInv, LegsInv, [Next]_vars, NEW t \in DOMAIN transfers',
         NEW d, NEW c, NEW m, PostedLegs(t, d, c, m),
         t \in DOMAIN transfers => transfers[t].status \notin Settled,
         transfers'[t].status \in Settled, transfers'[t].debit = d, transfers'[t].credit = c,
         transfers'[t].amount = m,
         \A s \in DOMAIN transfers \ {t} :
           transfers'[s].status \in Settled <=> transfers[s].status \in Settled,
         DOMAIN transfers' \subseteq DOMAIN transfers \cup {t}
  PROVE  LegsInv'
<1>1. BookStep /\ TypeOK
  BY BooksNext DEF FundsInv
<1>2. DOMAIN transfers \subseteq DOMAIN transfers'
  BY <1>1, RowsAfter
<1>3. EntriesNamed'
  <2> SUFFICES ASSUME NEW a \in Account, NEW i \in DOMAIN ledger_entries'[a]
               PROVE  ledger_entries'[a][i].transfer \in DOMAIN transfers'
    BY DEF EntriesNamed
  <2>1. \/ i \in DOMAIN ledger_entries[a] /\ ledger_entries'[a][i] = ledger_entries[a][i]
        \/ ledger_entries'[a][i].transfer = t
    BY <1>1, EntriesAfter
  <2> QED
    BY <1>2, <2>1 DEF LegsInv, EntriesNamed
<1>4. ASSUME NEW s \in DOMAIN transfers', NEW a \in Account
      PROVE  LegAt(s, a)'
  <2>1. CASE s = t
    <3>1. EntriesOf(a, t) = {}
      <4>1. CASE t \in DOMAIN transfers
        BY <4>1, LegsByRow DEF LegsInv, LegAt
      <4>2. CASE t \notin DOMAIN transfers
        BY <4>2 DEF EntriesOf, LegsInv, EntriesNamed
      <4> QED
        BY <4>1, <4>2
    <3> QED
      BY <1>1, <2>1, <3>1, LegWritten
  <2>2. CASE s # t
    <3>1. s \in DOMAIN transfers /\ LegAt(s, a)
      BY <2>2, LegsByRow DEF LegsInv
    <3>2. /\ EntriesOf(a, s)' = EntriesOf(a, s)
          /\ \A i \in DOMAIN ledger_entries[a] : ledger_entries'[a][i] = ledger_entries[a][i]
      BY <1>1, <2>2, OthersEntries
    <3> QED
      BY <2>2, <3>1, <3>2, LegKept
  <2> QED
    BY <2>1, <2>2
<1> QED
  BY <1>3, <1>4, LegsByRow DEF LegsInv

(* Every step settles one row, which had not settled before, or none.      *)
SettlesNone ==
  /\ QuietJournal
  /\ \A t \in DOMAIN transfers :
       transfers'[t].status \in Settled <=> transfers[t].status \in Settled
  /\ \A n \in DOMAIN transfers' \ DOMAIN transfers : transfers'[n].status \notin Settled

SettlesOne(t, d, c, m) ==
  /\ t \in DOMAIN transfers' /\ PostedLegs(t, d, c, m)
  /\ t \in DOMAIN transfers => transfers[t].status \notin Settled
  /\ transfers'[t].status \in Settled
  /\ transfers'[t].debit = d /\ transfers'[t].credit = c /\ transfers'[t].amount = m
  /\ \A s \in DOMAIN transfers \ {t} :
       transfers'[s].status \in Settled <=> transfers[s].status \in Settled
  /\ DOMAIN transfers' \subseteq DOMAIN transfers \cup {t}

LEMMA OneOrNone ==
  ASSUME FundsInv, [Next]_vars
  PROVE  SettlesNone \/ \E t, d, c, m : SettlesOne(t, d, c, m)
<1>0. BookStep /\ TypeOK
  BY BooksNext DEF FundsInv
<1>1. CASE Closes
  <2>1. \A t \in DOMAIN transfers :
          transfers'[t].status \in Settled <=> transfers[t].status \in Settled
    BY <1>1 DEF Closes, Awaiting, Settled
  <2> QED
    BY <1>1, <2>1 DEF Closes, SettlesNone
<1>2. CASE \E row \in Transfer : Waits(row)
  <2>1. PICK row \in Transfer : Waits(row)
    BY <1>2
  <2>2. row.status \notin Settled
    BY <2>1 DEF Waits, Awaiting, Settled
  <2> QED
    BY <2>1, <2>2 DEF Waits, NewRow, SettlesNone
<1>3. CASE \E row \in Transfer : PostsNew(row)
  <2>1. PICK row \in Transfer : PostsNew(row)
    BY <1>3
  <2> PICK n : n = NextId
    OBVIOUS
  <2>2. /\ n \in DOMAIN transfers' /\ n \notin DOMAIN transfers /\ transfers'[n] = row
        /\ DOMAIN transfers' \subseteq DOMAIN transfers \cup {n}
        /\ PostedLegs(n, row.debit, row.credit, row.amount) /\ row.status \in Settled
        /\ \A s \in DOMAIN transfers : transfers'[s] = transfers[s]
    BY <2>1 DEF PostsNew, NewRow, Settled
  <2> QED
    BY <2>2 DEF SettlesOne
<1>4. CASE \E t \in DOMAIN transfers : Posts(t)
  <2>1. PICK t \in DOMAIN transfers : Posts(t)
    BY <1>4
  <2>2. /\ t \in DOMAIN transfers' /\ transfers[t].status \notin Settled
        /\ transfers'[t].status \in Settled
        /\ DOMAIN transfers' \subseteq DOMAIN transfers \cup {t}
        /\ PostedLegs(t, transfers[t].debit, transfers[t].credit, transfers[t].amount)
        /\ \A s \in DOMAIN transfers \ {t} : transfers'[s] = transfers[s]
    BY <2>1 DEF Posts, Settled, Awaiting
  <2>3. /\ transfers'[t].debit = transfers[t].debit /\ transfers'[t].credit = transfers[t].credit
        /\ transfers'[t].amount = transfers[t].amount
    BY RowsKeep
  <2> QED
    BY <2>2, <2>3 DEF SettlesOne
<1>5. CASE \E t \in DOMAIN transfers, row \in Transfer : Reverses(t, row)
  <2>1. PICK t \in DOMAIN transfers, row \in Transfer : Reverses(t, row)
    BY <1>5
  <2> PICK n : n = NextId
    OBVIOUS
  <2>2. /\ n \in DOMAIN transfers' /\ n \notin DOMAIN transfers /\ transfers'[n] = row
        /\ DOMAIN transfers' \subseteq DOMAIN transfers \cup {n}
        /\ PostedLegs(n, row.debit, row.credit, row.amount) /\ row.status \in Settled
        /\ \A s \in DOMAIN transfers \ {t} : transfers'[s] = transfers[s]
    BY <2>1 DEF Reverses, NewRow, Settled
  <2>3. transfers[t].status \in Settled /\ transfers'[t].status \in Settled
    <3>1. transfers[t] \in Transfer
      BY <1>0, RowType
    <3> QED
      BY <2>1, <3>1 DEF Reverses, Settled, Transfer
  <2>4. \A s \in DOMAIN transfers \ {n} :
          transfers'[s].status \in Settled <=> transfers[s].status \in Settled
    BY <2>2, <2>3
  <2> QED
    BY <2>2, <2>4 DEF SettlesOne
<1> QED
  BY <1>0, <1>1, <1>2, <1>3, <1>4, <1>5 DEF BookStep

LEMMA LegsNext ==
  ASSUME FundsInv, LegsInv, [Next]_vars
  PROVE  LegsInv'
<1>1. CASE SettlesNone
  BY <1>1, LegsQuiet DEF SettlesNone
<1>2. CASE \E t, d, c, m : SettlesOne(t, d, c, m)
  BY <1>2, LegsPost DEF SettlesOne
<1> QED
  BY <1>1, <1>2, OneOrNone

LEMMA LegsAlways == Spec => []LegsInv
<1>1. Init => LegsInv
  BY DEF Init, LegsInv, EntriesNamed, LegsMatchLifecycle
<1> QED
  BY <1>1, LegsNext, FundsCorrect, PTL DEF Spec

(* A transfer has its two legs exactly when its status says so.            *)
THEOREM LegsFollowStatus == Spec => []LegsMatchLifecycle
<1>1. LegsInv => LegsMatchLifecycle
  BY DEF LegsInv
<1> QED
  BY <1>1, LegsAlways, PTL

-----------------------------------------------------------------------------
(* Keys.                                                                   *)

Claimed == {k \in Key : idempotency_keys[k] # Unclaimed}

(* A key row that names the payment of its fingerprint.                    *)
NamesPayment(key) ==
  LET row == transfers[key.transfer_id]
  IN  key.request_hash = <<row.debit, row.credit, row.amount>> /\ row.reverses = 0

(* What KeyNamesItsOutcome says of one key.                                *)
KeyAt(k) ==
  LET key == idempotency_keys[k]
  IN  /\ key.transfer_id \in DOMAIN transfers
      /\ IF Len(key.request_hash) = 2
         THEN transfers[key.transfer_id].reverses = key.request_hash[1]
         ELSE /\ NamesPayment(key)
              /\ \A j \in Claimed \ {k} : idempotency_keys[j].transfer_id # key.transfer_id

LEMMA KeysByKey ==
  /\ KeyNamesItsOutcome <=> \A k \in Claimed : KeyAt(k)
  /\ KeyNamesItsOutcome' <=> \A k \in Claimed' : KeyAt(k)'
BY DEF KeyNamesItsOutcome, KeyAt, Claimed, NamesPayment

(* A step that claims nothing.                                             *)
LEMMA KeysKept ==
  ASSUME FundsInv, KeyNamesItsOutcome, [Next]_vars, KeysStand, Claimed' \subseteq Claimed
  PROVE  KeyNamesItsOutcome'
<1> SUFFICES ASSUME NEW k \in Claimed'
             PROVE  KeyAt(k)'
  BY KeysByKey
<1>1. \A j \in Claimed' : j \in Claimed /\ idempotency_keys'[j] = idempotency_keys[j]
  BY DEF Claimed, KeysStand
<1>2. KeyAt(k)
  BY <1>1, KeysByKey
<1> DEFINE key == idempotency_keys[k]
<1>3. key.transfer_id \in DOMAIN transfers
  BY <1>2 DEF KeyAt
<1>4. /\ key.transfer_id \in DOMAIN transfers'
      /\ transfers'[key.transfer_id].debit = transfers[key.transfer_id].debit
      /\ transfers'[key.transfer_id].credit = transfers[key.transfer_id].credit
      /\ transfers'[key.transfer_id].amount = transfers[key.transfer_id].amount
      /\ transfers'[key.transfer_id].reverses = transfers[key.transfer_id].reverses
  BY <1>3, RowsKeep
<1>5. idempotency_keys'[k] = key
  BY <1>1
<1>6. CASE Len(key.request_hash) = 2
  BY <1>2, <1>4, <1>5, <1>6 DEF KeyAt
<1>7. CASE Len(key.request_hash) # 2
  <2>1. \A j \in Claimed' \ {k} : idempotency_keys'[j].transfer_id # key.transfer_id
    BY <1>1, <1>2, <1>7 DEF KeyAt
  <2>2. (key.request_hash = <<transfers'[key.transfer_id].debit, transfers'[key.transfer_id].credit,
                              transfers'[key.transfer_id].amount>>)
        /\ transfers'[key.transfer_id].reverses = 0
    BY <1>2, <1>4, <1>7 DEF KeyAt, NamesPayment
  <2> QED
    BY <1>4, <1>5, <1>7, <2>1, <2>2 DEF KeyAt, NamesPayment
<1> QED
  BY <1>6, <1>7

(* A step that claims key k for what it did: a payment that is new, or the *)
(* reversal of another transfer.                                           *)
LEMMA KeysClaim ==
  ASSUME FundsInv, KeyNamesItsOutcome, [Next]_vars, NEW k \in Key, NEW h, NEW t,
         Claim(k, h, t), t \in DOMAIN transfers',
         \/ /\ Len(h) # 2 /\ t \notin DOMAIN transfers /\ transfers'[t].reverses = 0
            /\ h = <<transfers'[t].debit, transfers'[t].credit, transfers'[t].amount>>
         \/ /\ Len(h) = 2 /\ transfers'[t].reverses = h[1] /\ h[1] # 0
  PROVE  KeyNamesItsOutcome'
<1> SUFFICES ASSUME NEW j \in Claimed'
             PROVE  KeyAt(j)'
  BY KeysByKey
<1> DEFINE new == [request_hash |-> h, transfer_id |-> t]
<1>1. /\ idempotency_keys'[k] = new
      /\ \A i \in Key \ {k} : idempotency_keys'[i] = idempotency_keys[i]
      /\ new.transfer_id = t /\ new.request_hash = h
      /\ Claimed' \subseteq Claimed \cup {k} /\ k \notin Claimed
  BY DEF Claim, Claimed, FundsInv, TypeOK
<1> HIDE DEF new
<1>2. \A i \in Claimed : KeyAt(i) /\ idempotency_keys[i].transfer_id \in DOMAIN transfers
  BY KeysByKey DEF KeyAt
<1>3. CASE j = k
  <2>1. CASE Len(h) = 2
    BY <1>1, <1>3, <2>1 DEF KeyAt
  <2>2. CASE Len(h) # 2
    <3>1. \A i \in Claimed' \ {k} : idempotency_keys'[i].transfer_id # t
      BY <1>1, <1>2, <2>2 DEF Claimed
    <3> QED
      BY <1>1, <1>3, <2>2, <3>1 DEF KeyAt, NamesPayment
  <2> QED
    BY <2>1, <2>2
<1>4. CASE j # k
  <2> DEFINE key == idempotency_keys[j]
  <2>1. j \in Claimed /\ idempotency_keys'[j] = key
    BY <1>1, <1>4 DEF Claimed
  <2>2. KeyAt(j) /\ key.transfer_id \in DOMAIN transfers
    BY <1>2, <2>1
  <2>3. /\ key.transfer_id \in DOMAIN transfers'
        /\ transfers'[key.transfer_id].debit = transfers[key.transfer_id].debit
        /\ transfers'[key.transfer_id].credit = transfers[key.transfer_id].credit
        /\ transfers'[key.transfer_id].amount = transfers[key.transfer_id].amount
        /\ transfers'[key.transfer_id].reverses = transfers[key.transfer_id].reverses
    BY <2>2, RowsKeep
  <2>4. CASE Len(key.request_hash) = 2
    BY <2>1, <2>2, <2>3, <2>4 DEF KeyAt
  <2>5. CASE Len(key.request_hash) # 2
    <3>1. /\ key.request_hash = <<transfers'[key.transfer_id].debit,
                                  transfers'[key.transfer_id].credit,
                                  transfers'[key.transfer_id].amount>>
          /\ transfers'[key.transfer_id].reverses = 0
      BY <2>2, <2>3, <2>5 DEF KeyAt, NamesPayment
    <3>2. t # key.transfer_id
      BY <2>2, <3>1
    <3>3. \A i \in Claimed' \ {j} : idempotency_keys'[i].transfer_id # key.transfer_id
      <4> SUFFICES ASSUME NEW i \in Claimed' \ {j}
                   PROVE  idempotency_keys'[i].transfer_id # key.transfer_id
        OBVIOUS
      <4>1. CASE i = k
        BY <1>1, <3>2, <4>1
      <4>2. CASE i # k
        BY <1>1, <2>2, <2>5, <4>2 DEF KeyAt, Claimed
      <4> QED
        BY <4>1, <4>2
    <3> QED
      BY <2>1, <2>3, <2>5, <3>1, <3>3 DEF KeyAt, NamesPayment
  <2> QED
    BY <2>4, <2>5
<1> QED
  BY <1>3, <1>4

(* A payment claims its key for the row it adds.                           *)
LEMMA KeysAdmit ==
  ASSUME FundsInv, KeyNamesItsOutcome, [Next]_vars,
         NEW k \in Key, NEW d \in Account, NEW c \in Account, NEW m \in Amount,
         NEW st \in {"pending", "held", "under_review", "posted"}, Admit(k, d, c, m, st)
  PROVE  KeyNamesItsOutcome'
<1> PICK n : n = NextId
  OBVIOUS
<1>1. /\ n \notin DOMAIN transfers /\ n \in DOMAIN transfers'
      /\ transfers'[n].debit = d /\ transfers'[n].credit = c /\ transfers'[n].amount = m
      /\ transfers'[n].reverses = 0
  <2> DEFINE row == [debit |-> d, credit |-> c, amount |-> m, reverses |-> 0, status |-> st,
                     hold |-> IF st = "posted" THEN "captured" ELSE "active"]
  <2>1. transfers' = Append(transfers, row)
    BY DEF Admit, Record
  <2>2. transfers \in Seq(Transfer) /\ n = Len(transfers) + 1
    BY DEF FundsInv, TypeOK, NextId
  <2>3. row.debit = d /\ row.credit = c /\ row.amount = m /\ row.reverses = 0
    OBVIOUS
  <2> HIDE DEF row
  <2>4. n \notin DOMAIN transfers /\ n \in DOMAIN transfers' /\ transfers'[n] = row
    BY <2>1, <2>2
  <2> QED
    BY <2>3, <2>4
<1>2. Claim(k, <<d, c, m>>, n)
  BY DEF Admit, Record
<1>3. Len(<<d, c, m>>) # 2
  OBVIOUS
<1> QED
  BY <1>1, <1>2, <1>3, KeysClaim

(* A reversal claims its key for the reversal there is.                    *)
LEMMA KeysReverse ==
  ASSUME FundsInv, KeyNamesItsOutcome, [Next]_vars, NEW n \in KeyName, NEW t \in DOMAIN transfers,
         reverse_transfer(n, t) \/ reverse_again(n, t)
  PROVE  KeyNamesItsOutcome'
<1>1. <<Sentinel, n>> \in Key /\ t # 0 /\ TypeOK
  BY RowType DEF Key, Caller, FundsInv
<1> PICK h : h = <<t, "reverse">>
  OBVIOUS
<1>2. Len(h) = 2 /\ h[1] = t
  OBVIOUS
<1>3. CASE reverse_transfer(n, t)
  <2> PICK r : r = NextId
    OBVIOUS
  <2> DEFINE orig == transfers[t]
             row  == [debit |-> orig.credit, credit |-> orig.debit, amount |-> orig.amount,
                      reverses |-> t, status |-> "posted", hold |-> "none"]
             done == [transfers EXCEPT ![t].status = "reversed"]
  <2>1. transfers' = Append(done, row) /\ Claim(<<Sentinel, n>>, h, r)
    BY <1>3 DEF reverse_transfer, Refund
  <2>2. row.reverses = t
    OBVIOUS
  <2>3. r = Len(transfers) + 1 /\ Len(done) = Len(transfers) /\ Len(transfers) \in Nat
    BY <1>1 DEF NextId, TypeOK
  <2> HIDE DEF row, done
  <2>4. r \in DOMAIN transfers' /\ transfers'[r] = row
    BY <2>1, <2>3
  <2> QED
    BY <1>1, <1>2, <2>1, <2>2, <2>4, KeysClaim
<1>4. CASE reverse_again(n, t)
  <2>1. PICK r \in DOMAIN transfers : transfers[r].reverses = t /\ Claim(<<Sentinel, n>>, h, r)
    BY <1>4 DEF reverse_again
  <2>2. r \in DOMAIN transfers' /\ transfers'[r].reverses = t
    BY <2>1, RowsKeep
  <2> QED
    BY <1>1, <1>2, <2>1, <2>2, KeysClaim
<1> QED
  BY <1>3, <1>4

LEMMA KeysNext ==
  ASSUME FundsInv, KeyNamesItsOutcome, [Next]_vars
  PROVE  KeyNamesItsOutcome'
<1>1. KeysStand
  BY HistoryNext
<1>2. CASE Submit
  BY <1>2, SubmitAdmits, KeysAdmit
<1>3. CASE Reverse
  BY <1>3, KeysReverse DEF Reverse
<1>4. CASE Resolve \/ Administer \/ RunMaintenance \/ (\E t \in DOMAIN transfers : window_lapses(t))
           \/ UNCHANGED vars
  <2>1. Claimed' \subseteq Claimed
    <3>1. CASE Resolve
      BY <3>1 DEF Resolve, post_transfer, Post, cancel_transfer, client_cancel_transfer,
                  client_confirm_transfer, Claimed
    <3>2. CASE RunMaintenance
      BY <3>2 DEF RunMaintenance, cleanup_idempotency_keys, Claimed
    <3>3. CASE Administer \/ (\E t \in DOMAIN transfers : window_lapses(t)) \/ UNCHANGED vars
      BY <3>3 DEF Administer, set_account_status, update_transfer_limit, window_lapses, vars, Claimed
    <3> QED
      BY <1>4, <3>1, <3>2, <3>3
  <2> QED
    BY <1>1, <2>1, KeysKept
<1> QED
  BY <1>2, <1>3, <1>4 DEF Next

(* A key names what it was claimed for, and no two name one payment.       *)
THEOREM KeysNameTheirOutcomes == Spec => []KeyNamesItsOutcome
<1>1. Init => KeyNamesItsOutcome
  BY DEF Init, KeyNamesItsOutcome
<1> QED
  BY <1>1, KeysNext, FundsCorrect, PTL DEF Spec

-----------------------------------------------------------------------------
(* Sums of signed entries.  P is a set of postings, J a journal.           *)

SignedIn(p, J) == J[p[1]][p[2]].signed_amount

UnitsIn(P, J)  == {u \in P \X Amount : u[2] <= SignedIn(u[1], J)}
UnitsOut(P, J) == {u \in P \X Amount : u[2] <= -SignedIn(u[1], J)}
Net(P, J)      == Cardinality(UnitsIn(P, J)) - Cardinality(UnitsOut(P, J))

LEMMA NetIsSum ==
  ASSUME NEW P
  PROVE  SignedSum(P) = Net(P, ledger_entries)
BY DEF SignedSum, Net, UnitsIn, UnitsOut, SignedIn

LEMMA NetSame ==
  ASSUME NEW P, NEW J, NEW K, \A p \in P : SignedIn(p, J) = SignedIn(p, K)
  PROVE  Net(P, J) = Net(P, K)
<1>1. UnitsIn(P, J) = UnitsIn(P, K) /\ UnitsOut(P, J) = UnitsOut(P, K)
  BY DEF UnitsIn, UnitsOut
<1> QED
  BY <1>1 DEF Net

LEMMA NetEmpty == ASSUME NEW J PROVE Net({}, J) = 0
<1>1. UnitsIn({}, J) = {} /\ UnitsOut({}, J) = {}
  BY DEF UnitsIn, UnitsOut
<1> QED
  BY <1>1, FS_EmptySet DEF Net

(* A finite set of postings has finitely many units.                       *)
LEMMA NetType ==
  ASSUME NEW P, IsFiniteSet(P), NEW J
  PROVE  /\ IsFiniteSet(UnitsIn(P, J)) /\ IsFiniteSet(UnitsOut(P, J))
         /\ Cardinality(UnitsIn(P, J)) \in Nat /\ Cardinality(UnitsOut(P, J)) \in Nat
         /\ Net(P, J) \in Int
<1>1. IsFiniteSet(Amount)
  BY FS_Interval, LedgerAssumption DEF Amount
<1>2. IsFiniteSet(P \X Amount)
  BY <1>1, FS_Product
<1>3. UnitsIn(P, J) \in SUBSET (P \X Amount) /\ UnitsOut(P, J) \in SUBSET (P \X Amount)
  BY DEF UnitsIn, UnitsOut
<1>4. IsFiniteSet(UnitsIn(P, J)) /\ IsFiniteSet(UnitsOut(P, J))
  BY <1>2, <1>3, FS_Subset
<1>5. Cardinality(UnitsIn(P, J)) \in Nat /\ Cardinality(UnitsOut(P, J)) \in Nat
  BY <1>4, FS_CardinalityType
<1> QED
  BY <1>4, <1>5 DEF Net

(* The units of one number m, paired with p.                               *)
LEMMA UnitsOfOne ==
  ASSUME NEW p, NEW m \in Int, m <= MaxAmount
  PROVE  Cardinality({u \in {p} \X Amount : u[2] <= m}) = IF m > 0 THEN m ELSE 0
<1> DEFINE f == [q \in {p} |-> [amount |-> m]]
<1>1. f[p].amount = m
  OBVIOUS
<1> HIDE DEF f
<1>2. {u \in {p} \X Amount : u[2] <= m} = Units({p}, f)
  BY <1>1 DEF Units
<1>3. CASE m > 0
  <2>1. m \in Amount
    BY <1>3, LedgerAssumption DEF Amount
  <2>2. Weight({p}, f) = m
    BY <1>1, <2>1, WeightOne
  <2> QED
    BY <1>2, <1>3, <2>2 DEF Weight
<1>4. CASE ~(m > 0)
  <2>1. {u \in {p} \X Amount : u[2] <= m} = {}
    BY <1>4, LedgerAssumption DEF Amount
  <2> QED
    BY <1>4, <2>1, FS_EmptySet
<1> QED
  BY <1>3, <1>4

(* A posting more adds what it is signed with.                             *)
LEMMA NetMore ==
  ASSUME NEW P, IsFiniteSet(P), NEW J, NEW p, p \notin P, NEW m \in Int,
         SignedIn(p, J) = m, m <= MaxAmount, -m <= MaxAmount
  PROVE  IsFiniteSet(P \cup {p}) /\ Net(P \cup {p}, J) = Net(P, J) + m
<1>1. /\ UnitsIn(P \cup {p}, J) = UnitsIn(P, J) \cup UnitsIn({p}, J)
      /\ UnitsOut(P \cup {p}, J) = UnitsOut(P, J) \cup UnitsOut({p}, J)
      /\ UnitsIn(P, J) \cap UnitsIn({p}, J) = {}
      /\ UnitsOut(P, J) \cap UnitsOut({p}, J) = {}
  BY DEF UnitsIn, UnitsOut
<1>2. IsFiniteSet({p})
  BY FS_Singleton
<1>3. /\ IsFiniteSet(UnitsIn(P, J)) /\ IsFiniteSet(UnitsIn({p}, J))
      /\ IsFiniteSet(UnitsOut(P, J)) /\ IsFiniteSet(UnitsOut({p}, J))
      /\ Cardinality(UnitsIn(P, J)) \in Nat /\ Cardinality(UnitsOut(P, J)) \in Nat
      /\ Cardinality(UnitsIn({p}, J)) \in Nat /\ Cardinality(UnitsOut({p}, J)) \in Nat
  BY <1>2, NetType
<1>4. /\ UnitsIn({p}, J) = {u \in {p} \X Amount : u[2] <= m}
      /\ UnitsOut({p}, J) = {u \in {p} \X Amount : u[2] <= -m}
  BY DEF UnitsIn, UnitsOut
<1>5. Cardinality(UnitsIn({p}, J)) = IF m > 0 THEN m ELSE 0
  <2>1. Cardinality({u \in {p} \X Amount : u[2] <= m}) = IF m > 0 THEN m ELSE 0
    BY UnitsOfOne
  <2> QED
    BY <1>4, <2>1, Zenon
<1>6. Cardinality(UnitsOut({p}, J)) = IF -m > 0 THEN -m ELSE 0
  <2> PICK k : k = -m
    OBVIOUS
  <2>0. k \in Int /\ k <= MaxAmount /\ k = -m
    OBVIOUS
  <2>1. Cardinality({u \in {p} \X Amount : u[2] <= k}) = IF k > 0 THEN k ELSE 0
    BY <2>0, UnitsOfOne
  <2>2. Cardinality({u \in {p} \X Amount : u[2] <= -m}) = IF -m > 0 THEN -m ELSE 0
    BY <2>0, <2>1, Zenon
  <2> QED
    BY <1>4, <2>2, Zenon
<1>7. Cardinality(UnitsIn(P \cup {p}, J)) =
        Cardinality(UnitsIn(P, J)) + Cardinality(UnitsIn({p}, J))
  <2>1. Cardinality(UnitsIn(P, J) \cap UnitsIn({p}, J)) = 0
    BY <1>1, FS_EmptySet
  <2>2. Cardinality(UnitsIn(P, J) \cup UnitsIn({p}, J)) =
          Cardinality(UnitsIn(P, J)) + Cardinality(UnitsIn({p}, J)) - 0
    BY <1>3, <2>1, FS_Union
  <2>3. Cardinality(UnitsIn(P \cup {p}, J)) = Cardinality(UnitsIn(P, J) \cup UnitsIn({p}, J))
    BY <1>1, Zenon
  <2> QED
    BY <1>3, <2>2, <2>3
<1>8. Cardinality(UnitsOut(P \cup {p}, J)) =
        Cardinality(UnitsOut(P, J)) + Cardinality(UnitsOut({p}, J))
  <2>1. Cardinality(UnitsOut(P, J) \cap UnitsOut({p}, J)) = 0
    BY <1>1, FS_EmptySet
  <2>2. Cardinality(UnitsOut(P, J) \cup UnitsOut({p}, J)) =
          Cardinality(UnitsOut(P, J)) + Cardinality(UnitsOut({p}, J)) - 0
    BY <1>3, <2>1, FS_Union
  <2>3. Cardinality(UnitsOut(P \cup {p}, J)) = Cardinality(UnitsOut(P, J) \cup UnitsOut({p}, J))
    BY <1>1, Zenon
  <2> QED
    BY <1>3, <2>2, <2>3
<1>9. IsFiniteSet(P \cup {p})
  BY FS_AddElement
<1> HIDE DEF Net
<1>10. Net(P \cup {p}, J) = Net(P, J) + m
  BY <1>3, <1>5, <1>6, <1>7, <1>8 DEF Net
<1> QED
  BY <1>9, <1>10

(* Two postings that cancel out.                                           *)
LEMMA NetOfPair ==
  ASSUME NEW P, IsFiniteSet(P), NEW J, NEW p, NEW q, p \notin P, q \notin P, p # q, NEW m \in Amount,
         SignedIn(p, J) = -m, SignedIn(q, J) = m
  PROVE  IsFiniteSet(P \cup {p, q}) /\ Net(P \cup {p, q}, J) = Net(P, J)
<1>1. m \in Int /\ -m \in Int /\ m <= MaxAmount /\ -m <= MaxAmount /\ -(-m) = m
  BY LedgerAssumption DEF Amount
<1>2. IsFiniteSet(P \cup {p}) /\ Net(P \cup {p}, J) = Net(P, J) + (-m)
  BY <1>1, NetMore
<1>3. q \notin P \cup {p} /\ (P \cup {p}) \cup {q} = P \cup {p, q}
  OBVIOUS
<1>4. IsFiniteSet((P \cup {p}) \cup {q}) /\ Net((P \cup {p}) \cup {q}, J) = Net(P \cup {p}, J) + m
  BY <1>1, <1>2, <1>3, NetMore
<1>5. Net(P, J) \in Int
  BY NetType
<1>6. Net(P \cup {p, q}, J) = Net(P \cup {p}, J) + m /\ IsFiniteSet(P \cup {p, q})
  BY <1>3, <1>4, Zenon
<1> QED
  BY <1>1, <1>2, <1>5, <1>6

-----------------------------------------------------------------------------
(* The books add up.                                                       *)

(* The cached balances are the sums of the journal, and all of it comes to *)
(* nothing.                                                                *)
AddsUp ==
  /\ IsFiniteSet(AllPostings)
  /\ Net(AllPostings, ledger_entries) = 0
  /\ \A a \in Account : balance_minor[a] = Net(Postings(a), ledger_entries)

(* The postings after two legs.                                            *)
LEMMA PostingsAfter ==
  ASSUME TypeOK, NEW t, NEW d, NEW c, NEW m, PostedLegs(t, d, c, m)
  PROVE  LET p == <<d, Len(ledger_entries[d]) + 1>>
             q == <<c, Len(ledger_entries[c]) + 1>>
         IN  /\ Postings(d)' = Postings(d) \cup {p}
             /\ Postings(c)' = Postings(c) \cup {q}
             /\ \A a \in Account \ {d, c} : Postings(a)' = Postings(a)
             /\ AllPostings' = AllPostings \cup {p, q}
             /\ p \notin AllPostings /\ q \notin AllPostings /\ p # q
             /\ SignedIn(p, ledger_entries') = -m /\ SignedIn(q, ledger_entries') = m
             /\ \A r \in AllPostings : SignedIn(r, ledger_entries') = SignedIn(r, ledger_entries)
<1> DEFINE p == <<d, Len(ledger_entries[d]) + 1>>
           q == <<c, Len(ledger_entries[c]) + 1>>
<1>1. d \in Account /\ c \in Account /\ d # c
  BY DEF PostedLegs
<1>2. Postings(d)' = Postings(d) \cup {p} /\ p \notin Postings(d)
      /\ SignedIn(p, ledger_entries') = -m
  BY <1>1, EntriesAfter DEF Postings, SignedIn
<1>3. Postings(c)' = Postings(c) \cup {q} /\ q \notin Postings(c)
      /\ SignedIn(q, ledger_entries') = m
  BY <1>1, EntriesAfter DEF Postings, SignedIn
<1>4. \A a \in Account \ {d, c} : Postings(a)' = Postings(a)
  BY EntriesAfter DEF Postings
<1>5. \A a : \A r \in Postings(a) : r[1] = a
  BY DEF Postings
<1>6. p[1] = d /\ q[1] = c
  OBVIOUS
<1>7. \A r \in AllPostings : SignedIn(r, ledger_entries') = SignedIn(r, ledger_entries)
  <2> SUFFICES ASSUME NEW r \in AllPostings
               PROVE  SignedIn(r, ledger_entries') = SignedIn(r, ledger_entries)
    OBVIOUS
  <2>1. PICK a \in Account : \E i \in DOMAIN ledger_entries[a] : r = <<a, i>>
    BY DEF AllPostings, Postings
  <2> QED
    BY <2>1, EntriesAfter DEF SignedIn
<1> HIDE DEF p, q
<1>8. p \notin AllPostings /\ q \notin AllPostings /\ p # q
  BY <1>1, <1>2, <1>3, <1>5, <1>6 DEF AllPostings
<1>9. AllPostings' = AllPostings \cup {p, q}
  <2>1. AllPostings' = UNION {Postings(a)' : a \in Account}
    BY DEF AllPostings
  <2> QED
    BY <1>1, <1>2, <1>3, <1>4, <2>1 DEF AllPostings
<1> QED
  BY <1>2, <1>3, <1>4, <1>7, <1>8, <1>9 DEF p, q

LEMMA AddsUpPosted ==
  ASSUME TypeOK, AddsUp, NEW t, NEW d, NEW c, NEW m, PostedLegs(t, d, c, m)
  PROVE  AddsUp'
<1>1. d \in Account /\ c \in Account /\ d # c /\ m \in Amount
  BY DEF PostedLegs
<1> PICK J : J = ledger_entries'
  OBVIOUS
<1> PICK p, q : /\ p = <<d, Len(ledger_entries[d]) + 1>>
                /\ q = <<c, Len(ledger_entries[c]) + 1>>
  OBVIOUS
<1>2. /\ Postings(d)' = Postings(d) \cup {p}
      /\ Postings(c)' = Postings(c) \cup {q}
      /\ \A a \in Account \ {d, c} : Postings(a)' = Postings(a)
      /\ AllPostings' = AllPostings \cup {p, q}
      /\ p \notin AllPostings /\ q \notin AllPostings /\ p # q
      /\ SignedIn(p, J) = -m /\ SignedIn(q, J) = m
      /\ \A r \in AllPostings : SignedIn(r, J) = SignedIn(r, ledger_entries)
  BY PostingsAfter
<1>3. IsFiniteSet(AllPostings) /\ Net(AllPostings, ledger_entries) = 0
  BY DEF AddsUp
<1>4. Net(AllPostings, J) = 0
  BY <1>2, <1>3, NetSame
<1>5. IsFiniteSet(AllPostings') /\ Net(AllPostings', J) = 0
  <2> PICK A : A = AllPostings
    OBVIOUS
  <2>0. /\ IsFiniteSet(A) /\ p \notin A /\ q \notin A /\ p # q /\ m \in Amount
        /\ SignedIn(p, J) = -m /\ SignedIn(q, J) = m
    BY <1>1, <1>2, <1>3
  <2>1. IsFiniteSet(A \cup {p, q}) /\ Net(A \cup {p, q}, J) = Net(A, J)
    BY ONLY <2>0, NetOfPair
  <2>2. AllPostings' = AllPostings \cup {p, q}
    BY <1>2
  <2> HIDE DEF AllPostings
  <2> QED
    BY <1>4, <2>1, <2>2
<1>6. ASSUME NEW a \in Account
      PROVE  balance_minor'[a] = Net(Postings(a)', J)
  <2>1. Postings(a) \in SUBSET AllPostings
    BY DEF AllPostings
  <2>2. IsFiniteSet(Postings(a)) /\ p \notin Postings(a) /\ q \notin Postings(a)
    BY <1>2, <1>3, <2>1, FS_Subset
  <2>3. Net(Postings(a), J) = balance_minor[a]
    <3>1. Net(Postings(a), J) = Net(Postings(a), ledger_entries)
      BY <1>2, <2>1, NetSame
    <3> QED
      BY <3>1 DEF AddsUp
  <2>4. m \in Int /\ -m \in Int /\ m <= MaxAmount /\ -m <= MaxAmount /\ -(-m) = m
        /\ balance_minor[a] \in Int
    BY <1>1, LedgerAssumption DEF Amount, TypeOK
  <2>5. CASE a = d
    <3>1. Net(Postings(a) \cup {p}, J) = Net(Postings(a), J) + (-m)
      BY <1>2, <2>2, <2>4, NetMore
    <3>2. balance_minor'[a] = balance_minor[a] - m
      BY <2>5, StatementAfter
    <3> QED
      BY <1>2, <2>3, <2>4, <2>5, <3>1, <3>2
  <2>6. CASE a = c
    <3>1. Net(Postings(a) \cup {q}, J) = Net(Postings(a), J) + m
      BY <1>2, <2>2, <2>4, NetMore
    <3>2. balance_minor'[a] = balance_minor[a] + m
      BY <2>6, StatementAfter
    <3> QED
      BY <1>2, <2>3, <2>6, <3>1, <3>2
  <2>7. CASE a \notin {d, c}
    BY <1>2, <2>3, <2>7, StatementAfter
  <2> QED
    BY <2>5, <2>6, <2>7
<1> QED
  BY <1>5, <1>6 DEF AddsUp

LEMMA AddsUpNext ==
  ASSUME TypeOK, AddsUp, BookStep
  PROVE  AddsUp'
<1>1. CASE QuietJournal
  BY <1>1 DEF QuietJournal, AddsUp, AllPostings, Postings
<1>2. CASE \E t, d, c, m : PostedLegs(t, d, c, m)
  BY <1>2, AddsUpPosted
<1> QED
  BY <1>1, <1>2, LegsOrNone

LEMMA AddsUpInit == Init => AddsUp
<1> SUFFICES ASSUME Init PROVE AddsUp
  OBVIOUS
<1>1. \A a \in Account : Postings(a) = {} /\ balance_minor[a] = 0
  BY DEF Init, Postings
<1>2. AllPostings = {}
  BY <1>1 DEF AllPostings
<1> QED
  BY <1>1, <1>2, NetEmpty, FS_EmptySet DEF AddsUp

LEMMA AddsUpAlways == Spec => []AddsUp
<1>1. FundsInv /\ AddsUp /\ [Next]_vars => AddsUp'
  BY BooksNext, AddsUpNext DEF FundsInv
<1> QED
  BY <1>1, AddsUpInit, FundsCorrect, PTL DEF Spec

(* The legs of one transfer cancel out.                                    *)
LEMMA TransfersBalance ==
  ASSUME TypeOK, LegsInv, NEW t \in DOMAIN transfers
  PROVE  Net(LegsOf(t), ledger_entries) = 0
<1> DEFINE row == transfers[t]
<1>1. /\ row \in Transfer /\ row.debit \in Account /\ row.credit \in Account
      /\ row.debit # row.credit /\ row.amount \in Amount
  BY RowType DEF Transfer
<1>2. \A a \in Account : LegAt(t, a)
  BY LegsByRow DEF LegsInv
<1>3. LegsOf(t) = {p \in AllPostings : p[2] \in EntriesOf(p[1], t)}
  BY DEF LegsOf, EntriesOf, AllPostings, Postings
<1>4. AllPostings = {p \in Account \X UNION {DOMAIN ledger_entries[a] : a \in Account} :
                       p[2] \in DOMAIN ledger_entries[p[1]]}
  BY DEF AllPostings, Postings
<1>5. \A a : EntriesOf(a, t) \subseteq DOMAIN ledger_entries[a]
  BY DEF EntriesOf
<1>6. CASE row.status \in Settled
  <2>1. PICK i : /\ EntriesOf(row.debit, t) = {i}
                 /\ ledger_entries[row.debit][i].signed_amount = -row.amount
    BY <1>1, <1>2, <1>6 DEF LegAt, SignedFor
  <2>2. PICK j : /\ EntriesOf(row.credit, t) = {j}
                 /\ ledger_entries[row.credit][j].signed_amount = row.amount
    BY <1>1, <1>2, <1>6 DEF LegAt, SignedFor
  <2>3. \A a \in Account \ {row.debit, row.credit} : EntriesOf(a, t) = {}
    BY <1>2 DEF LegAt
  <2> PICK p, q : p = <<row.debit, i>> /\ q = <<row.credit, j>>
    OBVIOUS
  <2>4. LegsOf(t) = {p, q} /\ p # q
    BY <1>1, <1>3, <1>4, <1>5, <2>1, <2>2, <2>3
  <2>5. SignedIn(p, ledger_entries) = -row.amount /\ SignedIn(q, ledger_entries) = row.amount
    BY <2>1, <2>2 DEF SignedIn
  <2>6. Net({} \cup {p, q}, ledger_entries) = Net({}, ledger_entries)
    BY <1>1, <2>4, <2>5, NetOfPair, FS_EmptySet
  <2>7. LegsOf(t) = {} \cup {p, q}
    BY <2>4
  <2> QED
    BY <2>6, <2>7, NetEmpty
<1>7. CASE row.status \notin Settled
  <2>1. \A a \in Account : EntriesOf(a, t) = {}
    BY <1>2, <1>7 DEF LegAt
  <2>2. LegsOf(t) = {}
    BY <1>3, <1>4, <2>1
  <2> QED
    BY <2>2, NetEmpty
<1> QED
  BY <1>6, <1>7

(* reconcile() never finds anything.                                       *)
THEOREM AlwaysReconciled == Spec => []Reconciled
<1>1. ASSUME FundsInv, LegsInv, AddsUp
      PROVE  Reconciled
  <2>1. balance_drift = {}
    BY <1>1, NetIsSum DEF AddsUp, balance_drift
  <2>2. transfer_unbalanced = {}
    BY <1>1, NetIsSum, TransfersBalance DEF FundsInv, transfer_unbalanced
  <2>3. ~global_nonzero
    BY <1>1, NetIsSum DEF AddsUp, global_nonzero
  <2>4. held_drift = {}
    BY <1>1 DEF FundsInv, HeldCached
  <2>5. missing_hold = {}
    BY <1>1 DEF FundsInv, HoldMatchesStatus, missing_hold, Awaiting
  <2> QED
    BY <2>1, <2>2, <2>3, <2>4, <2>5 DEF Reconciled
<1> QED
  BY <1>1, FundsCorrect, LegsAlways, AddsUpAlways, PTL

-----------------------------------------------------------------------------
(* The ledger implements Payments.                                         *)

(* The settled transfers into and out of an account.                       *)
Landed(a)   == {t \in DOMAIN transfers : transfers[t].status \in Settled /\ transfers[t].credit = a}
Departed(a) == {t \in DOMAIN transfers : transfers[t].status \in Settled /\ transfers[t].debit = a}

(* A balance is what the settled transfers come to.                        *)
BalanceFollows ==
  \A a \in Account : balance_minor[a] = AmountOf(Landed(a)) - AmountOf(Departed(a))

(* The sum over rows that stay, and over one more.                         *)
LEMMA AmountKept ==
  ASSUME NEW T, \A t \in T : transfers'[t].amount = transfers[t].amount
  PROVE  Weight(T, transfers') = AmountOf(T)
BY WeightSame DEF AmountOf

LEMMA AmountMore ==
  ASSUME NEW T \in SUBSET (1..MaxTransfers), NEW n \in 1..MaxTransfers, n \notin T,
         transfers'[n].amount \in Amount,
         \A t \in T : transfers'[t].amount = transfers[t].amount
  PROVE  Weight(T \cup {n}, transfers') = AmountOf(T) + transfers'[n].amount
<1>1. {n} \in SUBSET (1..MaxTransfers) /\ {n} \cap T = {}
  OBVIOUS
<1>2. Weight(T \cup {n}, transfers') = Weight(T, transfers') + Weight({n}, transfers')
  BY <1>1, WeightUnion
<1>3. Weight({n}, transfers') = transfers'[n].amount
  BY WeightOne
<1> QED
  BY <1>2, <1>3, AmountKept

(* A step that settles nothing.                                            *)
LEMMA FollowsQuiet ==
  ASSUME FundsInv, BalanceFollows, [Next]_vars, QuietJournal,
         \A t \in DOMAIN transfers :
           transfers'[t].status \in Settled <=> transfers[t].status \in Settled,
         \A n \in DOMAIN transfers' \ DOMAIN transfers : transfers'[n].status \notin Settled
  PROVE  BalanceFollows'
<1> SUFFICES ASSUME NEW a \in Account
             PROVE  balance_minor'[a] = (AmountOf(Landed(a)) - AmountOf(Departed(a)))'
  BY DEF BalanceFollows
<1>1. \A t \in DOMAIN transfers :
        /\ t \in DOMAIN transfers' /\ transfers'[t].debit = transfers[t].debit
        /\ transfers'[t].credit = transfers[t].credit
        /\ transfers'[t].amount = transfers[t].amount
  BY RowsKeep
<1>2. Landed(a)' = Landed(a) /\ Departed(a)' = Departed(a)
  BY <1>1 DEF Landed, Departed
<1>3. /\ Weight(Landed(a), transfers') = AmountOf(Landed(a))
      /\ Weight(Departed(a), transfers') = AmountOf(Departed(a))
  BY <1>1, AmountKept DEF Landed, Departed
<1>4. /\ AmountOf(Landed(a))' = Weight(Landed(a)', transfers')
      /\ AmountOf(Departed(a))' = Weight(Departed(a)', transfers')
  BY DEF AmountOf, Weight, Units
<1>5. balance_minor'[a] = AmountOf(Landed(a)) - AmountOf(Departed(a))
  BY DEF BalanceFollows, QuietJournal
<1> QED
  BY <1>2, <1>3, <1>4, <1>5

(* A step that settles row t.                                              *)
LEMMA FollowsPost ==
  ASSUME FundsInv, BalanceFollows, [Next]_vars, NEW t \in DOMAIN transfers',
         NEW d, NEW c, NEW m, PostedLegs(t, d, c, m),
         t \in DOMAIN transfers => transfers[t].status \notin Settled,
         transfers'[t].status \in Settled, transfers'[t].debit = d, transfers'[t].credit = c,
         transfers'[t].amount = m,
         \A s \in DOMAIN transfers \ {t} :
           transfers'[s].status \in Settled <=> transfers[s].status \in Settled,
         DOMAIN transfers' \subseteq DOMAIN transfers \cup {t}
  PROVE  BalanceFollows'
<1> SUFFICES ASSUME NEW a \in Account
             PROVE  balance_minor'[a] = (AmountOf(Landed(a)) - AmountOf(Departed(a)))'
  BY DEF BalanceFollows
<1>1. \A s \in DOMAIN transfers :
        /\ s \in DOMAIN transfers' /\ transfers'[s].debit = transfers[s].debit
        /\ transfers'[s].credit = transfers[s].credit
        /\ transfers'[s].amount = transfers[s].amount
  BY RowsKeep
<1>2. /\ TypeOK /\ t \in 1..MaxTransfers /\ m \in Amount /\ m \in Nat /\ d # c
      /\ \A s \in DOMAIN transfers : s \in 1..MaxTransfers
  BY RowType, LedgerAssumption DEF FundsInv, PostedLegs, Amount
<1>3. /\ Landed(a)' = IF a = c THEN Landed(a) \cup {t} ELSE Landed(a)
      /\ Departed(a)' = IF a = d THEN Departed(a) \cup {t} ELSE Departed(a)
      /\ t \notin Landed(a) /\ t \notin Departed(a)
      /\ Landed(a) \in SUBSET (1..MaxTransfers) /\ Departed(a) \in SUBSET (1..MaxTransfers)
  BY <1>1, <1>2 DEF Landed, Departed
<1>4. /\ Weight(Landed(a), transfers') = AmountOf(Landed(a))
      /\ Weight(Departed(a), transfers') = AmountOf(Departed(a))
  BY <1>1, AmountKept DEF Landed, Departed
<1>5. /\ Weight(Landed(a) \cup {t}, transfers') = AmountOf(Landed(a)) + m
      /\ Weight(Departed(a) \cup {t}, transfers') = AmountOf(Departed(a)) + m
  <2>1. \A s \in Landed(a) \cup Departed(a) : transfers'[s].amount = transfers[s].amount
    BY <1>1 DEF Landed, Departed
  <2> QED
    BY <1>2, <1>3, <2>1, AmountMore
<1>6. AmountOf(Landed(a)) \in Nat /\ AmountOf(Departed(a)) \in Nat
  BY <1>3, UnitsFinite DEF AmountOf
<1>7. /\ AmountOf(Landed(a))' = Weight(Landed(a)', transfers')
      /\ AmountOf(Departed(a))' = Weight(Departed(a)', transfers')
  BY DEF AmountOf, Weight, Units
<1>8. balance_minor[a] = AmountOf(Landed(a)) - AmountOf(Departed(a))
  BY DEF BalanceFollows
<1>9. CASE a = d
  <2>1. balance_minor'[a] = balance_minor[a] - m
    BY <1>2, <1>9, StatementAfter
  <2>2. (AmountOf(Departed(a)))' = AmountOf(Departed(a)) + m
    BY <1>3, <1>5, <1>7, <1>9
  <2>3. (AmountOf(Landed(a)))' = AmountOf(Landed(a))
    BY <1>2, <1>3, <1>4, <1>7, <1>9
  <2> QED
    BY <1>2, <1>6, <1>8, <2>1, <2>2, <2>3
<1>10. CASE a = c
  <2>1. balance_minor'[a] = balance_minor[a] + m
    BY <1>2, <1>10, StatementAfter
  <2>2. (AmountOf(Landed(a)))' = AmountOf(Landed(a)) + m
    BY <1>3, <1>5, <1>7, <1>10
  <2>3. (AmountOf(Departed(a)))' = AmountOf(Departed(a))
    BY <1>2, <1>3, <1>4, <1>7, <1>10
  <2> QED
    BY <1>2, <1>6, <1>8, <2>1, <2>2, <2>3
<1>11. CASE a \notin {d, c}
  <2>1. balance_minor'[a] = balance_minor[a]
    BY <1>2, <1>11, StatementAfter
  <2>2. (AmountOf(Landed(a)))' = AmountOf(Landed(a))
    BY <1>3, <1>4, <1>7, <1>11
  <2>3. (AmountOf(Departed(a)))' = AmountOf(Departed(a))
    BY <1>3, <1>4, <1>7, <1>11
  <2> QED
    BY <1>8, <2>1, <2>2, <2>3
<1> QED
  BY <1>9, <1>10, <1>11

LEMMA FollowsNext ==
  ASSUME FundsInv, BalanceFollows, [Next]_vars
  PROVE  BalanceFollows'
<1>1. CASE SettlesNone
  BY <1>1, FollowsQuiet DEF SettlesNone
<1>2. CASE \E t, d, c, m : SettlesOne(t, d, c, m)
  BY <1>2, FollowsPost DEF SettlesOne
<1> QED
  BY <1>1, <1>2, OneOrNone

LEMMA FollowsInit == Init => BalanceFollows
<1> SUFFICES ASSUME Init, NEW a \in Account
             PROVE  balance_minor[a] = AmountOf(Landed(a)) - AmountOf(Departed(a))
  BY DEF BalanceFollows
<1>1. Landed(a) = {} /\ Departed(a) = {}
  BY DEF Init, Landed, Departed
<1>2. Units({}, transfers) = {}
  BY DEF Units
<1>3. AmountOf({}) = 0
  BY <1>2, FS_EmptySet DEF AmountOf, Weight
<1> QED
  BY <1>1, <1>3 DEF Init

LEMMA FollowsAlways == Spec => []BalanceFollows
BY FollowsInit, FollowsNext, FundsCorrect, PTL DEF Spec

(* One row, as a payment.                                                  *)
PaymentOf(row) ==
  [from |-> row.debit, to |-> row.credit, amount |-> row.amount, refunds |-> row.reverses,
   state |-> CASE row.status \in Awaiting -> "reserved"
               [] row.status \in Settled  -> "settled"
               [] OTHER                   -> "void"]

LEMMA PaymentFields ==
  ASSUME NEW row
  PROVE  /\ PaymentOf(row).from = row.debit /\ PaymentOf(row).to = row.credit
         /\ PaymentOf(row).amount = row.amount /\ PaymentOf(row).refunds = row.reverses
         /\ PaymentOf(row).state = "reserved" <=> row.status \in Awaiting
         /\ PaymentOf(row).state = "settled" <=> row.status \in Settled
BY DEF PaymentOf, Awaiting, Settled

LEMMA PaymentsByRow ==
  /\ AsPayments = [t \in DOMAIN transfers |-> PaymentOf(transfers[t])]
  /\ AsPayments' = [t \in DOMAIN transfers' |-> PaymentOf(transfers'[t])]
BY DEF AsPayments, PaymentOf

(* A function on 1..n + 1 that continues a sequence.                       *)
LEMMA AppendIs ==
  ASSUME NEW S, NEW s \in Seq(S), NEW e \in S, NEW f \in [1..Len(s) + 1 -> S],
         \A i \in 1..Len(s) : f[i] = s[i], f[Len(s) + 1] = e
  PROVE  f = Append(s, e)
<1> PICK g : g = Append(s, e)
  OBVIOUS
<1>1. /\ g \in Seq(S) /\ Len(g) = Len(s) + 1 /\ Len(s) \in Nat
      /\ \A i \in 1..Len(s) : g[i] = s[i]
      /\ g[Len(s) + 1] = e
  OBVIOUS
<1>2. g = [i \in 1..Len(s) + 1 |-> g[i]]
  <2>1. g \in [1..Len(g) -> S]
    BY <1>1, LenProperties, Zenon
  <2> QED
    BY <1>1, <2>1
<1>3. \A i \in 1..Len(s) + 1 : f[i] = g[i]
  <2>1. \A i \in 1..Len(s) + 1 : i \in 1..Len(s) \/ i = Len(s) + 1
    BY <1>1
  <2> QED
    BY <1>1, <2>1
<1>4. f = g
  BY <1>2, <1>3
<1> QED
  BY <1>4

(* Payments counts as Ledger does.                                         *)
LEMMA SameCardinality ==
  ASSUME NEW S
  PROVE  Abstract!Cardinality(S) = Cardinality(S)
BY Zenon DEF Abstract!Cardinality, Cardinality

(* What an account can spend in Payments is what it can spend here.        *)
LEMMA FundsAgree ==
  ASSUME FundsInv, BalanceFollows, NEW a \in Account
  PROVE  Abstract!Owns(a) - Abstract!Promised(a) = Available(a)
<1>1. Abstract!Amount = Amount
  BY DEF Amount, Abstract!Amount
<1>2. \A T \in SUBSET DOMAIN transfers : Abstract!Total(T) = AmountOf(T)
  <2> SUFFICES ASSUME NEW T \in SUBSET DOMAIN transfers
               PROVE  Abstract!Total(T) = AmountOf(T)
    OBVIOUS
  <2>0. \A u \in T \X Amount : AsPayments[u[1]].amount = transfers[u[1]].amount
    BY PaymentsByRow, PaymentFields
  <2>1. {u \in T \X Amount : u[2] <= AsPayments[u[1]].amount} = Units(T, transfers)
    BY <2>0 DEF Units
  <2> QED
    BY <1>1, <2>1, SameCardinality, Zenon DEF Abstract!Total, AmountOf, Weight
<1>3. /\ Abstract!In("settled") \cap Abstract!Into(a) = Landed(a)
      /\ Abstract!In("settled") \cap Abstract!OutOf(a) = Departed(a)
  BY PaymentsByRow, PaymentFields DEF Abstract!In, Abstract!Into, Abstract!OutOf, Landed, Departed
<1>4. Abstract!In("reserved") \cap Abstract!OutOf(a) = ActiveHolds(a)
  BY PaymentsByRow, PaymentFields
     DEF Abstract!In, Abstract!OutOf, ActiveHolds, FundsInv, HoldMatchesStatus
<1>5. Landed(a) \in SUBSET DOMAIN transfers /\ Departed(a) \in SUBSET DOMAIN transfers
      /\ ActiveHolds(a) \in SUBSET DOMAIN transfers
  BY DEF Landed, Departed, ActiveHolds
<1>6. Abstract!Owns(a) = AmountOf(Landed(a)) - AmountOf(Departed(a))
  BY <1>2, <1>3, <1>5 DEF Abstract!Owns
<1>7. Abstract!Promised(a) = Reserved(a)
  BY <1>2, <1>4, <1>5 DEF Abstract!Promised, Reserved
<1> QED
  BY <1>6, <1>7 DEF BalanceFollows, Available

(* The table of payments is as long as that of transfers.                  *)
LEMMA PaymentsType ==
  ASSUME TypeOK
  PROVE  /\ AsPayments \in Seq({PaymentOf(row) : row \in Transfer})
         /\ Len(AsPayments) = Len(transfers) /\ Len(transfers) \in Nat
         /\ DOMAIN AsPayments = DOMAIN transfers
         /\ \A t \in DOMAIN transfers : AsPayments[t] = PaymentOf(transfers[t])
<1> DEFINE S == {PaymentOf(row) : row \in Transfer}
<1>1. transfers \in Seq(Transfer) /\ DOMAIN transfers = 1..Len(transfers) /\ Len(transfers) \in Nat
  BY DEF TypeOK
<1>2. /\ AsPayments = [t \in 1..Len(transfers) |-> PaymentOf(transfers[t])]
      /\ \A t \in 1..Len(transfers) : transfers[t] \in Transfer
  BY <1>1, PaymentsByRow
<1>3. AsPayments \in [1..Len(transfers) -> S]
  BY <1>2
<1> HIDE DEF S
<1>4. AsPayments \in Seq(S)
  BY <1>1, <1>3, SeqDef, Zenon
<1>5. Len(AsPayments) = Len(transfers)
  BY <1>1, <1>3, <1>4
<1> QED
  BY <1>1, <1>2, <1>4, <1>5 DEF S

(* A new row is a payment at the end of the table.                         *)
LEMMA PaymentAdded ==
  ASSUME TypeOK, NEW row, NewRow(NextId, row),
         \A t \in DOMAIN transfers : PaymentOf(transfers'[t]) = PaymentOf(transfers[t])
  PROVE  AsPayments' = Append(AsPayments, PaymentOf(row)) /\ Len(AsPayments) < MaxTransfers
<1> DEFINE S == {PaymentOf(r) : r \in Transfer}
<1> PICK f : f = AsPayments'
  OBVIOUS
<1> PICK n : n = NextId
  OBVIOUS
<1>1. /\ AsPayments \in Seq(S) /\ Len(AsPayments) = Len(transfers) /\ Len(transfers) \in Nat
      /\ \A t \in DOMAIN transfers : AsPayments[t] = PaymentOf(transfers[t])
      /\ DOMAIN transfers = 1..Len(transfers)
  BY PaymentsType DEF TypeOK
<1>2. /\ n = Len(transfers) + 1 /\ n \in 1..MaxTransfers /\ row \in Transfer
      /\ DOMAIN transfers' = DOMAIN transfers \cup {n} /\ transfers'[n] = row
  BY DEF NextId, NewRow
<1>3. DOMAIN transfers' = 1..Len(AsPayments) + 1
  BY <1>1, <1>2
<1>4. f = [t \in DOMAIN transfers' |-> PaymentOf(transfers'[t])]
  BY PaymentsByRow, Zenon
<1>5. f = [t \in 1..Len(AsPayments) + 1 |-> f[t]]
  BY <1>3, <1>4
<1>6. \A t \in 1..Len(AsPayments) : f[t] = AsPayments[t]
  BY <1>1, <1>2, <1>4
<1>7. f[Len(AsPayments) + 1] = PaymentOf(row)
  BY <1>1, <1>2, <1>4
<1>8. PaymentOf(row) \in S
  BY <1>2
<1> HIDE DEF S
<1>9. f = Append(AsPayments, PaymentOf(row))
  <2> PICK A, p : A = AsPayments /\ p = PaymentOf(row)
    OBVIOUS
  <2>1. /\ A \in Seq(S) /\ p \in S
        /\ f \in [1..Len(A) + 1 -> S]
        /\ \A i \in 1..Len(A) : f[i] = A[i]
        /\ f[Len(A) + 1] = p
    <3>1. \A i \in 1..Len(A) + 1 : i \in 1..Len(A) \/ i = Len(A) + 1
      BY <1>1
    <3>2. \A i \in 1..Len(A) : A[i] \in S
      BY <1>1
    <3> QED
      BY <1>1, <1>5, <1>6, <1>7, <1>8, <3>1, <3>2
  <2>2. f = Append(A, p)
    BY <2>1, AppendIs
  <2> QED
    BY <2>2
<1>10. Len(AsPayments) < MaxTransfers
  BY <1>1, <1>2, LedgerAssumption
<1> QED
  BY <1>9, <1>10

(* What Payments asks of a payment that is added.                          *)
LEMMA PaymentAdmitted ==
  ASSUME FundsInv, BalanceFollows, NEW row \in Transfer, NewRow(NextId, row),
         \A t \in DOMAIN transfers : PaymentOf(transfers'[t]) = PaymentOf(transfers[t]),
         row.debit \in Customer => row.amount <= Available(row.debit),
         row.status \in Awaiting \cup Settled
  PROVE  Abstract!Add(row.debit, row.credit, row.amount, row.reverses,
                      IF row.status \in Awaiting THEN "reserved" ELSE "settled")
<1>1. AsPayments' = Append(AsPayments, PaymentOf(row)) /\ Len(AsPayments) < MaxTransfers
  BY PaymentAdded DEF FundsInv
<1>2. PaymentOf(row) = [from |-> row.debit, to |-> row.credit, amount |-> row.amount,
                        refunds |-> row.reverses,
                        state |-> IF row.status \in Awaiting THEN "reserved" ELSE "settled"]
  BY DEF PaymentOf, Awaiting, Settled
<1>3. Abstract!CanSpend(row.debit, row.amount)
  <2> SUFFICES ASSUME row.debit \in Customer
               PROVE  Abstract!Owns(row.debit) - Abstract!Promised(row.debit) >= row.amount
    BY DEF Abstract!CanSpend
  <2>1. row.debit \in Account /\ row.amount \in Int
    BY LedgerAssumption DEF Transfer, Amount
  <2>2. Abstract!Owns(row.debit) - Abstract!Promised(row.debit) = Available(row.debit)
    BY <2>1, FundsAgree
  <2>3. Available(row.debit) \in Int
    <3>1. Reserved(row.debit) \in Nat /\ balance_minor[row.debit] \in Int
      BY <2>1, ReservedType DEF FundsInv, TypeOK
    <3> QED
      BY <3>1 DEF Available
  <2> QED
    BY <2>1, <2>2, <2>3
<1> QED
  BY <1>1, <1>2, <1>3, Zenon DEF Abstract!Add

(* Closing rows withdraws their payments.                                  *)
LEMMA ClosesWithdraws ==
  ASSUME TypeOK, Closes
  PROVE  Abstract!Withdraw
<1> DEFINE P == {t \in DOMAIN transfers : transfers'[t] # transfers[t]}
<1> PICK f : f = AsPayments'
  OBVIOUS
<1>1. /\ DOMAIN AsPayments = DOMAIN transfers
      /\ \A t \in DOMAIN transfers : AsPayments[t] = PaymentOf(transfers[t])
  BY PaymentsType
<1>2. f = [t \in DOMAIN transfers |-> PaymentOf(transfers'[t])]
  <2>1. DOMAIN transfers' = DOMAIN transfers
    BY DEF Closes
  <2> QED
    BY <2>1, PaymentsByRow, Zenon
<1>3. P \in SUBSET Abstract!In("reserved")
  <2>1. \A t \in P : t \in DOMAIN transfers /\ transfers[t].status \in Awaiting
    BY DEF Closes
  <2> QED
    BY <1>1, <2>1, PaymentFields DEF Abstract!In
<1>4. ASSUME NEW t \in P
      PROVE  PaymentOf(transfers'[t]) = [AsPayments[t] EXCEPT !.state = "void"]
  <2>1. /\ t \in DOMAIN transfers /\ transfers'[t].status \in {"canceled", "failed"}
        /\ transfers'[t] = [transfers[t] EXCEPT !.status = transfers'[t].status,
                                                !.hold = transfers'[t].hold]
    BY <1>4 DEF Closes
  <2>2. transfers[t] \in Transfer
    BY <2>1, RowType
  <2>3. /\ transfers'[t].debit = transfers[t].debit /\ transfers'[t].credit = transfers[t].credit
        /\ transfers'[t].amount = transfers[t].amount
        /\ transfers'[t].reverses = transfers[t].reverses
    BY <2>1, <2>2 DEF Transfer
  <2>4. PaymentOf(transfers'[t]) =
          [from |-> transfers[t].debit, to |-> transfers[t].credit,
           amount |-> transfers[t].amount, refunds |-> transfers[t].reverses, state |-> "void"]
    BY <2>1, <2>3 DEF PaymentOf, Awaiting, Settled
  <2>5. AsPayments[t] = PaymentOf(transfers[t])
    BY <1>1, <2>1
  <2> QED
    BY <2>4, <2>5 DEF PaymentOf
<1>5. \A t \in DOMAIN transfers \ P : PaymentOf(transfers'[t]) = AsPayments[t]
  BY <1>1
<1> HIDE DEF P
<1>6. f = [p \in DOMAIN AsPayments |->
             IF p \in P THEN [AsPayments[p] EXCEPT !.state = "void"] ELSE AsPayments[p]]
  BY <1>1, <1>2, <1>4, <1>5
<1> QED
  BY <1>3, <1>6 DEF Abstract!Withdraw

(* Posting a row settles its payment.                                      *)
LEMMA PostsSettles ==
  ASSUME TypeOK, NEW t, Posts(t)
  PROVE  Abstract!Settle
<1> PICK f : f = AsPayments'
  OBVIOUS
<1>1. /\ DOMAIN AsPayments = DOMAIN transfers
      /\ \A s \in DOMAIN transfers : AsPayments[s] = PaymentOf(transfers[s])
      /\ t \in DOMAIN transfers /\ transfers[t] \in Transfer
  BY PaymentsType, RowType DEF Posts
<1>2. f = [s \in DOMAIN transfers |-> PaymentOf(transfers'[s])]
  <2>1. DOMAIN transfers' = DOMAIN transfers
    BY DEF Posts
  <2> QED
    BY <2>1, PaymentsByRow, Zenon
<1>3. t \in Abstract!In("reserved")
  BY <1>1, PaymentFields DEF Abstract!In, Posts
<1>4. PaymentOf(transfers'[t]) = [AsPayments[t] EXCEPT !.state = "settled"]
  <2>1. /\ transfers'[t].status = "posted"
        /\ transfers'[t] = [transfers[t] EXCEPT !.status = "posted", !.hold = transfers'[t].hold]
    BY DEF Posts
  <2>2. /\ transfers'[t].debit = transfers[t].debit /\ transfers'[t].credit = transfers[t].credit
        /\ transfers'[t].amount = transfers[t].amount
        /\ transfers'[t].reverses = transfers[t].reverses
    BY <1>1, <2>1 DEF Transfer
  <2>3. PaymentOf(transfers'[t]) =
          [from |-> transfers[t].debit, to |-> transfers[t].credit,
           amount |-> transfers[t].amount, refunds |-> transfers[t].reverses, state |-> "settled"]
    BY <2>1, <2>2 DEF PaymentOf, Awaiting, Settled
  <2>4. AsPayments[t] = PaymentOf(transfers[t])
    BY <1>1
  <2> QED
    BY <2>3, <2>4 DEF PaymentOf
<1>5. \A s \in DOMAIN transfers \ {t} : PaymentOf(transfers'[s]) = AsPayments[s]
  BY <1>1 DEF Posts
<1>6. f = [AsPayments EXCEPT ![t].state = "settled"]
  <2>1. AsPayments = [s \in DOMAIN transfers |-> AsPayments[s]]
    BY <1>1, PaymentsByRow
  <2> QED
    BY <1>1, <1>2, <1>4, <1>5, <2>1
<1> QED
  BY <1>3, <1>6 DEF Abstract!Settle

(* A new row that waits or posts is a payment.                             *)
LEMMA NewPays ==
  ASSUME FundsInv, BalanceFollows, NEW row \in Transfer, Waits(row) \/ PostsNew(row)
  PROVE  Abstract!Pay
<1>1. /\ NewRow(NextId, row) /\ row.reverses = 0
      /\ row.debit \in Customer => row.amount <= Available(row.debit)
      /\ row.status \in Awaiting \cup Settled
      /\ \A t \in DOMAIN transfers : transfers'[t] = transfers[t]
  BY DEF Waits, PostsNew, Settled
<1>2. /\ row.debit \in Account /\ row.credit \in Account /\ row.amount \in Amount
      /\ row.debit # row.credit
  BY DEF Transfer
<1>3. Abstract!Account = Account /\ Abstract!Amount = Amount
  BY DEF Account, Amount, Abstract!Account, Abstract!Amount
<1> PICK st \in {"reserved", "settled"} :
      st = IF row.status \in Awaiting THEN "reserved" ELSE "settled"
  OBVIOUS
<1>4. Abstract!Add(row.debit, row.credit, row.amount, 0, st)
  BY <1>1, PaymentAdmitted
<1> QED
  BY <1>2, <1>3, <1>4 DEF Abstract!Pay

(* A reversal refunds a settled payment that nobody refunded before, from  *)
(* money that is not promised.                                             *)
LEMMA ReversesRefunds ==
  ASSUME FundsInv, BalanceFollows, ReversedInv, NEW t, NEW row \in Transfer, Reverses(t, row)
  PROVE  Abstract!Refund
<1>1. /\ TypeOK /\ t \in DOMAIN transfers /\ transfers[t] \in Transfer
      /\ transfers[t].status = "posted" /\ NewRow(NextId, row) /\ row.status = "posted"
      /\ row.reverses = t /\ row.debit = transfers[t].credit /\ row.credit = transfers[t].debit
      /\ row.amount = transfers[t].amount
  BY RowType DEF FundsInv, Reverses
<1>2. /\ DOMAIN AsPayments = DOMAIN transfers
      /\ \A s \in DOMAIN transfers : AsPayments[s] = PaymentOf(transfers[s])
  BY <1>1, PaymentsType
<1>3. t \in Abstract!In("settled")
  BY <1>1, <1>2, PaymentFields DEF Abstract!In, Settled
<1>4. \A q \in DOMAIN AsPayments : AsPayments[q].refunds # t
  <2>1. Reversals(t) = {}
    BY <1>1, ReversedByRow DEF ReversedInv, ReversedAt
  <2> QED
    BY <1>2, <2>1, PaymentFields DEF Reversals
<1>5. ASSUME NEW s \in DOMAIN transfers
      PROVE  PaymentOf(transfers'[s]) = PaymentOf(transfers[s])
  <2>1. CASE s = t
    <3>1. transfers'[t] = [transfers[t] EXCEPT !.status = "reversed"]
      BY DEF Reverses
    <3>2. /\ transfers'[t].debit = transfers[t].debit /\ transfers'[t].credit = transfers[t].credit
          /\ transfers'[t].amount = transfers[t].amount
          /\ transfers'[t].reverses = transfers[t].reverses
          /\ transfers'[t].status = "reversed"
      BY <1>1, <3>1 DEF Transfer
    <3> QED
      BY <1>1, <2>1, <3>2 DEF PaymentOf, Settled, Awaiting
  <2>2. CASE s # t
    BY <2>2 DEF Reverses
  <2> QED
    BY <2>1, <2>2
<1>6. row.debit \in Customer => row.amount <= Available(row.debit)
  <2> SUFFICES ASSUME row.debit \in Customer
               PROVE  row.amount <= Available(row.debit)
    OBVIOUS
  <2>1. row.debit \in Account
    BY DEF Transfer
  <2>2. held_minor[row.debit] = Reserved(row.debit)
    BY <2>1, HeldByAccount DEF FundsInv
  <2> QED
    BY <2>2 DEF Reverses, Available
<1>7. "posted" \in Awaiting \cup Settled /\ "posted" \notin Awaiting
  BY DEF Awaiting, Settled
<1>8. Abstract!Add(row.debit, row.credit, row.amount, t, "settled")
  <2>1. Abstract!Add(row.debit, row.credit, row.amount, row.reverses,
                     IF row.status \in Awaiting THEN "reserved" ELSE "settled")
    BY <1>1, <1>5, <1>6, <1>7, PaymentAdmitted
  <2> QED
    BY <1>1, <1>7, <2>1
<1>9. Abstract!Add(AsPayments[t].to, AsPayments[t].from, AsPayments[t].amount, t, "settled")
  BY <1>1, <1>2, <1>8, PaymentFields
<1> QED
  BY <1>3, <1>4, <1>9 DEF Abstract!Refund

LEMMA PaymentsNext ==
  ASSUME FundsInv, BalanceFollows, ReversedInv, [Next]_vars
  PROVE  Abstract!Next
<1>0. BookStep /\ TypeOK
  BY BooksNext DEF FundsInv
<1>1. CASE Closes
  BY <1>0, <1>1, ClosesWithdraws DEF Abstract!Next
<1>2. CASE \E row \in Transfer : Waits(row) \/ PostsNew(row)
  BY <1>2, NewPays DEF Abstract!Next
<1>3. CASE \E t \in DOMAIN transfers : Posts(t)
  BY <1>0, <1>3, PostsSettles DEF Abstract!Next
<1>4. CASE \E t \in DOMAIN transfers, row \in Transfer : Reverses(t, row)
  BY <1>4, ReversesRefunds DEF Abstract!Next
<1> QED
  BY <1>0, <1>1, <1>2, <1>3, <1>4 DEF BookStep

(* The ledger implements Payments: every function does to the table of     *)
(* payments what Payments allows, so customers promise only what they own, *)
(* payments settle or become void once, and are refunded at most once.     *)
THEOREM LedgerImplementsPayments == Spec => ImplementsPayments
<1>1. Init => Abstract!Init
  BY DEF Init, AsPayments, Abstract!Init
<1>2. FundsInv /\ BalanceFollows /\ ReversedInv /\ [Next]_vars => [Abstract!Next]_AsPayments
  BY PaymentsNext
<1> QED
  BY <1>1, <1>2, FundsCorrect, FollowsAlways, ReversedAlways, PTL
     DEF Spec, ImplementsPayments, Abstract!Spec

-----------------------------------------------------------------------------
(* Funds are freed.                                                        *)

(* Fairness, with what it takes for the two actions to be enabled written  *)
(* out: holds are not overdue for ever without a sweep that does something,*)
(* and the window of a hold that is kept ends.  The code promises the first*)
(* of sweeps that nothing blocks only (Maintenance, BackOfficeProofs).     *)
SweepsGoOn == []<>(lapsed = {}) \/ []<><<RunMaintenance>>_vars

StillHeld(t) == t \in DOMAIN transfers /\ transfers[t].hold = "active"
IsFree(t)    == t \in DOMAIN transfers /\ transfers[t].hold # "active"

WindowEnds(t) == []<>~(StillHeld(t) /\ t \notin lapsed) \/ []<><<window_lapses(t)>>_vars

(* The sweep ends a hold that is overdue.                                  *)
LEMMA SweepFrees ==
  ASSUME TypeOK, RunMaintenance, NEW t \in lapsed
  PROVE  IsFree(t)'
<1>1. transfers' = [s \in DOMAIN transfers |->
                      IF s \in lapsed
                      THEN [transfers[s] EXCEPT !.hold = "expired", !.status = SweptStatus(@)]
                      ELSE transfers[s]]
  BY Zenon DEF RunMaintenance, expire_holds, Expire, Overdue
<1>2. t \in DOMAIN transfers /\ transfers[t] \in Transfer
  BY RowType DEF TypeOK
<1>3. t \in DOMAIN transfers' /\ transfers'[t].hold = "expired"
  BY <1>1, <1>2 DEF Transfer
<1> QED
  BY <1>3 DEF IsFree

(* A hold stays overdue until it ends.                                     *)
LEMMA OverdueUntilFree ==
  ASSUME TypeOK, [Next]_vars, NEW t \in lapsed
  PROVE  t \in lapsed' \/ IsFree(t)'
<1>0. t \in DOMAIN transfers
  BY DEF TypeOK
<1>1. ASSUME NEW s \in DOMAIN transfers, NEW st, NEW h, h # "active", CloseHold(s, st, h)
      PROVE  t \in lapsed' \/ IsFree(t)'
  <2>1. CASE t = s
    <3>1. t \in DOMAIN transfers' /\ transfers'[t].hold # "active"
      BY <1>0, <1>1, <2>1, RowType DEF CloseHold, TypeOK, Transfer
    <3> QED
      BY <3>1 DEF IsFree
  <2>2. CASE t # s
    BY <1>1, <2>2 DEF CloseHold
  <2> QED
    BY <2>1, <2>2
<1>2. CASE Submit
  BY <1>0, <1>2, SubmitAdmits DEF Admit, Record
<1>3. CASE Resolve
  BY <1>1, <1>3 DEF Resolve, post_transfer, Post, cancel_transfer, client_cancel_transfer,
                    client_confirm_transfer
<1>4. CASE Reverse
  BY <1>4 DEF Reverse, reverse_transfer, Refund, reverse_again
<1>5. CASE RunMaintenance
  BY <1>5, SweepFrees
<1>6. CASE Administer
  BY <1>6 DEF Administer, set_account_status, update_transfer_limit
<1>7. CASE \E s \in DOMAIN transfers : window_lapses(s)
  BY <1>7 DEF window_lapses
<1>8. CASE UNCHANGED vars
  BY <1>8 DEF vars
<1> QED
  BY <1>2, <1>3, <1>4, <1>5, <1>6, <1>7, <1>8 DEF Next

(* A row is held or free, and once free it stays free.                     *)
LEMMA FreeStays ==
  ASSUME FundsInv, FundsInv', [Next]_vars, NEW t \in DOMAIN transfers
  PROVE  /\ StillHeld(t)' \/ IsFree(t)'
         /\ IsFree(t) => IsFree(t)'
<1> DEFINE old == transfers[t]
           new == transfers'[t]
<1>1. /\ t \in DOMAIN transfers'
      /\ new.status \in {old.status} \cup LifeCycle[old.status]
  BY HistoryNext DEF RowsStand
<1>2. old.status \in TransferStatus
  BY RowType DEF FundsInv, Transfer
<1>3. old.status \notin Awaiting => new.status \notin Awaiting
  BY <1>1, <1>2 DEF LifeCycle, TransferStatus, Awaiting
<1>4. /\ old.hold = "active" <=> old.status \in Awaiting
      /\ new.hold = "active" <=> new.status \in Awaiting
  BY <1>1 DEF FundsInv, HoldMatchesStatus
<1> QED
  BY <1>1, <1>3, <1>4 DEF StillHeld, IsFree

(* A hold that never ended would be overdue for ever once it is, so that a *)
(* sweep would come and end it; and it becomes overdue, since its window   *)
(* ends.                                                                   *)
LEMMA EachHoldEnds ==
  ASSUME NEW t \in 1..MaxTransfers
  PROVE  Spec /\ SweepsGoOn /\ WindowEnds(t) => (t \in DOMAIN transfers ~> IsFree(t))
<1>1. FundsInv => (t \in DOMAIN transfers <=> StillHeld(t) \/ IsFree(t))
  BY DEF StillHeld, IsFree
<1>2. FundsInv /\ FundsInv' /\ [Next]_vars /\ t \in DOMAIN transfers
        => (StillHeld(t)' \/ IsFree(t)') /\ (IsFree(t) => IsFree(t)')
  BY FreeStays
<1>3. FundsInv /\ [Next]_vars /\ t \in lapsed => (t \in lapsed)' \/ IsFree(t)'
  BY OverdueUntilFree DEF FundsInv
<1>4. FundsInv /\ [Next]_vars /\ t \in lapsed /\ <<RunMaintenance>>_vars => IsFree(t)'
  BY SweepFrees DEF FundsInv
<1>5. <<window_lapses(t)>>_vars => (t \in lapsed)'
  BY DEF window_lapses
<1>6. (t \in lapsed => ~(lapsed = {})) /\ (t \notin lapsed <=> ~(t \in lapsed))
  OBVIOUS
<1> QED
  BY <1>1, <1>2, <1>3, <1>4, <1>5, <1>6, FundsCorrect, PTL DEF Spec, SweepsGoOn, WindowEnds

(* Reserved money is never stuck, whatever customers and operators do or   *)
(* leave undone, as long as the clock runs and the ticker sweeps: every    *)
(* transfer comes to a state in which nothing is reserved for it.          *)
THEOREM SweptFundsAreFreed ==
  Spec /\ SweepsGoOn /\ (\A t \in 1..MaxTransfers : WindowEnds(t)) => FundsFreed
<1>1. ASSUME NEW t \in 1..MaxTransfers
      PROVE  Spec /\ SweepsGoOn /\ WindowEnds(t) => (t \in DOMAIN transfers ~> IsFree(t))
  BY <1>1, EachHoldEnds
<1> QED
  BY <1>1 DEF FundsFreed, IsFree

=============================================================================
