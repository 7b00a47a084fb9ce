-------------------------- MODULE LedgerLocksProofs --------------------------
(***************************************************************************)
(* What is proved of LedgerLocks, for any number of connections, replicas, *)
(* accounts and keys: what a call has checked under its row locks still    *)
(* holds when it commits, so that every interleaving of calls is a         *)
(* behaviour of Ledger, and the calls that serve requests never wait for   *)
(* each other in a circle; and when the statement of an account, which     *)
(* Statements lists by the time its calls began, is a running balance.     *)
(***************************************************************************)
EXTENDS Statements, LedgerProofs, WellFoundedInduction

-----------------------------------------------------------------------------
(* The calls.                                                              *)

Ends == {"pending", "posted", "held", "under_review"}

(* Operators request, deposit and withdraw under their own keys; customers *)
(* pay out of their accounts under theirs.                                 *)
RequestCall ==
  {c \in [fn: {"request"}, key: Key, debit: Account, credit: Account, amount: Amount,
          ends: Ends] :
     \/ c.key[1] = Sentinel /\ c.ends = "pending"
     \/ c.key[1] = Sentinel /\ c.ends = "posted" /\ {c.debit, c.credit} \cap System # {}
     \/ c.debit \in Customer /\ c.key[1] = Owner[c.debit] /\ c.ends # "pending"}
PostCall    == [fn: {"post"}, transfer: 1..MaxTransfers, from: {{"pending"}, {"under_review"}}]
CancelCall  == [fn: {"cancel"}, transfer: 1..MaxTransfers]
ReverseCall == [fn: {"reverse"}, transfer: 1..MaxTransfers, key: {Sentinel} \X KeyName]
SweepCall   == [fn: {"sweep"}, late: Seq(1..MaxTransfers)]

ApiCall == RequestCall \cup PostCall \cup CancelCall \cup ReverseCall

LEMMA CallKinds ==
  ASSUME NEW c
  PROVE  /\ c \in RequestCall => /\ c.fn = "request" /\ c.key \in Key /\ c.debit \in Account
                                 /\ c.credit \in Account /\ c.amount \in Amount
                                 /\ c.ends \in Ends
         /\ c \in PostCall => /\ c.fn = "post" /\ c.transfer \in 1..MaxTransfers
                              /\ c.from \in {{"pending"}, {"under_review"}}
         /\ c \in CancelCall => c.fn = "cancel" /\ c.transfer \in 1..MaxTransfers
         /\ c \in ReverseCall => /\ c.fn = "reverse" /\ c.transfer \in 1..MaxTransfers
                                 /\ c.key = <<Sentinel, c.key[2]>> /\ c.key[2] \in KeyName
                                 /\ c.key \in Key
         /\ c \in SweepCall => c.fn = "sweep" /\ c.late \in Seq(1..MaxTransfers)
         /\ Idle.fn = "idle"
BY DEF RequestCall, PostCall, CancelCall, ReverseCall, SweepCall, Idle, Key, Caller

-----------------------------------------------------------------------------
(* The rows of each call, in their order.                                  *)
LEMMA RowsDiffer ==
  ASSUME NEW k, NEW t, NEW s, NEW a, NEW b
  PROVE  /\ key_row(k) # transfer_row(t) /\ key_row(k) # hold_row(t) /\ key_row(k) # account_row(a)
         /\ transfer_row(t) # hold_row(s) /\ transfer_row(t) # account_row(a)
         /\ hold_row(t) # account_row(a)
         /\ key_row(k) = key_row(s) => k = s
         /\ transfer_row(t) = transfer_row(s) => t = s
         /\ hold_row(t) = hold_row(s) => t = s
         /\ account_row(a) = account_row(b) => a = b
BY DEF key_row, transfer_row, hold_row, account_row

LEMMA OneAndTwo ==
  ASSUME NEW S, NEW x \in S, NEW y \in S, NEW z \in S
  PROVE  /\ <<x>> \o <<y, z>> \in Seq(S) /\ Len(<<x>> \o <<y, z>>) = 3
         /\ (<<x>> \o <<y, z>>)[1] = x /\ (<<x>> \o <<y, z>>)[2] = y
         /\ (<<x>> \o <<y, z>>)[3] = z
<1>1. <<x>> \in Seq(S) /\ <<y, z>> \in Seq(S) /\ Len(<<x>>) = 1 /\ Len(<<y, z>>) = 2
  OBVIOUS
<1>2. <<x>>[1] = x /\ <<y, z>>[1] = y /\ <<y, z>>[2] = z
  OBVIOUS
<1> QED
  BY <1>1, <1>2, ConcatProperties

(* What a concatenation u of s and t is made of.                           *)
Concatenates(u, s, t) ==
  /\ Len(u) = Len(s) + Len(t)
  /\ \A i \in 1..Len(s) : u[i] = s[i]
  /\ \A i \in 1..Len(t) : u[Len(s) + i] = t[i]

LEMMA Joined ==
  ASSUME NEW S, NEW s \in Seq(S), NEW t \in Seq(S)
  PROVE  s \o t \in Seq(S) /\ Concatenates(s \o t, s, t)
BY DEF Concatenates

LEMMA ThreeAndOne ==
  ASSUME NEW S, NEW r \in Seq(S), Len(r) = 3, NEW w \in S
  PROVE  /\ r \o <<w>> \in Seq(S) /\ Len(r \o <<w>>) = 4
         /\ (r \o <<w>>)[1] = r[1] /\ (r \o <<w>>)[2] = r[2]
         /\ (r \o <<w>>)[3] = r[3] /\ (r \o <<w>>)[4] = w
<1> DEFINE v == <<w>>
<1>1. v \in Seq(S) /\ Len(v) = 1 /\ v[1] = w
  OBVIOUS
<1> HIDE DEF v
<1> DEFINE rv == r \o v
<1>2. rv \in Seq(S) /\ Concatenates(rv, r, v)
  BY <1>1, Joined, Zenon
<1> HIDE DEF rv
<1>3. Len(rv) = 4 /\ rv[1] = r[1] /\ rv[2] = r[2] /\ rv[3] = r[3] /\ rv[4] = w
  <2>1. 1 \in 1..Len(v) /\ Len(r) + 1 = 4
    BY <1>1
  <2> QED
    BY <1>1, <1>2, <2>1 DEF Concatenates
<1> QED
  BY <1>2, <1>3 DEF rv, v

LEMMA TwoAndTwo ==
  ASSUME NEW S, NEW x \in S, NEW y \in S, NEW z \in S, NEW w \in S
  PROVE  /\ Len(<<x, y>> \o <<z, w>>) = 4
         /\ (<<x, y>> \o <<z, w>>)[1] = x /\ (<<x, y>> \o <<z, w>>)[2] = y
         /\ (<<x, y>> \o <<z, w>>)[3] = z /\ (<<x, y>> \o <<z, w>>)[4] = w
<1>1. <<x, y>> \in Seq(S) /\ <<z, w>> \in Seq(S) /\ Len(<<x, y>>) = 2 /\ Len(<<z, w>>) = 2
  OBVIOUS
<1>2. <<x, y>>[1] = x /\ <<x, y>>[2] = y /\ <<z, w>>[1] = z /\ <<z, w>>[2] = w
  OBVIOUS
<1> QED
  BY <1>1, <1>2, ConcatProperties

(* Both accounts, lo before hi.                                            *)
InOrder(d, e, lo, hi) ==
  /\ BothAccounts(d, e) = <<account_row(lo), account_row(hi)>>
  /\ {lo, hi} = {d, e}
  /\ d \in Account /\ e \in Account => AccountId[lo] <= AccountId[hi]

LEMMA BothOrdered == ASSUME NEW d, NEW e PROVE \E lo, hi : InOrder(d, e, lo, hi)
<1>1. d \in Account /\ e \in Account => AccountId[d] \in Nat /\ AccountId[e] \in Nat
  BY LocksAssumption
<1>2. InOrder(d, e, d, e) \/ InOrder(d, e, e, d)
  BY <1>1 DEF InOrder, BothAccounts
<1> QED
  BY <1>2

LEMMA RequestRows ==
  ASSUME NEW c, c.fn = "request"
  PROVE  /\ Len(Locks(c)) = 3 /\ Locks(c)[1] = key_row(c.key)
         /\ \E lo, hi : /\ InOrder(c.debit, c.credit, lo, hi)
                        /\ Locks(c)[2] = account_row(lo) /\ Locks(c)[3] = account_row(hi)
<1>1. PICK lo, hi : InOrder(c.debit, c.credit, lo, hi)
  BY BothOrdered
<1>2. Locks(c) = <<key_row(c.key)>> \o <<account_row(lo), account_row(hi)>>
  BY <1>1 DEF Locks, RequestLocks, InOrder
<1> DEFINE S == {key_row(c.key), account_row(lo), account_row(hi)}
<1>3. key_row(c.key) \in S /\ account_row(lo) \in S /\ account_row(hi) \in S
  OBVIOUS
<1> HIDE DEF S
<1>4. /\ Len(Locks(c)) = 3 /\ Locks(c)[1] = key_row(c.key)
      /\ Locks(c)[2] = account_row(lo) /\ Locks(c)[3] = account_row(hi)
  BY <1>2, <1>3, OneAndTwo
<1> QED
  BY <1>1, <1>4

LEMMA PostRows ==
  ASSUME NEW c, c.fn = "post"
  PROVE  LET t == c.transfer
         IN  /\ Len(Locks(c)) = 4 /\ Locks(c)[1] = transfer_row(t) /\ Locks(c)[4] = hold_row(t)
             /\ \E lo, hi : /\ InOrder(transfers[t].debit, transfers[t].credit, lo, hi)
                            /\ Locks(c)[2] = account_row(lo) /\ Locks(c)[3] = account_row(hi)
<1> DEFINE t == c.transfer
<1>1. PICK lo, hi : InOrder(transfers[t].debit, transfers[t].credit, lo, hi)
  BY BothOrdered
<1> DEFINE r == <<transfer_row(t)>> \o <<account_row(lo), account_row(hi)>>
           S == {transfer_row(t), account_row(lo), account_row(hi), hold_row(t)}
<1>2. Locks(c) = r \o <<hold_row(t)>>
  BY <1>1 DEF Locks, PostLocks, InOrder
<1>3. /\ transfer_row(t) \in S /\ account_row(lo) \in S /\ account_row(hi) \in S
      /\ hold_row(t) \in S
  OBVIOUS
<1> HIDE DEF S
<1>4. /\ r \in Seq(S) /\ Len(r) = 3 /\ r[1] = transfer_row(t)
      /\ r[2] = account_row(lo) /\ r[3] = account_row(hi)
  BY <1>3, OneAndTwo
<1> HIDE DEF r
<1>5. /\ Len(Locks(c)) = 4 /\ Locks(c)[1] = transfer_row(t) /\ Locks(c)[4] = hold_row(t)
      /\ Locks(c)[2] = account_row(lo) /\ Locks(c)[3] = account_row(hi)
  BY <1>2, <1>3, <1>4, ThreeAndOne
<1> QED
  BY <1>1, <1>5

LEMMA CancelRows ==
  ASSUME NEW c, c.fn = "cancel"
  PROVE  /\ Len(Locks(c)) = 3 /\ Locks(c)[1] = transfer_row(c.transfer)
         /\ Locks(c)[2] = hold_row(c.transfer)
         /\ Locks(c)[3] = account_row(transfers[c.transfer].debit)
BY DEF Locks, CancelLocks

LEMMA ReverseRows ==
  ASSUME NEW c, c.fn = "reverse"
  PROVE  LET t == c.transfer
         IN  /\ Locks(c)[1] = key_row(c.key) /\ Locks(c)[2] = transfer_row(t)
             /\ IF transfers[t].status = "reversed" THEN Len(Locks(c)) = 2
                ELSE /\ Len(Locks(c)) = 4
                     /\ \E lo, hi :
                          /\ InOrder(transfers[t].debit, transfers[t].credit, lo, hi)
                          /\ Locks(c)[3] = account_row(lo) /\ Locks(c)[4] = account_row(hi)
<1> DEFINE t == c.transfer
<1>1. CASE transfers[t].status = "reversed"
  <2> DEFINE S == {key_row(c.key), transfer_row(t)}
             r == <<key_row(c.key), transfer_row(t)>>
  <2>1. Locks(c) = r \o <<>>
    BY <1>1 DEF Locks, ReverseLocks
  <2>2. r \in Seq(S) /\ Len(r) = 2 /\ r[1] = key_row(c.key) /\ r[2] = transfer_row(t)
    OBVIOUS
  <2> HIDE DEF r, S
  <2>3. Locks(c) = r
    BY <2>1, <2>2, ConcatEmptySeq
  <2> QED
    BY <1>1, <2>2, <2>3
<1>2. CASE transfers[t].status # "reversed"
  <2>1. PICK lo, hi : InOrder(transfers[t].debit, transfers[t].credit, lo, hi)
    BY BothOrdered
  <2>2. Locks(c) = <<key_row(c.key), transfer_row(t)>> \o <<account_row(lo), account_row(hi)>>
    BY <1>2, <2>1 DEF Locks, ReverseLocks, InOrder
  <2> DEFINE S == {key_row(c.key), transfer_row(t), account_row(lo), account_row(hi)}
  <2>3. /\ key_row(c.key) \in S /\ transfer_row(t) \in S
        /\ account_row(lo) \in S /\ account_row(hi) \in S
    OBVIOUS
  <2> HIDE DEF S
  <2>4. /\ Len(Locks(c)) = 4 /\ Locks(c)[1] = key_row(c.key) /\ Locks(c)[2] = transfer_row(t)
        /\ Locks(c)[3] = account_row(lo) /\ Locks(c)[4] = account_row(hi)
    BY <2>2, <2>3, TwoAndTwo
  <2> QED
    BY <1>2, <2>1, <2>4
<1> QED
  BY <1>1, <1>2

(* The sweep: all holds, all transfers, all accounts.                      *)
LEMMA SweepRows ==
  ASSUME NEW c, c.fn = "sweep", NEW T, c.late \in Seq(T)
  PROVE  LET n == Len(c.late)
         IN  /\ n \in Nat /\ DOMAIN c.late = 1..n /\ Len(Locks(c)) = 3 * n
             /\ \A i \in 1..n : /\ Locks(c)[i] = hold_row(c.late[i])
                                /\ Locks(c)[n + i] = transfer_row(c.late[i])
                                /\ Locks(c)[n + n + i] = account_row(transfers[c.late[i]].debit)
<1> DEFINE n == Len(c.late)
           h == [i \in 1..n |-> hold_row(c.late[i])]
           t == [i \in 1..n |-> transfer_row(c.late[i])]
           a == [i \in 1..n |-> account_row(transfers[c.late[i]].debit)]
           S == {hold_row(c.late[i]) : i \in 1..n} \cup {transfer_row(c.late[i]) : i \in 1..n}
                  \cup {account_row(transfers[c.late[i]].debit) : i \in 1..n}
<1>1. n \in Nat /\ DOMAIN c.late = 1..n
  OBVIOUS
<1>2. Locks(c) = (h \o t) \o a
  BY <1>1 DEF Locks, SweepLocks
<1>3. h \in [1..n -> S] /\ t \in [1..n -> S] /\ a \in [1..n -> S]
  OBVIOUS
<1>4. /\ \A i \in 1..n : /\ h[i] = hold_row(c.late[i]) /\ t[i] = transfer_row(c.late[i])
                         /\ a[i] = account_row(transfers[c.late[i]].debit)
  OBVIOUS
<1> HIDE DEF n, h, t, a, S
<1>5. /\ h \in Seq(S) /\ t \in Seq(S) /\ a \in Seq(S)
      /\ Len(h) = n /\ Len(t) = n /\ Len(a) = n
  BY <1>1, <1>3
<1> DEFINE ht == h \o t
<1>6. ht \in Seq(S) /\ Concatenates(ht, h, t)
  BY <1>5, Joined, Zenon
<1> HIDE DEF ht
<1>7. /\ ht \in Seq(S) /\ Len(ht) = n + n
      /\ \A i \in 1..n : ht[i] = h[i]
      /\ \A i \in 1..n : ht[n + i] = t[i]
  BY <1>5, <1>6 DEF Concatenates
<1> DEFINE hta == ht \o a
<1>8. Concatenates(hta, ht, a)
  BY <1>5, <1>7, Joined, Zenon
<1> HIDE DEF hta
<1>9. /\ Len(hta) = n + n + n
      /\ \A i \in 1..n + n : hta[i] = ht[i]
      /\ \A i \in 1..n : hta[n + n + i] = a[i]
  BY <1>5, <1>7, <1>8 DEF Concatenates
<1>10. \A i \in 1..n : i \in 1..n + n /\ n + i \in 1..n + n
  BY <1>1
<1>11. Locks(c) = hta
  BY <1>2 DEF ht, hta
<1>12. n + n + n = 3 * n
  BY <1>1
<1> QED
  BY <1>1, <1>4, <1>7, <1>9, <1>11, <1>12, <1>10 DEF n

LEMMA IdleRows == Locks(Idle) = <<>> /\ Len(Locks(Idle)) = 0
BY DEF Locks, Idle

-----------------------------------------------------------------------------
(* The invariant: what a call checked under the locks that it has holds,   *)
(* and no row is locked twice.                                             *)

RequestChecked(c, n) ==
  /\ n >= 1 => idempotency_keys[c.key] = Unclaimed
  /\ n = 3  => MayRequest(c.debit, c.credit, c.amount)

PostChecked(c, n) ==
  /\ c.transfer \in DOMAIN transfers
  /\ n >= 1 => transfers[c.transfer].status \in c.from

CancelChecked(c, n) ==
  /\ c.transfer \in DOMAIN transfers
  /\ n >= 1 => transfers[c.transfer].status \in Awaiting

ReverseChecked(c, n) ==
  /\ c.transfer \in DOMAIN transfers
  /\ n >= 1 => idempotency_keys[c.key] = Unclaimed
  /\ n >= 2 => transfers[c.transfer].status \in Settled
  /\ n = 4 /\ transfers[c.transfer].status = "posted" => Clawable(c.transfer)

(* The holds that the sweep found are the overdue ones, but for those that *)
(* ended before it had their locks.                                        *)
SweepChecked(late, n) ==
  /\ \A i \in DOMAIN late : /\ late[i] \in DOMAIN transfers
                            /\ transfers[late[i]].hold = "active" => late[i] \in lapsed
  /\ \A i \in DOMAIN late : i <= n => transfers[late[i]].hold = "active"
  /\ \A t \in lapsed : \E i \in DOMAIN late : late[i] = t

Checked(c, n) ==
  /\ c.fn = "request" => RequestChecked(c, n)
  /\ c.fn = "post"    => PostChecked(c, n)
  /\ c.fn = "cancel"  => CancelChecked(c, n)
  /\ c.fn = "reverse" => ReverseChecked(c, n)
  /\ c.fn = "sweep"   => SweepChecked(c.late, n)

CallOf(b) == {Idle} \cup IF b \in Api THEN ApiCall ELSE SweepCall

Good(b, c, n) == c \in CallOf(b) /\ n \in 0..Len(Locks(c)) /\ Checked(c, n)

(* The rows of the first n locks of c.                                     *)
RowsOf(c, n) == {Locks(c)[i] : i \in 1..n}

Proper(b) == \A c, n : call[b] = c /\ locked[b] = n => Good(b, c, n)

Apart(b, o) ==
  \A c, n, e, m : call[b] = c /\ locked[b] = n /\ call[o] = e /\ locked[o] = m
                    => RowsOf(c, n) \cap RowsOf(e, m) = {}

LocksInv ==
  /\ FundsInv
  /\ DOMAIN call = Backend /\ DOMAIN locked = Backend
  /\ \A b \in Backend : Proper(b)
  /\ \A b, o \in Backend : b # o => Apart(b, o)

LEMMA KindsOfCall ==
  ASSUME NEW b, NEW c \in CallOf(b)
  PROVE  /\ c = Idle \/ c \in RequestCall \/ c \in PostCall \/ c \in CancelCall
           \/ c \in ReverseCall \/ c \in SweepCall
         /\ b \in Api => c.fn # "sweep"
         /\ c.fn = "idle" => c = Idle
         /\ c.fn = "request" => c \in RequestCall
         /\ c.fn = "post" => c \in PostCall
         /\ c.fn = "cancel" => c \in CancelCall
         /\ c.fn = "reverse" => c \in ReverseCall
         /\ c.fn = "sweep" => c \in SweepCall
BY CallKinds DEF CallOf, ApiCall

LEMMA LocksLength ==
  ASSUME NEW b, NEW c \in CallOf(b)
  PROVE  Len(Locks(c)) \in Nat
<1>1. CASE c \in SweepCall
  <2>1. c.fn = "sweep" /\ c.late \in Seq(1..MaxTransfers)
    BY <1>1, CallKinds
  <2>2. Len(c.late) \in Nat /\ Len(Locks(c)) = 3 * Len(c.late)
    BY <2>1, SweepRows
  <2> QED
    BY <2>2
<1>2. CASE c \notin SweepCall
  <2>1. CASE c = Idle
    BY <2>1, IdleRows
  <2>2. CASE c # Idle
    BY <1>2, <2>2, KindsOfCall, CallKinds, RequestRows, PostRows, CancelRows, ReverseRows
  <2> QED
    BY <2>1, <2>2
<1> QED
  BY <1>1, <1>2

-----------------------------------------------------------------------------
(* What a step of somebody else leaves a call.                             *)

(* A step that writes only the rows R.                                     *)
Only(R) ==
  /\ \A k \in Key : key_row(k) \notin R /\ idempotency_keys[k] = Unclaimed
                      => idempotency_keys'[k] = Unclaimed
  /\ \A t \in DOMAIN transfers :
       /\ transfer_row(t) \notin R => transfers'[t].status = transfers[t].status
       /\ hold_row(t) \notin R => transfers'[t].hold = transfers[t].hold
  /\ \A a \in Account : account_row(a) \notin R =>
       /\ balance_minor'[a] = balance_minor[a] /\ held_minor'[a] = held_minor[a]
       /\ account_status'[a] = account_status[a]
       /\ transfer_limit_minor'[a] = transfer_limit_minor[a]

(* And lets no more holds be overdue than there are.                       *)
Shrinks ==
  /\ lapsed' \subseteq lapsed
  /\ \A t \in lapsed \ lapsed' : transfers'[t].hold # "active"

(* What an account may spend stays while its columns do.                   *)
LEMMA FundsStay ==
  ASSUME FundsInv, FundsInv', NEW a \in Account,
         balance_minor'[a] = balance_minor[a], held_minor'[a] = held_minor[a]
  PROVE  Available(a)' = Available(a)
<1>1. held_minor[a] = Reserved(a) /\ held_minor'[a] = Reserved(a)'
  BY HeldByAccount DEF FundsInv
<1> QED
  BY <1>1 DEF Available

(* A hold that ended stays so.                                             *)
LEMMA HoldsEnd ==
  ASSUME FundsInv, FundsInv', [Next]_vars, NEW t \in DOMAIN transfers,
         transfers'[t].hold = "active"
  PROVE  transfers[t].hold = "active"
<1>1. /\ t \in DOMAIN transfers'
      /\ transfers'[t].status \in {transfers[t].status} \cup LifeCycle[transfers[t].status]
  BY HistoryNext DEF RowsStand
<1>2. transfers'[t].status \in Awaiting
  BY <1>1 DEF FundsInv, HoldMatchesStatus
<1>3. transfers[t].status \in TransferStatus
  BY RowType DEF FundsInv, Transfer
<1>4. transfers[t].status \in Awaiting
  <2> DEFINE old == transfers[t].status
             new == transfers'[t].status
  <2> HIDE DEF new
  <2>1. new \in {old} \cup LifeCycle[old] /\ new \in Awaiting
    BY <1>1, <1>2 DEF new
  <2> QED
    BY <1>3, <2>1 DEF LifeCycle, Awaiting, TransferStatus
<1> QED
  BY <1>4 DEF FundsInv, HoldMatchesStatus

(* A transfer's accounts never change, so neither do the rows of a call.   *)
LEMMA RowsStay ==
  ASSUME FundsInv, [Next]_vars, NEW b, NEW c \in CallOf(b), NEW n, Checked(c, n),
         c.fn = "reverse" => transfers'[c.transfer].status = transfers[c.transfer].status
  PROVE  Locks(c)' = Locks(c)
<1>1. \A t \in DOMAIN transfers : /\ transfers'[t].debit = transfers[t].debit
                                  /\ transfers'[t].credit = transfers[t].credit
  BY RowsRemain
<1>2. CASE c = Idle
  BY <1>2 DEF Locks, Idle
<1>3. CASE c.fn = "request"
  BY <1>3 DEF Locks, RequestLocks
<1>4. CASE c.fn = "post"
  <2>1. c.transfer \in DOMAIN transfers
    BY <1>4 DEF Checked, PostChecked
  <2> QED
    BY <1>1, <1>4, <2>1 DEF Locks, PostLocks
<1>5. CASE c.fn = "cancel"
  <2>1. c.transfer \in DOMAIN transfers
    BY <1>5 DEF Checked, CancelChecked
  <2> QED
    BY <1>1, <1>5, <2>1 DEF Locks, CancelLocks
<1>6. CASE c.fn = "reverse"
  <2>1. c.transfer \in DOMAIN transfers
    BY <1>6 DEF Checked, ReverseChecked
  <2> QED
    BY <1>1, <1>6, <2>1 DEF Locks, ReverseLocks
<1>7. CASE c.fn = "sweep"
  <2>1. \A i \in DOMAIN c.late : c.late[i] \in DOMAIN transfers
    BY <1>7 DEF Checked, SweepChecked
  <2>2. [i \in DOMAIN c.late |-> account_row(transfers'[c.late[i]].debit)]
          = [i \in DOMAIN c.late |-> account_row(transfers[c.late[i]].debit)]
    BY <1>1, <2>1
  <2> QED
    BY <1>7, <2>2 DEF Locks, SweepLocks
<1> QED
  BY <1>2, <1>3, <1>4, <1>5, <1>6, <1>7, KindsOfCall, CallKinds

(* Somebody else's step, on other rows, leaves a call what it checked.     *)
LEMMA CallStands ==
  ASSUME FundsInv, FundsInv', [Next]_vars, NEW b, NEW c \in CallOf(b), NEW n \in Nat,
         n <= Len(Locks(c)), Checked(c, n), NEW R, Only(R),
         \A i \in 1..n : Locks(c)[i] \notin R, Shrinks \/ b \in Api
  PROVE  /\ Checked(c, n)'
         /\ Len(Locks(c))' \in Nat /\ n <= Len(Locks(c))'
         /\ \A i \in 1..n : Locks(c)'[i] = Locks(c)[i]
<1>1. CASE c = Idle
  <2>1. c.fn = "idle"
    BY <1>1, CallKinds
  <2> QED
    BY <1>1, <2>1, RowsStay, LocksLength DEF Checked
<1>2. CASE c \in RequestCall
  <2>1. /\ c.fn = "request" /\ c.key \in Key /\ c.debit \in Account /\ c.credit \in Account
        /\ c.amount \in Amount
    BY <1>2, CallKinds
  <2>2. Locks(c)' = Locks(c)
    BY <2>1, RowsStay
  <2>3. /\ Len(Locks(c)) = 3 /\ Locks(c)[1] = key_row(c.key)
        /\ \E lo, hi : /\ InOrder(c.debit, c.credit, lo, hi)
                       /\ Locks(c)[2] = account_row(lo) /\ Locks(c)[3] = account_row(hi)
    BY <2>1, RequestRows
  <2>4. ASSUME n >= 1 PROVE idempotency_keys'[c.key] = Unclaimed
    <3>1. key_row(c.key) \notin R
      BY <2>3, <2>4
    <3>2. idempotency_keys[c.key] = Unclaimed
      BY <2>1, <2>4 DEF Checked, RequestChecked
    <3> QED
      BY <2>1, <3>1, <3>2 DEF Only
  <2>5. ASSUME n = 3 PROVE MayRequest(c.debit, c.credit, c.amount)'
    <3>1. Locks(c)[2] \notin R /\ Locks(c)[3] \notin R
      BY <2>5
    <3>2. account_row(c.debit) \notin R /\ account_row(c.credit) \notin R
      BY <2>3, <3>1 DEF InOrder
    <3>3. Available(c.debit)' = Available(c.debit)
      BY <2>1, <3>2, FundsStay DEF Only
    <3>4. MayRequest(c.debit, c.credit, c.amount)
      BY <2>1, <2>5 DEF Checked, RequestChecked
    <3> QED
      BY <2>1, <3>2, <3>3, <3>4 DEF MayRequest, Only
  <2>6. RequestChecked(c, n)'
    BY <2>4, <2>5 DEF RequestChecked
  <2> QED
    BY <2>1, <2>2, <2>6, LocksLength DEF Checked
<1>3. CASE c \in PostCall
  <2>1. c.fn = "post"
    BY <1>3, CallKinds
  <2>2. Locks(c)' = Locks(c) /\ Locks(c)[1] = transfer_row(c.transfer)
    BY <2>1, RowsStay, PostRows
  <2>3. c.transfer \in DOMAIN transfers /\ c.transfer \in DOMAIN transfers'
    BY <2>1, RowsRemain DEF Checked, PostChecked
  <2>4. n >= 1 => transfers'[c.transfer].status = transfers[c.transfer].status
    BY <2>2, <2>3 DEF Only
  <2>5. PostChecked(c, n)'
    BY <2>1, <2>3, <2>4 DEF Checked, PostChecked
  <2> QED
    BY <2>1, <2>2, <2>5, LocksLength DEF Checked
<1>4. CASE c \in CancelCall
  <2>1. c.fn = "cancel"
    BY <1>4, CallKinds
  <2>2. Locks(c)' = Locks(c) /\ Locks(c)[1] = transfer_row(c.transfer)
    BY <2>1, RowsStay, CancelRows
  <2>3. c.transfer \in DOMAIN transfers /\ c.transfer \in DOMAIN transfers'
    BY <2>1, RowsRemain DEF Checked, CancelChecked
  <2>4. n >= 1 => transfers'[c.transfer].status = transfers[c.transfer].status
    BY <2>2, <2>3 DEF Only
  <2>5. CancelChecked(c, n)'
    BY <2>1, <2>3, <2>4 DEF Checked, CancelChecked
  <2> QED
    BY <2>1, <2>2, <2>5, LocksLength DEF Checked
<1>5. CASE c \in ReverseCall
  <2> DEFINE t == c.transfer
  <2>1. c.fn = "reverse" /\ c.key \in Key
    BY <1>5, CallKinds
  <2>2. ReverseChecked(c, n)
    BY <2>1 DEF Checked
  <2>3. /\ t \in DOMAIN transfers /\ t \in DOMAIN transfers' /\ transfers[t] \in Transfer
        /\ transfers'[t].credit = transfers[t].credit
        /\ transfers'[t].amount = transfers[t].amount
    BY <2>2, RowsRemain, RowType DEF ReverseChecked, FundsInv
  <2>4. /\ Locks(c)[1] = key_row(c.key) /\ Locks(c)[2] = transfer_row(t)
        /\ IF transfers[t].status = "reversed" THEN Len(Locks(c)) = 2
           ELSE /\ Len(Locks(c)) = 4
                /\ \E lo, hi : /\ InOrder(transfers[t].debit, transfers[t].credit, lo, hi)
                               /\ Locks(c)[3] = account_row(lo)
                               /\ Locks(c)[4] = account_row(hi)
    BY <2>1, ReverseRows
  <2>5. n >= 1 => idempotency_keys'[c.key] = Unclaimed
    <3>1. n >= 1 => key_row(c.key) \notin R /\ idempotency_keys[c.key] = Unclaimed
      BY <2>2, <2>4 DEF ReverseChecked
    <3> QED
      BY <2>1, <3>1 DEF Only
  <2>6. CASE n >= 2
    <3>1. transfers'[t].status = transfers[t].status
      BY <2>3, <2>4, <2>6 DEF Only
    <3>2. Locks(c)' = Locks(c)
      BY <2>1, <3>1, RowsStay
    <3>3. ASSUME n = 4, transfers[t].status = "posted" PROVE Clawable(t)'
      <4>1. \E lo, hi : /\ InOrder(transfers[t].debit, transfers[t].credit, lo, hi)
                        /\ Locks(c)[3] = account_row(lo) /\ Locks(c)[4] = account_row(hi)
        BY <2>4, <3>3
      <4>2. account_row(transfers[t].credit) \notin R
        BY <3>3, <4>1 DEF InOrder
      <4>3. Clawable(t)
        BY <2>2, <3>3 DEF ReverseChecked
      <4>4. transfers[t].credit \in Account
        BY <2>3 DEF Transfer
      <4> QED
        BY <2>3, <4>2, <4>3, <4>4 DEF Clawable, Reclaimable, Only
    <3>4. ReverseChecked(c, n)'
      BY <2>2, <2>3, <2>5, <3>1, <3>3 DEF ReverseChecked
    <3> QED
      BY <2>1, <3>2, <3>4, LocksLength DEF Checked
  <2>7. CASE n < 2
    <3>1. ReverseChecked(c, n)'
      BY <2>3, <2>5, <2>7 DEF ReverseChecked
    <3>2. Len(Locks(c))' \in Nat /\ Len(Locks(c))' >= 2 /\ Locks(c)'[1] = key_row(c.key)
      BY <2>1 DEF Locks, ReverseLocks
    <3> QED
      BY <2>1, <2>4, <2>7, <3>1, <3>2 DEF Checked
  <2> QED
    BY <2>6, <2>7
<1>6. CASE c \in SweepCall
  <2> DEFINE late == c.late
  <2>1. c.fn = "sweep" /\ late \in Seq(1..MaxTransfers) /\ Shrinks
    BY <1>6, CallKinds, KindsOfCall
  <2>2. SweepChecked(late, n)
    BY <2>1 DEF Checked
  <2>3. Locks(c)' = Locks(c)
    BY <2>1, RowsStay
  <2>4. \A i \in DOMAIN late : late[i] \in DOMAIN transfers /\ late[i] \in DOMAIN transfers'
    BY <2>2, RowsRemain DEF SweepChecked
  <2>5. \A i \in DOMAIN late : i <= n => transfers'[late[i]].hold = "active"
    <3> SUFFICES ASSUME NEW i \in DOMAIN late, i <= n
                 PROVE  transfers'[late[i]].hold = "active"
      OBVIOUS
    <3>1. i \in 1..Len(late) /\ Len(late) \in Nat
      BY <2>1
    <3>2. Locks(c)[i] = hold_row(late[i])
      BY <2>1, <3>1, SweepRows
    <3>3. hold_row(late[i]) \notin R
      BY <3>1, <3>2
    <3> QED
      BY <2>2, <2>4, <3>3 DEF SweepChecked, Only
  <2>6. \A i \in DOMAIN late : transfers'[late[i]].hold = "active" => late[i] \in lapsed'
    BY <2>1, <2>2, <2>4, HoldsEnd DEF SweepChecked, Shrinks
  <2>7. SweepChecked(late, n)'
    BY <2>1, <2>2, <2>4, <2>5, <2>6 DEF SweepChecked, Shrinks
  <2> QED
    BY <2>1, <2>3, <2>7, LocksLength DEF Checked
<1> QED
  BY <1>1, <1>2, <1>3, <1>4, <1>5, <1>6, KindsOfCall

-----------------------------------------------------------------------------
(* What a commit does, by the call that commits: one step of Ledger, which *)
(* writes no row but those that the call has locked.                       *)

CommitsWell(R) == Next /\ Only(R) /\ Shrinks

LEMMA RequestCommits ==
  ASSUME FundsInv, NEW c \in RequestCall, Checked(c, 3), Writes(c), NEW R,
         \A i \in 1..3 : Locks(c)[i] \in R
  PROVE  CommitsWell(R)
<1> DEFINE d == c.debit
           e == c.credit
           m == c.amount
           name == c.key[2]
<1>1. /\ c.fn = "request" /\ c.key \in Key /\ d \in Account /\ e \in Account /\ m \in Amount
      /\ c.ends \in Ends /\ name \in KeyName /\ c.key = <<c.key[1], name>>
  BY CallKinds DEF Key
<1>2. MayRequest(d, e, m)
  BY <1>1 DEF Checked, RequestChecked
<1>3. NextId <= MaxTransfers /\ Record(c.key, d, e, m, c.ends)
  BY <1>1 DEF Writes
<1>4. Admit(c.key, d, e, m, c.ends)
  BY <1>2, <1>3 DEF Admit
<1>5. Next
  <2>1. CASE c.key[1] = Sentinel /\ c.ends = "pending"
    <3>1. request_transfer(name, d, e, m)
      BY <1>1, <1>4, <2>1 DEF request_transfer
    <3> QED
      BY <1>1, <3>1 DEF Next, Submit
  <2>2. CASE c.key[1] = Sentinel /\ c.ends = "posted" /\ {d, e} \cap System # {}
    <3>1. deposit(name, d, e, m) /\ withdraw(name, d, e, m)
      BY <1>1, <1>4, <2>2 DEF deposit, withdraw
    <3>2. d \in System \/ e \in System
      BY <2>2
    <3> QED
      BY <1>1, <3>1, <3>2 DEF Next, Submit
  <2>3. CASE d \in Customer /\ c.key[1] = Owner[d] /\ c.ends # "pending"
    <3>1. client_transfer(Owner[d], name, d, e, m)
      BY <1>1, <1>4, <2>3 DEF client_transfer, Ends
    <3> QED
      BY <1>1, <2>3, <3>1 DEF Next, Submit
  <2> QED
    BY <2>1, <2>2, <2>3 DEF RequestCall
<1>6. /\ key_row(c.key) \in R /\ account_row(d) \in R /\ account_row(e) \in R
  <2>1. /\ Locks(c)[1] = key_row(c.key)
        /\ \E lo, hi : /\ InOrder(d, e, lo, hi)
                       /\ Locks(c)[2] = account_row(lo) /\ Locks(c)[3] = account_row(hi)
    BY <1>1, RequestRows
  <2>2. Locks(c)[1] \in R /\ Locks(c)[2] \in R /\ Locks(c)[3] \in R
    OBVIOUS
  <2> QED
    BY <2>1, <2>2 DEF InOrder
<1>7. \A k \in Key : key_row(k) \notin R => idempotency_keys'[k] = idempotency_keys[k]
  BY <1>3, <1>6 DEF Record, Claim, FundsInv, TypeOK
<1>8. \A t \in DOMAIN transfers : transfers'[t] = transfers[t]
  BY <1>3 DEF Record, FundsInv, TypeOK
<1>9. \A a \in Account : account_row(a) \notin R =>
        /\ balance_minor'[a] = balance_minor[a] /\ held_minor'[a] = held_minor[a]
        /\ account_status'[a] = account_status[a]
        /\ transfer_limit_minor'[a] = transfer_limit_minor[a]
  <2> SUFFICES ASSUME NEW a \in Account, a # d, a # e
               PROVE  /\ balance_minor'[a] = balance_minor[a]
                      /\ held_minor'[a] = held_minor[a]
                      /\ account_status'[a] = account_status[a]
                      /\ transfer_limit_minor'[a] = transfer_limit_minor[a]
    BY <1>6
  <2> QED
    BY <1>1, <1>3 DEF Record, WriteLegs, account_vars, money_vars, FundsInv, TypeOK
<1>10. Shrinks
  BY <1>3 DEF Record, Shrinks
<1> QED
  BY <1>5, <1>7, <1>8, <1>9, <1>10 DEF CommitsWell, Only

(* Closing the hold of transfer t touches that transfer, its hold and its  *)
(* debit account.                                                          *)
LEMMA CloseWrites ==
  ASSUME FundsInv, NEW t \in DOMAIN transfers, NEW st, NEW h, h # "active", CloseHold(t, st, h)
  PROVE  /\ \A s \in DOMAIN transfers : s # t => transfers'[s] = transfers[s]
         /\ \A a \in Account : a # transfers[t].debit => held_minor'[a] = held_minor[a]
         /\ Shrinks
<1>1. transfers \in Seq(Transfer) /\ transfers[t] \in Transfer
  BY RowType DEF FundsInv, TypeOK
<1>2. transfers'[t].hold # "active"
  BY <1>1 DEF CloseHold, Transfer
<1> QED
  BY <1>1, <1>2 DEF CloseHold, Shrinks, FundsInv, TypeOK

LEMMA PostCommits ==
  ASSUME FundsInv, NEW c \in PostCall, Checked(c, 4), Writes(c), NEW R,
         \A i \in 1..4 : Locks(c)[i] \in R
  PROVE  CommitsWell(R)
<1> DEFINE t == c.transfer
           d == transfers[t].debit
           e == transfers[t].credit
<1>1. c.fn = "post" /\ c.from \in {{"pending"}, {"under_review"}}
  BY CallKinds
<1>2. t \in DOMAIN transfers /\ transfers[t].status \in c.from
  BY <1>1 DEF Checked, PostChecked
<1>3. Post(t)
  BY <1>1 DEF Writes
<1>4. Next
  BY <1>1, <1>2, <1>3 DEF Next, Resolve, post_transfer
<1>5. /\ transfer_row(t) \in R /\ hold_row(t) \in R
      /\ account_row(d) \in R /\ account_row(e) \in R
  <2>1. /\ Locks(c)[1] = transfer_row(t) /\ Locks(c)[4] = hold_row(t)
        /\ \E lo, hi : /\ InOrder(d, e, lo, hi)
                       /\ Locks(c)[2] = account_row(lo) /\ Locks(c)[3] = account_row(hi)
    BY <1>1, PostRows
  <2>2. Locks(c)[1] \in R /\ Locks(c)[2] \in R /\ Locks(c)[3] \in R /\ Locks(c)[4] \in R
    OBVIOUS
  <2> QED
    BY <2>1, <2>2 DEF InOrder
<1>6. /\ \A s \in DOMAIN transfers : s # t => transfers'[s] = transfers[s]
      /\ \A a \in Account : a # d => held_minor'[a] = held_minor[a]
      /\ Shrinks
  BY <1>2, <1>3, CloseWrites DEF Post
<1>7. transfers[t] \in Transfer
  BY <1>2, RowType DEF FundsInv
<1>8. \A a \in Account : a # d /\ a # e => balance_minor'[a] = balance_minor[a]
  BY <1>3, <1>7 DEF Post, WriteLegs, FundsInv, TypeOK, Transfer
<1>9. UNCHANGED <<account_vars, idempotency_keys>>
  BY <1>3 DEF Post
<1> QED
  BY <1>4, <1>5, <1>6, <1>8, <1>9 DEF CommitsWell, Only, account_vars

LEMMA CancelCommits ==
  ASSUME FundsInv, NEW c \in CancelCall, Checked(c, 3), Writes(c), NEW R,
         \A i \in 1..3 : Locks(c)[i] \in R
  PROVE  CommitsWell(R)
<1> DEFINE t == c.transfer
<1>1. c.fn = "cancel"
  BY CallKinds
<1>2. t \in DOMAIN transfers /\ transfers[t].status \in Awaiting
  BY <1>1 DEF Checked, CancelChecked
<1>3. /\ CloseHold(t, "canceled", "released")
      /\ UNCHANGED <<money_vars, account_vars, idempotency_keys>>
  BY <1>1 DEF Writes
<1>4. Next
  BY <1>2, <1>3 DEF Next, Resolve, cancel_transfer
<1>5. transfer_row(t) \in R /\ hold_row(t) \in R /\ account_row(transfers[t].debit) \in R
  <2>1. Locks(c)[1] \in R /\ Locks(c)[2] \in R /\ Locks(c)[3] \in R
    OBVIOUS
  <2> QED
    BY <1>1, <2>1, CancelRows
<1>6. /\ \A s \in DOMAIN transfers : s # t => transfers'[s] = transfers[s]
      /\ \A a \in Account : a # transfers[t].debit => held_minor'[a] = held_minor[a]
      /\ Shrinks
  BY <1>2, <1>3, CloseWrites
<1> QED
  BY <1>3, <1>4, <1>5, <1>6 DEF CommitsWell, Only, account_vars, money_vars

LEMMA ReverseCommits ==
  ASSUME FundsInv, NEW c \in ReverseCall, Checked(c, Len(Locks(c))), Writes(c), NEW R,
         \A i \in 1..Len(Locks(c)) : Locks(c)[i] \in R
  PROVE  CommitsWell(R)
<1> DEFINE t == c.transfer
           name == c.key[2]
           d == transfers[t].debit
           e == transfers[t].credit
<1>1. c.fn = "reverse" /\ c.key = <<Sentinel, name>> /\ name \in KeyName /\ c.key \in Key
  BY CallKinds
<1>2. /\ Locks(c)[1] = key_row(c.key) /\ Locks(c)[2] = transfer_row(t)
      /\ IF transfers[t].status = "reversed" THEN Len(Locks(c)) = 2
         ELSE /\ Len(Locks(c)) = 4
              /\ \E lo, hi : /\ InOrder(d, e, lo, hi)
                             /\ Locks(c)[3] = account_row(lo) /\ Locks(c)[4] = account_row(hi)
  BY <1>1, ReverseRows
<1>3. /\ t \in DOMAIN transfers /\ transfers[t].status \in Settled
      /\ Len(Locks(c)) = 4 /\ transfers[t].status = "posted" => Clawable(t)
  BY <1>1, <1>2 DEF Checked, ReverseChecked
<1>4. key_row(c.key) \in R /\ transfer_row(t) \in R
  BY <1>2
<1>5. CASE transfers[t].status = "reversed"
  <2>1. reverse_again(name, t)
    BY <1>1, <1>5 DEF Writes, Reversed
  <2>2. Next
    BY <1>1, <1>3, <2>1 DEF Next, Reverse
  <2>3. \A k \in Key : key_row(k) \notin R => idempotency_keys'[k] = idempotency_keys[k]
    BY <1>1, <1>4, <2>1 DEF reverse_again, Claim, FundsInv, TypeOK
  <2> QED
    BY <2>1, <2>2, <2>3
    DEF CommitsWell, Only, Shrinks, reverse_again, account_vars, money_vars
<1>6. CASE transfers[t].status = "posted"
  <2>1. NextId <= MaxTransfers /\ Refund(name, t)
    BY <1>1, <1>6 DEF Writes, Reversed
  <2>2. Clawable(t) /\ Len(Locks(c)) = 4
    BY <1>2, <1>3, <1>6
  <2>3. Next
    <3>1. reverse_transfer(name, t)
      BY <1>3, <1>6, <2>1, <2>2 DEF reverse_transfer, MayReverse
    <3> QED
      BY <1>1, <1>3, <3>1 DEF Next, Reverse
  <2>4. account_row(d) \in R /\ account_row(e) \in R
    <3>1. Locks(c)[3] \in R /\ Locks(c)[4] \in R
      BY <2>2
    <3> QED
      BY <1>2, <1>6, <3>1 DEF InOrder
  <2>5. transfers \in Seq(Transfer) /\ transfers[t] \in Transfer
    BY <1>3, RowType DEF FundsInv, TypeOK
  <2>6. \A k \in Key : key_row(k) \notin R => idempotency_keys'[k] = idempotency_keys[k]
    BY <1>1, <1>4, <2>1 DEF Refund, Claim, FundsInv, TypeOK
  <2>7. \A s \in DOMAIN transfers : /\ s # t => transfers'[s] = transfers[s]
                                    /\ transfers'[s].hold = transfers[s].hold
    <3> DEFINE marked == [transfers EXCEPT ![t].status = "reversed"]
    <3>1. /\ marked \in Seq(Transfer) /\ DOMAIN marked = DOMAIN transfers
          /\ \A s \in DOMAIN transfers : s # t => marked[s] = transfers[s]
          /\ marked[t] = [transfers[t] EXCEPT !.status = "reversed"]
      <4>1. [transfers[t] EXCEPT !.status = "reversed"] \in Transfer
        BY <2>5 DEF Transfer, TransferStatus
      <4> QED
        BY <1>3, <2>5, <4>1, ExceptSeq
    <3>2. marked[t].hold = transfers[t].hold
      BY <2>5, <3>1 DEF Transfer
    <3> DEFINE row == [debit |-> transfers[t].credit, credit |-> transfers[t].debit,
                       amount |-> transfers[t].amount, reverses |-> t,
                       status |-> "posted", hold |-> "none"]
    <3>3. transfers' = Append(marked, row)
      BY <2>1 DEF Refund
    <3> HIDE DEF marked, row
    <3>4. \A s \in DOMAIN marked : transfers'[s] = marked[s]
      BY <3>1, <3>3
    <3> QED
      BY <3>1, <3>2, <3>4
  <2>8. \A a \in Account : a # d /\ a # e => balance_minor'[a] = balance_minor[a]
    BY <2>1, <2>5 DEF Refund, WriteLegs, FundsInv, TypeOK, Transfer
  <2>9. UNCHANGED <<held_minor, lapsed, account_vars>>
    BY <2>1 DEF Refund
  <2> QED
    BY <1>4, <2>3, <2>4, <2>6, <2>7, <2>8, <2>9
    DEF CommitsWell, Only, Shrinks, account_vars
<1> QED
  BY <1>3, <1>5, <1>6 DEF Settled

LEMMA SweepCommits ==
  ASSUME FundsInv, NEW c \in SweepCall, Checked(c, Len(Locks(c))), Writes(c), NEW R,
         \A i \in 1..Len(Locks(c)) : Locks(c)[i] \in R
  PROVE  CommitsWell(R)
<1> DEFINE late == c.late
           n == Len(late)
           E == {late[i] : i \in DOMAIN late}
<1>1. c.fn = "sweep" /\ late \in Seq(1..MaxTransfers)
  BY CallKinds
<1>2. /\ n \in Nat /\ DOMAIN late = 1..n /\ Len(Locks(c)) = 3 * n
      /\ \A i \in 1..n : /\ Locks(c)[i] = hold_row(late[i])
                         /\ Locks(c)[n + i] = transfer_row(late[i])
                         /\ Locks(c)[n + n + i] = account_row(transfers[late[i]].debit)
  BY <1>1, SweepRows
<1>3. \A i \in 1..n : /\ hold_row(late[i]) \in R /\ transfer_row(late[i]) \in R
                      /\ account_row(transfers[late[i]].debit) \in R
  <2> TAKE i \in 1..n
  <2>1. i \in 1..3 * n /\ n + i \in 1..3 * n /\ n + n + i \in 1..3 * n
    BY <1>2
  <2> QED
    BY <1>2, <2>1
<1>4. E = lapsed
  <2>1. SweepChecked(late, 3 * n)
    BY <1>1, <1>2 DEF Checked
  <2>2. \A i \in DOMAIN late : i <= 3 * n
    BY <1>2
  <2>3. \A i \in DOMAIN late : late[i] \in lapsed
    BY <2>1, <2>2 DEF SweepChecked
  <2>4. \A t \in lapsed : \E i \in DOMAIN late : late[i] = t
    BY <2>1 DEF SweepChecked
  <2> QED
    BY <2>3, <2>4
<1>5. Expire(E) /\ cleanup_idempotency_keys /\ UNCHANGED <<money_vars, account_vars>>
  BY <1>1 DEF Writes
<1>6. Next
  BY <1>4, <1>5 DEF Next, RunMaintenance, expire_holds, Overdue
<1> HIDE DEF E
<1>7. /\ \A t \in E : /\ t \in DOMAIN transfers /\ hold_row(t) \in R /\ transfer_row(t) \in R
                      /\ account_row(transfers[t].debit) \in R
  BY <1>2, <1>3, <1>4 DEF E, FundsInv, TypeOK
<1>8. \A t \in DOMAIN transfers : t \notin E => transfers'[t] = transfers[t]
  BY <1>5 DEF Expire
<1>9. \A k \in Key : idempotency_keys[k] = Unclaimed => idempotency_keys'[k] = Unclaimed
  BY <1>5 DEF cleanup_idempotency_keys
<1>10. \A a \in Account : account_row(a) \notin R => held_minor'[a] = held_minor[a]
  <2> SUFFICES ASSUME NEW a \in Account, account_row(a) \notin R
               PROVE  held_minor'[a] = held_minor[a]
    OBVIOUS
  <2>1. E \cap ActiveHolds(a) = {}
    BY <1>7 DEF ActiveHolds
  <2>2. AmountOf({}) = 0
    <3>1. Units({}, transfers) = {}
      BY DEF Units
    <3> QED
      BY <3>1, FS_EmptySet DEF AmountOf, Weight
  <2>3. held_minor'[a] = held_minor[a] - AmountOf(E \cap ActiveHolds(a))
    BY <1>5 DEF Expire
  <2>4. held_minor[a] \in Int
    BY DEF FundsInv, TypeOK
  <2>5. AmountOf(E \cap ActiveHolds(a)) = AmountOf({})
    BY <2>1, Zenon
  <2> QED
    BY <2>2, <2>3, <2>4, <2>5
<1>11. Shrinks
  <2>1. lapsed' = lapsed \ E
    BY <1>5 DEF Expire
  <2>2. \A t \in E : transfers'[t].hold # "active"
    <3> TAKE t \in E
    <3>1. transfers'[t] = [transfers[t] EXCEPT !.hold = "expired", !.status = SweptStatus(@)]
      BY <1>5, <1>7 DEF Expire
    <3>2. transfers[t] \in Transfer
      BY <1>7, RowType DEF FundsInv
    <3> QED
      BY <3>1, <3>2 DEF Transfer
  <2> QED
    BY <2>1, <2>2 DEF Shrinks
<1> QED
  BY <1>5, <1>6, <1>7, <1>8, <1>9, <1>10, <1>11
  DEF CommitsWell, Only, account_vars, money_vars

-----------------------------------------------------------------------------
(* The invariant, step by step.                                            *)

LEMMA RowsApart ==
  ASSUME LocksInv, NEW b \in Backend, NEW o \in Backend, b # o
  PROVE  RowsLocked(b) \cap RowsLocked(o) = {}
<1> DEFINE c == call[b]
           n == locked[b]
           e == call[o]
           m == locked[o]
<1>1. Apart(b, o)
  BY DEF LocksInv
<1>2. RowsOf(c, n) \cap RowsOf(e, m) = {}
  BY <1>1, Zenon DEF Apart
<1> QED
  BY <1>2 DEF RowsOf, RowsLocked

(* Whoever does not move keeps what they checked, and their rows.          *)
LEMMA Stands ==
  ASSUME LocksInv, FundsInv', [Next]_vars, NEW R, Only(R), NEW o \in Backend,
         NEW c, NEW n, call[o] = c, locked[o] = n,
         RowsLocked(o) \cap R = {}, Shrinks \/ o \in Api \/ c = Idle
  PROVE  Good(o, c, n)' /\ RowsOf(c, n)' = RowsOf(c, n)
<1>1. Good(o, c, n) /\ FundsInv
  BY DEF LocksInv, Proper
<1>2. c \in CallOf(o) /\ n \in 0..Len(Locks(c)) /\ Checked(c, n)
  BY <1>1 DEF Good
<1>3. CASE c = Idle
  <2>1. n = 0
    BY <1>2, <1>3, IdleRows
  <2>2. Locks(c)' = <<>> /\ c.fn = "idle"
    BY <1>3, CallKinds DEF Locks, Idle
  <2>3. Checked(c, n)'
    BY <2>2 DEF Checked
  <2>4. n \in 0..Len(Locks(c))'
    BY <2>1, <2>2
  <2>5. RowsOf(c, n) = {} /\ RowsOf(c, n)' = {}
    BY <2>1 DEF RowsOf
  <2> QED
    BY <1>2, <2>3, <2>4, <2>5 DEF Good, CallOf
<1>4. CASE c # Idle
  <2>1. n \in Nat /\ n <= Len(Locks(c))
    BY <1>2, LocksLength
  <2>2. \A i \in 1..n : Locks(c)[i] \notin R
    BY DEF RowsLocked
  <2>3. /\ Checked(c, n)' /\ Len(Locks(c))' \in Nat /\ n <= Len(Locks(c))'
        /\ \A i \in 1..n : Locks(c)'[i] = Locks(c)[i]
    BY <1>1, <1>2, <1>4, <2>1, <2>2, CallStands
  <2>4. RowsOf(c, n)' = RowsOf(c, n)
    BY <2>3 DEF RowsOf
  <2>5. n \in 0..Len(Locks(c))'
    BY <2>1, <2>3
  <2> QED
    BY <1>2, <2>3, <2>4, <2>5 DEF Good, CallOf
<1> QED
  BY <1>3, <1>4

(* At most one moves; what it has then is checked, and nobody else's.      *)
LEMMA Preserved ==
  ASSUME LocksInv, [Next]_vars, NEW R, Only(R),
         DOMAIN call' = Backend, DOMAIN locked' = Backend,
         NEW M \in SUBSET Backend, \A b, o \in M : b = o,
         \A o \in Backend \ M : /\ call'[o] = call[o] /\ locked'[o] = locked[o]
                                /\ RowsLocked(o) \cap R = {}
                                /\ Shrinks \/ o \in Api \/ call[o] = Idle,
         \A b \in M : \A c, n : call'[b] = c /\ locked'[b] = n =>
           /\ Good(b, c, n)'
           /\ \A o \in Backend \ {b} : RowsOf(c, n)' \cap RowsLocked(o) = {}
  PROVE  LocksInv'
<1>1. FundsInv /\ FundsInv'
  BY FundsNext DEF LocksInv
<1>2. ASSUME NEW o \in Backend \ M, NEW c, NEW n, call'[o] = c, locked'[o] = n
      PROVE  Good(o, c, n)' /\ RowsOf(c, n)' = RowsLocked(o)
  <2>1. call[o] = c /\ locked[o] = n
    BY <1>2
  <2>2. Good(o, c, n)' /\ RowsOf(c, n)' = RowsOf(c, n)
    BY <1>1, <2>1, Stands
  <2>3. RowsOf(c, n) = RowsLocked(o)
    BY <2>1 DEF RowsOf, RowsLocked
  <2> QED
    BY <2>2, <2>3
<1>3. \A b \in Backend : Proper(b)'
  <2> SUFFICES ASSUME NEW b \in Backend, NEW c, NEW n, call'[b] = c, locked'[b] = n
               PROVE  Good(b, c, n)'
    BY DEF Proper
  <2> QED
    BY <1>2
<1>4. \A b, o \in Backend : b # o => Apart(b, o)'
  <2> SUFFICES ASSUME NEW b \in Backend, NEW o \in Backend, b # o,
                      NEW c, NEW n, NEW e, NEW m, call'[b] = c, locked'[b] = n,
                      call'[o] = e, locked'[o] = m
               PROVE  RowsOf(c, n)' \cap RowsOf(e, m)' = {}
    BY DEF Apart
  <2>1. CASE b \in M
    <3>1. o \notin M
      BY <2>1
    <3>2. RowsOf(e, m)' = RowsLocked(o)
      BY <1>2, <3>1
    <3> QED
      BY <2>1, <3>2
  <2>2. CASE o \in M
    <3>1. b \notin M
      BY <2>2
    <3>2. RowsOf(c, n)' = RowsLocked(b)
      BY <1>2, <3>1
    <3>3. RowsOf(e, m)' \cap RowsLocked(b) = {}
      BY <2>2
    <3> QED
      BY <3>2, <3>3
  <2>3. CASE b \notin M /\ o \notin M
    <3>1. RowsOf(c, n)' = RowsLocked(b) /\ RowsOf(e, m)' = RowsLocked(o)
      BY <1>2, <2>3
    <3> QED
      BY <3>1, RowsApart
  <2> QED
    BY <2>1, <2>2, <2>3
<1> QED
  BY <1>1, <1>3, <1>4 DEF LocksInv

(* Steps that write nothing. *)
LEMMA WritesNothing ==
  ASSUME UNCHANGED vars
  PROVE  [Next]_vars /\ Only({}) /\ Shrinks
<1>1. UNCHANGED <<balance_minor, held_minor, account_status, transfer_limit_minor,
                  transfers, lapsed, idempotency_keys>>
  BY DEF vars, money_vars, account_vars
<1> QED
  BY <1>1 DEF Only, Shrinks

LEMMA Silent ==
  ASSUME LocksInv, UNCHANGED vars, NEW b \in Backend, NEW c, NEW n,
         DOMAIN call' = Backend, DOMAIN locked' = Backend, call'[b] = c, locked'[b] = n,
         \A o \in Backend \ {b} : call'[o] = call[o] /\ locked'[o] = locked[o],
         Good(b, c, n),
         \A o \in Backend \ {b} : RowsOf(c, n) \cap RowsLocked(o) = {}
  PROVE  LocksInv'
<1>1. [Next]_vars /\ Only({}) /\ Shrinks
  BY WritesNothing
<1>2. FundsInv /\ FundsInv'
  BY <1>1, FundsNext DEF LocksInv
<1>3. c \in CallOf(b) /\ n \in Nat /\ n <= Len(Locks(c)) /\ Checked(c, n)
  BY LocksLength DEF Good
<1>4. /\ Checked(c, n)' /\ Len(Locks(c))' \in Nat /\ n <= Len(Locks(c))'
      /\ \A i \in 1..n : Locks(c)'[i] = Locks(c)[i]
  BY <1>1, <1>2, <1>3, CallStands
<1>5. Good(b, c, n)'
  <2>1. n \in 0..Len(Locks(c))'
    BY <1>3, <1>4
  <2> QED
    BY <1>3, <1>4, <2>1 DEF Good, CallOf
<1>6. RowsOf(c, n)' = RowsOf(c, n)
  BY <1>4 DEF RowsOf
<1> DEFINE M == {b}
<1>7. M \in SUBSET Backend /\ \A x, o \in M : x = o
  OBVIOUS
<1>8. \A o \in Backend \ M : /\ call'[o] = call[o] /\ locked'[o] = locked[o]
                             /\ RowsLocked(o) \cap {} = {}
                             /\ Shrinks \/ o \in Api \/ call[o] = Idle
  BY <1>1
<1>9. \A x \in M : \A e, m : call'[x] = e /\ locked'[x] = m =>
        /\ Good(x, e, m)'
        /\ \A o \in Backend \ {x} : RowsOf(e, m)' \cap RowsLocked(o) = {}
  BY <1>5, <1>6
<1> HIDE DEF M
<1> QED
  BY <1>1, <1>7, <1>8, <1>9, Preserved

(* A call begins with nothing locked.                                      *)
LEMMA Begins ==
  ASSUME LocksInv, NEW b \in Backend, NEW c \in CallOf(b), Begin(b, c), Checked(c, 0)
  PROVE  UNCHANGED vars /\ LocksInv'
<1>1. UNCHANGED vars /\ locked' = locked /\ call' = [call EXCEPT ![b] = c] /\ call[b] = Idle
  BY DEF Begin
<1> DEFINE n == locked[b]
<1>2. n = 0
  <2>1. Good(b, Idle, n)
    BY <1>1 DEF LocksInv, Proper
  <2> QED
    BY <2>1, IdleRows DEF Good
<1> HIDE DEF n
<1>3. Good(b, c, 0)
  BY LocksLength DEF Good
<1>4. RowsOf(c, 0) = {}
  BY DEF RowsOf
<1>5. DOMAIN call = Backend /\ DOMAIN locked = Backend
  BY DEF LocksInv
<1>6. /\ DOMAIN call' = Backend /\ DOMAIN locked' = Backend /\ call'[b] = c /\ locked'[b] = 0
      /\ \A o \in Backend \ {b} : call'[o] = call[o] /\ locked'[o] = locked[o]
  BY <1>1, <1>2, <1>5 DEF n
<1> QED
  BY <1>1, <1>3, <1>4, <1>6, Silent

LEMMA RequestBegins ==
  ASSUME LocksInv, NEW b \in Api, begin_request(b)
  PROVE  UNCHANGED vars /\ LocksInv'
<1>1. PICK name, d, e, m, caller, st :
        /\ name \in KeyName /\ d \in Account /\ e \in Account /\ m \in Amount
        /\ Begin(b, [fn |-> "request", key |-> <<caller, name>>,
                     debit |-> d, credit |-> e, amount |-> m, ends |-> st])
        /\ \/ caller = Sentinel /\ st = "pending"
           \/ caller = Sentinel /\ st = "posted" /\ {d, e} \cap System # {}
           \/ d \in Customer /\ caller = Owner[d] /\ st \in Outcome
  BY ZenonT(30) DEF begin_request
<1> DEFINE c == [fn |-> "request", key |-> <<caller, name>>,
                 debit |-> d, credit |-> e, amount |-> m, ends |-> st]
<1>2. c \in RequestCall
  <2>1. caller \in Caller
    BY <1>1, LedgerAssumption DEF Caller
  <2>2. st \in Ends /\ (st \in Outcome => st # "pending")
    BY <1>1, LocksAssumption DEF Ends
  <2>3. <<caller, name>> \in Key
    BY <1>1, <2>1 DEF Key
  <2>4. c \in [fn: {"request"}, key: Key, debit: Account, credit: Account, amount: Amount,
               ends: Ends]
    BY <1>1, <2>2, <2>3
  <2>5. c.key[1] = caller /\ c.ends = st /\ c.debit = d /\ c.credit = e
    OBVIOUS
  <2> HIDE DEF c
  <2> QED
    BY <1>1, <2>2, <2>4, <2>5 DEF RequestCall
<1>3. Begin(b, c)
  BY <1>1
<1> HIDE DEF c
<1>4. c \in CallOf(b)
  BY <1>2 DEF CallOf, ApiCall
<1>5. Checked(c, 0)
  BY <1>2, CallKinds DEF Checked, RequestChecked
<1> QED
  BY <1>3, <1>4, <1>5, Begins DEF Backend

LEMMA DecisionBegins ==
  ASSUME LocksInv, NEW b \in Api, begin_post(b) \/ begin_cancel(b) \/ begin_reverse(b)
  PROVE  UNCHANGED vars /\ LocksInv'
<1>1. \A t \in DOMAIN transfers : t \in 1..MaxTransfers
  BY RowType DEF LocksInv, FundsInv
<1>2. PICK c \in PostCall \cup CancelCall \cup ReverseCall :
        Begin(b, c) /\ c.transfer \in DOMAIN transfers
  <2>1. CASE begin_post(b)
    <3>1. PICK t \in DOMAIN transfers, from \in {{"pending"}, {"under_review"}} :
            Begin(b, [fn |-> "post", transfer |-> t, from |-> from])
      BY <2>1 DEF begin_post
    <3> QED
      BY <1>1, <3>1 DEF PostCall
  <2>2. CASE begin_cancel(b)
    <3>1. PICK t \in DOMAIN transfers : Begin(b, [fn |-> "cancel", transfer |-> t])
      BY <2>2 DEF begin_cancel
    <3> QED
      BY <1>1, <3>1 DEF CancelCall
  <2>3. CASE begin_reverse(b)
    <3>1. PICK t \in DOMAIN transfers, name \in KeyName :
            Begin(b, [fn |-> "reverse", transfer |-> t, key |-> <<Sentinel, name>>])
      BY <2>3 DEF begin_reverse
    <3> QED
      BY <1>1, <3>1 DEF ReverseCall
  <2> QED
    BY <2>1, <2>2, <2>3
<1>3. c \in CallOf(b)
  BY <1>2 DEF CallOf, ApiCall
<1>4. Checked(c, 0)
  BY <1>2, CallKinds DEF Checked, PostChecked, CancelChecked, ReverseChecked
<1> QED
  BY <1>2, <1>3, <1>4, Begins DEF Backend

(* A list of the lapsed holds without repetition has them all.             *)
LEMMA ListsAll ==
  ASSUME NEW S, IsFiniteSet(S), NEW late \in [1..Cardinality(S) -> S],
         \A i, j \in DOMAIN late : late[i] = late[j] => i = j
  PROVE  \A t \in S : \E i \in DOMAIN late : late[i] = t
<1> DEFINE k == Cardinality(S)
<1>1. k \in Nat /\ IsFiniteSet(1..k) /\ Cardinality(1..k) = k
  BY FS_CardinalityType, FS_Interval
<1>2. late \in Injection(1..k, S)
  BY DEF Injection, IsInjective
<1>3. late \in Surjection(1..k, S)
  BY <1>1, <1>2, FS_Injection
<1> QED
  BY <1>3 DEF Surjection

LEMMA SweepBegins ==
  ASSUME LocksInv, NEW b \in Sweeper, begin_sweep(b)
  PROVE  UNCHANGED vars /\ LocksInv'
<1>1. lapsed \subseteq DOMAIN transfers /\ IsFiniteSet(lapsed) /\ DOMAIN transfers \subseteq 1..MaxTransfers
  <2>1. lapsed \subseteq DOMAIN transfers
    BY DEF LocksInv, FundsInv, TypeOK
  <2>2. \A t \in DOMAIN transfers : t \in 1..MaxTransfers
    BY RowType DEF LocksInv, FundsInv
  <2>3. IsFiniteSet(1..MaxTransfers)
    BY LedgerAssumption, FS_Interval
  <2> QED
    BY <2>1, <2>2, <2>3, FS_Subset
<1>2. PICK late \in [1..Cardinality(lapsed) -> lapsed] :
        /\ \A i, j \in DOMAIN late : late[i] = late[j] => i = j
        /\ Begin(b, [fn |-> "sweep", late |-> late])
  BY DEF begin_sweep
<1> DEFINE c == [fn |-> "sweep", late |-> late]
           k == Cardinality(lapsed)
<1>3. k \in Nat
  BY <1>1, FS_CardinalityType
<1>4. \A t \in lapsed : \E i \in DOMAIN late : late[i] = t
  BY <1>1, <1>2, ListsAll
<1> HIDE DEF k
<1>5. late \in [1..k -> lapsed]
  BY DEF k
<1>6. late \in Seq(1..MaxTransfers) /\ DOMAIN late = 1..k
  <2> DEFINE T == 1..MaxTransfers
  <2>1. DOMAIN late = 1..k /\ \A i \in 1..k : late[i] \in 1..MaxTransfers
    BY <1>1, <1>5
  <2>2. late \in [1..k -> T]
    BY <1>5, <2>1
  <2> HIDE DEF T
  <2>3. late \in Seq(T)
    BY <1>3, <2>2
  <2> QED
    BY <2>1, <2>3 DEF T
<1>7. c \in SweepCall /\ c.fn = "sweep" /\ c.late = late
  BY <1>6 DEF SweepCall
<1>8. SweepChecked(late, 0)
  <2>1. \A i \in DOMAIN late : late[i] \in lapsed /\ ~(i <= 0)
    <3> TAKE i \in DOMAIN late
    <3>1. i \in 1..k
      BY <1>6
    <3> QED
      BY <1>3, <1>5, <3>1
  <2> QED
    BY <1>1, <1>4, <2>1 DEF SweepChecked
<1>9. Begin(b, c)
  BY <1>2
<1> HIDE DEF c
<1>10. c \in CallOf(b)
  BY <1>7, LocksAssumption DEF CallOf
<1>11. Checked(c, 0)
  BY <1>7, <1>8 DEF Checked
<1> QED
  BY <1>9, <1>10, <1>11, Begins DEF Backend

(* A list without its element after the n-th.                              *)
Skipped(r, s, n) == r = SubSeq(s, 1, n) \o SubSeq(s, n + 2, Len(s))

LEMMA Without ==
  ASSUME NEW T, NEW s \in Seq(T), NEW n \in Nat, n < Len(s),
         NEW r, Skipped(r, s, n)
  PROVE  /\ r \in Seq(T) /\ Len(r) = Len(s) - 1
         /\ \A i \in 1..n : r[i] = s[i]
         /\ \A i \in n + 1..Len(s) - 1 : r[i] = s[i + 1]
<1> DEFINE p == SubSeq(s, 1, n)
           q == SubSeq(s, n + 2, Len(s))
           l == Len(s)
<1>1. l \in Nat /\ n < l
  OBVIOUS
<1>2. p \in Seq(T) /\ Len(p) = n /\ \A i \in 1..n : p[i] = s[i]
  BY <1>1, SubSeqProperties
<1>3. q \in Seq(T) /\ Len(q) = l - n - 1 /\ \A i \in 1..l - n - 1 : q[i] = s[n + 1 + i]
  BY <1>1, SubSeqProperties
<1>4. r = p \o q
  BY DEF Skipped
<1> HIDE DEF p, q, l
<1>5. r \in Seq(T) /\ Concatenates(r, p, q)
  BY <1>2, <1>3, <1>4, Joined, Zenon
<1>6. Len(r) = l - 1 /\ \A i \in 1..n : r[i] = s[i]
  <2>1. Len(r) = n + (l - n - 1)
    BY <1>2, <1>3, <1>5 DEF Concatenates
  <2>2. n + (l - n - 1) = l - 1
    BY <1>1
  <2>3. \A i \in 1..n : r[i] = p[i]
    BY <1>2, <1>5 DEF Concatenates
  <2> QED
    BY <1>2, <2>1, <2>2, <2>3
<1>7. ASSUME NEW i \in n + 1..l - 1 PROVE r[i] = s[i + 1]
  <2> DEFINE j == i - n
  <2>1. j \in 1..l - n - 1 /\ n + j = i /\ n + 1 + j = i + 1
    BY <1>1
  <2> HIDE DEF j
  <2>2. r[n + j] = q[j] /\ q[j] = s[n + 1 + j]
    BY <1>2, <1>3, <1>5, <2>1 DEF Concatenates
  <2> QED
    BY <2>1, <2>2
<1> QED
  BY <1>5, <1>6, <1>7 DEF l

LEMMA Skips ==
  ASSUME LocksInv, NEW b \in Sweeper, skip_hold(b)
  PROVE  UNCHANGED vars /\ LocksInv'
<1> DEFINE c == call[b]
           n == locked[b]
           s == c.late
           r == SubSeq(s, 1, n) \o SubSeq(s, n + 2, Len(s))
           e == [c EXCEPT !.late = r]
<1>1. /\ UNCHANGED vars /\ locked' = locked /\ call' = [call EXCEPT ![b] = e]
      /\ c.fn = "sweep" /\ n < Len(s) /\ transfers[s[n + 1]].hold # "active"
  BY DEF skip_hold, Stale
<1>2. b \in Backend /\ Good(b, c, n)
  BY DEF LocksInv, Proper, Backend
<1>3. c \in SweepCall /\ n \in Nat /\ Checked(c, n)
  BY <1>1, <1>2, KindsOfCall, LocksLength DEF Good
<1>4. s \in Seq(1..MaxTransfers) /\ SweepChecked(s, n) /\ Len(s) \in Nat /\ DOMAIN s = 1..Len(s)
  BY <1>1, <1>3, CallKinds DEF Checked
<1> HIDE DEF n, r
<1>5. /\ r \in Seq(1..MaxTransfers) /\ Len(r) = Len(s) - 1
      /\ \A i \in 1..n : r[i] = s[i]
      /\ \A i \in n + 1..Len(s) - 1 : r[i] = s[i + 1]
  <2>1. Skipped(r, s, n) /\ n < Len(s)
    BY <1>1 DEF r, Skipped
  <2> HIDE DEF s
  <2> QED
    <3>1. PICK z : z = r
      OBVIOUS
    <3>2. PICK x, y : x = s /\ y = n
      OBVIOUS
    <3>3. x \in Seq(1..MaxTransfers) /\ y \in Nat /\ y < Len(x) /\ Skipped(z, x, y)
      BY <1>3, <1>4, <2>1, <3>1, <3>2
    <3>4. /\ z \in Seq(1..MaxTransfers) /\ Len(z) = Len(x) - 1
          /\ \A i \in 1..y : z[i] = x[i]
          /\ \A i \in y + 1..Len(x) - 1 : z[i] = x[i + 1]
      BY <3>3, Without
    <3> QED
      BY <3>1, <3>2, <3>4
<1>6. e \in SweepCall /\ e.fn = "sweep" /\ e.late = r
  BY <1>3, <1>5 DEF SweepCall
<1> HIDE DEF e, s
<1>7. DOMAIN r = 1..Len(s) - 1 /\ Len(s) - 1 \in Nat
  BY <1>1, <1>3, <1>4, <1>5
<1>8. \A i \in DOMAIN r : \E j \in DOMAIN s : r[i] = s[j] /\ (i <= n => j <= n)
  <2> TAKE i \in DOMAIN r
  <2>1. CASE i <= n
    BY <1>3, <1>4, <1>5, <1>7, <2>1
  <2>2. CASE ~(i <= n)
    <3>1. i \in n + 1..Len(s) - 1 /\ i + 1 \in DOMAIN s
      BY <1>3, <1>4, <1>7, <2>2
    <3> QED
      BY <1>5, <2>2, <3>1
  <2> QED
    BY <2>1, <2>2
<1>9. \A t \in lapsed : \E i \in DOMAIN r : r[i] = t
  <2> TAKE t \in lapsed
  <2>1. PICK j \in DOMAIN s : s[j] = t
    BY <1>4 DEF SweepChecked
  <2>2. transfers[t].hold = "active"
    BY DEF LocksInv, FundsInv, TypeOK, HoldMatchesStatus
  <2>3. j # n + 1
    BY <1>1, <2>1, <2>2 DEF n, s
  <2>4. CASE j <= n
    <3>1. j \in DOMAIN r /\ r[j] = s[j]
      BY <1>1, <1>3, <1>4, <1>5, <1>7, <2>4 DEF n, s
    <3> QED
      BY <2>1, <3>1
  <2>5. CASE j > n + 1
    <3>1. j - 1 \in n + 1..Len(s) - 1 /\ j - 1 \in DOMAIN r /\ (j - 1) + 1 = j
      BY <1>3, <1>4, <1>7, <2>5
    <3>2. r[j - 1] = s[j]
      BY <1>5, <3>1
    <3> QED
      BY <2>1, <3>1, <3>2
  <2> QED
    BY <1>3, <1>4, <2>3, <2>4, <2>5
<1>10. SweepChecked(r, n)
  BY <1>4, <1>8, <1>9 DEF SweepChecked
<1>11. Len(Locks(e)) = 3 * (Len(s) - 1) /\ \A i \in 1..Len(s) - 1 : Locks(e)[i] = hold_row(r[i])
  BY <1>5, <1>6, SweepRows
<1>12. \A i \in 1..Len(s) : Locks(c)[i] = hold_row(s[i])
  BY <1>1, <1>4, SweepRows DEF s
<1>13. n <= Len(s) - 1
  BY <1>1, <1>3, <1>4 DEF n, s
<1>14. Good(b, e, n)
  <2>1. n \in 0..3 * (Len(s) - 1)
    BY <1>3, <1>7, <1>13
  <2>2. Checked(e, n)
    BY <1>6, <1>10 DEF Checked
  <2>3. e \in CallOf(b)
    BY <1>6, LocksAssumption DEF CallOf
  <2> QED
    BY <1>11, <2>1, <2>2, <2>3 DEF Good
<1>15. RowsOf(e, n) = RowsLocked(b)
  <2>1. \A i \in 1..n : i \in 1..Len(s) - 1 /\ i \in 1..Len(s)
    BY <1>3, <1>7, <1>13
  <2>2. \A i \in 1..n : Locks(e)[i] = Locks(c)[i]
    BY <1>5, <1>11, <1>12, <2>1
  <2>3. RowsOf(e, n) = RowsOf(c, n)
    BY <2>2 DEF RowsOf
  <2> QED
    BY <2>3 DEF RowsOf, RowsLocked, n
<1>16. DOMAIN call = Backend /\ DOMAIN locked = Backend
  BY DEF LocksInv
<1>17. /\ DOMAIN call' = Backend /\ DOMAIN locked' = Backend /\ call'[b] = e /\ locked'[b] = n
       /\ \A o \in Backend \ {b} : call'[o] = call[o] /\ locked'[o] = locked[o]
  BY <1>1, <1>2, <1>16 DEF n
<1>18. \A o \in Backend \ {b} : RowsOf(e, n) \cap RowsLocked(o) = {}
  BY <1>2, <1>15, RowsApart
<1> QED
  BY <1>1, <1>2, <1>14, <1>17, <1>18, Silent

(* The next lock, and what the call checks under it.                       *)
LEMMA PassesChecked ==
  ASSUME LocksInv, NEW b \in Backend, NEW c \in CallOf(b), NEW n \in Nat, Checked(c, n),
         n < Len(Locks(c)), Passes(c, n + 1),
         c.fn = "sweep" => \A i \in DOMAIN c.late :
                             i = n + 1 => transfers[c.late[i]].hold = "active"
  PROVE  Checked(c, n + 1)
<1>1. CASE c = Idle
  BY <1>1, IdleRows
<1>2. CASE c.fn = "request"
  <2>1. Len(Locks(c)) = 3 /\ RequestChecked(c, n)
    BY <1>2, RequestRows DEF Checked
  <2>2. /\ n + 1 = 1 => idempotency_keys[c.key] = Unclaimed
        /\ n + 1 = 3 => MayRequest(c.debit, c.credit, c.amount)
    BY <1>2, <2>1 DEF Passes
  <2>3. RequestChecked(c, n + 1)
    BY <2>1, <2>2 DEF RequestChecked
  <2> QED
    BY <1>2, <2>3 DEF Checked
<1>3. CASE c.fn = "post"
  <2>1. PostChecked(c, n)
    BY <1>3 DEF Checked
  <2>2. n + 1 = 1 => transfers[c.transfer].status \in c.from
    BY <1>3 DEF Passes
  <2>3. PostChecked(c, n + 1)
    BY <2>1, <2>2 DEF PostChecked
  <2> QED
    BY <1>3, <2>3 DEF Checked
<1>4. CASE c.fn = "cancel"
  <2>1. CancelChecked(c, n)
    BY <1>4 DEF Checked
  <2>2. n + 1 = 1 => transfers[c.transfer].status \in Awaiting
    BY <1>4 DEF Passes
  <2>3. CancelChecked(c, n + 1)
    BY <2>1, <2>2 DEF CancelChecked
  <2> QED
    BY <1>4, <2>3 DEF Checked
<1>5. CASE c.fn = "reverse"
  <2>1. ReverseChecked(c, n)
    BY <1>5 DEF Checked
  <2>2. Len(Locks(c)) = IF transfers[c.transfer].status = "reversed" THEN 2 ELSE 4
    BY <1>5, ReverseRows
  <2>3. /\ n + 1 = 1 => idempotency_keys[c.key] = Unclaimed
        /\ n + 1 = 2 => transfers[c.transfer].status \in Settled
        /\ n + 1 = Len(Locks(c)) /\ transfers[c.transfer].status = "posted"
             => Clawable(c.transfer)
    BY <1>5 DEF Passes
  <2>4. ReverseChecked(c, n + 1)
    BY <2>1, <2>2, <2>3 DEF ReverseChecked
  <2> QED
    BY <1>5, <2>4 DEF Checked
<1>6. CASE c.fn = "sweep"
  <2>1. SweepChecked(c.late, n) /\ c.late \in Seq(1..MaxTransfers)
    BY <1>6, KindsOfCall, CallKinds DEF Checked
  <2>2. \A i \in DOMAIN c.late : i <= n + 1 => i <= n \/ i = n + 1
    BY <2>1
  <2>3. SweepChecked(c.late, n + 1)
    BY <1>6, <2>1, <2>2 DEF SweepChecked
  <2> QED
    BY <1>6, <2>3 DEF Checked
<1> QED
  BY <1>1, <1>2, <1>3, <1>4, <1>5, <1>6, KindsOfCall, CallKinds

LEMMA LocksRow ==
  ASSUME LocksInv, NEW b \in Backend, lock_row(b)
  PROVE  UNCHANGED vars /\ LocksInv'
<1> DEFINE c == call[b]
           n == locked[b]
<1>1. /\ UNCHANGED vars /\ call' = call /\ locked' = [locked EXCEPT ![b] = n + 1]
      /\ n < Len(Locks(c)) /\ Blockers(b) = {} /\ ~Stale(b) /\ Passes(c, n + 1)
  BY DEF lock_row, Waiting
<1>2. Good(b, c, n)
  BY DEF LocksInv, Proper
<1>3. c \in CallOf(b) /\ n \in Nat /\ Checked(c, n) /\ Len(Locks(c)) \in Nat
  BY <1>2, LocksLength DEF Good
<1>4. ASSUME c.fn = "sweep", NEW i \in DOMAIN c.late, i = n + 1
      PROVE  transfers[c.late[i]].hold = "active"
  <2>1. c.late \in Seq(1..MaxTransfers)
    BY <1>3, <1>4, KindsOfCall, CallKinds
  <2>2. n < Len(c.late)
    BY <1>3, <1>4, <2>1
  <2> QED
    BY <1>1, <1>4, <2>2 DEF Stale
<1>5. Checked(c, n + 1)
  BY <1>1, <1>3, <1>4, PassesChecked
<1>6. Good(b, c, n + 1)
  BY <1>1, <1>3, <1>5 DEF Good
<1>7. RowsOf(c, n + 1) = RowsLocked(b) \cup {NextRow(b)}
  <2>1. 1..n + 1 = 1..n \cup {n + 1}
    BY <1>3
  <2>2. RowsOf(c, n + 1) = RowsOf(c, n) \cup {Locks(c)[n + 1]}
    BY <2>1 DEF RowsOf
  <2> QED
    BY <2>2 DEF RowsOf, RowsLocked, NextRow
<1>8. \A o \in Backend \ {b} : RowsOf(c, n + 1) \cap RowsLocked(o) = {}
  <2> TAKE o \in Backend \ {b}
  <2>1. RowsLocked(b) \cap RowsLocked(o) = {}
    BY RowsApart
  <2>2. NextRow(b) \notin RowsLocked(o)
    BY <1>1 DEF Blockers, Waiting
  <2> QED
    BY <1>7, <2>1, <2>2
<1>9. DOMAIN call = Backend /\ DOMAIN locked = Backend
  BY DEF LocksInv
<1>10. /\ DOMAIN call' = Backend /\ DOMAIN locked' = Backend
       /\ call'[b] = c /\ locked'[b] = n + 1
       /\ \A o \in Backend \ {b} : call'[o] = call[o] /\ locked'[o] = locked[o]
  BY <1>1, <1>9
<1> QED
  BY <1>1, <1>6, <1>8, <1>10, Silent

(* After its call, a connection has no lock.                               *)
LEMMA CallEnds ==
  ASSUME LocksInv, NEW b \in Backend, End(b)
  PROVE  /\ DOMAIN call' = Backend /\ DOMAIN locked' = Backend
         /\ call'[b] = Idle /\ locked'[b] = 0
         /\ \A o \in Backend \ {b} : call'[o] = call[o] /\ locked'[o] = locked[o]
BY DEF LocksInv, End

LEMMA IdleGood ==
  ASSUME NEW b
  PROVE  /\ Good(b, Idle, 0) /\ RowsOf(Idle, 0) = {}
         /\ Good(b, Idle, 0)' /\ RowsOf(Idle, 0)' = {}
<1>1. Idle.fn = "idle" /\ Locks(Idle) = <<>> /\ Locks(Idle)' = <<>>
  BY DEF Locks, Idle
<1>2. Idle \in CallOf(b)
  BY DEF CallOf
<1>3. Checked(Idle, 0) /\ Checked(Idle, 0)'
  BY <1>1 DEF Checked
<1>4. 0 \in 0..Len(Locks(Idle)) /\ 0 \in 0..Len(Locks(Idle))'
  BY <1>1
<1>5. RowsOf(Idle, 0) = {} /\ RowsOf(Idle, 0)' = {}
  BY DEF RowsOf
<1> QED
  BY <1>2, <1>3, <1>4, <1>5 DEF Good, CallOf

LEMMA RollsBack ==
  ASSUME LocksInv, NEW b \in Backend, rollback(b)
  PROVE  UNCHANGED vars /\ LocksInv'
<1>1. UNCHANGED vars /\ End(b)
  BY DEF rollback
<1>2. \A o \in Backend \ {b} : RowsOf(Idle, 0) \cap RowsLocked(o) = {}
  BY IdleGood
<1> QED
  BY <1>1, <1>2, CallEnds, IdleGood, Silent

LEMMA Commits ==
  ASSUME LocksInv, NEW b \in Backend, commit(b)
  PROVE  Next /\ LocksInv'
<1> DEFINE c == call[b]
           n == locked[b]
           R == RowsLocked(b)
<1>1. c # Idle /\ ~(n < Len(Locks(c))) /\ Writes(c) /\ End(b)
  BY DEF commit, Waiting
<1>2. Good(b, c, n) /\ FundsInv
  BY DEF LocksInv, Proper
<1>3. c \in CallOf(b) /\ n = Len(Locks(c)) /\ Checked(c, n)
  BY <1>1, <1>2, LocksLength DEF Good
<1>4. \A i \in 1..n : Locks(c)[i] \in R
  BY DEF RowsLocked
<1>5. CommitsWell(R)
  <2> HIDE DEF c, R
  <2>1. CASE c \in RequestCall
    <3>1. n = 3
      BY <1>3, <2>1, CallKinds, RequestRows
    <3> QED
      BY <1>1, <1>2, <1>3, <1>4, <2>1, <3>1, RequestCommits
  <2>2. CASE c \in PostCall
    <3>1. n = 4
      BY <1>3, <2>2, CallKinds, PostRows
    <3> QED
      BY <1>1, <1>2, <1>3, <1>4, <2>2, <3>1, PostCommits
  <2>3. CASE c \in CancelCall
    <3>1. n = 3
      BY <1>3, <2>3, CallKinds, CancelRows
    <3> QED
      BY <1>1, <1>2, <1>3, <1>4, <2>3, <3>1, CancelCommits
  <2>4. CASE c \in ReverseCall
    BY <1>1, <1>2, <1>3, <1>4, <2>4, ReverseCommits
  <2>5. CASE c \in SweepCall
    BY <1>1, <1>2, <1>3, <1>4, <2>5, SweepCommits
  <2> QED
    BY <1>1, <1>3, <2>1, <2>2, <2>3, <2>4, <2>5, KindsOfCall DEF c
<1>6. Next /\ [Next]_vars /\ Only(R) /\ Shrinks
  BY <1>5 DEF CommitsWell
<1> DEFINE M == {b}
<1>7. M \in SUBSET Backend /\ \A x, o \in M : x = o
  OBVIOUS
<1>8. \A o \in Backend \ M : /\ call'[o] = call[o] /\ locked'[o] = locked[o]
                             /\ RowsLocked(o) \cap R = {}
                             /\ Shrinks \/ o \in Api \/ call[o] = Idle
  BY <1>1, <1>6, CallEnds, RowsApart
<1>9. \A x \in M : \A e, m : call'[x] = e /\ locked'[x] = m =>
        /\ Good(x, e, m)'
        /\ \A o \in Backend \ {x} : RowsOf(e, m)' \cap RowsLocked(o) = {}
  BY <1>1, CallEnds, IdleGood
<1>10. DOMAIN call' = Backend /\ DOMAIN locked' = Backend
  BY <1>1, CallEnds
<1> HIDE DEF M, R
<1> QED
  BY <1>6, <1>7, <1>8, <1>9, <1>10, Preserved

(* An operator's change of one account.                                    *)
LEMMA Administers ==
  ASSUME LocksInv, administer
  PROVE  Next /\ LocksInv'
<1>1. PICK a \in Account :
        /\ Free(account_row(a))
        /\ \/ \E st \in Status : set_account_status(a, st)
           \/ \E l \in Limit : update_transfer_limit(a, l)
  BY DEF administer
<1>2. Next
  BY <1>1 DEF Next, Administer
<1> DEFINE R == {account_row(a)}
<1>3. UNCHANGED <<money_vars, held_minor, transfers, lapsed, idempotency_keys>>
  BY <1>1 DEF set_account_status, update_transfer_limit
<1>4. \A x \in Account : x # a => /\ account_status'[x] = account_status[x]
                                  /\ transfer_limit_minor'[x] = transfer_limit_minor[x]
  BY <1>1 DEF set_account_status, update_transfer_limit, LocksInv, FundsInv, TypeOK
<1>5. \A x \in Account : account_row(x) \notin R => x # a
  OBVIOUS
<1> HIDE DEF R
<1>6. Only(R) /\ Shrinks
  BY <1>3, <1>4, <1>5 DEF Only, Shrinks, money_vars
<1>7. call' = call /\ locked' = locked /\ DOMAIN call = Backend /\ DOMAIN locked = Backend
  BY DEF administer, lock_vars, LocksInv
<1>8. \A o \in Backend : RowsLocked(o) \cap R = {}
  BY <1>1 DEF Free, R
<1> QED
  BY <1>2, <1>6, <1>7, <1>8, Preserved

(* A hold becomes overdue while no sweep runs.                             *)
LEMMA Lapses ==
  ASSUME LocksInv, lapse
  PROVE  Next /\ LocksInv'
<1>1. PICK t \in DOMAIN transfers : window_lapses(t)
  BY DEF lapse
<1>2. Next
  BY <1>1 DEF Next
<1>3. UNCHANGED <<money_vars, held_minor, account_vars, transfers, idempotency_keys>>
  BY <1>1 DEF window_lapses
<1>4. Only({})
  BY <1>3 DEF Only, money_vars, account_vars
<1>5. call' = call /\ locked' = locked /\ DOMAIN call = Backend /\ DOMAIN locked = Backend
  BY DEF lapse, lock_vars, LocksInv
<1>6. \A o \in Backend : o \in Api \/ call[o] = Idle
  BY DEF lapse, Backend
<1> QED
  BY <1>2, <1>4, <1>5, <1>6, Preserved

LEMMA LocksStart == InitLocks => LocksInv
<1> SUFFICES ASSUME InitLocks PROVE LocksInv
  OBVIOUS
<1>1. FundsInv
  BY FundsInit DEF InitLocks
<1>2. /\ DOMAIN call = Backend /\ DOMAIN locked = Backend
      /\ \A b \in Backend : call[b] = Idle /\ locked[b] = 0
  BY DEF InitLocks
<1>3. \A b \in Backend : Proper(b)
  BY <1>2, IdleGood DEF Proper
<1>4. \A b, o \in Backend : b # o => Apart(b, o)
  BY <1>2, IdleGood DEF Apart
<1> QED
  BY <1>1, <1>2, <1>3, <1>4 DEF LocksInv

LEMMA LocksStep ==
  ASSUME LocksInv, [NextLocks]_allvars
  PROVE  [Next]_vars /\ LocksInv'
<1>1. ASSUME NEW b \in Api,
             begin_request(b) \/ begin_post(b) \/ begin_cancel(b) \/ begin_reverse(b)
      PROVE  [Next]_vars /\ LocksInv'
  BY <1>1, RequestBegins, DecisionBegins
<1>2. ASSUME NEW b \in Sweeper, begin_sweep(b) \/ skip_hold(b)
      PROVE  [Next]_vars /\ LocksInv'
  BY <1>2, SweepBegins, Skips
<1>3. ASSUME NEW b \in Backend, lock_row(b) \/ commit(b) \/ rollback(b)
      PROVE  [Next]_vars /\ LocksInv'
  BY <1>3, LocksRow, Commits, RollsBack
<1>4. CASE administer \/ lapse
  BY <1>4, Administers, Lapses
<1>5. CASE UNCHANGED allvars
  <2>1. UNCHANGED vars /\ call' = call /\ locked' = locked
    BY <1>5 DEF allvars, lock_vars
  <2>2. DOMAIN call = Backend /\ DOMAIN locked = Backend
    BY DEF LocksInv
  <2> QED
    BY <2>1, <2>2, WritesNothing, Preserved
<1> QED
  BY <1>1, <1>2, <1>3, <1>4, <1>5 DEF NextLocks

(* What is checked under the row locks holds when the call commits.        *)
THEOREM LocksHold == SpecLocks => []LocksInv
<1> QED
  BY LocksStart, LocksStep, PTL DEF SpecLocks

(* However the statements of the calls interleave, each call is one step   *)
(* of Ledger when it commits and nothing before: the row locks of          *)
(* 00008_transfers.sql and 00010_maintenance.sql are enough, with any      *)
(* number of connections.                                                  *)
THEOREM CallsAreAtomic == SpecLocks => AtomicCalls
<1>1. LocksInv /\ [NextLocks]_allvars => [Next]_vars
  BY LocksStep
<1> QED
  BY <1>1, LocksHold, PTL DEF SpecLocks, AtomicCalls

(* So LedgerLocks implements Ledger, and what is proved of Ledger holds of *)
(* the calls side by side.                                                 *)
THEOREM LocksImplementLedger == SpecLocks => Spec
<1>1. InitLocks => Init
  BY DEF InitLocks
<1> QED
  BY <1>1, CallsAreAtomic, PTL DEF SpecLocks, Spec, AtomicCalls

(* With any number of connections nobody spends twice what they have, a    *)
(* payment is reversed once, keys answer for what they were used for, and  *)
(* reconcile() finds nothing (00010_maintenance.sql).                      *)
THEOREM CallsKeepTheBooks ==
  SpecLocks => [](Solvent /\ ReversedOnce /\ KeyNamesItsOutcome /\ Reconciled)
<1> QED
  BY LocksImplementLedger, SolventAlways, ReversalsConverge, KeysNameTheirOutcomes,
     AlwaysReconciled, PTL

-----------------------------------------------------------------------------
(* No circle.  Calls lock an idempotency key before a transfer and a       *)
(* transfer before accounts, accounts in the order of their ids; holds are *)
(* locked by those alone who have their transfer.                          *)

Rank(row) ==
  IF row[1] = "accounts" THEN 2 + AccountId[row[2]]
  ELSE IF row[1] = "transfers" THEN 1 ELSE 0

IsHold(row) == \E t : row = hold_row(t)

LEMMA Ranks ==
  /\ \A k : Rank(key_row(k)) = 0
  /\ \A t : Rank(transfer_row(t)) = 1
  /\ \A a \in Account : Rank(account_row(a)) = 2 + AccountId[a] /\ AccountId[a] \in Nat
BY LocksAssumption DEF Rank, key_row, transfer_row, account_row

LEMMA HasTop ==
  ASSUME NEW S, IsFiniteSet(S), S # {}, NEW f \in [S -> Nat]
  PROVE  \E b \in S : \A o \in S : ~(f[b] < f[o])
<1> DEFINE Above(b) == {o \in S : f[b] < f[o]}
           Sizes    == {Cardinality(Above(b)) : b \in S}
<1>1. \A b \in S : IsFiniteSet(Above(b)) /\ Cardinality(Above(b)) \in Nat
  BY FS_Subset, FS_CardinalityType
<1>2. Sizes \subseteq Nat /\ Sizes # {}
  BY <1>1
<1> HIDE DEF Sizes
<1>3. PICK n \in Sizes : \A m \in Sizes : n <= m
  <2> DEFINE R == OpToRel(<, Nat)
  <2>1. IsWellFoundedOn(R, Nat)
    BY NatLessThanWellFounded
  <2> HIDE DEF R
  <2>2. PICK n \in Sizes : \A m \in Sizes : ~(<<m, n>> \in R)
    BY <1>2, <2>1, WFMin
  <2>3. \A m \in Nat : m < n => <<m, n>> \in R
    BY <1>2 DEF R, OpToRel
  <2>4. \A m \in Sizes : ~(m < n)
    BY <1>2, <2>2, <2>3
  <2> QED
    BY <1>2, <2>4
<1>4. PICK b \in S : n = Cardinality(Above(b))
  BY DEF Sizes
<1>5. ASSUME NEW o \in S, f[b] < f[o] PROVE FALSE
  <2>1. Above(o) \in SUBSET Above(b) /\ o \in Above(b) /\ o \notin Above(o)
    BY <1>5
  <2>2. Cardinality(Above(o)) <= Cardinality(Above(b)) /\ Above(o) # Above(b)
    BY <1>1, <2>1, FS_Subset
  <2>3. Cardinality(Above(o)) # Cardinality(Above(b))
    BY <1>1, <2>1, <2>2, FS_Subset
  <2>4. Cardinality(Above(b)) <= Cardinality(Above(o))
    BY <1>3, <1>4 DEF Sizes
  <2> HIDE DEF Above
  <2> QED
    BY <1>1, <2>2, <2>3, <2>4
<1> QED
  BY <1>5

(* Within a call, from one row to a later one.                             *)
LEMMA Climbs ==
  ASSUME LocksInv, NEW c \in ApiCall, NEW n, Checked(c, n),
         NEW i \in 1..Len(Locks(c)), NEW j \in 1..Len(Locks(c)), i < j,
         ~IsHold(Locks(c)[i]), ~IsHold(Locks(c)[j]), Locks(c)[i] # Locks(c)[j]
  PROVE  /\ Rank(Locks(c)[i]) \in Nat /\ Rank(Locks(c)[j]) \in Nat
         /\ Rank(Locks(c)[i]) < Rank(Locks(c)[j])
<1>1. \A t \in DOMAIN transfers : transfers[t].debit \in Account /\ transfers[t].credit \in Account
  BY RowType DEF LocksInv, FundsInv, Transfer
<1>2. CASE c \in RequestCall
  <2>1. c.fn = "request" /\ c.debit \in Account /\ c.credit \in Account
    BY <1>2, CallKinds
  <2>2. Len(Locks(c)) = 3 /\ Locks(c)[1] = key_row(c.key)
    BY <2>1, RequestRows
  <2>3. PICK lo, hi : /\ InOrder(c.debit, c.credit, lo, hi)
                      /\ Locks(c)[2] = account_row(lo) /\ Locks(c)[3] = account_row(hi)
    BY <2>1, RequestRows
  <2>4. lo \in Account /\ hi \in Account /\ AccountId[lo] <= AccountId[hi]
    BY <2>1, <2>3 DEF InOrder
  <2>5. AccountId[lo] = AccountId[hi] => lo = hi
    BY <2>4, LocksAssumption
  <2>6. \/ i = 1 /\ j \in {2, 3}
        \/ i = 2 /\ j = 3
    BY <2>2
  <2> QED
    BY <2>2, <2>3, <2>4, <2>5, <2>6, Ranks
<1>3. CASE c \in PostCall
  <2> DEFINE t == c.transfer
  <2>1. c.fn = "post" /\ t \in DOMAIN transfers
    BY <1>3, CallKinds DEF Checked, PostChecked
  <2>2. Len(Locks(c)) = 4 /\ Locks(c)[1] = transfer_row(t) /\ IsHold(Locks(c)[4])
    BY <2>1, PostRows DEF IsHold
  <2>3. PICK lo, hi : /\ InOrder(transfers[t].debit, transfers[t].credit, lo, hi)
                      /\ Locks(c)[2] = account_row(lo) /\ Locks(c)[3] = account_row(hi)
    BY <2>1, PostRows
  <2>4. lo \in Account /\ hi \in Account /\ AccountId[lo] <= AccountId[hi]
    BY <1>1, <2>1, <2>3 DEF InOrder
  <2>5. AccountId[lo] = AccountId[hi] => lo = hi
    BY <2>4, LocksAssumption
  <2>6. \/ i = 1 /\ j \in {2, 3}
        \/ i = 2 /\ j = 3
    BY <2>2
  <2> QED
    BY <2>2, <2>3, <2>4, <2>5, <2>6, Ranks
<1>4. CASE c \in CancelCall
  <2> DEFINE t == c.transfer
  <2>1. c.fn = "cancel" /\ t \in DOMAIN transfers
    BY <1>4, CallKinds DEF Checked, CancelChecked
  <2>2. /\ Len(Locks(c)) = 3 /\ Locks(c)[1] = transfer_row(t) /\ IsHold(Locks(c)[2])
        /\ Locks(c)[3] = account_row(transfers[t].debit)
    BY <2>1, CancelRows DEF IsHold
  <2>3. i = 1 /\ j = 3
    BY <2>2
  <2> QED
    BY <1>1, <2>1, <2>2, <2>3, Ranks
<1>5. CASE c \in ReverseCall
  <2> DEFINE t == c.transfer
  <2>1. c.fn = "reverse" /\ t \in DOMAIN transfers
    BY <1>5, CallKinds DEF Checked, ReverseChecked
  <2>2. /\ Locks(c)[1] = key_row(c.key) /\ Locks(c)[2] = transfer_row(t)
        /\ Len(Locks(c)) = IF transfers[t].status = "reversed" THEN 2 ELSE 4
    BY <2>1, ReverseRows
  <2>3. CASE i = 1 /\ j = 2
    BY <2>2, <2>3, Ranks
  <2>4. CASE ~(i = 1 /\ j = 2)
    <3>1. Len(Locks(c)) = 4
      BY <2>2, <2>4
    <3>2. PICK lo, hi : /\ InOrder(transfers[t].debit, transfers[t].credit, lo, hi)
                        /\ Locks(c)[3] = account_row(lo) /\ Locks(c)[4] = account_row(hi)
      BY <2>1, <3>1, ReverseRows
    <3>3. lo \in Account /\ hi \in Account /\ AccountId[lo] <= AccountId[hi]
      BY <1>1, <2>1, <3>2 DEF InOrder
    <3>4. AccountId[lo] = AccountId[hi] => lo = hi
      BY <3>3, LocksAssumption
    <3>5. \/ i \in {1, 2} /\ j \in {3, 4}
          \/ i = 3 /\ j = 4
      BY <2>4, <3>1
    <3> QED
      BY <2>2, <3>2, <3>3, <3>4, <3>5, Ranks
  <2> QED
    BY <2>3, <2>4
<1> QED
  BY <1>2, <1>3, <1>4, <1>5 DEF ApiCall

(* Who locks the hold of a transfer has locked the transfer.               *)
LEMMA HoldUnderTransfer ==
  ASSUME NEW c \in ApiCall, NEW i \in 1..Len(Locks(c)), NEW t, Locks(c)[i] = hold_row(t)
  PROVE  i > 1 /\ Locks(c)[1] = transfer_row(t)
<1>1. CASE c \in RequestCall
  <2>1. /\ Len(Locks(c)) = 3 /\ Locks(c)[1] = key_row(c.key)
        /\ \E lo, hi : Locks(c)[2] = account_row(lo) /\ Locks(c)[3] = account_row(hi)
    BY <1>1, CallKinds, RequestRows
  <2> QED
    BY <2>1, RowsDiffer
<1>2. CASE c \in PostCall
  <2>1. /\ Len(Locks(c)) = 4 /\ Locks(c)[1] = transfer_row(c.transfer)
        /\ \E lo, hi : Locks(c)[2] = account_row(lo) /\ Locks(c)[3] = account_row(hi)
        /\ Locks(c)[4] = hold_row(c.transfer)
    BY <1>2, CallKinds, PostRows
  <2> QED
    BY <2>1, RowsDiffer
<1>3. CASE c \in CancelCall
  <2>1. /\ Len(Locks(c)) = 3 /\ Locks(c)[1] = transfer_row(c.transfer)
        /\ Locks(c)[2] = hold_row(c.transfer) /\ \E a : Locks(c)[3] = account_row(a)
    BY <1>3, CallKinds, CancelRows
  <2> QED
    BY <2>1, RowsDiffer
<1>4. CASE c \in ReverseCall
  <2>1. c.fn = "reverse"
    BY <1>4, CallKinds
  <2>2. Locks(c)[1] = key_row(c.key) /\ Locks(c)[2] = transfer_row(c.transfer)
    BY <2>1, ReverseRows
  <2>3. CASE Len(Locks(c)) = 2
    BY <2>2, <2>3, RowsDiffer
  <2>4. CASE Len(Locks(c)) # 2
    <3>1. /\ Len(Locks(c)) = 4
          /\ \E lo, hi : Locks(c)[3] = account_row(lo) /\ Locks(c)[4] = account_row(hi)
      BY <2>1, <2>4, ReverseRows
    <3> QED
      BY <2>2, <3>1, RowsDiffer
  <2> QED
    BY <2>3, <2>4
<1> QED
  BY <1>1, <1>2, <1>3, <1>4 DEF ApiCall

LEMMA Calling ==
  ASSUME LocksInv, NEW b \in Api, Waiting(b)
  PROVE  /\ b \in Backend /\ call[b] \in ApiCall /\ Checked(call[b], locked[b])
         /\ locked[b] \in Nat /\ locked[b] + 1 \in 1..Len(Locks(call[b]))
<1> DEFINE c == call[b]
           n == locked[b]
<1>1. b \in Backend
  BY DEF Backend
<1>2. Good(b, c, n)
  BY <1>1 DEF LocksInv, Proper
<1>3. c \in CallOf(b) /\ n \in Nat /\ Checked(c, n) /\ Len(Locks(c)) \in Nat
  BY <1>2, LocksLength DEF Good
<1>4. n < Len(Locks(c))
  BY DEF Waiting
<1>5. c # Idle
  BY <1>3, <1>4, IdleRows
<1>6. c \in ApiCall
  BY <1>3, <1>5 DEF CallOf
<1> QED
  BY <1>1, <1>3, <1>4, <1>6

(* Requests do not wait for holds.                                         *)
LEMMA NoWaitForHolds ==
  ASSUME LocksInv, NEW b \in Api, NEW o \in Api, Waiting(b), Waiting(o), o \in Blockers(b)
  PROVE  ~IsHold(NextRow(b))
<1> SUFFICES ASSUME NEW t, NextRow(b) = hold_row(t) PROVE FALSE
  BY DEF IsHold
<1> DEFINE c == call[b]
           n == locked[b]
           e == call[o]
           m == locked[o]
<1>1. /\ b \in Backend /\ o \in Backend /\ b # o
      /\ c \in ApiCall /\ n \in Nat /\ n + 1 \in 1..Len(Locks(c))
      /\ e \in ApiCall /\ m \in Nat /\ m + 1 \in 1..Len(Locks(e))
  BY Calling DEF Blockers
<1>2. PICK j \in 1..m : Locks(e)[j] = hold_row(t)
  BY DEF Blockers, RowsLocked
<1>3. j \in 1..Len(Locks(e))
  BY <1>1, <1>2
<1>4. j > 1 /\ Locks(e)[1] = transfer_row(t)
  <2> HIDE DEF e
  <2> QED
    BY <1>1, <1>2, <1>3, HoldUnderTransfer
<1>5. n + 1 > 1 /\ Locks(c)[1] = transfer_row(t)
  <2>1. Locks(c)[n + 1] = hold_row(t)
    BY DEF NextRow
  <2> HIDE DEF c, n
  <2> QED
    BY <1>1, <2>1, HoldUnderTransfer
<1>6. 1 \in 1..m /\ 1 \in 1..n
  BY <1>1, <1>2, <1>4, <1>5
<1>7. transfer_row(t) \in RowsLocked(b) /\ transfer_row(t) \in RowsLocked(o)
  BY <1>4, <1>5, <1>6 DEF RowsLocked
<1> QED
  BY <1>1, <1>7, RowsApart

(* Whoever is waited for, and waits in turn, waits for a higher row.       *)
LEMMA HigherUp ==
  ASSUME LocksInv, NEW b \in Api, NEW o \in Api, NEW p \in Api, Waiting(b), Waiting(o),
         Waiting(p), o \in Blockers(b), p \in Blockers(o)
  PROVE  /\ Rank(NextRow(b)) \in Nat /\ Rank(NextRow(o)) \in Nat
         /\ Rank(NextRow(b)) < Rank(NextRow(o))
<1> DEFINE e == call[o]
           m == locked[o]
<1>1. /\ o \in Backend /\ p \in Backend /\ o # p
      /\ e \in ApiCall /\ Checked(e, m) /\ m \in Nat /\ m + 1 \in 1..Len(Locks(e))
  BY Calling DEF Blockers
<1>2. PICK j \in 1..m : Locks(e)[j] = NextRow(b)
  BY DEF Blockers, RowsLocked
<1>3. j \in 1..Len(Locks(e)) /\ j < m + 1
  BY <1>1, <1>2
<1>4. ~IsHold(NextRow(b)) /\ ~IsHold(NextRow(o))
  BY NoWaitForHolds
<1>5. NextRow(o) = Locks(e)[m + 1]
  BY DEF NextRow
<1>6. NextRow(b) \in RowsLocked(o) /\ NextRow(o) \in RowsLocked(p)
  BY DEF Blockers
<1>7. NextRow(b) # NextRow(o)
  BY <1>1, <1>6, RowsApart
<1> HIDE DEF e, m
<1> QED
  BY <1>1, <1>2, <1>3, <1>4, <1>5, <1>7, Climbs

LEMMA NoCircle == ASSUME LocksInv PROVE RequestsNeverDeadlock
<1> SUFFICES ASSUME NEW S \in SUBSET Api, Circle(S) PROVE FALSE
  BY DEF RequestsNeverDeadlock
<1>1. S # {} /\ \A b \in S : \E o \in S : o \in Blockers(b)
  BY DEF Circle
<1>2. \A b \in S : Waiting(b)
  BY <1>1 DEF Blockers
<1>3. \A b \in S : \E o \in S : /\ Rank(NextRow(b)) \in Nat
                                /\ Rank(NextRow(b)) < Rank(NextRow(o))
  <2> TAKE b \in S
  <2>1. PICK o \in S : o \in Blockers(b)
    BY <1>1
  <2>2. PICK p \in S : p \in Blockers(o)
    BY <1>1
  <2> QED
    BY <1>2, <2>1, <2>2, HigherUp
<1> DEFINE f == [b \in S |-> Rank(NextRow(b))]
<1>4. f \in [S -> Nat] /\ \A b \in S : \E o \in S : f[b] < f[o]
  BY <1>3
<1>5. IsFiniteSet(S)
  BY LocksAssumption, FS_Subset
<1> HIDE DEF f
<1>6. PICK g : g = f
  OBVIOUS
<1>7. g \in [S -> Nat] /\ \A b \in S : \E o \in S : g[b] < g[o]
  BY <1>4, <1>6
<1> QED
  BY <1>1, <1>5, <1>7, HasTop

(* Calls that serve requests never wait for each other in a circle,        *)
(* however many there are: every function takes its row locks in one order.*)
THEOREM RequestsGetThrough == SpecLocks => []RequestsNeverDeadlock
<1> QED
  BY LocksHold, NoCircle, PTL

-----------------------------------------------------------------------------
(* The statement.  Its entries are chained in the order in which they were *)
(* inserted (StatementsAlwaysChain); it lists them in the order in which   *)
(* the calls began.                                                        *)

statement_vars == <<allvars, clock_vars>>

StatementsStep == [NextStatements]_statement_vars

(* The clock only says when the calls run.                                 *)
THEOREM StatementsImplementLocks == SpecStatements => SpecLocks
<1>1. StatementsStep => [NextLocks]_allvars
  BY DEF StatementsStep, NextStatements, clock_ticks, statement_vars
<1> QED
  BY <1>1, PTL DEF SpecStatements, SpecLocks, StatementsStep, statement_vars

(* A step changes the call of one connection.                              *)
LEMMA OneCall ==
  ASSUME NextLocks
  PROVE  UNCHANGED call \/ \E b \in Backend : \E c : call' = [call EXCEPT ![b] = c]
<1>1. ASSUME NEW b \in Api, begin_request(b)
      PROVE  \E c : call' = [call EXCEPT ![b] = c]
  BY <1>1 DEF begin_request, Begin
<1>2. ASSUME NEW b \in Api, begin_post(b) \/ begin_cancel(b) \/ begin_reverse(b)
      PROVE  \E c : call' = [call EXCEPT ![b] = c]
  BY <1>2 DEF begin_post, begin_cancel, begin_reverse, Begin
<1>3. ASSUME NEW b \in Sweeper, begin_sweep(b)
      PROVE  \E c : call' = [call EXCEPT ![b] = c]
  BY <1>3 DEF begin_sweep, Begin
<1>4. ASSUME NEW b \in Sweeper, skip_hold(b)
      PROVE  \E c : call' = [call EXCEPT ![b] = c]
  BY <1>4 DEF skip_hold
<1>5. ASSUME NEW b \in Backend, lock_row(b) \/ commit(b) \/ rollback(b)
      PROVE  UNCHANGED call \/ \E c : call' = [call EXCEPT ![b] = c]
  BY <1>5 DEF lock_row, commit, rollback, End
<1>6. ASSUME administer \/ lapse
      PROVE  UNCHANGED call
  BY <1>6 DEF administer, lapse, lock_vars
<1> QED
  BY <1>1, <1>2, <1>3, <1>4, <1>5, <1>6 DEF NextLocks, Backend

(* Nobody writes to the statements but a call that commits.                *)
LEMMA OnlyCommitsWrite ==
  ASSUME NextLocks
  PROVE  UNCHANGED ledger_entries \/ \E b \in Backend : commit(b)
<1>1. ASSUME NEW b \in Api,
             begin_request(b) \/ begin_post(b) \/ begin_cancel(b) \/ begin_reverse(b)
      PROVE  UNCHANGED vars
  BY <1>1 DEF begin_request, begin_post, begin_cancel, begin_reverse, Begin
<1>2. ASSUME NEW b \in Sweeper, begin_sweep(b) \/ skip_hold(b)
      PROVE  UNCHANGED vars
  BY <1>2 DEF begin_sweep, Begin, skip_hold
<1>3. ASSUME NEW b \in Backend, lock_row(b) \/ rollback(b)
      PROVE  UNCHANGED vars
  BY <1>3 DEF lock_row, rollback
<1>4. ASSUME administer
      PROVE  UNCHANGED ledger_entries
  BY <1>4 DEF administer, set_account_status, update_transfer_limit, money_vars
<1>5. ASSUME lapse
      PROVE  UNCHANGED ledger_entries
  BY <1>5 DEF lapse, window_lapses, money_vars
<1>6. UNCHANGED vars => UNCHANGED ledger_entries
  BY DEF vars, money_vars
<1> QED
  BY <1>1, <1>2, <1>3, <1>4, <1>5, <1>6 DEF NextLocks

-----------------------------------------------------------------------------
(* Every entry has its stamp, which is in the past.                        *)

Stamped(a) ==
  /\ DOMAIN posted_at[a] = DOMAIN ledger_entries[a]
  /\ posted_at[a] \in Seq(Nat)
  /\ \A i \in DOMAIN posted_at[a] : posted_at[a][i] <= now

ClockInv ==
  /\ now \in Nat
  /\ began \in [Backend -> Nat]
  /\ \A b \in Backend : began[b] <= now
  /\ \A a \in Account : Stamped(a)

LEMMA ClockStart == InitLocks /\ InitClock => ClockInv
<1> SUFFICES ASSUME InitLocks, InitClock PROVE ClockInv
  OBVIOUS
<1>1. now = 0 /\ began = [b \in Backend |-> 0]
  BY DEF InitClock
<1>2. ASSUME NEW a \in Account
      PROVE  Stamped(a)
  <2>1. ledger_entries[a] = <<>>
    BY DEF InitLocks, Init
  <2>2. posted_at[a] = [i \in DOMAIN ledger_entries[a] |-> 0]
    BY DEF InitClock
  <2>3. DOMAIN ledger_entries[a] = {}
    BY <2>1
  <2>4. posted_at[a] = [i \in 1..0 |-> 0]
    BY <2>2, <2>3
  <2>5. posted_at[a] \in Seq(Nat)
    BY <2>4
  <2> QED
    BY <2>2, <2>3, <2>5 DEF Stamped
<1> QED
  BY <1>1, <1>2 DEF ClockInv

(* What a step does to one statement: nothing, or a call commits and adds  *)
(* an entry, which gets the time at which the call began.                  *)
Unwritten(a) == UNCHANGED <<ledger_entries[a], posted_at[a]>>

WrittenBy(b, a) ==
  /\ call[b] # Idle /\ call' = [call EXCEPT ![b] = Idle]
  /\ UNCHANGED <<now, began>>
  /\ Len(ledger_entries[a]) \in Nat
  /\ DOMAIN ledger_entries[a] = 1..Len(ledger_entries[a])
  /\ DOMAIN ledger_entries'[a] = 1..(Len(ledger_entries[a]) + 1)
  /\ posted_at'[a] = Append(posted_at[a], began[b])

(* The length of a statement after a step of the ledger.                   *)
LEMMA OneMoreEntry ==
  ASSUME FundsInv, [Next]_vars, NEW a \in Account
  PROVE  /\ ledger_entries[a] \in Seq(Entry)
         /\ \/ ledger_entries'[a] = ledger_entries[a]
            \/ \E e \in Entry : ledger_entries'[a] = Append(ledger_entries[a], e)
<1>0. TypeOK /\ ledger_entries[a] \in Seq(Entry)
  BY DEF FundsInv, TypeOK
<1>1. CASE QuietJournal
  BY <1>0, <1>1 DEF QuietJournal
<1>2. ASSUME NEW t, NEW d, NEW c, NEW m, PostedLegs(t, d, c, m)
      PROVE  \/ ledger_entries'[a] = ledger_entries[a]
             \/ \E e \in Entry : ledger_entries'[a] = Append(ledger_entries[a], e)
  BY <1>0, <1>2, StatementAfter
<1> QED
  BY <1>0, <1>1, <1>2, BooksNext, LegsOrNone

LEMMA StatementStep ==
  ASSUME LocksInv, ClockInv, NextStatements, NEW a \in Account
  PROVE  Unwritten(a) \/ \E b \in Backend : WrittenBy(b, a)
<1> DEFINE es == ledger_entries[a]
<1>1. CASE clock_ticks
  BY <1>1 DEF clock_ticks, allvars, vars, money_vars, Unwritten
<1>2. CASE NextLocks /\ UNCHANGED <<call, clock_vars>>
  <2>1. UNCHANGED posted_at
    BY <1>2 DEF clock_vars
  <2>2. ~\E b \in Backend : commit(b)
    BY <1>2 DEF commit, End, LocksInv
  <2> QED
    BY <1>2, <2>1, <2>2, OnlyCommitsWrite DEF Unwritten
<1>3. CASE NextLocks /\ \E b \in Backend : call'[b] # call[b] /\ Stamp(b)
  <2>1. PICK b \in Backend : call'[b] # call[b] /\ Stamp(b)
    BY <1>3
  <2>2. [Next]_vars /\ FundsInv
    BY <1>3, LocksStep DEF LocksInv
  <2>3. posted_at'[a] = IF Len(ledger_entries'[a]) > Len(es)
                        THEN Append(posted_at[a], began[b]) ELSE posted_at[a]
    BY <2>1 DEF Stamp
  <2>4. es \in Seq(Entry) /\ Len(es) \in Nat /\ DOMAIN es = 1..Len(es)
    BY <2>2, OneMoreEntry
  <2>5. CASE ledger_entries'[a] = es
    BY <2>3, <2>4, <2>5 DEF Unwritten
  <2>6. ASSUME NEW e \in Entry, ledger_entries'[a] = Append(es, e), ledger_entries'[a] # es
        PROVE  WrittenBy(b, a)
    <3>1. Len(ledger_entries'[a]) = Len(es) + 1 /\ DOMAIN ledger_entries'[a] = 1..(Len(es) + 1)
      BY <2>4, <2>6
    <3>2. posted_at'[a] = Append(posted_at[a], began[b])
      BY <2>3, <2>4, <3>1
    <3>3. PICK o \in Backend : commit(o)
      BY <1>3, <2>6, OnlyCommitsWrite
    <3>4. call' = [call EXCEPT ![o] = Idle] /\ call[o] # Idle
      BY <3>3 DEF commit, End
    <3>5. o = b
      BY <2>1, <3>4 DEF LocksInv
    <3>6. UNCHANGED <<now, began>>
      BY <2>1, <3>4, <3>5 DEF Stamp, ClockInv
    <3> QED
      BY <2>4, <3>1, <3>2, <3>4, <3>5, <3>6 DEF WrittenBy
  <2> QED
    BY <2>2, <2>5, <2>6, OneMoreEntry
<1> QED
  BY <1>1, <1>2, <1>3 DEF NextStatements

(* The clock moves on, and a call that begins reads it.                    *)
LEMMA ClockStep ==
  ASSUME LocksInv, ClockInv, StatementsStep
  PROVE  ClockInv'
<1>1. CASE UNCHANGED statement_vars
  BY <1>1 DEF statement_vars, allvars, clock_vars, vars, money_vars, ClockInv, Stamped
<1>2. CASE NextStatements
  <2>1. /\ now' \in Nat /\ now <= now'
        /\ began' \in [Backend -> Nat] /\ \A b \in Backend : began'[b] <= now'
    <3>1. CASE clock_ticks
      BY <3>1 DEF clock_ticks, ClockInv
    <3>2. CASE UNCHANGED clock_vars
      BY <3>2 DEF clock_vars, ClockInv
    <3>3. ASSUME NEW b \in Backend, Stamp(b)
          PROVE  now' = now /\ began' \in [Backend -> Nat] /\ \A o \in Backend : began'[o] <= now'
      BY <3>3 DEF Stamp, ClockInv
    <3> QED
      BY <1>2, <3>1, <3>2, <3>3 DEF NextStatements, ClockInv
  <2>2. ASSUME NEW a \in Account
        PROVE  Stamped(a)'
    <3>1. CASE Unwritten(a)
      BY <2>1, <3>1 DEF Unwritten, ClockInv, Stamped
    <3>2. ASSUME NEW b \in Backend, WrittenBy(b, a)
          PROVE  Stamped(a)'
      <4> DEFINE n == Len(ledger_entries[a])
      <4>1. /\ n \in Nat /\ DOMAIN posted_at[a] = 1..n
            /\ posted_at[a] \in Seq(Nat) /\ began[b] \in Nat /\ began[b] <= now
            /\ now \in Nat
            /\ \A i \in 1..n : posted_at[a][i] \in Nat /\ posted_at[a][i] <= now
        BY <3>2 DEF WrittenBy, ClockInv, Stamped
      <4>2. /\ posted_at'[a] = Append(posted_at[a], began[b])
            /\ DOMAIN ledger_entries'[a] = 1..(n + 1) /\ now' = now
        BY <3>2 DEF WrittenBy
      <4> HIDE DEF n
      <4>3. Len(posted_at[a]) = n
        BY <4>1
      <4>4. /\ posted_at'[a] \in Seq(Nat) /\ DOMAIN posted_at'[a] = 1..(n + 1)
            /\ \A i \in 1..(n + 1) :
                 posted_at'[a][i] = IF i = n + 1 THEN began[b] ELSE posted_at[a][i]
        BY <4>1, <4>2, <4>3
      <4> QED
        BY <4>1, <4>2, <4>4 DEF Stamped
    <3> QED
      BY <1>2, <3>1, <3>2, StatementStep
  <2> QED
    BY <2>1, <2>2 DEF ClockInv
<1> QED
  BY <1>1, <1>2 DEF StatementsStep

LEMMA ClockHolds == SpecStatements => [](LocksInv /\ ClockInv)
<1>1. SpecStatements => []LocksInv
  BY StatementsImplementLocks, LocksHold, PTL
<1> QED
  BY <1>1, ClockStart, ClockStep, PTL DEF SpecStatements, StatementsStep, statement_vars, SpecLocks

(* Where the stamps are in the order of the insertion, so is the statement.*)
LEMMA ListedInOrder ==
  ASSUME NEW a \in Account, Stamped(a), ledger_entries[a] \in Seq(Entry), StampedInOrder(a),
         NEW j \in DOMAIN ledger_entries[a], NEW i \in ListedBefore(a, j)
  PROVE  j \in 2..Len(ledger_entries[a]) /\ i = j - 1
<1> DEFINE n == Len(ledger_entries[a])
<1>1. n \in Nat /\ DOMAIN ledger_entries[a] = 1..n /\ i \in 1..n /\ j \in 1..n
  BY DEF ListedBefore
<1>2. \A k \in 1..n : posted_at[a][k] \in Nat
  BY <1>1 DEF Stamped
<1> HIDE DEF n
<1>3. ASSUME NEW k \in 1..n, NEW l \in 1..n
      PROVE  Earlier(a, k, l) <=> k < l
  <2>1. posted_at[a][k] \in Nat /\ posted_at[a][l] \in Nat
    BY <1>2
  <2>2. /\ k < l => posted_at[a][k] <= posted_at[a][l]
        /\ l < k => posted_at[a][l] <= posted_at[a][k]
    BY <1>1 DEF StampedInOrder
  <2>3. k \in Nat /\ l \in Nat
    BY <1>1
  <2> QED
    BY <2>1, <2>2, <2>3 DEF Earlier
<1>4. i < j /\ ~\E k \in 1..n : i < k /\ k < j
  BY <1>1, <1>3 DEF ListedBefore
<1>5. i + 1 \in 1..n
  BY <1>1, <1>4
<1>6. i + 1 = j
  BY <1>1, <1>4, <1>5
<1> QED
  BY <1>1, <1>6 DEF n

LEMMA InOrderContinues ==
  ASSUME TypeOK, StatementChains, ClockInv, NEW a \in Account, StampedInOrder(a)
  PROVE  Continues(a)
<1>1. Stamped(a) /\ ledger_entries[a] \in Seq(Entry)
  BY DEF ClockInv, TypeOK
<1> SUFFICES ASSUME NEW j \in DOMAIN ledger_entries[a], NEW i \in ListedBefore(a, j)
             PROVE  ledger_entries[a][j].balance_after =
                      ledger_entries[a][i].balance_after + ledger_entries[a][j].signed_amount
  BY DEF Continues
<1>2. j \in 2..Len(ledger_entries[a]) /\ i = j - 1
  BY <1>1, ListedInOrder
<1>3. ledger_entries[a][j] \in Entry /\ ledger_entries[a][i] \in Entry /\ i # j
  BY <1>1, <1>2 DEF ListedBefore
<1>4. ledger_entries[a][j].signed_amount \in Int /\ ledger_entries[a][i].balance_after \in Int
  BY <1>3 DEF Entry
<1>5. ledger_entries[a][j].balance_after =
        ledger_entries[a][j].signed_amount + ledger_entries[a][i].balance_after
  BY <1>2 DEF StatementChains
<1> QED
  BY <1>4, <1>5

LEMMA BooksHold == SpecStatements => [](TypeOK /\ StatementChains)
<1>1. FundsInv => TypeOK
  BY DEF FundsInv
<1> QED
  BY <1>1, StatementsImplementLocks, LocksImplementLedger, StatementsAlwaysChain,
     FundsCorrect, PTL

(* The statement of an account is a running balance wherever the calls that*)
(* wrote it had their locks in the order in which they began: that         *)
(* posted_at is the time of the beginning is all that is wrong with it.    *)
THEOREM RunsWhereInOrder ==
  SpecStatements => [](\A a \in Account : StampedInOrder(a) => Continues(a))
<1>1. TypeOK /\ StatementChains /\ ClockInv
        => \A a \in Account : StampedInOrder(a) => Continues(a)
  BY InOrderContinues
<1> QED
  BY <1>1, ClockHolds, BooksHold, PTL

-----------------------------------------------------------------------------
(* Calls that run one at a time write in that order.                       *)

OrderInv ==
  /\ \A a \in Account : StampedInOrder(a)
  /\ \A b \in Backend, a \in Account :
       call[b] # Idle => \A i \in DOMAIN posted_at[a] : posted_at[a][i] <= began[b]

LEMMA OrderStart == InitLocks /\ InitClock => OrderInv
<1> SUFFICES ASSUME InitLocks, InitClock PROVE OrderInv
  OBVIOUS
<1>1. \A a \in Account : ledger_entries[a] = <<>>
  BY DEF InitLocks, Init
<1>2. \A b \in Backend : call[b] = Idle
  BY DEF InitLocks
<1> QED
  BY <1>1, <1>2 DEF OrderInv, StampedInOrder

(* A call that begins reads a clock that no stamp is ahead of.             *)
LEMMA BeganLast ==
  ASSUME LocksInv, ClockInv, OrderInv, NextStatements, NEW b \in Backend, call'[b] # Idle
  PROVE  \/ call[b] # Idle /\ began'[b] = began[b]
         \/ began'[b] = now
<1>1. CASE call'[b] = call[b]
  <2>1. CASE clock_ticks
    BY <1>1, <2>1 DEF clock_ticks
  <2>2. CASE UNCHANGED clock_vars
    BY <1>1, <2>2 DEF clock_vars
  <2>3. ASSUME NEW o \in Backend, call'[o] # call[o], Stamp(o)
        PROVE  began'[b] = began[b]
    BY <1>1, <2>3 DEF Stamp, ClockInv
  <2> QED
    BY <1>1, <2>1, <2>2, <2>3 DEF NextStatements
<1>2. CASE call'[b] # call[b]
  <2>1. NextLocks
    BY <1>2 DEF NextStatements, clock_ticks, allvars, lock_vars
  <2>2. PICK o \in Backend : call'[o] # call[o] /\ Stamp(o)
    BY <1>2 DEF NextStatements, clock_ticks, allvars, lock_vars
  <2>3. o = b
    BY <1>2, <2>1, <2>2, OneCall DEF LocksInv
  <2> QED
    BY <2>2, <2>3 DEF Stamp, ClockInv
<1> QED
  BY <1>1, <1>2

LEMMA OrderStep ==
  ASSUME LocksInv, ClockInv, OrderInv, OneAtATime, StatementsStep
  PROVE  OrderInv'
<1>1. CASE UNCHANGED statement_vars
  BY <1>1 DEF statement_vars, allvars, lock_vars, clock_vars, vars, money_vars, OrderInv,
              StampedInOrder
<1>2. CASE NextStatements
  <2>1. ASSUME NEW a \in Account
        PROVE  /\ StampedInOrder(a)'
               /\ \A b \in Backend :
                    call'[b] # Idle => \A i \in DOMAIN posted_at'[a] : posted_at'[a][i] <= began'[b]
    <3>1. CASE Unwritten(a)
      <4>1. StampedInOrder(a)'
        BY <3>1 DEF Unwritten, OrderInv, StampedInOrder
      <4>2. ASSUME NEW b \in Backend, call'[b] # Idle, NEW i \in DOMAIN posted_at'[a]
            PROVE  posted_at'[a][i] <= began'[b]
        <5>1. posted_at'[a] = posted_at[a]
          BY <3>1 DEF Unwritten
        <5>2. posted_at[a][i] <= now /\ (call[b] # Idle => posted_at[a][i] <= began[b])
          BY <4>2, <5>1 DEF ClockInv, Stamped, OrderInv
        <5> QED
          BY <1>2, <4>2, <5>1, <5>2, BeganLast
      <4> QED
        BY <4>1, <4>2
    <3>2. ASSUME NEW b \in Backend, WrittenBy(b, a)
          PROVE  /\ StampedInOrder(a)'
                 /\ \A o \in Backend : call'[o] = Idle
      <4> DEFINE n == Len(ledger_entries[a])
      <4>0. /\ n \in Nat /\ DOMAIN posted_at[a] = 1..n /\ DOMAIN ledger_entries[a] = 1..n
            /\ posted_at[a] \in Seq(Nat) /\ began[b] \in Nat /\ call[b] # Idle
        BY <3>2 DEF WrittenBy, ClockInv, Stamped
      <4>1. /\ \A i \in 1..n : posted_at[a][i] \in Nat /\ posted_at[a][i] <= began[b]
            /\ \A i, j \in 1..n : i < j => posted_at[a][i] <= posted_at[a][j]
        BY <4>0 DEF OrderInv, StampedInOrder
      <4>2. /\ posted_at'[a] = Append(posted_at[a], began[b])
            /\ DOMAIN ledger_entries'[a] = 1..(n + 1)
            /\ call' = [call EXCEPT ![b] = Idle] /\ call[b] # Idle
        BY <3>2 DEF WrittenBy
      <4> HIDE DEF n
      <4>3. Len(posted_at[a]) = n
        BY <4>0
      <4>4. \A i \in 1..(n + 1) :
              posted_at'[a][i] = IF i = n + 1 THEN began[b] ELSE posted_at[a][i]
        BY <4>0, <4>2, <4>3
      <4>5. StampedInOrder(a)'
        BY <4>0, <4>1, <4>2, <4>4 DEF StampedInOrder
      <4>6. \A o \in Backend : call'[o] = Idle
        BY <4>2 DEF OneAtATime, LocksInv
      <4> QED
        BY <4>5, <4>6
    <3> QED
      BY <1>2, <3>1, <3>2, StatementStep
  <2> QED
    BY <2>1 DEF OrderInv
<1> QED
  BY <1>1, <1>2 DEF StatementsStep

(* One call at a time, the statement of every account is the running       *)
(* balance that docs/05-admin-ui.md promises; only calls that overlap      *)
(* break it.                                                               *)
THEOREM OneAtATimeRuns == SpecStatements /\ []OneAtATime => []RunningBalance
<1>1. SpecStatements /\ []OneAtATime => []OrderInv
  BY ClockHolds, OrderStart, OrderStep, PTL
     DEF SpecStatements, StatementsStep, statement_vars
<1>2. OrderInv /\ (\A a \in Account : StampedInOrder(a) => Continues(a)) => RunningBalance
  BY DEF OrderInv, RunningBalance
<1> QED
  BY <1>1, <1>2, RunsWhereInOrder, PTL

=============================================================================
