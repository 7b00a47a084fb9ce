---------------------------- MODULE MCLedgerLocks ----------------------------
(* Small instances of LedgerLocks for TLC.                                 *)
EXTENDS LedgerLocks, TLC

CONSTANTS a, b, x, ua, ub, op, n1, n2, c1, c2, c3, s1

MCOwner == [c \in Customer |-> IF c = a THEN ua ELSE ub]

MCAccountId == [c \in Account |-> CASE c = x -> 0 [] c = a -> 1 [] OTHER -> 2]

(* The bank a week after a deposit of one minor unit into account a: its   *)
(* key is free again.                                                      *)
MCInit ==
  /\ balance_minor        = [c \in Account |-> CASE c = a -> 1 [] c = x -> -1 [] OTHER -> 0]
  /\ held_minor           = [c \in Account |-> 0]
  /\ account_status       = [c \in Account |-> "active"]
  /\ transfer_limit_minor = [c \in Account |-> 1]
  /\ transfers            = <<[debit |-> x, credit |-> a, amount |-> 1, reverses |-> 0,
                               status |-> "posted", hold |-> "captured"]>>
  /\ lapsed               = {}
  /\ ledger_entries       =
       [c \in Account |->
          CASE c = a -> <<[transfer |-> 1, signed_amount |-> 1, balance_after |-> 1]>>
            [] c = x -> <<[transfer |-> 1, signed_amount |-> -1, balance_after |-> -1]>>
            [] OTHER -> <<>>]
  /\ idempotency_keys     = [k \in Key |-> Unclaimed]
  /\ call                 = [c \in Backend |-> Idle]
  /\ locked               = [c \in Backend |-> 0]

(* Payments come under one key per caller, reversals under two.            *)
MCNext ==
  /\ NextLocks
  /\ \A c \in Backend : call'[c].fn = "request" => call'[c].key[2] = n1

MCSpec == MCInit /\ [][MCNext]_allvars

MCSymmetry == Permutations({c1, c2, c3})

=============================================================================
