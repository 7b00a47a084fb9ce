----------------------------- MODULE MCDisputes -----------------------------
(* A small instance of Disputes for TLC.                                   *)
EXTENDS Disputes, TLC

CONSTANTS a, b, x, ua, ub, op, n1, d1, d2

MCOwner == [c \in Customer |-> IF c = a THEN ua ELSE ub]
MCClaimKey == <<d1, d2>>

(* The bank a week after customer a got two minor units from outside and   *)
(* paid both to customer b: the keys are free again.                       *)
MCInit ==
  LET paid == <<[debit |-> x, credit |-> a, amount |-> 2, reverses |-> 0,
                 status |-> "posted", hold |-> "captured"],
                [debit |-> a, credit |-> b, amount |-> 2, reverses |-> 0,
                 status |-> "posted", hold |-> "captured"]>>
      entry(t, m, after) ==
        [transfer |-> t, signed_amount |-> m, balance_after |-> after]
  IN  /\ balance_minor        = [c \in Account |-> CASE c = a -> 0 [] c = b -> 2 [] c = x -> -2]
      /\ held_minor           = [c \in Account |-> 0]
      /\ account_status       = [c \in Account |-> "active"]
      /\ transfer_limit_minor = [c \in Account |-> 2]
      /\ transfers            = paid
      /\ lapsed               = {}
      /\ ledger_entries       =
           [c \in Account |-> CASE c = a -> <<entry(1, 2, 2), entry(2, -2, 0)>>
                                [] c = b -> <<entry(2, 2, 2)>>
                                [] c = x -> <<entry(1, -2, -2)>>]
      /\ idempotency_keys     = [k \in Key |-> Unclaimed]
      /\ disputes             = <<>>
      /\ description          = <<0, 0>>

(* Beside the cases, operators reverse and the sweeps run.  Payments, which*)
(* the runs of Ledger cover, are left out.                                 *)
MCNext == CaseStep \/ ((Reverse \/ RunMaintenance) /\ AsideCases)

MCSpec == MCInit /\ [][MCNext]_allvars

=============================================================================
