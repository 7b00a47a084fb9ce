--------------------------- MODULE MCMakerChecker ---------------------------
(* Small instances of MakerChecker for TLC.                                *)
EXTENDS MakerChecker, TLC

CONSTANTS a, b, x, ua, ub, op, n1, n2, cashier, ad1, ad2

MCOwner == [c \in Customer |-> IF c = a THEN ua ELSE ub]

MCSymmetry == Permutations({n1, n2}) \cup Permutations({ad1, ad2})

(* Two customers and three rows are for a bank whose staff leaves the      *)
(* accounts alone; staff that freezes accounts and moves limits is for one *)
(* customer, one key at a time and a fixed threshold.                      *)
Quiet ==
  /\ \A c \in Customer : account_status[c] = "active" /\ transfer_limit_minor[c] = 1
  /\ Rows("limit_request") = {}
  /\ \A t \in DOMAIN transfers : transfers[t].amount = 1

Alone ==
  /\ account_status[b] = "active" /\ transfer_limit_minor[b] = 1
  /\ \A t \in DOMAIN transfers : b \notin {transfers[t].debit, transfers[t].credit}
  /\ \A r \in Rows("limit_request") : admin_actions[r].target_id # b
  /\ \A k, l \in Key : (idempotency_keys[k] # Unclaimed /\ idempotency_keys[l] # Unclaimed) =>
                          k[2] = l[2]
  /\ Len(admin_actions) <= 2
  /\ maker_checker_threshold_minor = 1

Bounds == Quiet \/ Alone

=============================================================================
