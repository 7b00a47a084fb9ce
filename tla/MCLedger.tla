------------------------------ MODULE MCLedger ------------------------------
(* Small instances of Ledger for TLC.                                      *)
EXTENDS Ledger, TLC

CONSTANTS a, b, x, ua, ub, op, n1, n2

MCOwner == (a :> ua) @@ (b :> ub)

(* The two customers, each with their account, are interchangeable, and so *)
(* are the keys; used in runs without liveness only.                       *)
Swap == {(a :> a @@ b :> b @@ ua :> ua @@ ub :> ub),
         (a :> b @@ b :> a @@ ua :> ub @@ ub :> ua)}
MCSymmetry == Swap \cup Permutations({n1, n2})

=============================================================================
