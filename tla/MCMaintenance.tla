--------------------------- MODULE MCMaintenance ----------------------------
(* A small instance of Maintenance for TLC.                                *)
EXTENDS Maintenance, TLC

CONSTANTS a, x, ua, op, n1, t1, t2, r1

MCOwner == a :> ua

(* Of Sessions what may come into the way of the sweep: one customer signs *)
(* in, rotates and signs out while time passes.                            *)
Hold_on ==
  \E u \in User :
    \/ \E r \in Request :
         \/ SignIns!Login(r, u, 0) \/ SignIns!nothing_to_clear(r) \/ SignIns!signs_in(r)
         \/ \E t \in Token : SignIns!issue_refresh_token(r, t)
    \/ \E t \in Token :
         \/ SignIns!revoke_refresh_token(t)
         \/ \E child \in Token : SignIns!rotate_refresh_token(t, child)
    \/ SignIns!Tick

MCNext ==
  \/ (Submit \/ Resolve \/ Reverse) /\ UNCHANGED signin_vars
  \/ (\E t \in DOMAIN transfers : window_lapses(t)) /\ UNCHANGED signin_vars
  \/ Hold_on /\ UNCHANGED vars
  \/ Sweep

MCInit == InitMaintenance /\ \A u \in User : ~users[u].old_cost

MCSpec == MCInit /\ [][MCNext]_mvars /\ Fairness

=============================================================================
