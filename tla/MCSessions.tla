----------------------------- MODULE MCSessions -----------------------------
(* A small instance of Sessions for TLC.                                   *)
EXTENDS Sessions, TLC

CONSTANTS admin, t1, t2, t3, t4, r1, r2, s1

Symmetric == Permutations({r1, r2})

(* Hashes are random: tokens are minted in the order of their names.       *)
InOrder ==
  /\ refresh_tokens[t2] # Unminted => refresh_tokens[t1] # Unminted
  /\ refresh_tokens[t3] # Unminted => refresh_tokens[t2] # Unminted
  /\ refresh_tokens[t4] # Unminted => refresh_tokens[t3] # Unminted

Minted == Cardinality({t \in Token : refresh_tokens[t] # Unminted})

(* Two tokens are for an account in good standing that is not at the       *)
(* portal; more, as the cap takes, for one whose tokens only a replay      *)
(* revokes.                                                                *)
GoodStanding ==
  /\ sessions = [s \in Portal |-> NoSession]
  /\ \A u \in User : /\ users[u].status = "active"
                     /\ users[u].failed_login_attempts = 0
                     /\ users[u].login_locked_until = 0
Undisturbed ==
  /\ \A u \in User : users[u].password = 0 /\ ~users[u].must_change_password
  /\ \A t \in Stored : refresh_tokens[t].revoked_reason \in {"none", "reuse_detected"}
  /\ \A r \in Request : request[r].todo \in {<<>>, <<"issue">>, <<"family">>}

(* Two requests at a time are for the first moments.                       *)
Busy == \A r \in Request : request[r] # Free
Hasty ==
  /\ GoodStanding /\ Minted < 2 /\ now = 0
  /\ \A u \in User : ~users[u].must_change_password
  /\ \A r \in Request : request[r].todo # <<"note">>

Bounds ==
  /\ InOrder
  /\ Minted > 1 => GoodStanding
  /\ Minted > 2 => Undisturbed
  /\ Busy => Hasty

=============================================================================
