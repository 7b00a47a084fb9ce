------------------------------ MODULE Families ------------------------------
(***************************************************************************)
(* What the server of bank0 promises about refresh tokens, without rows,   *)
(* clocks and statements: every token is of the family of one sign-in, a   *)
(* token that serves is exchanged for its successor and is spent by that,  *)
(* and what is spent or ended does not serve again.  Sessions and the      *)
(* server of WebClient are shown to implement this.                        *)
(***************************************************************************)
CONSTANTS
  Token,             \* the refresh tokens
  Unminted, Dropped  \* a token before it is minted, one that was forgotten

VARIABLES
  family,  \* of a token: the one that its sign-in minted
  live     \* the tokens that serve

families == <<family, live>>

Known == {t \in Token : family[t] \in Token}

Init == family = [t \in Token |-> Unminted] /\ live = {}

SignIn(t) ==
  /\ family[t] = Unminted
  /\ family' = [family EXCEPT ![t] = t]
  /\ live' = live \cup {t}

Exchange(t, child) ==
  /\ t \in live /\ family[child] = Unminted
  /\ family' = [family EXCEPT ![child] = family[t]]
  /\ live' = (live \ {t}) \cup {child}

(* A sign-out, a replay, a password change or an operator ends some.       *)
End == live' \subseteq live /\ UNCHANGED family

(* Of a family the first token goes last.                                  *)
Forget(T) ==
  /\ \A t \in Known \ T : family[t] \notin T
  /\ family' = [t \in Token |-> IF t \in T THEN Dropped ELSE family[t]]
  /\ live' = live \ T

Next ==
  \/ End
  \/ \E t \in Token : SignIn(t) \/ \E child \in Token : Exchange(t, child)
  \/ \E T \in SUBSET Known : Forget(T)

Spec == Init /\ [][Next]_families

(* Of a family at most one token serves.                                   *)
OneServes == \A s, t \in live : family[s] = family[t] => s = t

=============================================================================
