----------------------------- MODULE MCFrontDoor ----------------------------
(* Small instances of the four parts of the front door.                    *)
EXTENDS FrontDoor, TLC

CONSTANTS a, b, c, n1, n2, r1, r2, p, q, k1

MCSymmetry ==
  Permutations({r1, r2}) \cup Permutations({n1, n2}) \cup Permutations(User \ Founder)

(* Rules of each decision, with and without an acknowledgement, on each    *)
(* reason and from each band.                                              *)
MCRule ==
  {[match_reason_code |-> x[1], match_min_band |-> x[2], decision |-> x[3], required_ack |-> x[4]] :
     x \in {<<"any", 2, "warn", FALSE>>, <<"first_payment_to_payee", 0, "warn", TRUE>>,
            <<"velocity_count_24h", 1, "review", FALSE>>, <<"any", 3, "review", TRUE>>,
            <<"destination_flagged", 2, "block", FALSE>>}}

(* Joining: staff edits the accounts of, and time passes for, one newcomer *)
(* with one key and one request at a time; two newcomers with two keys and *)
(* two requests meet while nothing else happens and one of them waits with *)
(* the code just sent.                                                     *)
Lone ==
  /\ Cardinality({u \in User : Exists(u)}) <= 2
  /\ Cardinality({n \in RegKey : register_keys[n] # Unused}) <= 1
  /\ Cardinality({r \in Request : visit[r] # Done}) <= 1
  /\ \A r \in Request : visit[r].todo \in {"replay", "answered"} => Exists(visit[r].username)

Moved(u) ==
  /\ verification_challenges[u].status # "none"
  /\ verification_challenges[u].attempts # 0 \/ ~verification_challenges[u].recent

Undisturbed ==
  /\ Cardinality({u \in User : Moved(u)}) <= 1
  /\ \A u \in User :
       /\ Exists(u) /\ u \notin Founder => people[u].onboarding # "active"
       /\ people[u].status = "locked" <=> people[u].onboarding = "pending_verification"
       /\ people[u].status # "closed"
       /\ allowance[u] <= Quota
       /\ Sent(u) = {} /\ Exists(u) => people[u].invites_remaining = Quota
       /\ verification_challenges[u].status = "pending" => ~verification_challenges[u].lapsed
  /\ \A i \in DOMAIN invitations : ~invitations[i].expired

(* Paying: two requests on the second factor, of which one may be linked   *)
(* to p, while nobody pays; one payer with each rule for payment p, while  *)
(* the factor is at rest; one of each while the policy is plain.           *)
Busy_factors == {r \in Client : factor[r] # Idle}
Busy_orders  == {r \in Client : order[r] # NoOrder}
Unshown      == \A r \in Client : promise[r] = NoPromise

Plain ==
  /\ warning_rules = {} /\ recent = 0
  /\ beneficiaries \cup flagged \cup watchlist_entries \cup paid = {}
  /\ \A l \in Link : warning_acks[l] = {}

Settled ==
  /\ failures = 0 /\ pending = {} /\ seeds <= 1
  /\ recovery = IF MFAEnabled THEN RecoveryCode ELSE {}
  /\ Cardinality(tokens) <= 2
  /\ \A l \in Link : [otp |-> TRUE, fresh |-> FALSE, link |-> l] \notin tokens

OnlyP ==
  /\ q \notin beneficiaries \cup flagged \cup watchlist_entries \cup paid
  /\ warning_acks[q] = {}
  /\ warning_rules # {} => Cardinality(warning_rules) = 1 /\ Cardinality(tokens) <= 1
  /\ p \in watchlist_entries =>
       /\ flagged \cup paid = {} /\ recent = 0
       /\ \A w \in warning_rules : w.decision = "review"
  /\ \A r \in Busy_orders : order[r].link = p
  /\ \A r \in Client : promise[r] # NoPromise => promise[r].link = p
  /\ warning_acks[p] # {} => \E w \in warning_rules : w.required_ack
  /\ recent > 0 => warning_acks[p] = {} /\ flagged = {}
  /\ paid # {} => warning_acks[p] = {}
  /\ Cardinality(Busy_orders) <= 1
  /\ Cardinality({r \in Client : promise[r] # NoPromise}) <= 1

Bounds ==
  CASE part = "joining" -> Lone \/ Undisturbed
    [] part = "paying" ->
         \/ /\ Plain /\ Unshown /\ Busy_orders = {} /\ Cardinality(tokens) <= 2
            /\ \/ Cardinality(Busy_factors) <= 1
               \/ Cardinality(tokens) <= 1 /\ \A r \in Client : factor[r].link # q
         \/ Settled /\ OnlyP /\ Busy_factors = {}
         \/ /\ Settled /\ Plain /\ Unshown
            /\ Cardinality(Busy_factors) <= 1 /\ Cardinality(Busy_orders) <= 1
            /\ \A r \in Client : factor[r].code = NoCode
    [] part \in {"knocking", "browsing"} -> TRUE

=============================================================================
