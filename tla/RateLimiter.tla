---------------------------- MODULE RateLimiter -----------------------------
(***************************************************************************)
(* The limiter in front of every sign-in, registration, verification and   *)
(* refresh of one instance of bank0: ratelimit.go.                         *)
(*                                                                         *)
(* A request is stamped before it waits for the mutex, so requests may be  *)
(* counted in another order than their stamps say: stamping and counting   *)
(* are two steps.  A list of hits is filtered as a whole and counted, so   *)
(* it is a set here: the positions of its stamps in the list of all that   *)
(* were ever let pass.                                                     *)
(*                                                                         *)
(* Definitions named X_variant are X with a fault, for checking that the   *)
(* properties notice it.                                                   *)
(***************************************************************************)
EXTENDS Integers, Sequences, FiniteSets

CONSTANTS
  Caller,    \* requests that are served at once
  Address,   \* the keys: client addresses
  PerWindow, \* rateLimiter.limit
  Window,    \* rateLimiter.window
  Horizon    \* bound: the last instant

ASSUME RateLimiterAssumption ==
  /\ IsFiniteSet(Caller) /\ Caller # {}
  /\ PerWindow \in Nat \ {0} /\ Window \in Nat \ {0} /\ Horizon \in Nat

VARIABLES
  now,        \* time.Now()
  hits,       \* rateLimiter.hits, as positions in admitted; a key that is not in the map has none
  lastSweep,  \* rateLimiter.lastSweep
  arrival,    \* what each request will be counted as, once it has the mutex
  admitted    \* history: the stamps this instance ever let pass, per key

limiter_vars == <<now, hits, lastSweep, arrival, admitted>>

Instant == 0..Horizon
Waiting == [key: Address, stamp: Instant]
Nobody  == [key |-> {}]
NoHits == [k \in Address |-> {}]

(* The zero time is more than a window ago.                                *)
LimiterInit ==
  /\ now = 0
  /\ hits = NoHits
  /\ lastSweep = -Window
  /\ arrival = [c \in Caller |-> Nobody]
  /\ admitted = [k \in Address |-> <<>>]

(* rateLimit: the key and the time of the request.                         *)
rateLimit(c, k) ==
  /\ arrival[c] = Nobody
  /\ arrival' = [arrival EXCEPT ![c] = [key |-> k, stamp |-> now]]
  /\ UNCHANGED <<now, hits, lastSweep, admitted>>

Kept(k, cutoff) == {i \in hits[k] : admitted[k][i] > cutoff}

(* At most once per window, keys without a hit in the window are dropped.  *)
Sweeps(stamp) == stamp - lastSweep >= Window

Swept_all(stamp) == IF Sweeps(stamp) THEN NoHits ELSE hits
Swept(stamp) ==
  IF Sweeps(stamp)
  THEN [k \in Address |-> IF Kept(k, stamp - Window) = {} THEN {} ELSE hits[k]] ELSE hits

allow(c) ==
  LET k      == arrival[c].key
      stamp  == arrival[c].stamp
      kept   == {i \in Swept(stamp)[k] : admitted[k][i] > stamp - Window}
      within == Cardinality(kept) < PerWindow
      next   == Len(admitted[k]) + 1
  IN  /\ arrival[c] # Nobody
      /\ lastSweep' = IF Sweeps(stamp) THEN stamp ELSE lastSweep
      /\ hits' = [Swept(stamp) EXCEPT ![k] = IF within THEN kept \cup {next} ELSE kept]
      /\ admitted' = IF within THEN [admitted EXCEPT ![k] = Append(admitted[k], stamp)]
                     ELSE admitted
      /\ arrival' = [arrival EXCEPT ![c] = Nobody]
      /\ UNCHANGED now

(* The counts are in memory only.                                          *)
restart ==
  /\ hits' = NoHits /\ admitted' = [k \in Address |-> <<>>]
  /\ lastSweep' = -Window
  /\ arrival' = [c \in Caller |-> Nobody]
  /\ UNCHANGED now

clock_ticks ==
  /\ now < Horizon
  /\ now' = now + 1
  /\ UNCHANGED <<hits, lastSweep, arrival, admitted>>

LimiterNext ==
  \/ \E c \in Caller : allow(c) \/ \E k \in Address : rateLimit(c, k)
  \/ restart
  \/ clock_ticks

LimiterSpec == LimiterInit /\ [][LimiterNext]_limiter_vars

-----------------------------------------------------------------------------
(* Properties.                                                             *)

(* The fields keep their types.                                            *)
LimiterTypeOK ==
  /\ now \in Instant
  /\ admitted \in [Address -> Seq(Instant)]
  /\ hits \in [Address -> SUBSET (Nat \ {0})]
  /\ \A k \in Address : hits[k] \subseteq DOMAIN admitted[k]
  /\ lastSweep \in -Window..Horizon
  /\ arrival \in [Caller -> Waiting \cup {Nobody}]

(* The limit holds over every window, not only over those that end at a    *)
(* request: a request that overtakes another on the way to the mutex drops *)
(* hits that the other should still have seen, so a window may hold more   *)
(* than the limit, but only by the requests that can be overtaken.         *)
Passed(k, from) ==
  {i \in DOMAIN admitted[k] : admitted[k][i] \in from + 1..from + Window}

RateHeld ==
  \A k \in Address, from \in -Window..Horizon :
    Cardinality(Passed(k, from)) < PerWindow + Cardinality(Caller)

=============================================================================
