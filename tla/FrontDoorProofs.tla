--------------------------- MODULE FrontDoorProofs --------------------------
(***************************************************************************)
(* What is proved of RateLimiter and of WebClient, and of the four parts   *)
(* that stand before the ledger together.                                  *)
(*                                                                         *)
(* For any number of requests and addresses and for any limit and window,  *)
(* over no window does an address get more than the limit and the requests *)
(* that were overtaken on the way to the mutex.  For any number of requests*)
(* and pairs of tokens, a page does not lose its session by its own        *)
(* requests.  The parts leave each other alone, so what is proved of each  *)
(* holds of all.                                                           *)
(***************************************************************************)
EXTENDS FrontDoor, OnboardingProofs, PaymentGateProofs

-----------------------------------------------------------------------------
(* The rate limiter.                                                       *)

(* No stamp is of the future.                                              *)
Stamped ==
  /\ \A c \in Caller : arrival[c] # Nobody => arrival[c].stamp <= now
  /\ \A k \in Address : \A i \in DOMAIN admitted[k] : admitted[k][i] <= now

(* Requests that may yet be counted in a window that ends at last.         *)
Late(k, last) ==
  {c \in Caller : arrival[c] # Nobody /\ arrival[c].key = k /\ arrival[c].stamp <= last}

(* A window is intact while the limiter remembers all that passed in it.   *)
(* It forgets some only for a stamp behind the window; who is counted in   *)
(* the window later than that had its stamp by then.                       *)
Intact(k, from) ==
  /\ Passed(k, from) \subseteq hits[k]
  /\ Cardinality(Passed(k, from)) <= PerWindow

Overtaken(k, from) ==
  /\ now > from + Window
  /\ Cardinality(Passed(k, from)) + Cardinality(Late(k, from + Window))
       < PerWindow + Cardinality(Caller)

WindowsHeld == \A k \in Address, from \in Int : Intact(k, from) \/ Overtaken(k, from)

LimiterInv == LimiterTypeOK /\ Stamped /\ WindowsHeld

-----------------------------------------------------------------------------
(* What passed in a window and who may join it are finite sets.            *)
LEMMA WindowFinite ==
  ASSUME LimiterTypeOK, NEW k \in Address, NEW from \in Int, NEW last \in Int
  PROVE  /\ IsFiniteSet(Passed(k, from)) /\ Cardinality(Passed(k, from)) \in Nat
         /\ IsFiniteSet(hits[k]) /\ Cardinality(hits[k]) \in Nat
         /\ IsFiniteSet(Late(k, last)) /\ Cardinality(Late(k, last)) \in Nat
         /\ Cardinality(Caller) \in Nat /\ Cardinality(Caller) > 0
<1>1. admitted[k] \in Seq(Instant) /\ hits[k] \subseteq DOMAIN admitted[k]
  BY DEF LimiterTypeOK
<1>2. DOMAIN admitted[k] = 1..Len(admitted[k]) /\ Len(admitted[k]) \in Nat
  BY <1>1
<1>3. IsFiniteSet(1..Len(admitted[k]))
  BY <1>2, FS_Interval
<1>4. IsFiniteSet(Passed(k, from)) /\ IsFiniteSet(hits[k])
  BY <1>1, <1>2, <1>3, FS_Subset DEF Passed
<1>5. IsFiniteSet(Late(k, last))
  BY RateLimiterAssumption, FS_Subset DEF Late
<1> QED
  BY <1>4, <1>5, RateLimiterAssumption, FS_CardinalityType, FS_EmptySet

(* A step that counts nothing, and stamps nothing of the past, keeps every *)
(* window as it is.                                                        *)
LEMMA NothingCounted ==
  ASSUME LimiterInv, UNCHANGED <<hits, admitted>>, now' \in Int, now' >= now,
         \A k \in Address, last \in Int : now > last => Late(k, last)' \subseteq Late(k, last)
  PROVE  WindowsHeld'
<1> SUFFICES ASSUME NEW k \in Address, NEW from \in Int
             PROVE  Intact(k, from)' \/ Overtaken(k, from)'
  BY DEF WindowsHeld
<1> DEFINE last == from + Window
<1>1. now \in Int /\ last \in Int
  BY RateLimiterAssumption DEF LimiterInv, LimiterTypeOK, Instant
<1>2. Passed(k, from)' = Passed(k, from)
  BY DEF Passed
<1>3. CASE Intact(k, from)
  BY <1>2, <1>3 DEF Intact
<1>4. CASE Overtaken(k, from)
  <2>1. Late(k, last)' \subseteq Late(k, last)
    BY <1>1, <1>4 DEF Overtaken
  <2>2. /\ Cardinality(Late(k, last)') <= Cardinality(Late(k, last))
        /\ Cardinality(Late(k, last)') \in Nat
    BY <1>1, <2>1, WindowFinite, FS_Subset, FS_CardinalityType DEF LimiterInv
  <2>3. now' > last
    BY <1>1, <1>4 DEF Overtaken
  <2> QED
    BY <1>1, <1>2, <1>4, <2>2, <2>3, WindowFinite, RateLimiterAssumption
    DEF Overtaken, LimiterInv
<1> QED
  BY <1>3, <1>4 DEF LimiterInv, WindowsHeld

-----------------------------------------------------------------------------
(* The step that counts.                                                   *)

(* What allow does to the lists of one key.                                *)
Remembered(k, stamp) == {i \in hits[k] : admitted[k][i] > stamp - Window}

LEMMA AllowHits ==
  ASSUME LimiterInv, NEW c \in Caller, allow(c), NEW k \in Address
  PROVE  LET stamp == arrival[c].stamp
             next  == Len(admitted[k]) + 1
         IN  /\ arrival[c] \in Waiting
             /\ \/ /\ admitted'[k] = admitted[k]
                   /\ Remembered(k, stamp) \subseteq hits'[k] /\ hits'[k] \subseteq hits[k]
                \/ /\ arrival[c].key = k
                   /\ admitted'[k] = Append(admitted[k], stamp)
                   /\ Remembered(k, stamp) \cup {next} \subseteq hits'[k]
                   /\ hits'[k] \subseteq hits[k] \cup {next}
                   /\ Cardinality(Remembered(k, stamp)) < PerWindow
<1> DEFINE own   == arrival[c].key
           stamp == arrival[c].stamp
           next  == Len(admitted[own]) + 1
           kept  == {i \in Swept(stamp)[own] : admitted[own][i] > stamp - Window}
           within == Cardinality(kept) < PerWindow
<1>1. arrival[c] \in Waiting /\ own \in Address
  BY DEF allow, LimiterInv, LimiterTypeOK, Waiting
<1>2. hits \in [Address -> SUBSET (Nat \ {0})] /\ admitted \in [Address -> Seq(Instant)]
  BY DEF LimiterInv, LimiterTypeOK
<1>3. /\ Swept(stamp) \in [Address -> SUBSET (Nat \ {0})]
      /\ \A j \in Address : /\ Swept(stamp)[j] \subseteq hits[j]
                            /\ Remembered(j, stamp) \subseteq Swept(stamp)[j]
  BY <1>2 DEF Swept, Remembered, Kept
<1>4. kept = Remembered(own, stamp)
  BY <1>1, <1>3 DEF Remembered
<1>5. /\ hits' = [Swept(stamp) EXCEPT ![own] = IF within THEN kept \cup {next} ELSE kept]
      /\ admitted' = IF within THEN [admitted EXCEPT ![own] = Append(admitted[own], stamp)]
                     ELSE admitted
  BY DEF allow
<1>6. CASE k # own
  BY <1>1, <1>2, <1>3, <1>5, <1>6
<1>7. CASE k = own /\ within
  <2>1. hits'[k] = kept \cup {next} /\ admitted'[k] = Append(admitted[k], stamp)
    BY <1>1, <1>2, <1>3, <1>5, <1>7
  <2>2. kept \subseteq hits[k]
    BY <1>3, <1>4, <1>7 DEF Remembered
  <2> QED
    BY <1>1, <1>4, <1>7, <2>1, <2>2
<1>8. CASE k = own /\ ~within
  <2>1. hits'[k] = kept /\ admitted'[k] = admitted[k]
    BY <1>1, <1>2, <1>3, <1>5, <1>8
  <2> QED
    BY <1>1, <1>4, <1>8, <2>1 DEF Remembered
<1> QED
  BY <1>6, <1>7, <1>8

(* What has passed in a window when a request was counted or turned away.  *)
LEMMA AllowPassed ==
  ASSUME LimiterInv, NEW c \in Caller, allow(c), NEW k \in Address, NEW from \in Int
  PROVE  LET stamp == arrival[c].stamp
             next  == Len(admitted[k]) + 1
         IN  \/ Passed(k, from)' = Passed(k, from)
             \/ /\ Passed(k, from)' = Passed(k, from) \cup {next}
                /\ next \notin Passed(k, from) /\ next \in hits'[k]
                /\ stamp <= from + Window /\ arrival[c].key = k
                /\ Cardinality(Remembered(k, stamp)) < PerWindow
<1> DEFINE stamp == arrival[c].stamp
           next  == Len(admitted[k]) + 1
<1>1. admitted[k] \in Seq(Instant) /\ stamp \in Int
  BY AllowHits DEF LimiterInv, LimiterTypeOK, Waiting, Instant
<1>2. CASE admitted'[k] = admitted[k]
  BY <1>2 DEF Passed
<1>3. CASE /\ arrival[c].key = k /\ next \in hits'[k]
           /\ admitted'[k] = Append(admitted[k], stamp)
           /\ Cardinality(Remembered(k, stamp)) < PerWindow
  <2>1. /\ DOMAIN admitted'[k] = DOMAIN admitted[k] \cup {next}
        /\ next \notin DOMAIN admitted[k] /\ admitted'[k][next] = stamp
        /\ \A i \in DOMAIN admitted[k] : admitted'[k][i] = admitted[k][i]
    BY <1>1, <1>3
  <2>2. CASE stamp \in from + 1..from + Window
    <3>1. Passed(k, from)' = Passed(k, from) \cup {next}
      BY <2>1, <2>2 DEF Passed
    <3>2. next \notin Passed(k, from) /\ stamp <= from + Window
      BY <1>1, <2>1, <2>2, RateLimiterAssumption DEF Passed
    <3> QED
      BY <1>3, <3>1, <3>2
  <2>3. CASE stamp \notin from + 1..from + Window
    BY <2>1, <2>3 DEF Passed
  <2> QED
    BY <2>2, <2>3
<1> QED
  BY <1>2, <1>3, AllowHits

LEMMA AllowHeld ==
  ASSUME LimiterInv, NEW c \in Caller, allow(c), NEW k \in Address, NEW from \in Int
  PROVE  Intact(k, from)' \/ Overtaken(k, from)'
<1> DEFINE stamp == arrival[c].stamp
           next  == Len(admitted[k]) + 1
           last  == from + Window
           old   == Passed(k, from)
           new   == Passed(k, from)'
<1>0. arrival[c] # Nobody /\ now' = now
  BY DEF allow
<1>1. /\ stamp \in Int /\ now \in Int /\ now' = now /\ stamp <= now /\ last \in Int
      /\ PerWindow \in Nat /\ Window \in Nat
  <2>1. stamp \in Instant /\ now \in Instant /\ stamp <= now
    BY <1>0, AllowHits DEF LimiterInv, LimiterTypeOK, Stamped, Waiting
  <2> QED
    BY <1>0, <2>1, RateLimiterAssumption DEF Instant
<1>2. /\ IsFiniteSet(old) /\ Cardinality(old) \in Nat
      /\ IsFiniteSet(Late(k, last)) /\ Cardinality(Late(k, last)) \in Nat
      /\ Cardinality(Caller) \in Nat /\ IsFiniteSet(hits[k])
  BY <1>1, WindowFinite DEF LimiterInv
<1>3. new = old \/ (new = old \cup {next} /\ next \notin old)
  BY AllowPassed
<1>4. /\ Cardinality(new) \in Nat /\ Cardinality(new) <= Cardinality(old) + 1
      /\ new = old => Cardinality(new) = Cardinality(old)
  BY <1>2, <1>3, FS_AddElement, SMTT(30)
<1>5. Late(k, last)' = Late(k, last) \ {c}
  BY DEF Late, allow, LimiterInv, LimiterTypeOK
<1>6. CASE Intact(k, from) /\ stamp <= last
  <2>1. old \subseteq Remembered(k, stamp)
    BY <1>1, <1>6 DEF Intact, Remembered, Passed, LimiterInv, LimiterTypeOK, Instant
  <2>2. Remembered(k, stamp) \subseteq hits'[k]
    BY AllowHits
  <2>3. new \subseteq hits'[k]
    BY <2>1, <2>2, AllowPassed
  <2>4. IsFiniteSet(Remembered(k, stamp)) /\ Cardinality(Remembered(k, stamp)) \in Nat
    BY <1>2, FS_Subset, FS_CardinalityType DEF Remembered
  <2>5. Cardinality(old) <= Cardinality(Remembered(k, stamp))
    BY <2>1, <2>4, FS_Subset
  <2>6. new = old \/ Cardinality(Remembered(k, stamp)) < PerWindow
    BY AllowPassed
  <2>7. Cardinality(old) <= PerWindow
    BY <1>6 DEF Intact
  <2>8. Cardinality(new) <= PerWindow
    BY <1>1, <1>2, <1>4, <2>4, <2>5, <2>6, <2>7
  <2> QED
    BY <2>3, <2>8 DEF Intact
<1>7. CASE Intact(k, from) /\ stamp > last
  <2>1. new = old
    BY <1>1, <1>7, AllowPassed
  <2>2. Late(k, last)' \subseteq Caller \ {c}
    BY <1>5 DEF Late
  <2>3. /\ IsFiniteSet(Caller \ {c})
        /\ Cardinality(Caller \ {c}) = Cardinality(Caller) - 1
    BY RateLimiterAssumption, FS_RemoveElement
  <2>4. /\ Cardinality(Late(k, last)') <= Cardinality(Caller) - 1
        /\ Cardinality(Late(k, last)') \in Nat
    BY <2>2, <2>3, FS_Subset, FS_CardinalityType
  <2>5. Cardinality(old) <= PerWindow
    BY <1>7 DEF Intact
  <2>6. now' > last
    BY <1>1, <1>7
  <2> QED
    BY <1>1, <1>2, <1>4, <2>1, <2>4, <2>5, <2>6 DEF Overtaken
<1>8. CASE Overtaken(k, from)
  <2>1. now' > last
    BY <1>1, <1>8 DEF Overtaken
  <2>2. Cardinality(old) + Cardinality(Late(k, last)) < PerWindow + Cardinality(Caller)
    BY <1>8 DEF Overtaken
  <2>3. CASE new = old
    <3>1. Cardinality(Late(k, last)') <= Cardinality(Late(k, last))
      BY <1>2, <1>5, FS_RemoveElement, FS_Subset
    <3>2. Cardinality(Late(k, last)') \in Nat
      BY <1>2, <1>5, FS_Subset, FS_CardinalityType
    <3> QED
      BY <1>1, <1>2, <1>4, <2>1, <2>2, <2>3, <3>1, <3>2 DEF Overtaken
  <2>4. CASE new # old
    <3>1. c \in Late(k, last)
      BY <1>1, <2>4, AllowPassed DEF Late, allow
    <3>2. /\ Cardinality(Late(k, last)') = Cardinality(Late(k, last)) - 1
      BY <1>2, <1>5, <3>1, FS_RemoveElement
    <3> QED
      BY <1>1, <1>2, <1>4, <2>1, <2>2, <3>2 DEF Overtaken
  <2> QED
    BY <2>3, <2>4
<1> QED
  BY <1>1, <1>6, <1>7, <1>8 DEF LimiterInv, WindowsHeld

-----------------------------------------------------------------------------
(* Types.                                                                  *)
LEMMA AllowTypes ==
  ASSUME LimiterInv, NEW c \in Caller, allow(c)
  PROVE  LimiterTypeOK' /\ Stamped'
<1> DEFINE stamp == arrival[c].stamp
<1>1. arrival[c] \in Waiting /\ stamp \in Instant /\ stamp <= now /\ arrival[c].key \in Address
  BY DEF allow, LimiterInv, LimiterTypeOK, Stamped, Waiting
<1>2. /\ \A k \in Address : \/ /\ admitted'[k] = admitted[k] /\ hits'[k] \subseteq hits[k]
                            \/ /\ admitted'[k] = Append(admitted[k], stamp)
                               /\ hits'[k] \subseteq hits[k] \cup {Len(admitted[k]) + 1}
  BY AllowHits
<1>3. DOMAIN hits' = Address /\ DOMAIN admitted' = Address
  BY DEF allow, Swept, NoHits, LimiterInv, LimiterTypeOK
<1>4. \A k \in Address : /\ admitted'[k] \in Seq(Instant)
                         /\ hits'[k] \subseteq DOMAIN admitted'[k]
                         /\ \A i \in DOMAIN admitted'[k] : admitted'[k][i] <= now
  <2> TAKE k \in Address
  <2>1. /\ admitted[k] \in Seq(Instant) /\ hits[k] \subseteq DOMAIN admitted[k]
        /\ \A i \in DOMAIN admitted[k] : admitted[k][i] <= now
    BY DEF LimiterInv, LimiterTypeOK, Stamped
  <2>2. CASE admitted'[k] = admitted[k] /\ hits'[k] \subseteq hits[k]
    BY <2>1, <2>2
  <2>3. CASE /\ admitted'[k] = Append(admitted[k], stamp)
             /\ hits'[k] \subseteq hits[k] \cup {Len(admitted[k]) + 1}
    BY <1>1, <2>1, <2>3
  <2> QED
    BY <1>2, <2>2, <2>3
<1>5. \A k \in Address : hits'[k] \subseteq Nat \ {0}
  BY <1>4
<1>6. admitted' \in [Address -> Seq(Instant)] /\ hits' \in [Address -> SUBSET (Nat \ {0})]
  <2>1. admitted' = [k \in Address |-> admitted'[k]] /\ hits' = [k \in Address |-> hits'[k]]
    BY <1>3 DEF allow, LimiterInv, LimiterTypeOK, Swept
  <2> QED
    BY <1>4, <1>5, <2>1
<1>7. lastSweep' \in -Window..Horizon
  BY <1>1, RateLimiterAssumption DEF allow, LimiterInv, LimiterTypeOK, Instant
<1>8. /\ arrival' \in [Caller -> Waiting \cup {Nobody}]
      /\ \A d \in Caller : arrival'[d] # Nobody => arrival'[d].stamp <= now
      /\ now' = now /\ now \in Instant
  BY DEF allow, LimiterInv, LimiterTypeOK, Stamped
<1> QED
  BY <1>4, <1>6, <1>7, <1>8 DEF LimiterTypeOK, Stamped

-----------------------------------------------------------------------------
(* The invariant holds at the start, and every step keeps it.              *)

(* Before anything passed, every window is intact.                         *)
LEMMA Fresh ==
  ASSUME NEW k \in Address, NEW from \in Int, admitted[k] = <<>>, hits[k] = {}
  PROVE  Intact(k, from)
<1>1. Passed(k, from) = {}
  BY DEF Passed
<1> QED
  BY <1>1, FS_EmptySet, RateLimiterAssumption DEF Intact

LEMMA LimiterBegins == LimiterInit => LimiterInv
<1> SUFFICES ASSUME LimiterInit PROVE LimiterInv
  OBVIOUS
<1>1. \A k \in Address : admitted[k] = <<>> /\ hits[k] = {} /\ DOMAIN admitted[k] = {}
  BY DEF LimiterInit, NoHits
<1>2. LimiterTypeOK
  BY <1>1, RateLimiterAssumption DEF LimiterInit, NoHits, LimiterTypeOK, Instant
<1>3. Stamped
  BY <1>1 DEF LimiterInit, Stamped
<1> QED
  BY <1>1, <1>2, <1>3, Fresh DEF LimiterInv, WindowsHeld

LEMMA LimiterSteps ==
  ASSUME LimiterInv, [LimiterNext]_limiter_vars
  PROVE  LimiterInv'
<1>0. now \in Int /\ now \in Instant
  BY DEF LimiterInv, LimiterTypeOK, Instant
<1>1. ASSUME NEW c \in Caller, allow(c) PROVE LimiterInv'
  BY <1>1, AllowTypes, AllowHeld DEF LimiterInv, WindowsHeld
<1>2. ASSUME NEW c \in Caller, NEW k \in Address, rateLimit(c, k) PROVE LimiterInv'
  <2>1. [key |-> k, stamp |-> now] \in Waiting /\ [key |-> k, stamp |-> now].stamp = now
    BY <1>0 DEF Waiting
  <2>2. LimiterTypeOK' /\ Stamped'
    BY <1>0, <1>2, <2>1 DEF rateLimit, LimiterInv, LimiterTypeOK, Stamped
  <2>3. \A j \in Address, last \in Int : now > last => Late(j, last)' \subseteq Late(j, last)
    BY <1>0, <1>2 DEF rateLimit, Late, LimiterInv, LimiterTypeOK
  <2>4. WindowsHeld'
    BY <1>0, <1>2, <2>3, NothingCounted DEF rateLimit
  <2> QED
    BY <2>2, <2>4 DEF LimiterInv
<1>3. CASE restart
  <2>1. \A k \in Address : admitted'[k] = <<>> /\ hits'[k] = {} /\ DOMAIN admitted'[k] = {}
    BY <1>3 DEF restart, NoHits
  <2>2. LimiterTypeOK' /\ Stamped'
    BY <1>0, <1>3, <2>1, RateLimiterAssumption
    DEF restart, NoHits, LimiterTypeOK, Instant, Stamped
  <2>3. \A k \in Address, from \in Int : Intact(k, from)'
    <3> TAKE k \in Address, from \in Int
    <3>1. Passed(k, from)' = {}
      BY <2>1 DEF Passed
    <3> QED
      BY <2>1, <3>1, FS_EmptySet, RateLimiterAssumption DEF Intact
  <2> QED
    BY <2>2, <2>3 DEF LimiterInv, WindowsHeld
<1>4. CASE clock_ticks
  <2>1. LimiterTypeOK' /\ Stamped'
    BY <1>0, <1>4, RateLimiterAssumption
    DEF clock_ticks, LimiterInv, LimiterTypeOK, Stamped, Instant, Waiting
  <2>2. WindowsHeld'
    BY <1>0, <1>4, NothingCounted DEF clock_ticks, Late
  <2> QED
    BY <2>1, <2>2 DEF LimiterInv
<1>5. CASE UNCHANGED limiter_vars
  <2>1. LimiterTypeOK' /\ Stamped'
    BY <1>5 DEF limiter_vars, LimiterInv, LimiterTypeOK, Stamped
  <2>2. WindowsHeld'
    BY <1>0, <1>5, NothingCounted DEF limiter_vars, Late
  <2> QED
    BY <2>1, <2>2 DEF LimiterInv
<1> QED
  BY <1>1, <1>2, <1>3, <1>4, <1>5 DEF LimiterNext

LEMMA LimiterCorrect == LimiterSpec => []LimiterInv
<1>1. LimiterInv /\ [LimiterNext]_limiter_vars => LimiterInv'
  BY LimiterSteps
<1> QED
  BY LimiterBegins, <1>1, PTL DEF LimiterSpec

(* The limiter keeps its types for any callers, addresses and clocks.      *)
THEOREM LimiterTypeCorrect == LimiterSpec => []LimiterTypeOK
<1>1. LimiterInv => LimiterTypeOK
  BY DEF LimiterInv
<1> QED
  BY <1>1, LimiterCorrect, PTL

(* Over any window, an address gets the limit and at most one request less *)
(* than are served at once: those that were overtaken.                     *)
THEOREM RateAlwaysHeld == LimiterSpec => []RateHeld
<1>1. LimiterInv => RateHeld
  <2> SUFFICES ASSUME LimiterInv, NEW k \in Address, NEW from \in -Window..Horizon
               PROVE  Cardinality(Passed(k, from)) < PerWindow + Cardinality(Caller)
    BY DEF RateHeld
  <2>1. from \in Int /\ from + Window \in Int /\ PerWindow \in Nat
    BY RateLimiterAssumption
  <2>2. /\ Cardinality(Passed(k, from)) \in Nat
        /\ Cardinality(Late(k, from + Window)) \in Nat
        /\ Cardinality(Caller) \in Nat /\ Cardinality(Caller) > 0
    BY <2>1, WindowFinite DEF LimiterInv
  <2>3. Intact(k, from) \/ Overtaken(k, from)
    BY <2>1 DEF LimiterInv, WindowsHeld
  <2> QED
    BY <2>1, <2>2, <2>3 DEF Intact, Overtaken
<1> QED
  BY <1>1, LimiterCorrect, PTL

-----------------------------------------------------------------------------
(* The page.  The invariant says whose every number is: what the page      *)
(* keeps, spends and waits for is of its own family, and a refresh that    *)
(* nobody waits for is of another one.                                     *)

(* Every number is one of a pair that was minted.                          *)
NumbersMinted ==
  /\ {saved, refreshing.answer, leaving.spends} \subseteq 0..Len(refresh_tokens)
  /\ \A m \in wire : m.spends \in DOMAIN refresh_tokens
  /\ \A g \in DOMAIN refresh_tokens : refresh_tokens[g].family \in DOMAIN refresh_tokens

(* A page has one refresh under way, and one POST until it is answered;    *)
(* the answer brings a pair that the page has neither kept nor spent.      *)
OneRoundTrip ==
  /\ refreshing.by = Gone => refreshing.answer = 0
  /\ refreshing.answer # 0 => refreshing.answer \notin {saved, leaving.spends}
  /\ \A m \in wire : m.by # Gone => m.by = refreshing.by /\ refreshing.answer = 0
  /\ \A m, n \in wire : m.by # Gone /\ n.by # Gone => m = n
  /\ leaving.spends = 0 => ~leaving.answered

(* A POST that nobody waits for may end the family of its token: never the *)
(* one of the page, unless a reload or a sign-out overtook it.             *)
OwnFamily ==
  saved # 0 =>
    /\ refresh_tokens[saved].family = mine
    /\ Live(saved) \/ leaving.spends = saved \/ refreshing.answer # 0
    /\ refreshing.answer # 0 =>
         refresh_tokens[refreshing.answer].family = mine /\ Live(refreshing.answer)
    /\ \A m \in wire :
         IF m.by = Gone THEN refresh_tokens[m.spends].family # mine ELSE m.spends = saved

OwnSession == (saved = 0 => refreshing.by = Gone) /\ OwnFamily

WebInv == WebTypeOK /\ NumbersMinted /\ OneRoundTrip /\ (~overtaken => OwnSession)

(* What the server does to its table: rows stay, in their families.        *)
LEMMA TokenRows ==
  ASSUME WebTypeOK
  PROVE  /\ Len(refresh_tokens) \in 0..MaxPairs
         /\ DOMAIN refresh_tokens = 1..Len(refresh_tokens)
         /\ \A g \in DOMAIN refresh_tokens :
              refresh_tokens[g] \in TokenRow
BY WebAssumption DEF WebTypeOK

(* Rotating a live token adds one to its family.                           *)
LEMMA RotateLive ==
  ASSUME WebInv, NEW g \in DOMAIN refresh_tokens, Live(g), Next_pair \in Pair,
         refresh_tokens' = Rotate(g)
  PROVE  /\ Len(refresh_tokens') = Next_pair
         /\ DOMAIN refresh_tokens' = 1..Next_pair
         /\ refresh_tokens' \in Seq(TokenRow)
         /\ refresh_tokens'[Next_pair] = Minted(refresh_tokens[g].family)
         /\ \A h \in DOMAIN refresh_tokens :
              /\ refresh_tokens'[h].family = refresh_tokens[h].family
              /\ Live(h)' <=> h # g /\ Live(h)
<1> DEFINE consumed == [refresh_tokens EXCEPT ![g].state = "used"]
<1>1. refresh_tokens \in Seq(TokenRow) /\ DOMAIN refresh_tokens = 1..Len(refresh_tokens)
  BY DEF WebInv, WebTypeOK
<1>2. refresh_tokens[g] \in TokenRow
  BY <1>1
<1>3. [refresh_tokens[g] EXCEPT !.state = "used"] \in TokenRow
  BY <1>2 DEF TokenRow
<1>4. consumed \in Seq(TokenRow) /\ Len(consumed) = Len(refresh_tokens)
  BY <1>1, <1>3
<1>5. Minted(refresh_tokens[g].family) \in TokenRow
  BY <1>2 DEF Minted, TokenRow
<1>6. refresh_tokens' = Append(consumed, Minted(refresh_tokens[g].family))
  BY DEF Rotate
<1>7. /\ Len(refresh_tokens') = Next_pair /\ refresh_tokens' \in Seq(TokenRow)
      /\ refresh_tokens'[Next_pair] = Minted(refresh_tokens[g].family)
      /\ \A h \in 1..Len(refresh_tokens) : refresh_tokens'[h] = consumed[h]
  BY <1>4, <1>5, <1>6 DEF Next_pair
<1>8. \A h \in DOMAIN refresh_tokens :
        /\ consumed[h].family = refresh_tokens[h].family
        /\ h # g => consumed[h] = refresh_tokens[h]
        /\ consumed[g].state = "used"
  BY <1>1, <1>2 DEF TokenRow
<1>9. DOMAIN refresh_tokens' = 1..Next_pair
  BY <1>7
<1>10. \A h \in DOMAIN refresh_tokens : Live(h)' <=> h # g /\ Live(h)
  BY <1>1, <1>7, <1>8 DEF Live
<1>11. \A h \in DOMAIN refresh_tokens : refresh_tokens'[h].family = refresh_tokens[h].family
  BY <1>1, <1>7, <1>8
<1> QED
  BY <1>7, <1>9, <1>10, <1>11

(* Revoking rows leaves them where they are.                               *)
LEMMA RowsRevoked ==
  ASSUME WebInv, NEW T \in SUBSET DOMAIN refresh_tokens,
         refresh_tokens' = [h \in DOMAIN refresh_tokens |->
           IF h \in T THEN [refresh_tokens[h] EXCEPT !.state = "revoked"]
                      ELSE refresh_tokens[h]]
  PROVE  /\ Len(refresh_tokens') = Len(refresh_tokens)
         /\ DOMAIN refresh_tokens' = DOMAIN refresh_tokens
         /\ refresh_tokens' \in Seq(TokenRow)
         /\ \A h \in DOMAIN refresh_tokens :
              /\ refresh_tokens'[h].family = refresh_tokens[h].family
              /\ Live(h)' <=> h \notin T /\ Live(h)
<1>1. /\ refresh_tokens \in Seq(TokenRow) /\ DOMAIN refresh_tokens = 1..Len(refresh_tokens)
      /\ Len(refresh_tokens) \in Nat
  BY DEF WebInv, WebTypeOK
<1>2. \A h \in DOMAIN refresh_tokens : refresh_tokens[h] \in TokenRow
  BY <1>1
<1>3. \A h \in DOMAIN refresh_tokens : refresh_tokens'[h] \in TokenRow
  BY <1>2 DEF TokenRow
<1>4. refresh_tokens' \in Seq(TokenRow) /\ Len(refresh_tokens') = Len(refresh_tokens)
  BY <1>1, <1>3
<1>5. \A h \in DOMAIN refresh_tokens :
        /\ refresh_tokens'[h].family = refresh_tokens[h].family
        /\ h \in T => refresh_tokens'[h].state = "revoked"
        /\ h \notin T => refresh_tokens'[h] = refresh_tokens[h]
  BY <1>2 DEF TokenRow
<1> QED
  BY <1>1, <1>4, <1>5 DEF Live

-----------------------------------------------------------------------------
(* The requests of the page, whatever they are at.                         *)
RequestRecord == [at: {"idle", "sent", "waiting"}, bearer: 0..MaxPairs, retried: BOOLEAN]

LEMMA FetchTypes ==
  ASSUME WebInv, saved' \in 0..MaxPairs,
         \/ UNCHANGED fetches
         \/ \E r \in Fetch, x \in RequestRecord : fetches' = [fetches EXCEPT ![r] = x]
         \/ \E r \in Fetch : fetches' = [fetches EXCEPT ![r].at = "waiting"]
         \/ \E x \in RequestRecord :
              fetches' = [r \in Fetch |-> IF r \in InWait THEN x ELSE fetches[r]]
  PROVE  fetches' \in [Fetch -> RequestRecord]
<1>1. fetches \in [Fetch -> RequestRecord]
  BY DEF WebInv, WebTypeOK, RequestRecord
<1>2. CASE \E r \in Fetch : fetches' = [fetches EXCEPT ![r].at = "waiting"]
  <2>1. PICK r \in Fetch : fetches' = [fetches EXCEPT ![r].at = "waiting"]
    BY <1>2
  <2>2. [fetches[r] EXCEPT !.at = "waiting"] \in RequestRecord
    BY <1>1 DEF RequestRecord
  <2> QED
    BY <1>1, <2>1, <2>2
<1> QED
  BY <1>1, <1>2

(* NotSent is a state of a request.                                        *)
LEMMA NotSentType == NotSent \in RequestRecord
BY WebAssumption DEF NotSent, RequestRecord

(* What the types and the numbers say of single values.                    *)
LEMMA WebTypes ==
  ASSUME WebInv
  PROVE  /\ Len(refresh_tokens) \in 0..MaxPairs
         /\ DOMAIN refresh_tokens = 1..Len(refresh_tokens)
         /\ saved \in 0..Len(refresh_tokens) /\ leaving.spends \in 0..Len(refresh_tokens)
         /\ refreshing.answer \in 0..Len(refresh_tokens)
         /\ refreshing.by \in Fetch \cup {Gone}
         /\ refreshing = [by |-> refreshing.by, answer |-> refreshing.answer]
         /\ leaving = [spends |-> leaving.spends, answered |-> leaving.answered]
         /\ refreshing = NoRefresh <=> refreshing.by = Gone
         /\ leaving = Staying <=> leaving.spends = 0
         /\ \A m \in wire : /\ m.spends \in DOMAIN refresh_tokens
                            /\ m = [by |-> m.by, spends |-> m.spends]
         /\ 0..Len(refresh_tokens) \subseteq 0..MaxPairs /\ DOMAIN refresh_tokens \subseteq Pair
<1>1. Len(refresh_tokens) \in 0..MaxPairs /\ DOMAIN refresh_tokens = 1..Len(refresh_tokens)
  BY TokenRows DEF WebInv
<1>2. /\ refreshing \in [by: Fetch \cup {Gone}, answer: 0..MaxPairs]
      /\ leaving \in [spends: 0..MaxPairs, answered: BOOLEAN]
      /\ wire \subseteq [by: Fetch \cup {Gone}, spends: Pair]
  BY DEF WebInv, WebTypeOK
<1>3. /\ refreshing = [by |-> refreshing.by, answer |-> refreshing.answer]
      /\ leaving = [spends |-> leaving.spends, answered |-> leaving.answered]
      /\ refreshing.by \in Fetch \cup {Gone} /\ leaving.answered \in BOOLEAN
      /\ \A m \in wire : m = [by |-> m.by, spends |-> m.spends]
  BY <1>2
<1>4. refreshing = NoRefresh <=> refreshing.by = Gone
  BY <1>3 DEF NoRefresh, WebInv, OneRoundTrip
<1>5. leaving = Staying <=> leaving.spends = 0
  BY <1>3 DEF Staying, WebInv, OneRoundTrip
<1>6. 0..Len(refresh_tokens) \subseteq 0..MaxPairs /\ DOMAIN refresh_tokens \subseteq Pair
  BY <1>1, WebAssumption DEF Pair
<1> QED
  BY <1>1, <1>3, <1>4, <1>5, <1>6 DEF WebInv, NumbersMinted

(* Steps of the page: the server's table stays.                            *)
LEMMA PageSteps ==
  ASSUME WebInv,
         \/ logout \/ loggedOut \/ reload \/ refreshed \/ notRefreshed
         \/ \E r \in Fetch : send(r) \/ answered(r) \/ tryRefresh(r) \/ giveUp(r)
  PROVE  WebInv'
<1> USE WebAssumption
<1>1. CASE logout
  <2>1. WebTypeOK'
    BY <1>1, WebTypes DEF logout, WebTypeOK, WebInv, server_vars
  <2>2. NumbersMinted' /\ OneRoundTrip'
    BY <1>1, WebTypes DEF logout, NumbersMinted, OneRoundTrip, WebInv, server_vars
  <2>3. ~overtaken' => OwnSession'
    BY <1>1, WebTypes DEF logout, OwnSession, OwnFamily, WebInv, server_vars, Live
  <2> QED
    BY <2>1, <2>2, <2>3 DEF WebInv
<1>2. CASE loggedOut
  <2>1. WebTypeOK'
    BY <1>2, WebTypes DEF loggedOut, WebTypeOK, WebInv, server_vars, Forget, Overtakes, Staying
  <2>2. NumbersMinted' /\ OneRoundTrip'
    BY <1>2, WebTypes
    DEF loggedOut, NumbersMinted, OneRoundTrip, WebInv, server_vars, Forget, Staying
  <2>3. ~overtaken' => OwnSession'
    BY <1>2, WebTypes
    DEF loggedOut, OwnSession, OwnFamily, WebInv, server_vars, Live, Forget, Overtakes
  <2> QED
    BY <2>1, <2>2, <2>3 DEF WebInv
<1>3. CASE refreshed
  <2>1. fetches' \in [Fetch -> RequestRecord]
    <3>1. [at |-> "sent", bearer |-> refreshing.answer, retried |-> TRUE] \in RequestRecord
      BY WebTypes DEF RequestRecord
    <3> QED
      BY <1>3, <3>1, WebTypes, FetchTypes DEF refreshed
  <2>2. WebTypeOK'
    BY <1>3, <2>1, WebTypes
    DEF refreshed, WebTypeOK, WebInv, server_vars, NoRefresh, RequestRecord
  <2>3. NumbersMinted' /\ OneRoundTrip'
    BY <1>3, WebTypes DEF refreshed, NumbersMinted, OneRoundTrip, WebInv, server_vars, NoRefresh
  <2>4. ~overtaken' => OwnSession'
    BY <1>3, WebTypes
    DEF refreshed, OneRoundTrip, OwnSession, OwnFamily, WebInv, server_vars, Live, NoRefresh
  <2> QED
    BY <2>2, <2>3, <2>4 DEF WebInv
<1>4. ASSUME NEW r \in Fetch, send(r) \/ answered(r)
      PROVE  WebInv'
  <2>1. fetches' \in [Fetch -> RequestRecord]
    <3>1. [at |-> "sent", bearer |-> saved, retried |-> FALSE] \in RequestRecord
      BY WebTypes DEF RequestRecord
    <3> QED
      BY <1>4, <3>1, WebTypes, FetchTypes, NotSentType DEF send, answered
  <2>2. UNCHANGED <<saved, refreshing, wire, leaving, dead, refresh_tokens, mine, overtaken>>
    BY <1>4 DEF send, answered, server_vars
  <2>3. WebTypeOK'
    BY <2>1, <2>2 DEF WebTypeOK, WebInv, RequestRecord
  <2> QED
    BY <2>2, <2>3
    DEF WebInv, NumbersMinted, OneRoundTrip, OwnSession, OwnFamily, Live
<1>5. ASSUME NEW r \in Fetch, giveUp(r)
      PROVE  WebInv'
  <2>1. fetches' \in [Fetch -> RequestRecord]
    <3>1. \E q \in Fetch, x \in RequestRecord : fetches' = [fetches EXCEPT ![q] = x]
      BY <1>5, NotSentType DEF giveUp
    <3>2. saved' \in 0..MaxPairs
      BY <1>5 DEF giveUp, Forget
    <3> QED
      BY <3>1, <3>2, FetchTypes
  <2>2. WebTypeOK'
    BY <1>5, <2>1, WebTypes
    DEF giveUp, Forget, Overtakes, WebTypeOK, WebInv, RequestRecord, server_vars
  <2>3. NumbersMinted' /\ OneRoundTrip'
    BY <1>5, WebTypes DEF giveUp, Forget, NumbersMinted, OneRoundTrip, WebInv, server_vars
  <2>4. ~overtaken' => OwnSession'
    BY <1>5, WebTypes
    DEF giveUp, Forget, Overtakes, OwnSession, OwnFamily, WebInv, server_vars
  <2> QED
    BY <2>2, <2>3, <2>4 DEF WebInv
<1>6. ASSUME NEW r \in Fetch, tryRefresh(r)
      PROVE  WebInv'
  <2>1. fetches' \in [Fetch -> RequestRecord]
    <3>1. saved' \in 0..MaxPairs
      BY <1>6, WebTypes DEF tryRefresh
    <3> QED
      BY <1>6, <3>1, FetchTypes DEF tryRefresh
  <2>2. CASE refreshing = NoRefresh
    <3>1. /\ wire' = wire \cup {[by |-> r, spends |-> saved]}
          /\ refreshing' = [by |-> r, answer |-> 0]
          /\ UNCHANGED <<saved, leaving, dead, refresh_tokens, mine, overtaken>>
          /\ saved \in DOMAIN refresh_tokens /\ r # Gone
      BY <1>6, <2>2, WebTypes DEF tryRefresh, Posted, server_vars
    <3>2. WebTypeOK'
      BY <2>1, <3>1, WebTypes DEF WebTypeOK, WebInv, RequestRecord
    <3>3. NumbersMinted'
      BY <3>1, WebTypes DEF NumbersMinted, WebInv
    <3>4. \A m \in wire' : m.by = Gone \/ m = [by |-> r, spends |-> saved]
      BY <2>2, <3>1 DEF WebInv, OneRoundTrip, NoRefresh
    <3>5. OneRoundTrip'
      BY <3>1, <3>4, WebTypes DEF OneRoundTrip, WebInv
    <3>6. ~overtaken' => OwnSession'
      BY <2>2, <3>1, <3>4, WebTypes DEF OwnSession, OwnFamily, WebInv, Live, NoRefresh
    <3> QED
      BY <3>2, <3>3, <3>5, <3>6 DEF WebInv
  <2>3. CASE refreshing # NoRefresh
    <3>1. UNCHANGED <<saved, refreshing, wire, leaving, dead, refresh_tokens, mine, overtaken>>
      BY <1>6, <2>3 DEF tryRefresh, Posted, server_vars
    <3>2. WebTypeOK'
      BY <2>1, <3>1 DEF WebTypeOK, WebInv, RequestRecord
    <3> QED
      BY <3>1, <3>2
      DEF WebInv, NumbersMinted, OneRoundTrip, OwnSession, OwnFamily, Live
  <2> QED
    BY <2>2, <2>3
<1>7. ASSUME notRefreshed \/ reload
      PROVE  WebInv'
  <2> DEFINE orphan(m) == [m EXCEPT !.by = Gone]
  <2>1. /\ wire' = {orphan(m) : m \in wire}
        /\ refreshing' = NoRefresh
        /\ UNCHANGED <<dead, refresh_tokens>>
    BY <1>7 DEF notRefreshed, reload, server_vars
  <2>2. \A m \in wire : orphan(m) = [by |-> Gone, spends |-> m.spends]
    BY WebTypes
  <2>3. \A o \in wire' : /\ o.by = Gone /\ o \in [by: Fetch \cup {Gone}, spends: Pair]
                         /\ \E m \in wire : o.spends = m.spends
    BY <2>1, <2>2, WebTypes
  <2>4. fetches' \in [Fetch -> RequestRecord]
    <3>1. fetches \in [Fetch -> RequestRecord]
      BY DEF WebInv, WebTypeOK, RequestRecord
    <3> QED
      BY <1>7, <3>1, NotSentType DEF notRefreshed, reload
  <2>5. /\ saved' \in {0, saved} /\ leaving' \in {leaving, Staying} /\ mine' \in {0, mine}
        /\ overtaken' \in BOOLEAN
    BY <1>7 DEF notRefreshed, reload, Forget, WebInv, WebTypeOK
  <2>6. WebTypeOK'
    <3>1. saved' \in 0..MaxPairs /\ mine' \in 0..MaxPairs
      BY <2>5 DEF WebTypeOK, WebInv
    <3>2. NoRefresh \in [by: Fetch \cup {Gone}, answer: 0..MaxPairs]
      BY DEF NoRefresh
    <3>3. Staying \in [spends: 0..MaxPairs, answered: BOOLEAN]
      BY DEF Staying
    <3>4. leaving' \in [spends: 0..MaxPairs, answered: BOOLEAN]
      BY <2>5, <3>3 DEF WebTypeOK, WebInv
    <3>5. /\ dead' \subseteq Pair /\ refresh_tokens' \in Seq(TokenRow)
          /\ Len(refresh_tokens') <= MaxPairs
      BY <2>1 DEF WebTypeOK, WebInv
    <3>6. wire' \subseteq [by: Fetch \cup {Gone}, spends: Pair]
      BY <2>3
    <3> QED
      BY <2>1, <2>4, <2>5, <3>1, <3>2, <3>4, <3>5, <3>6 DEF WebTypeOK, RequestRecord
  <2>7. NumbersMinted' /\ OneRoundTrip'
    BY <2>1, <2>3, <2>5, WebTypes
    DEF NumbersMinted, OneRoundTrip, WebInv, NoRefresh, Staying
  <2>8. ASSUME ~overtaken'
        PROVE  OwnSession'
    <3>1. CASE notRefreshed
      BY <2>1, <3>1 DEF notRefreshed, Forget, OwnSession, OwnFamily, NoRefresh
    <3>2. CASE reload
      <4>1. ~overtaken /\ refreshing = NoRefresh /\ leaving = Staying /\ saved' = saved
            /\ mine' = mine
        BY <2>8, <3>2 DEF reload
      <4>2. \A m \in wire : m.by = Gone
        BY <4>1 DEF WebInv, OneRoundTrip, NoRefresh
      <4>3. saved # 0 => /\ refresh_tokens[saved].family = mine
                         /\ Live(saved)
                         /\ \A m \in wire : refresh_tokens[m.spends].family # mine
        BY <4>1, <4>2 DEF WebInv, OwnSession, OwnFamily, NoRefresh, Staying
      <4> QED
        BY <2>1, <2>3, <4>1, <4>3 DEF OwnSession, OwnFamily, NoRefresh, Live
    <3> QED
      BY <1>7, <3>1, <3>2
  <2> QED
    BY <2>6, <2>7, <2>8 DEF WebInv
<1> QED
  BY <1>1, <1>2, <1>3, <1>4, <1>5, <1>6, <1>7

(* Signing in opens a family that nothing under way knows.                 *)
LEMMA LoginStep ==
  ASSUME WebInv, login
  PROVE  WebInv'
<1> USE WebAssumption
<1>1. /\ Next_pair = Len(refresh_tokens) + 1 /\ Next_pair \in Pair /\ Next_pair \in 1..MaxPairs
      /\ refresh_tokens' = Append(refresh_tokens, Minted(Next_pair))
      /\ saved' = Next_pair /\ mine' = Next_pair
      /\ overtaken' = (refreshing # NoRefresh)
      /\ UNCHANGED <<refreshing, fetches, wire, leaving, dead>>
  BY DEF login, Next_pair, Pair
<1>2. Minted(Next_pair) \in TokenRow
  BY <1>1 DEF Minted, TokenRow
<1>3. /\ refresh_tokens \in Seq(TokenRow) /\ Len(refresh_tokens) \in Nat
      /\ refresh_tokens' \in Seq(TokenRow) /\ Len(refresh_tokens') = Next_pair
      /\ refresh_tokens'[Next_pair] = Minted(Next_pair)
      /\ \A g \in DOMAIN refresh_tokens : refresh_tokens'[g] = refresh_tokens[g]
  BY <1>1, <1>2 DEF WebInv, WebTypeOK
<1>4. DOMAIN refresh_tokens = 1..Len(refresh_tokens) /\ DOMAIN refresh_tokens' = 1..Next_pair
  BY <1>3
<1>5. refresh_tokens'[Next_pair].family = Next_pair /\ refresh_tokens'[Next_pair].state = "live"
  BY <1>3 DEF Minted
<1>6. WebTypeOK'
  BY <1>1, <1>3 DEF WebTypeOK, WebInv
<1>7. NumbersMinted'
  BY <1>1, <1>3, <1>4, <1>5, WebTypes DEF NumbersMinted, WebInv
<1>8. OneRoundTrip'
  BY <1>1, WebTypes DEF OneRoundTrip, WebInv
<1>9. ASSUME ~overtaken'
      PROVE  OwnSession'
  <2>1. refreshing.by = Gone /\ refreshing.answer = 0 /\ \A m \in wire : m.by = Gone
    BY <1>1, <1>9, WebTypes DEF WebInv, OneRoundTrip
  <2>2. \A m \in wire : refresh_tokens'[m.spends].family # Next_pair
    BY <1>1, <1>3, <1>4, WebTypes DEF WebInv, NumbersMinted
  <2> QED
    BY <1>1, <1>5, <2>1, <2>2 DEF OwnSession, OwnFamily, Live
<1> QED
  BY <1>6, <1>7, <1>8, <1>9 DEF WebInv

(* The server turns a POST of the page into a new tip of its family; one   *)
(* that nobody waits for is of another family.                             *)
LEMMA RefreshStep ==
  ASSUME WebInv, NEW m \in wire, Refresh(m)
  PROVE  WebInv'
<1> USE WebAssumption
<1> DEFINE g == m.spends
           own == m.by # Gone
<1>1. /\ g \in DOMAIN refresh_tokens
      /\ wire' = wire \ {m} /\ refresh_tokens' = Rotate(g)
      /\ UNCHANGED <<saved, fetches, leaving, dead, mine, overtaken>>
      /\ own => m.by = refreshing.by /\ refreshing.answer = 0
  BY WebTypes DEF Refresh, WebInv, OneRoundTrip
<1>2. ASSUME ~overtaken, saved # 0
      PROVE  /\ refresh_tokens[saved].family = mine /\ saved \in DOMAIN refresh_tokens
             /\ Live(saved) \/ leaving.spends = saved \/ refreshing.answer # 0
             /\ refreshing.answer # 0 =>
                  /\ refresh_tokens[refreshing.answer].family = mine /\ Live(refreshing.answer)
                  /\ refreshing.answer \in DOMAIN refresh_tokens
             /\ IF own THEN g = saved ELSE refresh_tokens[g].family # mine
             /\ \A n \in wire :
                  IF n.by = Gone THEN refresh_tokens[n.spends].family # mine
                                 ELSE n.spends = saved
  BY <1>2, WebTypes DEF WebInv, OwnSession, OwnFamily
<1>3. ASSUME ~overtaken, saved = 0
      PROVE  refreshing.by = Gone
  BY <1>3 DEF WebInv, OwnSession
<1>4. \A n \in wire' : /\ n \in wire /\ n.spends \in DOMAIN refresh_tokens
                       /\ own => n.by = Gone
  BY <1>1, WebTypes DEF WebInv, OneRoundTrip
<1>5. CASE Live(g)
  <2>1. Next_pair \in Pair /\ Next_pair = Len(refresh_tokens) + 1
    BY <1>5 DEF Refresh, Next_pair
  <2>2. /\ Len(refresh_tokens') = Next_pair
        /\ DOMAIN refresh_tokens' = 1..Next_pair
        /\ refresh_tokens' \in Seq(TokenRow)
        /\ refresh_tokens'[Next_pair] = Minted(refresh_tokens[g].family)
        /\ \A h \in DOMAIN refresh_tokens :
              /\ refresh_tokens'[h].family = refresh_tokens[h].family
              /\ Live(h)' <=> h # g /\ Live(h)
    BY <1>1, <1>5, <2>1, RotateLive
  <2>3. refresh_tokens'[Next_pair].family = refresh_tokens[g].family /\ Next_pair \in 1..MaxPairs
    BY <2>1, <2>2 DEF Minted, Pair
  <2>4. refreshing' = IF own THEN [by |-> m.by, answer |-> Next_pair] ELSE refreshing
    <3>1. refreshing' = IF own THEN [refreshing EXCEPT !.answer = Next_pair] ELSE refreshing
      BY <1>1, <1>5 DEF Refresh
    <3> QED
      BY <1>1, <3>1, WebTypes
  <2>5. WebTypeOK'
    <3>1. refreshing' \in [by: Fetch \cup {Gone}, answer: 0..MaxPairs]
      BY <1>1, <2>3, <2>4, WebTypes DEF WebInv, WebTypeOK
    <3> QED
      BY <1>1, <2>2, <2>3, <3>1 DEF WebTypeOK, WebInv
  <2>6. NumbersMinted'
    <3>1. {saved', refreshing'.answer, leaving'.spends} \subseteq 0..Len(refresh_tokens')
      BY <1>1, <2>1, <2>2, <2>4, WebTypes
    <3>2. \A h \in DOMAIN refresh_tokens' : refresh_tokens'[h].family \in DOMAIN refresh_tokens'
      <4>1. \A h \in DOMAIN refresh_tokens :
              refresh_tokens[h].family \in 1..Len(refresh_tokens)
        BY WebTypes DEF WebInv, NumbersMinted
      <4>2. ASSUME NEW h \in 1..Next_pair
            PROVE  refresh_tokens'[h].family \in 1..Next_pair
        <5>1. CASE h = Next_pair
          BY <1>1, <2>1, <2>3, <4>1, <5>1, WebTypes
        <5>2. CASE h # Next_pair
          BY <2>1, <2>2, <4>1, <5>2, WebTypes
        <5> QED
          BY <5>1, <5>2
      <4> QED
        BY <2>2, <4>2
    <3> QED
      BY <1>1, <1>4, <2>1, <2>2, <3>1, <3>2, WebTypes DEF NumbersMinted
  <2>7. OneRoundTrip'
    BY <1>1, <1>4, <2>1, <2>4, WebTypes DEF WebInv, OneRoundTrip
  <2>8. ASSUME ~overtaken'
        PROVE  OwnSession'
    <3>1. saved = 0 => refreshing'.by = Gone
      BY <1>1, <1>3, <2>4, <2>8
    <3>2. CASE saved # 0 /\ own
      <4>1. /\ saved = g /\ refresh_tokens[g].family = mine /\ refreshing'.answer = Next_pair
            /\ \A n \in wire' : n.by = Gone
        BY <1>1, <1>2, <1>4, <2>4, <2>8, <3>2
      <4>2. refresh_tokens'[Next_pair].family = mine /\ refresh_tokens'[Next_pair].state = "live"
        BY <2>2, <4>1 DEF Minted
      <4>3. \A n \in wire' : refresh_tokens'[n.spends].family # mine
        BY <1>1, <1>2, <1>4, <2>2, <2>8, <3>2, <4>1
      <4> QED
        BY <1>1, <2>1, <2>2, <3>1, <4>1, <4>2, <4>3 DEF OwnSession, OwnFamily, Live
    <3>3. CASE saved # 0 /\ ~own
      <4>1. /\ refreshing' = refreshing
            /\ refresh_tokens[saved].family = mine /\ saved \in DOMAIN refresh_tokens
            /\ refresh_tokens[g].family # mine /\ saved # g
            /\ Live(saved) \/ leaving.spends = saved \/ refreshing.answer # 0
            /\ refreshing.answer # 0 =>
                 /\ refresh_tokens[refreshing.answer].family = mine /\ Live(refreshing.answer)
                 /\ refreshing.answer \in DOMAIN refresh_tokens /\ refreshing.answer # g
        BY <1>1, <1>2, <2>4, <2>8, <3>3
      <4>2. \A h \in DOMAIN refresh_tokens :
              /\ refresh_tokens'[h].family = refresh_tokens[h].family
              /\ h # g /\ Live(h) => refresh_tokens'[h].state = "live"
        BY <2>2 DEF Live
      <4>3. \A n \in wire' : IF n.by = Gone THEN refresh_tokens'[n.spends].family # mine
                                            ELSE n.spends = saved
        BY <1>1, <1>2, <1>4, <2>8, <3>3, <4>2
      <4> QED
        BY <1>1, <3>1, <4>1, <4>2, <4>3 DEF OwnSession, OwnFamily, Live
    <3> QED
      BY <1>1, <3>1, <3>2, <3>3 DEF OwnSession, OwnFamily
  <2> QED
    BY <2>5, <2>6, <2>7, <2>8 DEF WebInv
<1>6. CASE ~Live(g)
  <2> DEFINE T == {h \in DOMAIN refresh_tokens :
                     refresh_tokens[h].family = refresh_tokens[g].family}
  <2>1. /\ Len(refresh_tokens') = Len(refresh_tokens)
        /\ DOMAIN refresh_tokens' = DOMAIN refresh_tokens
        /\ refresh_tokens' \in Seq(TokenRow)
        /\ \A h \in DOMAIN refresh_tokens :
             /\ refresh_tokens'[h].family = refresh_tokens[h].family
             /\ Live(h)' <=> h \notin T /\ Live(h)
    <3>1. refresh_tokens' = [h \in DOMAIN refresh_tokens |->
            IF h \in T THEN [refresh_tokens[h] EXCEPT !.state = "revoked"]
                       ELSE refresh_tokens[h]]
      BY <1>1, <1>6 DEF Rotate
    <3>2. T \in SUBSET DOMAIN refresh_tokens
      OBVIOUS
    <3> HIDE DEF T
    <3> QED
      BY <3>1, <3>2, RowsRevoked
  <2>2. refreshing' = refreshing
    <3>1. refreshing' = IF own THEN [refreshing EXCEPT !.answer = 0] ELSE refreshing
      BY <1>1, <1>6 DEF Refresh
    <3> QED
      BY <1>1, <3>1, WebTypes
  <2>3. WebTypeOK'
    BY <1>1, <2>1, <2>2 DEF WebTypeOK, WebInv
  <2>4. NumbersMinted'
    BY <1>1, <1>4, <2>1, <2>2 DEF WebInv, NumbersMinted
  <2>5. OneRoundTrip'
    BY <1>1, <2>2 DEF WebInv, OneRoundTrip
  <2>6. ASSUME ~overtaken', saved # 0
        PROVE  OwnFamily'
    <3>1. refresh_tokens'[saved].family = mine
      BY <1>1, <1>2, <2>1, <2>6
    <3>2. \A n \in wire' : IF n.by = Gone THEN refresh_tokens'[n.spends].family # mine
                                          ELSE n.spends = saved
      BY <1>1, <1>2, <1>4, <2>1, <2>6
    <3>3. CASE own
      <4>1. leaving.spends = saved /\ refreshing.answer = 0
        BY <1>1, <1>2, <1>6, <2>6, <3>3
      <4> QED
        BY <1>1, <2>2, <3>1, <3>2, <4>1 DEF OwnFamily
    <3>4. CASE ~own
      <4>1. \A h \in DOMAIN refresh_tokens :
              refresh_tokens[h].family = mine /\ Live(h) => refresh_tokens'[h].state = "live"
        BY <1>1, <1>2, <2>1, <2>6, <3>4 DEF Live
      <4> QED
        BY <1>1, <1>2, <2>1, <2>2, <2>6, <3>1, <3>2, <4>1 DEF OwnFamily, Live
    <3> QED
      BY <3>3, <3>4
  <2>7. ~overtaken' => OwnSession'
    BY <1>1, <1>3, <2>2, <2>6 DEF OwnSession, OwnFamily
  <2> QED
    BY <2>3, <2>4, <2>5, <2>7 DEF WebInv
<1> QED
  BY <1>5, <1>6

(* What else the server does to the rows.                                  *)
LEMMA ServerSteps ==
  ASSUME WebInv, Logout \/ session_ends \/ access_expires
  PROVE  WebInv'
<1> USE WebAssumption
<1>1. CASE Logout
  <2> DEFINE g == leaving.spends
  <2>1. /\ leaving # Staying /\ leaving' = [leaving EXCEPT !.answered = TRUE]
        /\ refresh_tokens' = [refresh_tokens EXCEPT ![g].state = "revoked"]
        /\ UNCHANGED <<saved, refreshing, fetches, wire, dead, mine, overtaken>>
    BY <1>1 DEF Logout
  <2>2. g \in DOMAIN refresh_tokens /\ leaving' = [spends |-> g, answered |-> TRUE]
    <3>1. g \in 1..Len(refresh_tokens)
      BY <2>1, WebTypes
    <3>2. leaving = [spends |-> g, answered |-> leaving.answered]
      BY WebTypes
    <3> QED
      BY <2>1, <3>1, <3>2, WebTypes
  <2>3. refresh_tokens' = [h \in DOMAIN refresh_tokens |->
          IF h \in {g} THEN [refresh_tokens[h] EXCEPT !.state = "revoked"]
                       ELSE refresh_tokens[h]]
    BY <2>1, <2>2
  <2>4. /\ Len(refresh_tokens') = Len(refresh_tokens)
        /\ DOMAIN refresh_tokens' = DOMAIN refresh_tokens
        /\ refresh_tokens' \in Seq(TokenRow)
        /\ \A h \in DOMAIN refresh_tokens :
             /\ refresh_tokens'[h].family = refresh_tokens[h].family
             /\ Live(h)' <=> h \notin {g} /\ Live(h)
    BY <2>2, <2>3, RowsRevoked
  <2>5. WebTypeOK'
    BY <2>1, <2>2, <2>4, WebTypes DEF WebTypeOK, WebInv
  <2>6. NumbersMinted' /\ OneRoundTrip'
    BY <2>1, <2>2, <2>4, WebTypes DEF WebInv, NumbersMinted, OneRoundTrip
  <2>7. ASSUME ~overtaken'
        PROVE  OwnSession'
    <3>1. \A h \in DOMAIN refresh_tokens :
            /\ refresh_tokens'[h].family = refresh_tokens[h].family
            /\ h # g /\ Live(h) => refresh_tokens'[h].state = "live"
      BY <2>4 DEF Live
    <3>2. refreshing.answer # 0 => refreshing.answer # g
      BY DEF WebInv, OneRoundTrip
    <3> QED
      BY <2>1, <2>2, <2>4, <2>7, <3>1, <3>2, WebTypes DEF WebInv, OwnSession, OwnFamily, Live
  <2> QED
    BY <2>5, <2>6, <2>7 DEF WebInv
<1>2. CASE session_ends
  <2>1. /\ refresh_tokens' = [h \in DOMAIN refresh_tokens |->
             IF h \in DOMAIN refresh_tokens
             THEN [refresh_tokens[h] EXCEPT !.state = "revoked"] ELSE refresh_tokens[h]]
        /\ overtaken' = TRUE
        /\ UNCHANGED <<saved, refreshing, fetches, wire, leaving, dead, mine>>
    BY <1>2 DEF session_ends, page_vars
  <2>2. /\ Len(refresh_tokens') = Len(refresh_tokens)
        /\ DOMAIN refresh_tokens' = DOMAIN refresh_tokens
        /\ refresh_tokens' \in Seq(TokenRow)
        /\ \A h \in DOMAIN refresh_tokens :
             refresh_tokens'[h].family = refresh_tokens[h].family
    BY <2>1, RowsRevoked
  <2>3. WebTypeOK'
    BY <2>1, <2>2 DEF WebInv, WebTypeOK
  <2>4. NumbersMinted' /\ OneRoundTrip'
    BY <2>1, <2>2, WebTypes DEF WebInv, NumbersMinted, OneRoundTrip
  <2> QED
    BY <2>1, <2>3, <2>4 DEF WebInv
<1>3. CASE access_expires
  <2>1. /\ dead' \subseteq Pair
        /\ UNCHANGED <<page_vars, refresh_tokens, mine, overtaken>>
    BY <1>3, WebTypes DEF access_expires, WebInv, WebTypeOK
  <2> QED
    BY <2>1
    DEF page_vars, WebInv, WebTypeOK, NumbersMinted, OneRoundTrip, OwnSession, OwnFamily, Live
<1> QED
  BY <1>1, <1>2, <1>3

LEMMA WebBegins == WebInit => WebInv
<1> SUFFICES ASSUME WebInit PROVE WebInv
  OBVIOUS
<1> USE WebAssumption DEF WebInit
<1>1. Len(refresh_tokens) = 0 /\ DOMAIN refresh_tokens = {} /\ refresh_tokens \in Seq(TokenRow)
  OBVIOUS
<1>2. fetches \in [Fetch -> RequestRecord]
  BY NotSentType
<1>3. NoRefresh \in [by: Fetch \cup {Gone}, answer: 0..MaxPairs]
  BY DEF NoRefresh
<1>4. Staying \in [spends: 0..MaxPairs, answered: BOOLEAN]
  BY DEF Staying
<1>5. WebTypeOK
  <2>1. saved \in 0..MaxPairs /\ mine \in 0..MaxPairs
    OBVIOUS
  <2>2. overtaken \in BOOLEAN
    OBVIOUS
  <2>3. dead \subseteq Pair /\ wire \subseteq [by: Fetch \cup {Gone}, spends: Pair]
    OBVIOUS
  <2>4. Len(refresh_tokens) <= MaxPairs
    BY <1>1
  <2>5. /\ refreshing \in [by: Fetch \cup {Gone}, answer: 0..MaxPairs]
        /\ leaving \in [spends: 0..MaxPairs, answered: BOOLEAN]
    BY <1>3, <1>4
  <2> QED
    BY <1>1, <1>2, <2>1, <2>2, <2>3, <2>4, <2>5 DEF WebTypeOK, RequestRecord
<1> QED
  BY <1>1, <1>5
  DEF WebInv, NumbersMinted, OneRoundTrip, OwnSession, OwnFamily, NoRefresh, Staying

LEMMA WebSteps == WebInv /\ [WebNext]_web_vars => WebInv'
<1> SUFFICES ASSUME WebInv, [WebNext]_web_vars PROVE WebInv'
  OBVIOUS
<1>1. CASE UNCHANGED web_vars
  BY <1>1
  DEF web_vars, WebInv, WebTypeOK, NumbersMinted, OneRoundTrip, OwnSession, OwnFamily, Live
<1> QED
  BY <1>1, PageSteps, LoginStep, RefreshStep, ServerSteps DEF WebNext

LEMMA WebCorrect == WebSpec => []WebInv
BY WebBegins, WebSteps, PTL DEF WebSpec

(* The page and the table keep their types, for any number of requests and *)
(* pairs.                                                                  *)
THEOREM WebTypeCorrect == WebSpec => []WebTypeOK
<1>1. WebInv => WebTypeOK
  BY DEF WebInv
<1> QED
  BY <1>1, WebCorrect, PTL

(* However late its answers come, a page does not lose its session by its  *)
(* own requests (tryRefresh of client.ts, rotate_refresh_token of 00004).  *)
THEOREM PageAlwaysAgrees == WebSpec => []PageAgrees
<1>1. WebInv => PageAgrees
  BY DEF WebInv, OwnSession, OwnFamily, PageAgrees
<1> QED
  BY <1>1, WebCorrect, PTL

-----------------------------------------------------------------------------
(* The server of the page keeps the promise of Families.                   *)

(* The table, as Families sees it.                                         *)
FamilyOf(g) == IF g \in DOMAIN refresh_tokens THEN refresh_tokens[g].family ELSE 0
Serving     == {g \in DOMAIN refresh_tokens : Live(g)}

(* Rows that stay in their families, and serve no more than before.        *)
LEMMA EndPromised ==
  ASSUME DOMAIN refresh_tokens' = DOMAIN refresh_tokens,
         \A h \in DOMAIN refresh_tokens :
           /\ refresh_tokens'[h].family = refresh_tokens[h].family
           /\ Live(h)' => Live(h)
  PROVE  Server!End
<1>1. \A h \in Pair : FamilyOf(h)' = FamilyOf(h)
  BY DEF FamilyOf
<1>2. Serving' \subseteq Serving
  BY DEF Serving
<1> QED
  BY <1>1, <1>2 DEF Server!End, FamilyOf, Serving

LEMMA LoginPromised ==
  ASSUME WebInv, login
  PROVE  Server!SignIn(Next_pair)
<1> DEFINE new == Len(refresh_tokens) + 1
<1>1. new \in Pair /\ new = Next_pair /\ refresh_tokens' = Append(refresh_tokens, Minted(new))
  BY DEF login, Next_pair
<1>2. Len(refresh_tokens) \in Nat /\ DOMAIN refresh_tokens = 1..Len(refresh_tokens)
  BY WebTypes
<1>3. Minted(new).family = new /\ Minted(new).state = "live" /\ Minted(new) \in TokenRow
  BY <1>1 DEF Minted, TokenRow
<1>4. /\ DOMAIN refresh_tokens' = 1..new /\ refresh_tokens'[new] = Minted(new)
      /\ \A g \in DOMAIN refresh_tokens : refresh_tokens'[g] = refresh_tokens[g]
  BY <1>1, <1>3 DEF WebInv, WebTypeOK
<1>5. new \notin DOMAIN refresh_tokens /\ DOMAIN refresh_tokens' = DOMAIN refresh_tokens \cup {new}
  BY <1>2, <1>4
<1>6. /\ FamilyOf(new) = 0
      /\ \A g \in Pair : FamilyOf(g)' = IF g = new THEN new ELSE FamilyOf(g)
  BY <1>3, <1>4, <1>5 DEF FamilyOf
<1>7. Serving' = Serving \cup {new}
  BY <1>3, <1>4, <1>5 DEF Serving, Live
<1>. HIDE DEF new
<1> QED
  BY <1>1, <1>6, <1>7 DEF Server!SignIn, FamilyOf, Serving

LEMMA RefreshPromised ==
  ASSUME WebInv, NEW m \in wire, Refresh(m)
  PROVE  Server!Exchange(m.spends, Next_pair) \/ Server!End
<1> DEFINE g == m.spends
<1>1. /\ g \in DOMAIN refresh_tokens /\ DOMAIN refresh_tokens = 1..Len(refresh_tokens)
      /\ Len(refresh_tokens) \in Nat /\ DOMAIN refresh_tokens \subseteq Pair
      /\ refresh_tokens' = Rotate(g)
  BY WebTypes DEF Refresh
<1>2. CASE Live(g)
  <2> DEFINE new == Len(refresh_tokens) + 1
  <2>1. new \in Pair /\ new = Next_pair
    BY <1>2 DEF Refresh, Next_pair
  <2>2. /\ DOMAIN refresh_tokens' = 1..new
        /\ refresh_tokens'[new] = Minted(refresh_tokens[g].family)
        /\ \A h \in DOMAIN refresh_tokens :
             /\ refresh_tokens'[h].family = refresh_tokens[h].family
             /\ Live(h)' <=> h # g /\ Live(h)
    BY <1>1, <1>2, <2>1, RotateLive
  <2>3. /\ new \notin DOMAIN refresh_tokens
        /\ DOMAIN refresh_tokens' = DOMAIN refresh_tokens \cup {new}
    BY <1>1, <2>2
  <2>4. refresh_tokens'[new].family = refresh_tokens[g].family /\ refresh_tokens'[new].state = "live"
    BY <2>2 DEF Minted
  <2>5. /\ FamilyOf(new) = 0
        /\ \A h \in Pair : FamilyOf(h)' = IF h = new THEN FamilyOf(g) ELSE FamilyOf(h)
    BY <1>1, <2>2, <2>3, <2>4 DEF FamilyOf
  <2>6. Serving' = (Serving \ {g}) \cup {new} /\ g \in Serving
    <3>1. \A h \in DOMAIN refresh_tokens : h \in Serving' <=> h \in Serving \ {g}
      BY <1>1, <2>2, <2>3 DEF Serving
    <3>2. new \in Serving'
      BY <2>3, <2>4 DEF Serving, Live
    <3>3. Serving' \subseteq DOMAIN refresh_tokens'
      BY DEF Serving
    <3> QED
      BY <1>1, <1>2, <2>3, <3>1, <3>2, <3>3 DEF Serving
  <2> HIDE DEF new
  <2>7. Server!Exchange(g, new)
    BY <1>1, <2>1, <2>5, <2>6 DEF Server!Exchange, FamilyOf, Serving
  <2> QED
    BY <2>1, <2>7 DEF Server!Exchange
<1>3. CASE ~Live(g)
  <2> DEFINE T == {h \in DOMAIN refresh_tokens :
                     refresh_tokens[h].family = refresh_tokens[g].family}
  <2>1. refresh_tokens' = [h \in DOMAIN refresh_tokens |->
          IF h \in T THEN [refresh_tokens[h] EXCEPT !.state = "revoked"]
                     ELSE refresh_tokens[h]]
    BY <1>1, <1>3 DEF Rotate
  <2>2. T \in SUBSET DOMAIN refresh_tokens
    OBVIOUS
  <2> HIDE DEF T
  <2>3. /\ DOMAIN refresh_tokens' = DOMAIN refresh_tokens
        /\ \A h \in DOMAIN refresh_tokens :
             /\ refresh_tokens'[h].family = refresh_tokens[h].family
             /\ Live(h)' => Live(h)
    BY <2>1, <2>2, RowsRevoked
  <2> QED
    BY <2>3, EndPromised
<1> QED
  BY <1>2, <1>3

LEMMA ServerPromised ==
  ASSUME WebInv, Logout \/ session_ends
  PROVE  Server!End
<1>1. PICK T \in SUBSET DOMAIN refresh_tokens :
        refresh_tokens' = [h \in DOMAIN refresh_tokens |->
          IF h \in T THEN [refresh_tokens[h] EXCEPT !.state = "revoked"]
                     ELSE refresh_tokens[h]]
  <2>1. CASE Logout
    <3>1. leaving.spends \in DOMAIN refresh_tokens
      BY <2>1, WebTypes DEF Logout
    <3>2. refresh_tokens' = [h \in DOMAIN refresh_tokens |->
            IF h \in {leaving.spends} THEN [refresh_tokens[h] EXCEPT !.state = "revoked"]
                                      ELSE refresh_tokens[h]]
      BY <2>1, <3>1 DEF Logout
    <3>3. {leaving.spends} \in SUBSET DOMAIN refresh_tokens
      BY <3>1
    <3> QED
      BY <3>2, <3>3
  <2>2. CASE session_ends
    <3>1. refresh_tokens' = [h \in DOMAIN refresh_tokens |->
            IF h \in DOMAIN refresh_tokens
            THEN [refresh_tokens[h] EXCEPT !.state = "revoked"] ELSE refresh_tokens[h]]
      BY <2>2 DEF session_ends
    <3> QED
      BY <3>1
  <2> QED
    BY <2>1, <2>2
<1>2. /\ DOMAIN refresh_tokens' = DOMAIN refresh_tokens
      /\ \A h \in DOMAIN refresh_tokens :
           /\ refresh_tokens'[h].family = refresh_tokens[h].family
           /\ Live(h)' => Live(h)
  BY <1>1, RowsRevoked
<1> QED
  BY <1>2, EndPromised

LEMMA WebPromised ==
  ASSUME WebInv, [WebNext]_web_vars
  PROVE  [Server!Next]_Server!families
<1>1. CASE login
  <2>1. Next_pair \in Pair /\ Server!SignIn(Next_pair)
    BY <1>1, LoginPromised DEF login
  <2> QED
    BY <2>1 DEF Server!Next, Server!SignIn
<1>2. ASSUME NEW m \in wire, Refresh(m)
      PROVE  Server!Next
  <2>1. CASE Server!End
    BY <2>1 DEF Server!Next
  <2>2. CASE Server!Exchange(m.spends, Next_pair) /\ ~Server!End
    <3>1. m.spends \in Pair
      BY WebTypes
    <3>2. Live(m.spends)
      <4>1. ASSUME ~Live(m.spends)
            PROVE  FALSE
        <5>1. m.spends \notin Serving
          BY <4>1 DEF Serving
        <5> QED
          BY <2>2, <5>1 DEF Server!Exchange, Serving
      <4> QED
        BY <4>1
    <3>3. Next_pair \in Pair
      BY <1>2, <3>2 DEF Refresh
    <3> QED
      BY <2>2, <3>1, <3>3 DEF Server!Next, Server!Exchange
  <2> QED
    BY <1>2, <2>1, <2>2, RefreshPromised
<1>3. CASE Logout \/ session_ends
  BY <1>3, ServerPromised DEF Server!Next
<1>4. CASE UNCHANGED refresh_tokens
  BY <1>4 DEF Server!families, Live
<1>5. \/ login \/ Logout \/ session_ends \/ UNCHANGED refresh_tokens
      \/ \E m \in wire : Refresh(m)
  BY DEF WebNext, web_vars, server_vars, logout, loggedOut, reload, refreshed, notRefreshed,
     send, answered, tryRefresh, giveUp, access_expires
<1> QED
  BY <1>1, <1>2, <1>3, <1>4, <1>5

(* The server that the page talks to implements Families, as Sessions does:*)
(* what is proved of the page assumes no more of rotation, replay and      *)
(* sign-out than Sessions promises.                                        *)
THEOREM ServerPromiseKept == WebSpec => ServerKeepsFamilies
<1>1. WebInit => Server!Init
  <2> SUFFICES ASSUME WebInit PROVE Server!Init
    OBVIOUS
  <2>1. DOMAIN refresh_tokens = {}
    BY DEF WebInit
  <2> QED
    BY <2>1 DEF Server!Init
<1> QED
  BY <1>1, WebPromised, WebCorrect, PTL DEF WebSpec, ServerKeepsFamilies, Server!Spec

(* However its POSTs overtake each other, at most one token of a family    *)
(* serves.                                                                 *)
THEOREM PageServedOnce == WebSpec => []Server!OneServes
<1>1. WebInit => Server!OneServes
  BY DEF WebInit, Server!OneServes
<1>2. ASSUME WebInv, WebInv', Server!OneServes, [Server!Next]_Server!families
      PROVE  Server!OneServes'
  <2>1. \A s, t \in Serving : FamilyOf(s) = FamilyOf(t) => s = t
    BY <1>2, WebTypes DEF Server!OneServes, FamilyOf, Serving
  <2>2. /\ Serving \subseteq Pair
        /\ \A s \in Serving : FamilyOf(s) \in DOMAIN refresh_tokens
        /\ \A t \in Pair : FamilyOf(t) = 0 => t \notin DOMAIN refresh_tokens
    BY <1>2, WebTypes DEF FamilyOf, Serving, WebInv, NumbersMinted
  <2>3. SUFFICES \A s, t \in Serving' : FamilyOf(s)' = FamilyOf(t)' => s = t
    <3>1. Serving' \subseteq Pair
      BY <1>2, WebAssumption DEF Serving, WebInv, WebTypeOK, Pair
    <3> QED
      BY <2>3, <3>1 DEF Server!OneServes, FamilyOf, Serving
  <2>4. CASE UNCHANGED Server!families
    BY <2>1, <2>2, <2>4 DEF Server!families, FamilyOf, Serving
  <2>5. CASE Server!End
    BY <2>1, <2>2, <2>5 DEF Server!End, FamilyOf, Serving
  <2>6. ASSUME NEW t \in Pair, Server!SignIn(t)
        PROVE  \A s, u \in Serving' : FamilyOf(s)' = FamilyOf(u)' => s = u
    <3>1. /\ FamilyOf(t) = 0 /\ Serving' = Serving \cup {t}
          /\ \A g \in Pair : FamilyOf(g)' = IF g = t THEN t ELSE FamilyOf(g)
      BY <2>6 DEF Server!SignIn, FamilyOf, Serving
    <3>2. t \notin DOMAIN refresh_tokens
      BY <2>2, <3>1
    <3> QED
      BY <2>1, <2>2, <3>1, <3>2
  <2>7. ASSUME NEW t \in Pair, NEW child \in Pair, Server!Exchange(t, child)
        PROVE  \A s, u \in Serving' : FamilyOf(s)' = FamilyOf(u)' => s = u
    <3>1. /\ FamilyOf(child) = 0 /\ Serving' = (Serving \ {t}) \cup {child} /\ t \in Serving
          /\ \A g \in Pair : FamilyOf(g)' = IF g = child THEN FamilyOf(t) ELSE FamilyOf(g)
      BY <2>7 DEF Server!Exchange, FamilyOf, Serving
    <3> QED
      BY <2>1, <2>2, <3>1
  <2>8. ASSUME NEW T \in SUBSET Server!Known, Server!Forget(T)
        PROVE  \A s, u \in Serving' : FamilyOf(s)' = FamilyOf(u)' => s = u
    <3>1. /\ Serving' = Serving \ T
          /\ \A g \in Pair : FamilyOf(g)' = IF g \in T THEN -1 ELSE FamilyOf(g)
      BY <2>8 DEF Server!Forget, FamilyOf, Serving
    <3> QED
      BY <2>1, <2>2, <3>1
  <2> QED
    BY <1>2, <2>4, <2>5, <2>6, <2>7, <2>8 DEF Server!Next
<1> QED
  BY <1>1, <1>2, WebPromised, WebCorrect, PTL DEF WebSpec

-----------------------------------------------------------------------------
(* The parts together.                                                     *)

(* A step of one part leaves the others alone, so every behaviour of the   *)
(* front door is one of each part.                                         *)
THEOREM PartsStandAlone == Spec => OnboardingSpec /\ GateSpec /\ LimiterSpec /\ WebSpec
<1>1. Init => OnboardingInit /\ GateInit /\ LimiterInit /\ WebInit
  BY DEF Init
<1>2. ASSUME [Next]_<<part, parts>>
      PROVE  /\ [OnboardingNext]_onboarding_vars
             /\ [GateNext]_<<factor_vars, gate_vars>>
             /\ [LimiterNext]_limiter_vars
             /\ [WebNext]_web_vars
  BY <1>2 DEF Next, parts
<1> QED
  BY <1>1, <1>2, PTL DEF Spec, OnboardingSpec, GateSpec, LimiterSpec, WebSpec

(* All that stands before the ledger keeps its types.                      *)
THEOREM FrontDoorTypeCorrect == Spec => []TypesOK
<1>1. OnboardingTypeOK /\ GateTypeOK /\ LimiterTypeOK /\ WebTypeOK => TypesOK
  BY DEF TypesOK
<1> QED
  BY <1>1, PartsStandAlone, OnboardingTypeCorrect, GateTypeCorrect, LimiterTypeCorrect,
     WebTypeCorrect, PTL

=============================================================================
