------------------------------ MODULE WebClient ------------------------------
(***************************************************************************)
(* How a page of the customer's web app stays signed in: the pair of       *)
(* tokens that it keeps, the requests it has under way, the refresh they   *)
(* share and the sign-out (web/app/src/api/client.ts, store/auth.ts), in   *)
(* front of the families of refresh tokens that Sessions has in full.      *)
(*                                                                         *)
(* A page runs one continuation at a time; between two of them answers     *)
(* arrive in any order, are late or are lost.  Pairs of tokens are         *)
(* numbered as they are minted; both tokens of a pair have its number.     *)
(*                                                                         *)
(* Definitions named X_variant are X with a fault, for checking that the   *)
(* properties notice it.                                                   *)
(***************************************************************************)
EXTENDS Integers, Sequences

CONSTANTS
  Fetch,    \* requests that the page has under way at once
  Gone,     \* the sender of a request whose page was reloaded
  MaxPairs  \* bound: pairs of tokens ever minted

ASSUME WebAssumption == Gone \notin Fetch /\ MaxPairs \in Nat

VARIABLES
  saved,           \* the signals and sessionStorage: a pair, or 0
  refreshing,      \* the promise that requests share; answer: the pair it brings, if any
  fetches,         \* the requests of the page
  wire,            \* the POSTs of /auth/refresh that the server has yet to handle
  leaving,         \* the POST of /auth/logout
  dead,            \* pairs whose access token has expired
  refresh_tokens,  \* the server's table, one row per pair
  mine,            \* history: the family of the last sign-in, until the page forgets it
  overtaken        \* history: a refresh came after what should have ended it

web_vars == <<saved, refreshing, fetches, wire, leaving, dead, refresh_tokens, mine, overtaken>>

Pair      == 1..MaxPairs
TokenRow  == [family: Pair, state: {"live", "used", "revoked"}]
NoRefresh == [by |-> Gone, answer |-> 0]
NotSent   == [at |-> "idle", bearer |-> 0, retried |-> FALSE]
Staying   == [spends |-> 0, answered |-> FALSE]

WebInit ==
  /\ saved = 0
  /\ refreshing = NoRefresh
  /\ fetches = [r \in Fetch |-> NotSent]
  /\ wire = {} /\ leaving = Staying /\ dead = {}
  /\ refresh_tokens = <<>>
  /\ mine = 0 /\ overtaken = FALSE

page_vars   == <<saved, refreshing, fetches, wire, leaving>>
server_vars == <<dead, refresh_tokens>>

Next_pair == Len(refresh_tokens) + 1
Minted(family) == [family |-> family, state |-> "live"]
Live(g) == refresh_tokens[g].state = "live"

-----------------------------------------------------------------------------
(* The page.                                                               *)

(* clearAuth.                                                              *)
Forget == saved' = 0 /\ mine' = 0

Overtakes == overtaken' = (overtaken \/ refreshing # NoRefresh)

(* The login form is for a page without a token.                           *)
login ==
  /\ saved = 0 /\ Next_pair \in Pair
  /\ refresh_tokens' = Append(refresh_tokens, Minted(Next_pair))
  /\ saved' = Next_pair /\ mine' = Next_pair
  /\ overtaken' = (refreshing # NoRefresh)
  /\ UNCHANGED <<refreshing, fetches, wire, leaving, dead>>

send(r) ==
  /\ saved # 0 /\ fetches[r] = NotSent
  /\ fetches' = [fetches EXCEPT ![r] = [at |-> "sent", bearer |-> saved, retried |-> FALSE]]
  /\ UNCHANGED <<saved, refreshing, wire, leaving, server_vars, mine, overtaken>>

(* Any answer but a 401, or none.                                          *)
answered(r) ==
  /\ fetches[r].at = "sent"
  /\ fetches' = [fetches EXCEPT ![r] = NotSent]
  /\ UNCHANGED <<saved, refreshing, wire, leaving, server_vars, mine, overtaken>>

Unauthorized(r) == fetches[r].at = "sent" /\ fetches[r].bearer \in dead

Posted_each(r) == {[by |-> r, spends |-> saved]}

(* Concurrent 401s share one round-trip.                                   *)
Posted(r) == IF refreshing = NoRefresh THEN {[by |-> r, spends |-> saved]} ELSE {}

tryRefresh(r) ==
  /\ Unauthorized(r) /\ ~fetches[r].retried /\ saved # 0
  /\ wire' = wire \cup Posted(r)
  /\ refreshing' = IF refreshing = NoRefresh THEN [by |-> r, answer |-> 0] ELSE refreshing
  /\ fetches' = [fetches EXCEPT ![r].at = "waiting"]
  /\ UNCHANGED <<saved, leaving, server_vars, mine, overtaken>>

giveUp(r) ==
  /\ Unauthorized(r) /\ (fetches[r].retried \/ saved = 0)
  /\ Forget /\ Overtakes
  /\ fetches' = [fetches EXCEPT ![r] = NotSent]
  /\ UNCHANGED <<refreshing, wire, leaving, server_vars>>

InWait == {r \in Fetch : fetches[r].at = "waiting"}

(* setAuth, and all that waited try again with the new token.              *)
refreshed ==
  /\ refreshing.answer # 0
  /\ saved' = refreshing.answer
  /\ refreshing' = NoRefresh
  /\ fetches' = [r \in Fetch |->
       IF r \in InWait
       THEN [at |-> "sent", bearer |-> refreshing.answer, retried |-> TRUE] ELSE fetches[r]]
  /\ UNCHANGED <<wire, leaving, server_vars, mine, overtaken>>

(* Refused, lost on either way, or with password_change_required: the first*)
(* that waited forgets the tokens, the new one included.                   *)
notRefreshed ==
  /\ refreshing # NoRefresh
  /\ refreshing' = NoRefresh
  /\ wire' = {[m EXCEPT !.by = Gone] : m \in wire}
  /\ Forget
  /\ fetches' = [r \in Fetch |-> IF r \in InWait THEN NotSent ELSE fetches[r]]
  /\ UNCHANGED <<leaving, server_vars, overtaken>>

(* logout of the api: the tokens stay until it is answered, or fails.      *)
logout ==
  /\ saved # 0 /\ leaving = Staying
  /\ leaving' = [spends |-> saved, answered |-> FALSE]
  /\ UNCHANGED <<saved, refreshing, fetches, wire, server_vars, mine, overtaken>>

loggedOut ==
  /\ leaving # Staying
  /\ leaving' = Staying
  /\ Forget /\ Overtakes
  /\ UNCHANGED <<refreshing, fetches, wire, server_vars>>

(* sessionStorage survives; what was under way is nobody's any more.       *)
reload ==
  /\ refreshing' = NoRefresh /\ leaving' = Staying
  /\ fetches' = [r \in Fetch |-> NotSent]
  /\ wire' = {[m EXCEPT !.by = Gone] : m \in wire}
  /\ overtaken' = (overtaken \/ refreshing # NoRefresh \/ leaving # Staying)
  /\ UNCHANGED <<saved, server_vars, mine>>

-----------------------------------------------------------------------------
(* The server.  A token that was used or revoked ends its family.          *)
Rotate_unspent(g) == Append(refresh_tokens, Minted(refresh_tokens[g].family))

Rotate(g) ==
  IF Live(g)
  THEN Append([refresh_tokens EXCEPT ![g].state = "used"], Minted(refresh_tokens[g].family))
  ELSE [h \in DOMAIN refresh_tokens |->
          IF refresh_tokens[h].family = refresh_tokens[g].family
          THEN [refresh_tokens[h] EXCEPT !.state = "revoked"] ELSE refresh_tokens[h]]

Refresh(m) ==
  /\ Live(m.spends) => Next_pair \in Pair
  /\ wire' = wire \ {m}
  /\ refresh_tokens' = Rotate(m.spends)
  /\ refreshing' =
       IF m.by = refreshing.by /\ m.by # Gone
       THEN [refreshing EXCEPT !.answer = IF Live(m.spends) THEN Next_pair ELSE 0]
       ELSE refreshing
  /\ UNCHANGED <<saved, fetches, leaving, dead, mine, overtaken>>

(* Only the token that is presented: its child lives on.                   *)
Logout ==
  /\ leaving # Staying /\ ~leaving.answered
  /\ leaving' = [leaving EXCEPT !.answered = TRUE]
  /\ refresh_tokens' = [refresh_tokens EXCEPT ![leaving.spends].state = "revoked"]
  /\ UNCHANGED <<saved, refreshing, fetches, wire, dead, mine, overtaken>>

(* Somebody signs out everywhere, changes the password, or time runs out.  *)
session_ends ==
  /\ \E g \in DOMAIN refresh_tokens : Live(g)
  /\ refresh_tokens' = [g \in DOMAIN refresh_tokens |->
                          [refresh_tokens[g] EXCEPT !.state = "revoked"]]
  /\ overtaken' = TRUE
  /\ UNCHANGED <<page_vars, dead, mine>>

access_expires ==
  /\ \E g \in DOMAIN refresh_tokens \ dead : dead' = dead \cup {g}
  /\ UNCHANGED <<page_vars, refresh_tokens, mine, overtaken>>

WebNext ==
  \/ login \/ logout \/ loggedOut \/ reload \/ refreshed \/ notRefreshed
  \/ \E r \in Fetch : send(r) \/ answered(r) \/ tryRefresh(r) \/ giveUp(r)
  \/ \E m \in wire : Refresh(m)
  \/ Logout \/ session_ends \/ access_expires

WebSpec == WebInit /\ [][WebNext]_web_vars

-----------------------------------------------------------------------------
(* Properties.                                                             *)

(* The page and the table keep their types.                                *)
WebTypeOK ==
  /\ saved \in 0..MaxPairs
  /\ refreshing \in [by: Fetch \cup {Gone}, answer: 0..MaxPairs]
  /\ fetches \in [Fetch -> [at: {"idle", "sent", "waiting"}, bearer: 0..MaxPairs,
                            retried: BOOLEAN]]
  /\ wire \subseteq [by: Fetch \cup {Gone}, spends: Pair]
  /\ leaving \in [spends: 0..MaxPairs, answered: BOOLEAN]
  /\ dead \subseteq Pair
  /\ refresh_tokens \in Seq(TokenRow)
  /\ Len(refresh_tokens) <= MaxPairs
  /\ mine \in 0..MaxPairs /\ overtaken \in BOOLEAN

(* "A burst of parallel requests cannot each spend the refresh token - a   *)
(* replayed refresh token revokes the whole family" (docs/07:225): however *)
(* late its answers come, a page does not lose its session by its own      *)
(* requests.  What it holds is of the last sign-in, and it serves unless   *)
(* the page signs out with it or the answer that replaces it is on the way.*)
(* A refresh that a reload or a sign-out overtakes is another matter.      *)
PageAgrees ==
  saved # 0 /\ ~overtaken =>
    /\ refresh_tokens[saved].family = mine
    /\ Live(saved) \/ leaving.spends = saved \/ refreshing.answer # 0

(* The server that the page talks to is one that Sessions implements.      *)
Server ==
  INSTANCE Families WITH
    Token <- Pair, Unminted <- 0, Dropped <- -1,
    family <- [g \in Pair |-> IF g \in DOMAIN refresh_tokens
                              THEN refresh_tokens[g].family ELSE 0],
    live   <- {g \in DOMAIN refresh_tokens : Live(g)}

ServerKeepsFamilies == Server!Spec

=============================================================================
