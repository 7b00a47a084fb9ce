# A verification model of bank0

bank0 is a demonstration bank: a Go server over PostgreSQL, an operator console rendered by the server,
and a customer web app. Money lives in the database: the PL/pgSQL functions of `db/migrations` are the
only code that moves it, one function call is one transaction, and the Go handlers choose which function to
call. These modules model those functions and the handlers' choices, check them with TLC on small banks, and
prove the properties that matter most with TLAPS for banks of any size.

Paths below are relative to `src/`.

## 1. The system

| Component | State | Operations | What is hard about it |
|---|---|---|---|
| Ledger (`00007_accounts.sql`, `00008_transfers.sql`) | `accounts` (cached balance and held sum, status, limit), `transfers`, `holds`, `ledger_entries`, `idempotency_keys` | request, place hold, post, cancel, confirm, transfer, deposit, withdraw, reverse | concurrent calls on the same accounts or transfer; replays; caches kept by triggers; lock order |
| Maintenance (`00010_maintenance.sql`, `internal/db/bank.go`, the ticker in `cmd/app/main.go`) | – | expire holds, sweep keys and sessions, `reconcile()` | runs against everything else, on several replicas |
| Maker-checker (`00009_maker_checker.sql`, `console_*.go`) | the queues in `admin_actions`, the threshold in `bank_settings` | stage and queue, approve, reject, ask for a limit, grant or refuse it | a queue row and its transfer must agree although each can change without the other |
| Disputes (`00013_disputes.sql`) | `disputes` | raise, resolve, decide with a reimbursement, recall | money paid from a decision, once, whatever is retried or swept |
| Fraud and AML gate (`00015_fraud.sql`, `handlers_transfers.go`) | rules, watchlist, warnings | score a payment: post, hold, park, block | its verdict starts three life cycles |
| Event feed (`00014_events.sql`) | `events` | triggers write, customers page through | one row per cause, ordered reading |
| Sessions and refresh tokens (`00004`, `00019`, `auth.go`, `refresh.go`) | `sessions`, `refresh_tokens` | login, rotate, revoke one, a family, all; sweep | rotation chains across two statements, bulk revocation beside a rotation |
| Users and credentials (`00003_users.sql`, `handlers_password.go`) | `users` | create, lock after failures, change or reset a password, freeze | counters and locks beside each other, revocation after the commit |
| Onboarding (`00005_onboarding.sql`) | invitations, registrations, verification codes | invite, redeem, verify, register | quotas and single use under concurrency |
| Multi-factor authentication (`00006_mfa.sql`) | secrets, recovery codes, last time step, attempts | enrol, verify, recover, step up | one use of a code, counters across statements |
| Beneficiaries, guided scenarios (`00011`, `00012`) | lists per user | add, match, delete, suggest | little |
| IBANs (`00002_iban.sql`, `00017`, `internal/iban`), money (`internal/money`) | an IBAN sequence | mint, check digits, parse, format | modular arithmetic, overflow, boundaries |
| Rate limiter (`ratelimit.go`) | a window per key | allow, sweep | the clock and the sweep under one mutex |
| HTTP server, console views, web app, edge worker, configuration, migrations | – (the web app keeps its tokens and the key of a payment in progress) | routing, rendering, refresh, retry | in the web app: one refresh at a time, one key per intended payment |

How they interact:

- Handlers call database functions inside a transaction; a function that raises rolls everything back. Rows of
  one call (`transfers`, `holds`, `ledger_entries`, `admin_actions`, `events`, the idempotency key) appear
  together or not at all.
- The components share tables. Everything that moves money ends in `request_transfer` + `post_transfer`, or in
  `reverse_transfer`: a customer's payment, a cashier's deposit, an approval, a reimbursement.
- Triggers maintain what others read: `ledger_entries` stamps the running balance and writes `balance_minor`,
  `holds` maintains `held_minor`.
- A ticker on every replica runs the sweeps in one transaction under an advisory lock.

What makes each component correct:

- *Ledger*: nobody spends what they do not have or have promised; the caches agree with the journal; statements
  chain; a transfer has its legs and its hold exactly when its status says so; one reversal per transfer; a key
  answers for what it was used for; history never changes; reserved funds are freed in the end; concurrent calls
  behave like single steps and do not deadlock.
- *Maker-checker*: nothing waits out of sight of a queue; what waits in a queue settles only by a second admin's
  decision; a customer's limit is never applied by the customer.
- *Disputes*: what a case says was reimbursed is what the ledger paid, once; a closed case stays closed.
- *Sessions*: a family of tokens is one chain with one live end; what a revocation ended stays ended, also beside a
  rotation; a family cannot outlive its cap; the sweep removes what is stale and nothing else.
- *Onboarding*: nobody sends more invitations than staff granted; an invitation makes one account; a verification is
  earned by the code of a pending challenge and is final; wrong guesses are bounded.
- *Second factor and payment gate*: a recovery code is worth one token; failures are bounded by the limit and the requests
  under way; a payment that needs a factor had one accepted for that very payment; the preview says what sending does.
- *Rate limiter*: no window of time lets more through than the limit and the requests that overtake each other.
- *Web app*: a page does not lose its session by its own requests, and never holds the tokens of an earlier sign-in.
- *Event feed* (not modelled): one row per cause, and a reader that pages by time misses none.

`PROJECT.json` lists every component with its status, and every hazard with the line at which it bites.

## 2. The modules

| Module | What it is |
|---|---|
| `Ledger` | every money-moving function of `00007`/`00008`/`00010`, one action per function, one step per transaction |
| `Payments` | what the ledger promises, with no caches, journal, holds or keys: one table of payments that reserve, settle, become void or are refunded |
| `LedgerLocks` | the same functions with their row locks taken one at a time, by several connections and the sweep |
| `MakerChecker` | `Ledger` composed with `admin_actions` and the threshold: which handler may call which function |
| `Disputes` | `Ledger` composed with `disputes`: cases, decisions, recalls and the payment of a reimbursement |
| `Statements` | `LedgerLocks` with a clock: the statement of an account, listed by the time its transactions began |
| `Families` | what the server promises about refresh tokens, with no rows, clock or statements: a token is exchanged once, what ended stays ended |
| `Sessions` | passwords and their lockout, families of refresh tokens, portal sessions, their revocation and their sweep |
| `WebClient` | a page of the customer web app in front of those families: its pair of tokens, its 401s, the refresh they share, sign-out, reload |
| `Onboarding` | invitations and their quota, registration, verification of the contact |
| `SecondFactor` | enrolment, confirmation, verification, lockout and the tokens they earn, statement by statement |
| `Maintenance` | `Ledger` and `Sessions` under one sweep: what the ticker does is one transaction, and either undoes the other's |
| `PaymentGate` | `SecondFactor` composed with the score, the warning rules, the step-up, screening and the preview of a payment |
| `RateLimiter` | the sliding window per address, its sweep and its mutex |
| `FrontDoor` | `Onboarding`, `PaymentGate`, `RateLimiter` and `WebClient` in one specification, one of them at a time |
| `LedgerProofs`, `LedgerLocksProofs`, `MakerCheckerProofs`, `BackOfficeProofs`, `SessionsProofs`, `OnboardingProofs`, `PaymentGateProofs`, `FrontDoorProofs` | theorems and their proofs; `BackOfficeProofs` has those of `Disputes` and `Maintenance`, `LedgerLocksProofs` has those of `Statements`, `PaymentGateProofs` those of `SecondFactor`, and `FrontDoorProofs` those of `RateLimiter` and `WebClient` |
| `MC*` and `*.cfg` | instances for TLC |

Definitions named `X_variant` (`Claim_ungated`, `Refund_unmarked`, ...) are copies of `X` with a plausible fault.
No specification uses them; each shows that some property is able to fail.

### Ledger

The variables are the tables and columns. `transfers` is a sequence (ids are UUIDv7, minted in order), and a row
carries the status of its hold, as `request_transfer` inserts exactly one hold per transfer, on the debit account
and for the same amount; a reversal has none. `lapsed` is the set of transfers whose active hold is past
`expires_at`: time is a step, `window_lapses`, that may happen at any moment. `ledger_entries` is the journal
per account. An idempotency key is a pair of caller and name (`owner_id`, `key`), and its row holds the
fingerprint of the request and the transfer it answers with.

`MayRequest` and `Record` are `request_transfer`; `Admit` puts them together with what its callers do in the
same transaction: leave the transfer pending, post it at once (`transfer`, `deposit`, `withdraw`), or park it
(`place_transfer_hold`). The verdict of the fraud gate is a free choice between posting, holding and parking; a
blocked payment rolls back. `WriteLegs` includes the trigger on `ledger_entries` and the CHECK on balances,
`CloseHold` the trigger on `holds`. `reverse_transfer` looks at the cached `held_minor` where `request_transfer`
adds the holds afresh, and so does the model (`Reclaimable`, `Available`). `RunMaintenance` is both sweeps, as they
share a transaction. The five checks of `reconcile()` are operators (`balance_drift`, ...), and `Reconciled` says
that they are empty. In `Ledger` alone the sweep always succeeds, which is enough for safety: a sweep that fails is no step.

A replayed call changes nothing and has no action. Sums are cardinalities of sets of minor units (`Units`,
`Weight`) instead of recursion, so that the proofs can reason about them with the library's theorems on finite
sets.

### LedgerLocks

A connection begins a call, takes its row locks in the order of the statements, checks under them what the
function checks, and commits or rolls back; `Locks` gives the order per function, with both accounts in the order
of their ids (`BothAccounts`), the lock that a trigger takes, and the sweep's bulk UPDATEs. Writes become visible
at commit, as under READ COMMITTED. `client_confirm`, which posts from held by way of the same `post_transfer`, is left out here.

### Statements

`posted_at` is `now()`, the time at which the transaction began; `began` is that time per connection, and `posted_at` what the
entries of an account got from it. The rest is `LedgerLocks`, so the balances follow the order of the locks.

### MakerChecker

`admin_actions` has the rows that wait for somebody (`approval_request`, `screening_hold`, `limit_request`). Rows
that only record what was done are left out. `request_money_with_approval` keeps the branch in which the key was
used before: nothing is staged, a row is queued.

### Disputes

`description` records, for each transfer, the case whose reimbursement it is (the code writes the id of the case
into the text). Other movements of money are the steps of `Ledger` that leave the keys of cases alone (`AsideCases`):
such a key contains the random id of its case, and nobody else sends it. The payout is capped and then reduced by the excess, and may
come to nothing.

### Sessions

The tables are `users` (the columns that signing in reads), `refresh_tokens` and `sessions`; tokens stand for their
tokens. Unlike in `Ledger`, one handler is several statements that commit one by one: a login verifies, clears and issues, a
password change commits and then sweeps two tables, a replayed token makes the function raise and the caller revoke the
family. `request` holds, per request under way, the statements that are left (`todo`). Between two of them anything may happen,
and any of them may fail (`StatementFails`), in which case the code logs and goes on; a server that stops fails all that are
left. The bulk UPDATEs take two steps, as at READ COMMITTED they look at the rows that were there when they began
(`BeginRevocation`) and change them later (`EndRevocation`): a child that is rotated in meanwhile is missed. That is why
`EndedStayEnded` speaks of the tokens that there were when the handler decided (`target`), recorded in the history variable
`ended` when the revocation completes; what a login or a rotation under way mints later does survive a password change.
`opened` and `rotations` in a row are history, too. A password is the number of changes before it. Client API and portal share
`change_password` but sweep in opposite orders (`Sweeps`). `RunMaintenance` is the part of the sweep that touches these tables, with
the foreign key from a token to its parent (`Deletable`).

A login, `check_user_credentials` or `create_staff_session`, reads the account without a lock (`Verified`), with what it read in the request:
the password, and whether its hash is of the old cost (`rehash`). The UPDATE that clears the failures locks the row only if there are
any; if not, others may change it before the rest (`nothing_to_clear`). What is left is one step, `signs_in`: it clears, writes the hash again at
cost 12 if the one that was read was cheaper, and inserts a portal session; an error undoes it. None of these statements looks again at what
was verified. So a login that overlaps a change of password can write the old one back. The model has that behaviour, and `PasswordStands` says how
far it goes: only a login that read a hash of the old cost can do it, and once the last of these is over, nothing but `change_password` writes a password.

`Families` says what all this is worth to a client: a token serves or does not, and a token that serves is exchanged for its successor,
once. A token's row maps to its `family_id`, the tokens that serve are those neither used nor revoked (`Tip`). The expiry of a token is not
in `Families`: a client that presents an expired token is refused as one whose token ended.

### Maintenance

`RunMaintenance` of `internal/db/bank.go` is one transaction, and two of its statements can fail each other: `expire_holds` is undone when the
DELETE of stale tokens meets the reference of a child to its parent. `Sweep` is `RunMaintenance` of `Ledger` and of `Sessions` in one step, and `Blocked` is the
condition under which there is none; a tick that fails leaves everything as it was. All else is a step of one of the two alone. The rest of the sweep,
`expire_verification_challenges` and `cleanup_mfa_attempts`, can neither fail these nor be read by them.

### WebClient

A page runs one continuation at a time, so an action is what runs between two awaits of `client.ts` and `store/auth.ts`:
`send`, `answered` (with the 401s), `tryRefresh` and its two endings, `giveUp`, `logout` and its ending. `wire` and `leaving` are
the POSTs the server has yet to handle; the server's part (`Rotate`, `Refresh`, `Logout`, `session_ends`) is `Sessions` cut down to one
row per pair of tokens, and implements the same `Families` (`ServerKeepsFamilies`). An answer may be lost, and a `reload` forgets every promise and leaves the POSTs on the wire (`Gone`).
`overtaken` is history: the session was ended from elsewhere, or a reload or a sign-out met a refresh under way.

### Onboarding

The tables are `people` (the columns of `users` that joining reads), `invitations`, `verification_challenges`, one per user because a
resend never makes a second (its INSERT would repeat the UNIQUE hash), and `register_keys`. Each action is one statement. A
handler that makes two leaves the second in `visit`: the replay of a key that was claimed, the count of a wrong
code, the new code of a resend. Times are what the guards make of them (`recent`, `lapsed`, `expired`, `aged`). `allowance` is
history: what staff granted to a user over a lifetime.

### SecondFactor and PaymentGate

Every handler of `handlers_mfa.go` is a row of statements with Go code between them; `factor[r].todo` names the next statement
of request `r` (`insert`, `read_pending`, `read_secret`, `burn`, `record`, `confirm`, `issue`), and a client may hang up before any of
them. Seeds are numbered as they are generated. `proved` and `spent` are history: the payments a factor was accepted for, and the
tokens a recovery code earned.

A payment in `PaymentGate` is a *link*: debit, credit and amount. Sending one is `EvaluateTransfer`, then `mfa_enabled` if the token does
not exempt it, then `client_transfer`, which evaluates again with the payment already inserted; a preview is the first two and
`TransferIntent`. An evaluation has the reasons of the code (`Reasons`: a new payee, a payee under report, many payments in 24 hours, a
large amount), adds up their points (`Score`) and puts them in one of three bands (`Band`). A warning rule matches by a reason, by the band
from its `match_min_band` on, or by both, and the most severe of those that match decides (`RuleFor`), while a step-up is due by the limit, by a new payee, or in the high band
(`StepUp`): a payment may be warned of and not stepped up, and the other way round. `warning_rules` are the rules that are active, out of those the constant `Rule` names.
`recent` are the payments of the last 24 hours that count towards velocity, `paid` the payees that were paid before. Staff may change any of the policies between any two
steps. `promise` remembers a preview for as long as nothing the evaluation reads has changed.

### RateLimiter

A request is stamped with the time before it waits for the mutex, so `rateLimit` and `allow` are two steps and requests may overtake
each other. `hits` is a set of positions in `admitted`, the history of the stamps this instance let through: the limit is kept per
instance, and a restart begins both anew.

## 3. What is checked

| Run | Instance | What it shows |
|---|---|---|
| `money` | two customers, one outside account, two keys per caller, amounts 1–2, three transfers | `TypeOK`, `Solvent`, `Reconciled`, `StatementChains`, `LegsMatchLifecycle`, `HoldMatchesStatus`, `ReversedOnce`, `KeyNamesItsOutcome`, `HistoryStands`, and that `Ledger` implements `Payments` (`ImplementsPayments`) |
| `live` | amounts of 1, two transfers, one customer with two tokens, a clock to 4, with fairness | `FundsFreedUnlessBlocked`: every hold ends, unless tokens block the sweep again and again |
| `queue` | two admins, two customers, two transfers, three queue rows, a threshold that moves, an account that freezes, a limit that moves | `DeskTypeOK`, `NoOrphanedHold`, `QueuedNeedsDecision` |
| `calls` | two connections and the sweep, two keys, three transfers | `AtomicCalls`: every interleaving of row locks is a sequence of `Ledger` steps; `RequestsNeverDeadlock` |
| `claims` | a paid bank, two cases, four transfers, cap 1, excess 2 | `CasesTypeOK`, `PaidAsDecided`, `ClosedStands` |
| `signins` | one operator, two requests, four tokens, a portal session, a clock to 3, lock after 2 denials | `SessionsTypeOK`, `FamilyIsChain`, `CapHolds`, `EndedStayEnded`, `RevocationStands`, `PasswordStands`, and that `Sessions` implements `Families` (`ImplementsFamilies`) |
| `front_door` | four parts, see below | `TypesOK`; joining: `InvitationsWithinQuota`, `RegistrationIsWhole`, `VerifiedStands`, `AttemptsBounded`; paying: `LinkedPayments`, `PreviewKept`, `FailuresBounded`, `RecoveryCodeOnce`; knocking: `RateHeld`; browsing: `PageAgrees`, and that the page's server implements `Families` (`ServerKeepsFamilies`) |

`PageAgrees` says two things of a page that was not overtaken: what it holds is of its last sign-in, and it serves, unless the page is signing
out with it or the answer that replaces it is on the way.

`front_door` checks `FrontDoor`, which puts `Onboarding`, `PaymentGate` (with `SecondFactor`), `RateLimiter` and `WebClient` into one specification. They share no state: `part` is chosen
at the start and never changes, so a behaviour is one of one part (and `PartsStandAlone` proves that it is one).

Five runs find what documents say and the code does not do; `PROJECT.json` quotes the sentences.

| Run | Finding |
|---|---|
| `retry` | a staging call repeated under its key queues a second approval row for the same transfer (`StagedOnce`) |
| `four_eyes` | the Post button of the transfer list settles a staged movement without a second admin (`FourEyes`) |
| `statement` | a statement sorted by `posted_at` can list balances that do not continue each other, as the column has the time the transaction began (`RunningBalance`) |
| `sweep_deadlock` | the sweep locks a hold before its transfer, decisions the other way round: the two can deadlock (`NoDeadlock`) |
| `stale_tokens` | a stale token that is the parent of a token in use makes the DELETE of the sweep fail, and the sweep with it (`SweepSucceeds`) |

`stale_tokens` matters beyond its component: the sweep is one transaction, so the expiry of holds is undone as well. With tokens that live for 30
days and families that may be rotated for 90, a family in use makes every tick fail from about its 31st day on, until its child is stale too. That is why
the liveness of `Maintenance` is conditional: `FundsFreedUnlessBlocked` promises that holds end unless the sweep is blocked again and again, and nothing more.

**Bounds.** `MaxTransfers`, `MaxAmount`, `MaxActions`, `MaxDisputes` are the only bounds, each a guard on a table's
growth. Three transfers are the fewest in which money can come in, be promised in one payment and be clawed
back by a reversal or spent by another at the same time, which is where `Solvent` and the refinement could break;
amounts of two minor units let two payments fit one by one and not together. Two keys per caller allow a retry
under the same and under another key. In `queue`, three rows for two transfers allow the duplicate row; `Bounds` there separates a bank
with two customers whose staff leaves the accounts alone (`Quiet`) from one customer whose account and limit the staff changes
(`Alone`), where the two would only multiply. In `calls`
two connections and a sweep are enough for every pair of functions to race, and the instance starts with a
funded account so that the depth is spent on the race; payments use one key per caller and
reversals two, as two reversals must meet. `claims` starts after two payments and leaves out payments, which `money`
covers; four transfers allow two payouts.
`live` has a window of two and a grace of one for the tokens, and a clock that outlasts both, so that a token can turn stale while its child, minted before, is not, and
both can be gone in the end; payments and reversals open holds meanwhile. Of the sign-ins it keeps one customer with hashes of the new cost, who signs in, rotates and signs out.
`statement` needs one tick: two postings that begin on either side of it and get the account the other way round.
In `signins` a clock of four values, with windows of two and a grace of one, is the shortest in which a row
can become stale while its child may still be rotated, which is what the cap could be lost to; four tokens allow a chain of
three beside another family. `MCSessions` cuts the instance where its parts would only multiply (`Bounds`): more than one token
is for an account in good standing, more than two for families that only a replay revokes, and two requests overlap in the first
moments.
In `front_door` the limits are as low as they go: a quota and a grant of one invitation, one wrong guess, one failure, two requests per
window, so that one request more is already beyond them and two requests under way can both have read the count before. Joining has three people of
whom one was there before, two invitations, two keys, two codes per challenge and two requests; `Bounds` lets either one newcomer with
one request meet everything that staff and time may do (`Lone`), or two newcomers with two requests meet each other (`Undisturbed`). Paying has two requests, two payments (one
large), five rules (a warning, one to acknowledge, two that hold and one that blocks, at different bands and reasons), one recovery code and two seeds: two requests on the factor with one token between them while nobody pays, one payer under every policy while the factor is at rest, and one of
each under a plain policy. Knocking has two callers at two addresses, a window of two and a clock to 3, the shortest in which a hit leaves the window while
another stays. Browsing has two requests of a page and three pairs of tokens: one to lose, one that replaces it, one of another sign-in.
The theorems of section 4 hold without any of these bounds, so these cuts narrow only what is model-checked alone.
Symmetry is used in the safety runs only: customers together with their users, keys, admins, connections and requests are
interchangeable, because the specification names none of them.

**Deadlock** is checked in every run: the ledger's sweep, a change of a user's status, a new payment, a restart of the limiter and a reload of the page are always possible,
so a state without successors would be an error of the model.

**Fairness.** `FundsFreedUnlessBlocked` assumes `WF(Sweep)`: the ticker of `cmd/app/main.go` ticks for as long as a replica lives, a tick skipped for the
advisory lock means that another replica sweeps, and one that a deadlock or its deadline aborted is tried again at the next. A blocked sweep is not enabled, so nothing is
assumed of it; `WF` asks for one only when no token blocks it from some point on. And it assumes `WF(window_lapses(t))`, since clocks advance. Nothing is assumed of customers or operators.

## 4. What is proved

The proofs assume what the modules assume of their constants, in the `ASSUME` at the head of each: accounts of customers and the
outside are disjoint, the operator's key namespace is no user, staff are no customers, keys of different cases differ, account
ids are numbers and differ, what marks a token as absent is no token and no row, limits, windows and bounds are natural numbers. Of the sets of requests that may be under way
(`Client`, `Request`, `Caller`, `Api`) they assume that they are finite, as a pool of connections is. Nothing else about the size of the sets is assumed.

| Module | Theorem | Says |
|---|---|---|
| `LedgerProofs` | `TypeCorrect` | `Spec => []TypeOK` |
| | `FundsCorrect` | `Spec => []FundsInv`, the inductive invariant |
| | `SolventAlways` | `Spec => []Solvent` |
| | `HoldsFollowStatus` | `Spec => []HoldMatchesStatus` |
| | `HistoryAlwaysStands` | `Spec => HistoryStands` |
| | `StatementsAlwaysChain` | `Spec => []StatementChains` |
| | `ReversalsConverge` | `Spec => []ReversedOnce` |
| | `LegsFollowStatus` | `Spec => []LegsMatchLifecycle` |
| | `KeysNameTheirOutcomes` | `Spec => []KeyNamesItsOutcome` |
| | `AlwaysReconciled` | `Spec => []Reconciled` |
| | `LedgerImplementsPayments` | `Spec => Abstract!Spec`, the refinement of `Payments` |
| | `SweptFundsAreFreed` | for `Ledger` alone: `Spec /\ SweepsGoOn /\ (\A t \in 1..MaxTransfers : WindowEnds(t)) => FundsFreed` |
| `LedgerLocksProofs` | `LocksHold` | `SpecLocks => []LocksInv`, the inductive invariant |
| | `CallsAreAtomic`, `LocksImplementLedger` | `SpecLocks => AtomicCalls`, `SpecLocks => Spec` |
| | `CallsKeepTheBooks` | `SpecLocks =>` `[]` of `Solvent`, `ReversedOnce`, `KeyNamesItsOutcome`, `Reconciled` |
| | `RequestsGetThrough` | `SpecLocks => []RequestsNeverDeadlock` |
| | `StatementsImplementLocks` | `SpecStatements => SpecLocks` |
| | `RunsWhereInOrder` | `SpecStatements => [](\A a \in Account : StampedInOrder(a) => Continues(a))` |
| | `OneAtATimeRuns` | `SpecStatements /\ []OneAtATime => []RunningBalance` |
| `MakerCheckerProofs` | `DeskCorrect` | `SpecDesk => []DeskInv`, the inductive invariant |
| | `DeskTypeCorrect`, `NothingWaitsOutOfSight` | `SpecDesk => []DeskTypeOK`, `SpecDesk => []NoOrphanedHold` |
| | `QueuesNeedDecisions` | `SpecDesk => QueuedNeedsDecision` |
| | `DeskImplementsLedger` | `SpecDesk => Spec` |
| | `StagedOnceUnlessRepeated` | `SpecDesk /\ [][StagesAfresh]_allvars => []StagedOnce` |
| | `FourEyesByTheQueue` | `SpecDesk /\ [][StagesAfresh /\ PostsUnqueued]_allvars => []FourEyes` |
| `BackOfficeProofs` | `CasesTypeCorrect`, `PaidAsDecidedAlways` | `SpecCases => []CasesTypeOK`, `SpecCases => []PaidAsDecided` |
| | `ClosedCasesStand` | `SpecCases => ClosedStands` |
| | `CasesImplementLedger` | `SpecCases => Spec` |
| | `MaintenanceKeepsBoth` | `SpecMaintenance => Spec /\ SignIns!SpecSessions` |
| | `FundsFreedIfUnblocked` | `SpecMaintenance /\ TicksGoOn /\ (\A t \in 1..MaxTransfers : WindowEnds(t)) => FundsFreedUnlessBlocked` |
| `SessionsProofs` | `SessionsTypeCorrect`, `FamiliesAreChains`, `CapAlwaysHolds`, `EndedStayEndedAlways` | `SpecSessions =>` `[]` of `SessionsTypeOK`, `FamilyIsChain`, `CapHolds`, `EndedStayEnded` |
| | `RevocationAlwaysStands`, `PasswordsStand` | `SpecSessions => RevocationStands`, `SpecSessions => PasswordStands` |
| | `SessionsImplementFamilies` | `SpecSessions => Promise!Spec`, the refinement of `Families` |
| | `SessionsServeOnce` | `SpecSessions => []Promise!OneServes` |
| `OnboardingProofs` | `OnboardingTypeCorrect`, `QuotaAlwaysHolds`, `RegistrationsAlwaysWhole`, `AttemptsAlwaysBounded` | `OnboardingSpec =>` `[]` of `OnboardingTypeOK`, `InvitationsWithinQuota`, `RegistrationIsWhole`, `AttemptsBounded` |
| | `VerificationsAlwaysStand` | `OnboardingSpec => VerifiedStands` |
| `PaymentGateProofs` | `FactorTypeCorrect`, `FailuresAlwaysBounded`, `RecoveryCodesSpentOnce` | `FactorSpec =>` `[]` of `FactorTypeOK`, `FailuresBounded`, `RecoveryCodeOnce` |
| | `FactorBehindTheGate` | `GateSpec => FactorSpec` |
| | `GateTypeCorrect`, `PaymentsAlwaysLinked`, `PreviewsAlwaysKept` | `GateSpec =>` `[]` of `GateTypeOK`, `LinkedPayments`, `PreviewKept` |
| `FrontDoorProofs` | `LimiterTypeCorrect`, `RateAlwaysHeld` | `LimiterSpec =>` `[]` of `LimiterTypeOK`, `RateHeld` |
| | `WebTypeCorrect`, `PageAlwaysAgrees` | `WebSpec =>` `[]` of `WebTypeOK`, `PageAgrees` |
| | `ServerPromiseKept`, `PageServedOnce` | `WebSpec => Server!Spec`, `WebSpec => []Server!OneServes` |
| | `PartsStandAlone` | `Spec =>` the specification of each part |
| | `FrontDoorTypeCorrect` | `Spec => []TypesOK` |

Four theorems bound findings of section 3: the hypothesis of each excludes the one thing that the finding is about, and what the document says
then holds. A statement is a running balance wherever calls had their locks in the order in which they began (`RunsWhereInOrder`), as they do while no two
overlap (`OneAtATimeRuns`); a transfer has one row in the queues unless a staging call is repeated (`StagedOnceUnlessRepeated`); and a staged
movement settles with a second admin unless one is repeated or the Post button is used on it (`FourEyesByTheQueue`). So the findings are all that is wrong there.
`RequestsGetThrough` does the same for `sweep_deadlock`. The hypotheses are not promises of the code.

*The argument for the funds.* `Solvent` is not inductive: posting takes from the balance what its hold had reserved, so there
must be such a hold (`HoldMatchesStatus`), and a reversal trusts the cache `held_minor`, so the cache must be right
(`HeldCached`). `FundsInv == TypeOK /\ HoldMatchesStatus /\ HeldCached /\ Solvent` is inductive. The proof has one lemma per
operation (`AdmitFunds`, `PostFunds`, `CancelFunds`, `ReverseFunds`, `MaintenanceFunds`, `LapseFunds`), which rest on lemmas
about the sum of an account's active holds (`ReservedMore`, `ReservedLess`, `ReservedSame`), and these on the
cardinality of disjoint unions (`WeightUnion`, `WeightOne`).

*The argument for the history.* The sweep closes whatever is in `lapsed` without looking at its status; that only waiting
transfers can be there is part of `HoldMatchesStatus`, so `HistoryStands` is proved under `FundsInv`.

*The argument for liveness.* The provers cannot reason about `ENABLED`, so the theorems take the fairness with its enabling
conditions written out: `SweepsGoOn` says that holds are not overdue for ever without a sweep that changes something, `WindowEnds(t)` that a hold that is kept
becomes overdue. A free row stays free (`FreeStays`); an overdue hold stays overdue until it is free (`OverdueUntilFree`), and a sweep frees it (`SweepFrees`). So a
hold that never ended would be overdue for ever, and be swept (`SweptFundsAreFreed`). The code does not promise `SweepsGoOn`. What it promises is `TicksGoOn`: holds are not
overdue and the sweep unblocked for ever without one. `FundsFreedIfUnblocked` goes from there: either the sweep is blocked again and again, or from some point on it is not, and then
`SweepsGoOn` holds; every step of `Maintenance` is one of `Ledger` (`MaintenanceKeepsBoth`), so that what is overdue stays so until it is free. That `TicksGoOn` and `WindowEnds` follow from
the fairness of `Maintenance` is read off the actions and not proved; the run `live` checks the property from `Fairness` itself.

*The argument for the books.* Under `FundsInv` every step of `Ledger` is one of five kinds (`BookStep`): waiting
transfers are closed, a row is added that waits, a row is added and posted, a waiting row is posted, a posted row is
reversed. What is left is about those five. `StatementChains` follows from the two legs they write; `ReversedInv` adds to `ReversedOnce`
that a reversal refers to an earlier transfer; `LegsInv` adds to `LegsMatchLifecycle` that entries name
transfers that exist. For `Reconciled` the postings of a transfer are summed as the net of a finite set of them
(`AddsUp`), so that two legs come to zero; for the refinement an account's balance is shown to be what `Payments` says it owns, a minor unit at a time
(`BalanceFollows`), and then each of the five is one of `Pay`, `Settle`, `Withdraw`, `Refund` or a stutter.

*The argument for the locks.* `LocksInv` says of each call in progress that what it checked still stands (`Proper`), and of
any two that the rows they have locked are disjoint (`Apart`). A commit changes only rows the call has locked (`Only`), so what
another call checked, which depends on its own rows alone, is not disturbed (`CallStands`, `Preserved`); and a call whose checks stand at commit
is enabled as a step of `Ledger` (`CommitsWell`). The circle is excluded by rank: a key comes before a transfer, a transfer before accounts,
accounts in the order of their ids; a hold is locked by those alone who hold its transfer, so no request ever waits for one. In a circle of waits the rank
of what is waited for would grow for ever (`HigherUp`), which a finite set of connections excludes (`HasTop`). The sweep takes
holds first, which is why the theorem speaks of requests; `sweep_deadlock` shows the other case.

*The argument for the statements.* Only a commit writes entries (`OnlyCommitsWrite`), one per account (`OneMoreEntry`), and stamps them with the
beginning of its call (`StatementStep`); no stamp is ahead of the clock (`ClockInv`). Entries chain in the order of their insertion
(`StatementsAlwaysChain`, by way of `LocksImplementLedger`), and where that is the order of the stamps the statement lists them so (`ListedInOrder`). While
calls do not overlap, whoever is under way began after every stamp (`OrderInv`).

*The argument for the desk.* Every step of `MakerChecker` is a step of `Ledger` or leaves its tables alone, so `FundsInv` carries
over. `DeskInv` adds to `NoOrphanedHold` what keeps it: a row of the queue names a transfer that exists (`RowsNamed`); a held payment is in no
queue, since releasing it would leave a row behind (`HeldUnqueued`); and a key of the staff never names a parked
payment, so that a staging call repeated under its key queues none a second time (`StagingKeys`). For the findings, every step queues one row, handles one open row or changes none (`RowsEvolve`); a
row that a second admin handled stays as it is (`EyesStay`), and what posts waited, with its rows open (`PostsFromWait`).

*The argument for the cases.* Every step of `Disputes` is a step of `Ledger` or leaves its tables alone (`CasesStepLedger`),
so the ledger's invariants and history carry over. `CasesInv` adds that an open case has paid nothing: a decision
then pays for the first time, although the sweep may have freed the key that the code calls "the belt". That what was
paid stays paid is `RowsRemain`, from the history; that a closed case changes no more is read off the guards of each operation under `CasesInv`.

*The argument for the families.* A rotation measures the age of a family from the oldest row that is left, so the cap holds only if
the first row is always left (`Rooted`). That the sweep leaves it is not by its condition, which goes by age, but by the reference
between the rows: of the tokens of a family that stay, take the one that was rotated least; its parent would stay too and was
rotated less, so it has none and is the first (`RootStays`, with the least element of a set of numbers from `Least`).
`FamiliesInv == FamilyIsChain /\ Rooted /\ CapHolds` is inductive.

*The argument for the revocations.* Of a token that was minted, no step changes family or owner, un-revokes it or brings it back
(`TokensStand`, which also gives `RevocationStands`). So the target of a request stays within what its next statement looks at
(`InScope`), and what the UPDATE finds when it begins covers the target (`ScopeBegins`).

*The argument for the passwords.* But for a login that begins, no step gives a request a hash to write again (`RequestSteps`), and a login that begins has one only if
it read the old cost. Only a change, and a login that has one, write a password (`AccountSteps`).

*The argument for the promise.* Each statement is a step of `Families`: an INSERT of a login is `SignIn`, a rotation `Exchange`, an UPDATE that
revokes is `End` (`IssuePromised`, `RotatePromised`, `RevokePromised`). The sweep is `Forget`, which lets the first token of a family go last, and that it does is
`Rooted` again (`SweepPromised`). `OneServes` then holds of the tables because it is `FamilyIsChain` seen through the mapping.

*The argument for joining.* `WholeInv` says of each user that whoever has a challenge was admitted by one invitation and nobody
else was, that sent and left make up the quota, and of each key and each replay under way that it names the account its own parameters made;
a consumed invitation stays consumed by the same account (`InvitationsStay`). `AttemptsBounded` is inductive with the
wrong guesses that are told apart and not yet counted on its left side.

*The argument for the factor and the gate.* `CallsRight` says what a request may hold at each of its statements; `RecoveryInv` adds to
`RecoveryCodeOnce` that before a confirmation there are no codes and nobody holds one. Every step of the gate is one of the factor or
leaves it alone, so these carry over. `LinkedInv` follows the link from the factor that was accepted to the token and from there to the
payment on its way (`LinksInv`, `OrderRight`); as a confirmed seed is never taken back, that a factor was due stays true. `PreviewInv` says of a request
whose preview nothing has changed that evaluating now gives what was shown (`PromiseRight`), which needs that inserting the payment itself does not
change its own evaluation.

*The argument for the limiter.* A window is intact while all that passed in it is still remembered, and then the limit holds. What is
forgotten is forgotten for a stamp behind the window, and who is counted in the window after that had its stamp by then, so they
are among the callers (`Overtaken`). `LimiterInv` says that each window is one or the other.

*The argument for the page.* `PageAgrees` is not inductive: that a page does not present a pair twice depends on what is on the wire and on what it waits for.
`WebInv` adds that numbers of pairs that were not minted are held by nobody (`NumbersMinted`); that a page has one refresh under way and one POST for it until it is
answered, and that the answer brings a pair the page has neither kept nor spent (`OneRoundTrip`); and that, unless a reload or a sign-out overtook it, the POST it waits for
spends what it holds, and one that nobody waits for is of another family (`OwnSession`).

*The argument for the composition.* `part` never changes, so a behaviour of `FrontDoor` takes the steps of one part and leaves the variables of the others as they
began; each part's specification allows that.

**Only model-checked**: the findings of section 3 themselves, which are about what can happen. **Out of the provers' reach**: `ENABLED`, and with it
that `FundsFreedUnlessBlocked` follows from `WF` (proved only from the written-out form above, and checked by `live`), and what recursive definitions compute; there are none of the latter here.

## 5. What is not modelled

- The answers of calls (which error, which code): a refused call is a call that is not enabled, a replay is no step.
- Who is logged in: any caller may call any function of its role at any time.
- In `Ledger` the rules of the fraud gate, whose verdict is a free choice there. In `PaymentGate` the value sent in 24 hours and the age of the account, which add points as the count of payments does.
- In `Maintenance` the advisory lock and the deadline of a tick.
- In `Sessions`: access tokens, which the server does not store, the second factor, device labels and the list of sessions.
- Audit rows, notifications, descriptions, names and currencies (there is one currency).
- Overflow of BIGINT: PostgreSQL raises on it, so a call that would overflow rolls back.
- The event feed (`00014_events.sql`): rows that the functions of `Ledger` and `Disputes` insert in the transaction of their cause, so what matters is
  the reading. A reader pages by `created_at`, which is the time its transaction began, as `posted_at` is in `Statements`: an event may commit behind
  a cursor that has passed it, as the entry of a statement does in the run `statement`.
- IBANs (`00002`, `00017`, `internal/iban`) and money (`internal/money`): pure conversions with no state that others race for. An
  account here is its identity and an amount a number of minor units.
- The life cycle of the server, the migrations runner, configuration, logging, metrics, and the arithmetic of TOTP, JWT and bcrypt.
- Views and forms of the console and the web app; of the web app's payments the reuse of an idempotency key across retries.
- `client_confirm` in `LedgerLocks`, and the profile columns, roles and creation of users in `Sessions`.

More than half of the Go code is generated from the database schema, the API description and the templates (`internal/api/genclient`, `genadmin`,
`internal/db/sqlc`, `web/template/*_templ.go`) and carries no decision of its own; the decisions are in the migrations and the handlers.

Behaviour noted while reading, which no property here is about:

- The Approvals badge counts rows of payments that were settled elsewhere, which the queue no longer lists.
- `mfa_confirm` confirms the pending seed that is newest at that moment, which need not be the one whose code was checked.
- A registration whose challenge expired cannot be verified any more: a resend answers 202 and sends nothing.
- `verify_contact` makes an account active that staff had locked in the meantime.
- The old password "must stop working after rotation" (`internal/api/console_password_test.go:63`). One change in the other order brings it back: a login that read the hash at cost 10 before the
  change writes it again at cost 12 after it (`00020:277-280` has no condition on the hash). It takes a login under way and a hash from before `00020`; `PasswordStands` says that it takes both.
- A token with a linked factor is good for several identical payments while it is fresh, and a payment retried after it was made is asked for a factor again.
- A sign-out that a refresh overtakes leaves the new pair alive; a reload during a refresh presents a token twice, which ends the family.
- A forced password change ends at the login page of the web app (`web/app/src/api/client.ts:88`).
- `validEventType` (`internal/api/handlers_events.go:19-26`) does not accept the type `transfer.held`, which the database writes.
- `ParseEuros` (`internal/money/money.go:88`) reads `1.-5` as 0.95 and accepts `--1`, and its product with 100 can wrap.
- `console_users.go:138` narrows a number to 32 bits.
- `migrate` down takes no lock, where up does.

## 6. The plan

Done, in this order: `Ledger` with `Payments`, `LedgerProofs`; `MakerChecker`; `LedgerLocks`; `Disputes` and its proofs; `Sessions` and
`SessionsProofs`; `Onboarding`, `SecondFactor`, `PaymentGate`, `RateLimiter` with their proofs; `WebClient`; `Statements`; the books and the refinement of
`Payments` in `LedgerProofs`; `MakerCheckerProofs`; `LedgerLocksProofs`; `Families` and its two refinements; `FrontDoor` and `FrontDoorProofs`, with the session of a page;
the theorems that bound the findings on statements, staging and four eyes; `Maintenance`, the three bands of `PaymentGate` and the statements of a login.

Next, most important first:

1. `client_confirm` in `LedgerLocks`. It compares the window with the time at which it began and posts after it has waited for its locks, so `lapsed` has to be
   relative to a call before what it does can be a step of `Ledger`.
2. What is left of a password change when one of its statements fails, as a theorem about `ended` with the failure as its hypothesis, as for the other findings.
3. The event feed on top of `Statements`' clock, with its cursor, and the theorem that corresponds to `RunsWhereInOrder`.
4. The event and audit rows of a payment beside its queue row, and the web app's key of a payment in progress.
5. Pure operators: IBAN check digits against the definition of ISO 7064, money parsing against its grammar.
