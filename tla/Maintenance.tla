---------------------------- MODULE Maintenance -----------------------------
(***************************************************************************)
(* The maintenance of bank0: the ticker of cmd/app/main.go calls           *)
(* RunMaintenance of internal/db/bank.go, which sweeps holds, idempotency  *)
(* keys, sessions and refresh tokens in one transaction.  An error of any  *)
(* of them undoes all of them, and the ticker logs it and tries again at   *)
(* its next tick.  So what is left in one table can keep the sweep from    *)
(* another: composes Ledger and Sessions, which share nothing else.        *)
(*                                                                         *)
(* The steps of the sweep that are not here cannot fail for what is in     *)
(* their tables: the UPDATE of challenges and the DELETE of attempts that  *)
(* nothing refers to (Onboarding, SecondFactor), and a SELECT (Reconciled).*)
(***************************************************************************)
EXTENDS Ledger

CONSTANTS
  Staff,                      \* users with a role other than customer
  Token, Portal, Request,     \* refresh tokens, portal sessions, requests
  refresh_ttl, refresh_absolute_ttl, session_idle,
  c_max_attempts, c_lock_window,
  Unminted, Dropped, Day, MaxPassword, MaxNow

VARIABLES now, users, refresh_tokens, sessions, request, ended

SignIns == INSTANCE Sessions WITH User <- User \cup Staff

signin_vars == <<now, users, refresh_tokens, sessions, request, ended>>
mvars == <<vars, signin_vars>>

InitMaintenance == Init /\ SignIns!InitSessions

(* A tick that gets through; one that fails changes nothing.               *)
Sweep == RunMaintenance /\ SignIns!RunMaintenance

(* What customers, staff and the clock do.                                 *)
MoveMoney ==
  \/ Submit \/ Resolve \/ Reverse \/ Administer
  \/ \E t \in DOMAIN transfers : window_lapses(t)

NextMaintenance ==
  \/ MoveMoney /\ UNCHANGED signin_vars
  \/ SignIns!Serve /\ UNCHANGED vars
  \/ Sweep

SpecMaintenance == InitMaintenance /\ [][NextMaintenance]_mvars

(* The ticker ticks as long as a replica lives, and windows end.  Nobody   *)
(* has to sign in or out, and a tick that meets what blocks it fails.      *)
Fairness ==
  /\ WF_mvars(Sweep)
  /\ \A t \in 1..MaxTransfers : WF_mvars(window_lapses(t) /\ UNCHANGED signin_vars)

FairMaintenance == SpecMaintenance /\ Fairness

-----------------------------------------------------------------------------
(* Properties.                                                             *)

(* The DELETE of cleanup_refresh_tokens meets a row that another one, which*)
(* is not due yet, names as its parent: every tick fails as long as this   *)
(* lasts.                                                                  *)
Blocked == ~SignIns!SweepSucceeds

(* Reserved money is freed, whatever customers and operators do or leave   *)
(* undone, unless families of refresh tokens block the sweep again and     *)
(* again: nothing else about the tables can keep a hold active for ever.   *)
FundsFreedUnlessBlocked == FundsFreed \/ []<>Blocked

=============================================================================
