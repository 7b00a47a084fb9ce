---------------------------- MODULE MCStatements -----------------------------
(* The instance of MCLedgerLocks with a clock.                             *)
EXTENDS MCLedgerLocks, Statements

MCStatementsSpec ==
  MCInit /\ InitClock /\ [][NextStatements /\ (UNCHANGED allvars \/ MCNext)]_<<allvars, clock_vars>>

=============================================================================
