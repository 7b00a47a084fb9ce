------------------------------ MODULE FrontDoor ------------------------------
(***************************************************************************)
(* The four parts that stand before the ledger: how one becomes a customer,*)
(* what a payment must pass, how often one may knock and how a page stays  *)
(* signed in.  They share no state, so a behaviour is one of one part.     *)
(***************************************************************************)
EXTENDS Onboarding, PaymentGate, RateLimiter, WebClient

VARIABLE part

parts == <<onboarding_vars, factor_vars, gate_vars, limiter_vars, web_vars>>

Init ==
  /\ part \in {"joining", "paying", "knocking", "browsing"}
  /\ OnboardingInit /\ GateInit /\ LimiterInit /\ WebInit

Next ==
  /\ part' = part
  /\ \/ /\ part = "joining"
        /\ OnboardingNext
        /\ UNCHANGED <<factor_vars, gate_vars, limiter_vars, web_vars>>
     \/ /\ part = "paying"
        /\ GateNext
        /\ UNCHANGED <<onboarding_vars, limiter_vars, web_vars>>
     \/ /\ part = "knocking"
        /\ LimiterNext
        /\ UNCHANGED <<onboarding_vars, factor_vars, gate_vars, web_vars>>
     \/ /\ part = "browsing"
        /\ WebNext
        /\ UNCHANGED <<onboarding_vars, factor_vars, gate_vars, limiter_vars>>

Spec == Init /\ [][Next]_<<part, parts>>

(* Each part keeps its types, and the steps of one part leave those of the *)
(* others as they began.                                                   *)
TypesOK == OnboardingTypeOK /\ GateTypeOK /\ LimiterTypeOK /\ WebTypeOK

=============================================================================
