--------------------------- MODULE ScanLifecycle ----------------------------
(***************************************************************************)
(* The abstract life of one scan as any observer may see it: the state     *)
(* graph the two sides of the protocol have to agree on, the provisional   *)
(* plan that exists only between the state "planReady" and the resume that *)
(* invalidates it, and the outcome that ends the session.                  *)
(*                                                                         *)
(* Graph and guards are those of accepted_transition_is_valid and          *)
(* reduce_origin_event on the Rust side and of ScanSession.control on the  *)
(* Swift side; both sides are shown to implement this module.              *)
(***************************************************************************)
EXTENDS ScanProtocol

VARIABLES
  scan,      \* the scan state observed
  plan,      \* the plan in hand, or NoPlan
  outcome    \* "none" until the session has ended

lifecycleVars == <<scan, plan, outcome>>

Outcome == {"none", "cancelled", "finished", "failed"}

Init ==
  /\ scan = "idle"
  /\ plan = NoPlan
  /\ outcome = "none"

Advance ==
  /\ outcome = "none"
  /\ <<scan, scan'>> \in Advances
  /\ UNCHANGED <<plan, outcome>>

(* A plan arrives after the state that announces it. *)
OfferPlan ==
  /\ outcome = "none"
  /\ scan = "planReady" /\ plan = NoPlan
  /\ plan' \in PlanId
  /\ UNCHANGED <<scan, outcome>>

(* A plan is withdrawn only by a scan that runs again. *)
WithdrawPlan ==
  /\ outcome = "none"
  /\ scan = "running" /\ plan # NoPlan
  /\ plan' = NoPlan
  /\ UNCHANGED <<scan, outcome>>

ReportCancelled ==
  /\ outcome = "none" /\ scan = "cancelled"
  /\ outcome' = "cancelled"
  /\ UNCHANGED <<scan, plan>>

ReportFinished ==
  /\ outcome = "none" /\ scan = "running"
  /\ scan' = "finished" /\ outcome' = "finished"
  /\ UNCHANGED plan

(* A failure may be discovered at any time, also while cleaning up after   *)
(* another outcome, and is final.                                          *)
Fail ==
  /\ scan' = "failed" /\ outcome' = "failed"
  /\ UNCHANGED plan

Next ==
  \/ Advance
  \/ OfferPlan
  \/ WithdrawPlan
  \/ ReportCancelled
  \/ ReportFinished
  \/ Fail

Spec == Init /\ [][Next]_lifecycleVars
=============================================================================
