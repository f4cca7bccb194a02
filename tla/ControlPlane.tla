---------------------------- MODULE ControlPlane ----------------------------
(***************************************************************************)
(* What stands above the trading path: the automation of decision points   *)
(* and the governance of the models they use.                              *)
(***************************************************************************)
EXTENDS ModelGovernance, Automation

vars == <<governanceVars, automationVars>>

Init == GovernanceInit /\ AutomationInit

Next ==
  \/ GovernanceNext /\ UNCHANGED automationVars
  \/ AutomationNext /\ UNCHANGED governanceVars

Spec == Init /\ [][Next]_vars
=============================================================================
