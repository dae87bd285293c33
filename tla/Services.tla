------------------------------ MODULE Services ------------------------------
(***************************************************************************)
(* The smaller services around the runtime: Billing, Growth (three parts), *)
(* Schedules, ExecutionLog and Prompts (two parts).  They share no state,  *)
(* so a step of one neither enables nor changes a step of another, and     *)
(* each may be looked at while the others stand still: part says which one *)
(* moves.                                                                  *)
(***************************************************************************)
EXTENDS Billing, Growth, Schedules, ExecutionLog, Prompts

VARIABLE part

textVars == <<ruleGraph, promptVars>>

vars == <<billingVars, growthVars, scheduleVars, logVars, textVars, part>>

Init ==
  /\ BillingInit /\ GrowthInit /\ SchedulesInit /\ LogInit /\ PromptsInit
  /\ part \in {"billing", "pages", "tests", "campaigns", "schedules", "log",
              "rules", "prompts"}

GrowthNext ==
  \/ part = "pages"     /\ PageNext
  \/ part = "tests"     /\ TestNext
  \/ part = "campaigns" /\ CampaignNext

TextNext ==
  \/ part = "rules"   /\ RulesNext
  \/ part = "prompts" /\ PromptsNext

Next ==
  /\ UNCHANGED part
  /\ \/ /\ part = "billing" /\ BillingNext
        /\ UNCHANGED <<growthVars, scheduleVars, logVars, textVars>>
     \/ /\ GrowthNext
        /\ UNCHANGED <<billingVars, scheduleVars, logVars, textVars>>
     \/ /\ part = "schedules" /\ SchedulesNext
        /\ UNCHANGED <<billingVars, growthVars, logVars, textVars>>
     \/ /\ part = "log" /\ LogNext
        /\ UNCHANGED <<billingVars, growthVars, scheduleVars, textVars>>
     \/ /\ TextNext
        /\ UNCHANGED <<billingVars, growthVars, scheduleVars, logVars>>

Spec == Init /\ [][Next]_vars

=============================================================================
