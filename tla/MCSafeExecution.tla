-------------------------- MODULE MCSafeExecution ---------------------------
(* Two runs at a time, of a task that stays local and one that need not.     *)
EXTENDS SafeExecution, TLC

CONSTANTS t1, t2, r1, r2, local, cloud

Prices  == local :> 1 @@ cloud :> 1
Budgets == t1 :> 2 @@ t2 :> 1
Models  == <<1, 3, 2>>   \* the largest model does not need the most memory
=============================================================================
