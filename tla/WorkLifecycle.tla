--------------------------- MODULE WorkLifecycle ----------------------------
(***************************************************************************)
(* What the autonomy system promises about one work item, whoever executes *)
(* it and however the loop is stopped and started: it is accepted once, is *)
(* executed by one worker at a time, is retried only while attempts are    *)
(* left, and its final verdict is never revised.                           *)
(***************************************************************************)
EXTENDS Naturals

CONSTANTS Items, Limits

VARIABLES status, attempts, limit

vars == <<status, attempts, limit>>

Init ==
  /\ status = [i \in Items |-> "NEW"]
  /\ attempts = [i \in Items |-> 0]
  /\ limit = [i \in Items |-> 0]

Accept(i, m) ==
  /\ status[i] = "NEW"
  /\ status' = [status EXCEPT ![i] = "PENDING"]
  /\ limit' = [limit EXCEPT ![i] = m]
  /\ UNCHANGED attempts

Begin(i) ==
  /\ status[i] = "PENDING"
  /\ status' = [status EXCEPT ![i] = "RUNNING"]
  /\ attempts' = [attempts EXCEPT ![i] = @ + 1]
  /\ UNCHANGED limit

Complete(i) ==
  /\ status[i] = "RUNNING"
  /\ status' = [status EXCEPT ![i] = "COMPLETED"]
  /\ UNCHANGED <<attempts, limit>>

Retry(i) ==
  /\ status[i] = "RUNNING"
  /\ attempts[i] < limit[i]
  /\ status' = [status EXCEPT ![i] = "PENDING"]
  /\ UNCHANGED <<attempts, limit>>

GiveUp(i) ==
  /\ status[i] = "RUNNING"
  /\ attempts[i] >= limit[i]
  /\ status' = [status EXCEPT ![i] = "FAILED"]
  /\ UNCHANGED <<attempts, limit>>

Next ==
  \E i \in Items :
    \/ \E m \in Limits : Accept(i, m)
    \/ Begin(i)
    \/ Complete(i)
    \/ Retry(i)
    \/ GiveUp(i)

Spec == Init /\ [][Next]_vars
=============================================================================
