--------------------------- MODULE SafeExecution ----------------------------
(***************************************************************************)
(* Runs of tasks under a budget: the provider is selected by cost and      *)
(* health (cost/provider-selector.ts), the run is wrapped by the safety    *)
(* controller with its resource monitor and model scaler (safety), and     *)
(* what it has cost is recorded (cost/execution-budget.ts).  The parts     *)
(* share only the budgets and the memory of the machine; they are put      *)
(* together here by callers that select, execute and record in this order, *)
(* several at a time and also for one task.                                *)
(*                                                                         *)
(* Money is counted in units of which MinBudget are the least the tracker  *)
(* regards as something left.                                              *)
(***************************************************************************)
EXTENDS Naturals, Sequences, FiniteSets

CONSTANTS Task, Run, NoTask, NoOne,
          Local, Remote,  \* the providers
          Cost,           \* the cost model's estimate for a provider
          MaxCost,        \* bounds what a run turns out to cost
          Budget,         \* maxBudgetUsd of a task; 0: no limit
          FallbackAllowed,\* the tasks that may leave the machine
          MinBudget, MaxRetries,
          Ram,            \* of the model tiers, smallest model first
          Suitable,       \* the tiers that are suitable for the tasks
          MaxFree,        \* bounds the free memory
          MaxPaid         \* bounds what is paid for a task without a limit

Providers == Local \cup Remote
Tiers     == DOMAIN Ram

ASSUME SafeExecutionAssumption ==
  /\ Local \cap Remote = {} /\ IsFiniteSet(Run)
  /\ MaxCost \in Nat \ {0} /\ Cost \in [Providers -> 0 .. MaxCost]
  /\ Budget \in [Task -> Nat] /\ FallbackAllowed \subseteq Task
  /\ MinBudget \in Nat \ {0} /\ MaxRetries \in Nat /\ MaxPaid \in Nat /\ MaxFree \in Nat
  /\ Ram \in Seq(Nat) /\ Suitable \subseteq Tiers
  /\ NoTask \notin Task /\ NoOne \notin Providers

VARIABLES
  allocated,  \* tasks that have a budget state
  spent, exhausted,
  paid,       \* history: what the runs of the task have cost since its allocation
  run         \* the runs: where they are, and what they know

budgetVars == <<allocated, spent, exhausted, paid>>
vars == <<budgetVars, run>>

Pressures == {"NOMINAL", "SOFT_LIMIT", "HARD_LIMIT"}
DegradedStates == {"NOMINAL", "LOW_MEMORY", "PARTIAL_EXECUTION", "MODEL_UNAVAILABLE"}

Idle == [pc |-> "idle", task |-> NoTask, unchecked |-> {}, healthy |-> {}, memoryOk |-> TRUE,
         assessed |-> "NOMINAL", tier |-> 0, attempts |-> 0, last |-> "none",
         state |-> "NOMINAL", success |-> FALSE]

Init ==
  /\ allocated = {} /\ spent = [t \in Task |-> 0] /\ exhausted = {} /\ paid = [t \in Task |-> 0]
  /\ run = [r \in Run |-> Idle]

-----------------------------------------------------------------------------
(* ExecutionBudgetTracker.                                                 *)

\* allocate() overwrites what is known of the task, also while it is running.
Allocate(t) ==
  /\ allocated' = allocated \cup {t}
  /\ spent' = [spent EXCEPT ![t] = 0]
  /\ exhausted' = exhausted \ {t}
  /\ paid' = [paid EXCEPT ![t] = 0]
  /\ UNCHANGED run

Clear(t) ==
  /\ allocated' = allocated \ {t}
  /\ spent' = [spent EXCEPT ![t] = 0]
  /\ exhausted' = exhausted \ {t}
  /\ paid' = [paid EXCEPT ![t] = 0]
  /\ UNCHANGED run

CanProceed(t, cost) ==
  /\ t \in allocated \ exhausted
  /\ Budget[t] = 0 \/ spent[t] + cost <= Budget[t]

\* Mutant of RecordSpend: a charge that does not fit is refused, not recorded.
RecordFitting(t, cost) ==
  IF t \in allocated \ exhausted /\ (Budget[t] = 0 \/ spent[t] + cost <= Budget[t])
  THEN /\ spent' = [spent EXCEPT ![t] = @ + cost]
       /\ UNCHANGED exhausted
  ELSE UNCHANGED <<spent, exhausted>>

\* The charge that exhausts the budget is recorded whole; those after it are not.
RecordSpend(t, cost) ==
  IF t \in allocated \ exhausted
  THEN /\ spent' = [spent EXCEPT ![t] = @ + cost]
       /\ exhausted' = IF Budget[t] # 0 /\ spent[t] + cost + MinBudget > Budget[t]
                       THEN exhausted \cup {t} ELSE exhausted
  ELSE UNCHANGED <<spent, exhausted>>

-----------------------------------------------------------------------------
(* CostAwareProviderSelector.select().                                     *)

Select(r, t, memoryOk) ==
  /\ run[r].pc = "idle"
  /\ paid[t] <= MaxPaid
  /\ run' = [run EXCEPT ![r] = [Idle EXCEPT !.pc = "checking", !.task = t, !.memoryOk = memoryOk,
                                            !.unchecked = Providers]]
  /\ UNCHANGED budgetVars

Cheapest(ps) == {p \in ps : \A q \in ps : Cost[p] <= Cost[q]}

\* Whom the selection may come to, among the healthy: NoOne with a reason that is
\* given to the caller.  The price of a remote provider is not held against the budget.
Selection(t, healthy, memoryOk) ==
  IF healthy \cap Local # {} /\ memoryOk
  THEN {IF CanProceed(t, Cost[p]) THEN p ELSE NoOne : p \in Cheapest(healthy \cap Local)}
  ELSE IF healthy \cap Remote # {} /\ t \in FallbackAllowed
       THEN Cheapest(healthy \cap Remote)
       ELSE {NoOne}

\* Providers are asked one by one.  The budget is looked at when the last has answered.
HealthCheck(r, p, ok) ==
  LET s == run[r]
      unchecked == s.unchecked \ {p}
      healthy   == IF ok THEN s.healthy \cup {p} ELSE s.healthy
  IN  /\ s.pc = "checking" /\ p \in s.unchecked
      /\ IF unchecked # {}
         THEN run' = [run EXCEPT ![r].unchecked = unchecked, ![r].healthy = healthy]
         ELSE \E q \in Selection(s.task, healthy, s.memoryOk) :
                run' = [run EXCEPT ![r] =
                  IF q = NoOne THEN Idle
                  ELSE [Idle EXCEPT !.pc = "selected", !.task = s.task]]
      /\ UNCHANGED budgetVars

-----------------------------------------------------------------------------
(* ModelScaler and SafetyController.safeExecute().                         *)

Fits(i, ram) == Ram[i] <= ram
LargestOf(is) == IF is = {} THEN 0 ELSE CHOOSE i \in is : \A j \in is : j <= i

\* selectTier(): 0 if none.
SelectTier(ram) == LargestOf({i \in Suitable : Fits(i, ram)})

\* Mutant of Fallback: one tier down, whether or not it fits.
FallbackByOne(i, ram) == IF Fits(i, ram) THEN i ELSE i - 1

\* fallback() from a tier that is listed: it holds on, or looks below; it never
\* goes up.
Fallback(i, ram) == IF Fits(i, ram) THEN i ELSE LargestOf({j \in Suitable : j < i /\ Fits(j, ram)})

End(r, state, success, last) ==
  run' = [run EXCEPT ![r] = [Idle EXCEPT !.pc = "answered", !.task = run[r].task, !.state = state,
            !.success = success, !.last = last,
            !.attempts = IF last = "none" THEN 0 ELSE run[r].attempts + 1]]

\* The memory is assessed once, before the first attempt: what the process holds of
\* it gives the pressure, what the machine has left the tier.
SafeExecute(r, pressure, free) ==
  /\ run[r].pc = "selected"
  /\ IF pressure = "HARD_LIMIT"
     THEN End(r, "LOW_MEMORY", FALSE, "none")
     ELSE run' = [run EXCEPT ![r].pc = "executing", ![r].assessed = pressure,
                             ![r].tier = SelectTier(free)]
  /\ UNCHANGED budgetVars

\* Mutant of DelegateThrows: another attempt assesses the memory anew.
DelegateThrowsBack(r) ==
  /\ run[r].pc = "executing"
  /\ IF run[r].attempts < MaxRetries
     THEN run' = [run EXCEPT ![r] = [Idle EXCEPT !.pc = "selected", !.task = run[r].task]]
     ELSE End(r, "PARTIAL_EXECUTION", FALSE, "thrown")
  /\ UNCHANGED budgetVars

\* Mutant of DelegateThrows: one attempt too many.
DelegateThrowsOnceMore(r) ==
  /\ run[r].pc = "executing"
  /\ IF run[r].attempts <= MaxRetries
     THEN run' = [run EXCEPT ![r].attempts = @ + 1]
     ELSE End(r, "PARTIAL_EXECUTION", FALSE, "thrown")
  /\ UNCHANGED budgetVars

\* An attempt throws; only that is tried again.
DelegateThrows(r) ==
  /\ run[r].pc = "executing"
  /\ IF run[r].attempts < MaxRetries
     THEN run' = [run EXCEPT ![r].attempts = @ + 1]
     ELSE End(r, "PARTIAL_EXECUTION", FALSE, "thrown")
  /\ UNCHANGED budgetVars

DelegateDegraded(r) ==
  /\ run[r].pc = "executing"
  /\ End(r, "MODEL_UNAVAILABLE", FALSE, "degraded")
  /\ UNCHANGED budgetVars

\* What is reported of the memory is what was assessed.
DelegateAnswers(r) ==
  /\ run[r].pc = "executing"
  /\ End(r, IF run[r].assessed = "SOFT_LIMIT" THEN "PARTIAL_EXECUTION" ELSE "NOMINAL", TRUE, "answered")
  /\ UNCHANGED budgetVars

\* The caller records what a run has cost and is done.
Settle(r, cost) ==
  LET t == run[r].task
  IN  /\ run[r].pc = "answered"
      /\ IF run[r].success
         THEN RecordSpend(t, cost) /\ paid' = [paid EXCEPT ![t] = IF t \in allocated THEN @ + cost ELSE @]
         ELSE cost = 0 /\ UNCHANGED <<spent, exhausted, paid>>
      /\ run' = [run EXCEPT ![r] = Idle]
      /\ UNCHANGED allocated

-----------------------------------------------------------------------------
RunStep(r) ==
  \/ \E p \in Providers, ok \in BOOLEAN : HealthCheck(r, p, ok)
  \/ \E pressure \in Pressures, free \in 0 .. MaxFree : SafeExecute(r, pressure, free)
  \/ DelegateThrows(r) \/ DelegateDegraded(r) \/ DelegateAnswers(r)
  \/ \E cost \in 0 .. MaxCost : Settle(r, cost)

Next ==
  \/ \E r \in Run : RunStep(r)
  \/ \E r \in Run, t \in Task, memoryOk \in BOOLEAN : Select(r, t, memoryOk)
  \/ \E t \in Task : Allocate(t) \/ Clear(t)

Spec == Init /\ [][Next]_vars

\* The provider's timers bound its health checks and its attempts.
FairSpec == Spec /\ \A r \in Run : WF_vars(RunStep(r))

-----------------------------------------------------------------------------
TypeOK ==
  /\ allocated \subseteq Task /\ exhausted \subseteq allocated
  /\ spent \in [Task -> Nat] /\ paid \in [Task -> Nat]
  /\ run \in [Run -> [pc : {"idle", "checking", "selected", "executing", "answered"},
                      task : Task \cup {NoTask}, unchecked : SUBSET Providers,
                      healthy : SUBSET Providers, memoryOk : BOOLEAN,
                      assessed : Pressures, tier : Tiers \cup {0}, attempts : 0 .. MaxRetries + 1,
                      last : {"none", "thrown", "degraded", "answered"},
                      state : DegradedStates, success : BOOLEAN]]

\* A task that must stay on the machine overspends its budget by what the runs
\* under way may cost, and by no more, however many of them were allowed on the
\* same figures, and although charges that come after the budget is exhausted are
\* dropped.
OverspendIsBounded ==
  \A t \in allocated \ FallbackAllowed :
    Budget[t] # 0 => paid[t] <= Budget[t] + Cardinality(Run) * MaxCost

\* What was paid is recorded, up to the charge that exhausts the budget.
ChargesAreRecorded ==
  \A t \in allocated : \/ spent[t] = paid[t]
                       \/ t \in exhausted /\ spent[t] < paid[t]

\* The state a run reports is the one it ended in: blocked means that nothing was
\* attempted, a model that is unavailable was found so by the last attempt, and no
\* failure is reported as a success or the other way round.
ReportsAreTruthful ==
  \A r \in Run : run[r].pc = "answered" =>
    /\ run[r].state = "LOW_MEMORY" <=> run[r].attempts = 0
    /\ run[r].state = "MODEL_UNAVAILABLE" <=> run[r].last = "degraded"
    /\ run[r].success <=> run[r].last = "answered"
    /\ run[r].state = "NOMINAL" => run[r].success
    /\ run[r].last = "thrown" => run[r].attempts = MaxRetries + 1

\* When less memory is left than the tier of a run needs, the scaler falls back to
\* the tier that it would now select, although it only looks at smaller models.
FallbackFindsTheBest ==
  \A r \in Run, free \in 0 .. MaxFree :
    run[r].pc = "executing" /\ run[r].tier # 0 /\ ~Fits(run[r].tier, free) =>
      Fallback(run[r].tier, free) = SelectTier(free)

\* Every selection and every run comes to an end.
EveryRunEnds == \A r \in Run : run[r].pc # "idle" ~> run[r].pc = "idle"
=============================================================================
