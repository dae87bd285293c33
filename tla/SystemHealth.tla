---------------------------- MODULE SystemHealth ----------------------------
(***************************************************************************)
(* The health side of the autonomy system: the SystemState machine, the    *)
(* result window of HealthAggregator, and SelfHealer.evaluate.             *)
(*                                                                         *)
(* Success rates are compared in percent, without division; an empty       *)
(* window counts as a rate of 1, as in the code.                           *)
(***************************************************************************)
EXTENDS Integers, Sequences, FiniteSets

CONSTANTS Providers,
          FailureWindow,   \* config.failureWindowSize
          MinSamples,      \* the literal 5 of evaluateSuccessRate
          DegradedPct,     \* 100 * successRateDegradedThreshold
          CriticalPct,     \* 100 * successRateCriticalThreshold
          MaxHeal,         \* maxHealAttemptsPerTarget
          MinHealthy       \* providerHealthyMinimum

ASSUME HealthAssumption ==
  /\ IsFiniteSet(Providers)
  /\ FailureWindow \in Nat \ {0}
  /\ MinSamples \in Nat
  /\ DegradedPct \in 0..100
  /\ CriticalPct \in 0..100
  /\ MaxHeal \in Nat \ {0}
  /\ MinHealthy \in Nat

StateName == {"NOMINAL", "DEGRADED", "CRITICAL", "RECOVERING", "STOPPED"}
Pressure  == {"NOMINAL", "SOFT_LIMIT", "HARD_LIMIT"}
Target    == Providers \cup {"memory", "success-rate"}
Report    == [healthy : SUBSET Providers, pressure : Pressure, ok : Nat, total : Nat]

VARIABLES sysState,      \* SystemState.current
          window,        \* HealthAggregator.resultWindow
          healAttempts   \* SelfHealer.trackers; 0 stands for no tracker

healthVars == <<sysState, window, healAttempts>>

\* Mutant of ValidTransitions: a system that recovers cannot relapse.
TransitionsWithoutRelapse ==
  [NOMINAL    |-> {"DEGRADED", "CRITICAL", "STOPPED"},
   DEGRADED   |-> {"NOMINAL", "CRITICAL", "STOPPED"},
   CRITICAL   |-> {"RECOVERING", "STOPPED"},
   RECOVERING |-> {"NOMINAL", "DEGRADED", "STOPPED"},
   STOPPED    |-> {"NOMINAL"}]

ValidTransitions ==
  [NOMINAL    |-> {"DEGRADED", "CRITICAL", "STOPPED"},
   DEGRADED   |-> {"NOMINAL", "CRITICAL", "STOPPED"},
   CRITICAL   |-> {"RECOVERING", "STOPPED"},
   RECOVERING |-> {"NOMINAL", "DEGRADED", "CRITICAL", "STOPPED"},
   STOPPED    |-> {"NOMINAL"}]

CanTransition(to) == to \in ValidTransitions[sysState]
IsOperational     == sysState \notin {"STOPPED", "CRITICAL"}

-----------------------------------------------------------------------------
RecordResult(success) ==
  LET grown == Append(window, success)
  IN  window' = IF Len(grown) > FailureWindow THEN Tail(grown) ELSE grown

\* What collectHealth returns when the probes answered "healthy" and the
\* resource monitor "pressure".
ReportOf(healthy, pressure) ==
  [healthy  |-> healthy,
   pressure |-> pressure,
   ok       |-> Cardinality({k \in DOMAIN window : window[k]}),
   total    |-> Len(window)]

RateBelow(r, pct)    == 100 * r.ok < pct * r.total
TooFewProviders(r)   == Cardinality(r.healthy) < MinHealthy
IsCritical(r)        == RateBelow(r, CriticalPct) \/ TooFewProviders(r)
IsDegraded(r)        == \/ r.healthy # Providers
                        \/ r.pressure # "NOMINAL"
                        \/ RateBelow(r, DegradedPct)

-----------------------------------------------------------------------------
Exhausted(t) == healAttempts[t] >= MaxHeal

\* The targets that evaluate() finds in need of healing.
Ailing(r) ==
  (Providers \ r.healthy)
    \cup {t \in {"memory"} : r.pressure = "HARD_LIMIT"}
    \cup {t \in {"success-rate"} : r.total >= MinSamples /\ RateBelow(r, CriticalPct)}

\* evaluateProviders, evaluateResources and evaluateSuccessRate: a healing
\* attempt is counted until the target is exhausted; only an exhausted
\* provider that answers again is forgotten.
TrackedAttempts(r) ==
  [t \in Target |->
     IF t \in Ailing(r) THEN IF Exhausted(t) THEN healAttempts[t] ELSE healAttempts[t] + 1
     ELSE IF t \in r.healthy /\ Exhausted(t) THEN 0
     ELSE healAttempts[t]]

\* Mutant of WantedState: no RECOVERING on the way back to NOMINAL.
WantedWithoutRecovery(r) ==
  IF IsCritical(r) THEN "CRITICAL"
  ELSE IF IsDegraded(r)
       THEN IF sysState \in {"NOMINAL", "RECOVERING"} THEN "DEGRADED" ELSE sysState
       ELSE "NOMINAL"

\* The state updateSystemState asks for.
WantedState(r) ==
  IF IsCritical(r) THEN "CRITICAL"
  ELSE IF IsDegraded(r)
       THEN IF sysState \in {"NOMINAL", "RECOVERING"} THEN "DEGRADED" ELSE sysState
       ELSE IF sysState = "CRITICAL" THEN "RECOVERING" ELSE "NOMINAL"

\* Mutant of Evaluate: a report also moves a system that is stopped.
EvaluateWhenStopped(r) ==
  LET moves == CanTransition(WantedState(r))
  IN  /\ sysState' = IF moves THEN WantedState(r) ELSE sysState
      /\ healAttempts' = IF moves /\ WantedState(r) = "NOMINAL"
                         THEN [t \in Target |-> 0]
                         ELSE TrackedAttempts(r)
      /\ UNCHANGED window

\* SelfHealer.evaluate(report), which runs without an await.
Evaluate(r) ==
  LET moves == sysState # "STOPPED" /\ CanTransition(WantedState(r))
  IN  /\ sysState' = IF moves THEN WantedState(r) ELSE sysState
      /\ healAttempts' = IF moves /\ WantedState(r) = "NOMINAL"
                         THEN [t \in Target |-> 0]
                         ELSE TrackedAttempts(r)
      /\ UNCHANGED window

-----------------------------------------------------------------------------
HealthTypeOK ==
  /\ sysState \in StateName
  /\ window \in Seq(BOOLEAN)
  /\ Len(window) <= FailureWindow
  /\ healAttempts \in [Target -> 0 .. MaxHeal]
=============================================================================
