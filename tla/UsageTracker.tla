---------------------------- MODULE UsageTracker ----------------------------
(***************************************************************************)
(* The usage records of the tenants (usage-tracker.ts), the limits of      *)
(* their tiers (pricing.ts) and the quota check (controller.ts).           *)
(*                                                                         *)
(* A month is a pair of periods, its days but the last one and its last    *)
(* day: the code's month ends at midnight BEFORE the last day, so what is  *)
(* recorded on that day is in no month.  Records are kept as sums.         *)
(***************************************************************************)
EXTENDS Naturals

CONSTANTS Tenants,
          Limit,      \* Limit[t][k] of t's tier; 0: none, as the code reads it
          HardCap,    \* maxConcurrentTasks * 1000 of setResourceLimits; 0: not set
          MaxPeriod   \* bounds the time

Usage == {"task", "compute", "agent_run"}

ASSUME UsageAssumption ==
  /\ MaxPeriod \in Nat \ {0}
  /\ Limit \in [Tenants -> [Usage -> Nat]]
  /\ HardCap \in [Tenants -> Nat]

VARIABLES period,   \* odd: a month without its last day; even: that day
          usage     \* usage[t][k][p]: what was recorded in period p

usageVars == <<period, usage>>

Periods == 1 .. MaxPeriod

UsageInit ==
  /\ period = 1
  /\ usage = [t \in Tenants |-> [k \in Usage |-> [p \in Periods |-> 0]]]

\* The period that a check made in period p counts.
Counted(p) == IF p % 2 = 1 THEN p ELSE p - 1

\* Mutant of AtLimit: off by one.
AboveLimit(t, k, p) == Limit[t][k] # 0 /\ usage[t][k][p] > Limit[t][k]

\* Usage k of t, as counted in period p, has reached the limit.
AtLimit(t, k, p) == Limit[t][k] # 0 /\ usage[t][k][p] >= Limit[t][k]

\* recordUsage() stores the record, and only then may refuse it.
Record(t, k, quantity) == usage' = [usage EXCEPT ![t][k][period] = @ + quantity]
Refused(t)             == HardCap[t] # 0 /\ usage'[t]["task"][Counted(period)] > HardCap[t]

TimePasses ==
  /\ period < MaxPeriod
  /\ period' = period + 1
  /\ UNCHANGED usage
=============================================================================
