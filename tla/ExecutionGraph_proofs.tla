----------------------- MODULE ExecutionGraph_proofs ------------------------
(***************************************************************************)
(* What ExecutionGraph guarantees for any number of overlapping requests,  *)
(* any tenants, providers and limits.                                      *)
(***************************************************************************)
EXTENDS ExecutionGraph, FiniteSetTheorems, TLAPS

-----------------------------------------------------------------------------
(* Types.                                                                  *)

Place == {"idle", "quota_compute", "quota_agent", "preflight", "candidates",
          "decide", "route", "inference", "bill_compute", "bill_agent"}

RunTypeOK ==
  /\ pc \in [Runs -> Place]
  /\ job \in [Runs -> Job]
  /\ month \in [Runs -> Nat]
  /\ over \in [Runs -> BOOLEAN]
  /\ healthy \in [Runs -> SUBSET Providers]
  /\ chosen \in [Runs -> Providers \cup {"none"}]
  /\ answer \in [Runs -> Providers \cup {"none"}]

UsageTypeOK ==
  /\ period \in Periods
  /\ usage \in [Tenants -> [Usage -> [Periods -> Nat]]]

LearnedTypeOK ==
  /\ tried \in SUBSET ((Providers \cup {"DENY"}) \X TaskTypes)
  /\ worked \in SUBSET tried

CacheTypeOK == cache \in [Inputs -> Providers \cup {"none"}]

\* What TypeOK lacks: a run that is routed, or at a provider, has chosen one,
\* and a run that got past the quota has met no limit.
RunsAreServed ==
  \A r \in Runs :
    /\ pc[r] \in {"route", "inference"} => chosen[r] \in Providers
    /\ pc[r] \in Place \ {"idle", "quota_compute", "quota_agent", "preflight"} => ~over[r]

LEMMA PartsOfTypeOK == TypeOK <=> UsageTypeOK /\ RunTypeOK /\ LearnedTypeOK /\ CacheTypeOK
BY DEF TypeOK, UsageTypeOK, RunTypeOK, LearnedTypeOK, CacheTypeOK, Place

LEMMA PartsOfTypeOKPrimed ==
  TypeOK' <=> UsageTypeOK' /\ RunTypeOK' /\ LearnedTypeOK' /\ CacheTypeOK'
BY DEF TypeOK, UsageTypeOK, RunTypeOK, LearnedTypeOK, CacheTypeOK, Place

LEMMA NoJobIsAJob == NoJob \in Job
<1>1. PICK t \in Tenants, y \in TaskTypes, i \in Inputs : TRUE
  BY GraphAssumption
<1>2. [tenant |-> t, type |-> y, input |-> i, agent |-> FALSE, sound |-> FALSE] \in Job
  BY DEF Job
<1>3. \E j \in Job : ~j.agent /\ ~j.sound
  BY <1>2
<1> QED
  BY <1>3 DEF NoJob

LEMMA StartsTyped == Init => TypeOK
BY UsageAssumption, NoJobIsAJob
   DEF Init, UsageInit, TypeOK, Periods, Usage

LEMMA CountedIsNat == \A p \in Periods : Counted(p) \in Nat
BY UsageAssumption DEF Counted, Periods

LEMMA LearnKeepsTypes ==
  ASSUME LearnedTypeOK, NEW who \in Providers \cup {"DENY"}, NEW type \in TaskTypes,
         NEW success \in BOOLEAN, Learn(who, type, success)
  PROVE  LearnedTypeOK'
BY DEF LearnedTypeOK, Learn

LEMMA ForgetKeepsTypes ==
  ASSUME RunTypeOK, NEW r \in Runs, Forget(r)
  PROVE  RunTypeOK'
BY NoJobIsAJob DEF RunTypeOK, Forget, MoveTo, Place

LEMMA BlockKeepsTypes ==
  ASSUME TypeOK, NEW r \in Runs, Block(r)
  PROVE  TypeOK'
<1>1. UsageTypeOK' /\ CacheTypeOK'
  BY PartsOfTypeOK DEF Block, UsageTypeOK, CacheTypeOK, usageVars
<1>2. RunTypeOK'
  BY PartsOfTypeOK, ForgetKeepsTypes DEF Block
<1>3. job[r].type \in TaskTypes
  BY DEF TypeOK, Job
<1>4. LearnedTypeOK'
  BY <1>3, PartsOfTypeOK, LearnKeepsTypes DEF Block
<1> QED
  BY <1>1, <1>2, <1>4, PartsOfTypeOKPrimed

\* A usage record, whatever follows it.
LEMMA RecordUsageKeepsTypes ==
  ASSUME TypeOK, NEW r \in Runs, NEW k \in Usage, NEW q \in Nat,
         NEW fresh \in Providers \cup {"none"}, NEW next \in Place \cup {"done"},
         RecordUsage(r, k, q, fresh, next)
  PROVE  UsageTypeOK' /\ RunTypeOK' /\ CacheTypeOK'
<1>1. job[r].tenant \in Tenants /\ job[r].input \in Inputs
  BY DEF TypeOK, Job
<1>2. UsageTypeOK'
  BY <1>1 DEF RecordUsage, Record, TypeOK, UsageTypeOK
<1>3. CASE Finish(r, fresh)
  <2>1. RunTypeOK'
    BY <1>3, PartsOfTypeOK, ForgetKeepsTypes DEF Finish, Remember
  <2>2. CacheTypeOK'
    BY <1>1, <1>3 DEF TypeOK, CacheTypeOK, Finish, Remember
  <2> QED
    BY <1>2, <2>1, <2>2
<1>4. CASE /\ next # "done" /\ MoveTo(r, next)
           /\ answer' = [answer EXCEPT ![r] = fresh]
           /\ UNCHANGED <<job, month, over, healthy, chosen, cache>>
  BY <1>2, <1>4 DEF MoveTo, TypeOK, RunTypeOK, CacheTypeOK, Place
<1> QED
  BY <1>3, <1>4 DEF RecordUsage

LEMMA RunStepKeepsTypes ==
  ASSUME TypeOK, NEW r \in Runs, NEW j \in Job, Run(r, j)
  PROVE  TypeOK'
<1>1. AtLimit(j.tenant, "task", Counted(period)) \in BOOLEAN
  BY DEF AtLimit
<1>2. Counted(period) \in Nat
  BY CountedIsNat DEF TypeOK
<1> QED
  BY <1>1, <1>2 DEF Run, MoveTo, TypeOK, usageVars, learned

LEMMA QuotaCheckKeepsTypes ==
  ASSUME TypeOK, NEW r \in Runs, CountCompute(r) \/ CountAgents(r)
  PROVE  TypeOK'
<1>1. \A k \in Usage : (over[r] \/ AtLimit(job[r].tenant, k, month[r])) \in BOOLEAN
  BY DEF TypeOK, AtLimit
<1>2. CASE CountCompute(r)
  BY <1>1, <1>2 DEF CountCompute, CountUsage, MoveTo, TypeOK, usageVars, learned, Usage
<1>3. CASE CountAgents(r)
  BY <1>1, <1>3 DEF CountAgents, CountUsage, MoveTo, TypeOK, usageVars, learned, Usage
<1> QED
  BY <1>2, <1>3

LEMMA PreflightKeepsTypes ==
  ASSUME TypeOK, NEW r \in Runs, Preflight(r)
  PROVE  TypeOK'
<1>1. CASE Block(r)
  BY <1>1, BlockKeepsTypes
<1>2. CASE /\ cache[job[r].input] # "none"
           /\ Learn(cache[job[r].input], job[r].type, TRUE)
           /\ RecordUsage(r, "task", 1, "none", "bill_compute")
  <2>1. job[r].type \in TaskTypes /\ cache[job[r].input] \in Providers
    BY <1>2 DEF TypeOK, Job
  <2>2. LearnedTypeOK'
    BY <1>2, <2>1, PartsOfTypeOK, LearnKeepsTypes
  <2>3. UsageTypeOK' /\ RunTypeOK' /\ CacheTypeOK'
    BY <1>2, RecordUsageKeepsTypes DEF Usage, Place
  <2> QED
    BY <2>2, <2>3, PartsOfTypeOKPrimed
<1>3. CASE /\ MoveTo(r, "candidates")
           /\ UNCHANGED <<usageVars, job, month, over, healthy, chosen, answer, learned, cache>>
  BY <1>3 DEF MoveTo, TypeOK, usageVars, learned
<1> QED
  BY <1>1, <1>2, <1>3 DEF Preflight, ServeCached

LEMMA DecisionKeepsTypes ==
  ASSUME TypeOK, NEW r \in Runs,
         Decide(r) \/ \E up \in SUBSET Providers : BuildCandidates(r, up)
  PROVE  TypeOK'
<1>1. CASE Block(r)
  BY <1>1, BlockKeepsTypes
<1>2. CASE \E p \in Providers :
             /\ chosen' = [chosen EXCEPT ![r] = p]
             /\ MoveTo(r, "route")
             /\ UNCHANGED <<usageVars, job, month, over, healthy, answer, learned, cache>>
  BY <1>2 DEF MoveTo, TypeOK, usageVars, learned
<1>3. CASE \E up \in SUBSET Providers : BuildCandidates(r, up)
  BY <1>3 DEF BuildCandidates, MoveTo, TypeOK, usageVars, learned
<1>4. healthy[r] \in SUBSET Providers
  BY DEF TypeOK
<1> QED
  BY <1>1, <1>2, <1>3, <1>4 DEF Decide

LEMMA ExecutionKeepsTypes ==
  ASSUME TypeOK, RunsAreServed, NEW r \in Runs,
         \/ \E able \in SUBSET Providers : Route(r, able)
         \/ \E ok \in BOOLEAN : Infer(r, ok)
  PROVE  TypeOK'
<1>1. job[r].type \in TaskTypes /\ chosen[r] \in Providers \cup {"none"}
  BY DEF TypeOK, Job
<1>2. CASE Learn("DENY", job[r].type, FALSE) /\ RecordUsage(r, "task", 1, "none", "bill_compute")
  <2>1. LearnedTypeOK'
    BY <1>1, <1>2, PartsOfTypeOK, LearnKeepsTypes
  <2>2. UsageTypeOK' /\ RunTypeOK' /\ CacheTypeOK'
    BY <1>2, RecordUsageKeepsTypes DEF Usage, Place
  <2> QED
    BY <2>1, <2>2, PartsOfTypeOKPrimed
<1>3. CASE \E p \in Providers :
             /\ chosen' = [chosen EXCEPT ![r] = p]
             /\ MoveTo(r, "inference")
             /\ UNCHANGED <<usageVars, job, month, over, healthy, answer, learned, cache>>
  BY <1>3 DEF MoveTo, TypeOK, usageVars, learned
<1>4. CASE Infer(r, TRUE)
  <2>1. chosen[r] \in Providers
    BY <1>4 DEF Infer, RunsAreServed
  <2>2. LearnedTypeOK'
    BY <1>1, <1>4, <2>1, PartsOfTypeOK, LearnKeepsTypes DEF Infer
  <2>3. UsageTypeOK' /\ RunTypeOK' /\ CacheTypeOK'
    BY <1>1, <1>4, RecordUsageKeepsTypes DEF Infer, Usage, Place
  <2> QED
    BY <2>2, <2>3, PartsOfTypeOKPrimed
<1> QED
  BY <1>2, <1>3, <1>4 DEF Route, Infer

LEMMA RecordingKeepsTypes ==
  ASSUME TypeOK, NEW r \in Runs,
         RecordAgentRun(r) \/ \E minutes \in 1 .. MaxMinutes : RecordCompute(r, minutes)
  PROVE  TypeOK'
<1>1. answer[r] \in Providers \cup {"none"}
  BY DEF TypeOK
<1>2. UsageTypeOK' /\ RunTypeOK' /\ CacheTypeOK'
  <2>1. CASE RecordAgentRun(r)
    BY <1>1, <2>1, RecordUsageKeepsTypes DEF RecordAgentRun, Usage, Place
  <2>2. CASE \E minutes \in 1 .. MaxMinutes : RecordCompute(r, minutes)
    <3>1. PICK minutes \in 1 .. MaxMinutes : RecordCompute(r, minutes)
      BY <2>2
    <3>2. minutes \in Nat /\ (IF job[r].agent THEN "bill_agent" ELSE "done") \in Place \cup {"done"}
      BY GraphAssumption DEF Place
    <3> QED
      BY <1>1, <3>1, <3>2, RecordUsageKeepsTypes DEF RecordCompute, Usage
  <2> QED
    BY <2>1, <2>2
<1>3. LearnedTypeOK'
  BY PartsOfTypeOK DEF RecordAgentRun, RecordCompute, learned, LearnedTypeOK
<1> QED
  BY <1>2, <1>3, PartsOfTypeOKPrimed

LEMMA CallerStepKeepsTypes ==
  ASSUME TypeOK,
         \/ \E type \in TaskTypes : RunNobody(type)
         \/ \E i \in Inputs : Expire(i)
         \/ TimePasses /\ UNCHANGED <<runVars, learned, cache>>
         \/ UNCHANGED graphVars
  PROVE  TypeOK'
<1>1. CASE \E type \in TaskTypes : RunNobody(type)
  <2>1. LearnedTypeOK'
    BY <1>1, PartsOfTypeOK, LearnKeepsTypes DEF RunNobody
  <2>2. UsageTypeOK' /\ RunTypeOK' /\ CacheTypeOK'
    BY <1>1, PartsOfTypeOK DEF RunNobody, usageVars, runVars, UsageTypeOK, RunTypeOK, CacheTypeOK
  <2> QED
    BY <2>1, <2>2, PartsOfTypeOKPrimed
<1>2. CASE \E i \in Inputs : Expire(i)
  BY <1>2 DEF Expire, TypeOK, usageVars, runVars, learned
<1>3. CASE TimePasses /\ UNCHANGED <<runVars, learned, cache>>
  BY <1>3, UsageAssumption DEF TimePasses, TypeOK, runVars, learned, Periods
<1>4. CASE UNCHANGED graphVars
  BY <1>4 DEF graphVars, usageVars, runVars, learned, TypeOK
<1> QED
  BY <1>1, <1>2, <1>3, <1>4

LEMMA NextKeepsTypes ==
  ASSUME TypeOK, RunsAreServed, [Next]_graphVars
  PROVE  TypeOK'
<1>1. CASE \E r \in Runs, j \in Job : Run(r, j)
  BY <1>1, RunStepKeepsTypes
<1>2. CASE \E r \in Runs : Step(r)
  BY <1>2, QuotaCheckKeepsTypes, PreflightKeepsTypes, DecisionKeepsTypes, ExecutionKeepsTypes,
     RecordingKeepsTypes DEF Step
<1> QED
  BY <1>1, <1>2, CallerStepKeepsTypes DEF Next

\* Every other step of a run moves it to a place where RunsAreServed holds of it.
LEMMA NextKeepsRunsServed ==
  ASSUME TypeOK, RunsAreServed, [Next]_graphVars
  PROVE  RunsAreServed'
<1>1. CASE \E r \in Runs, j \in Job : Run(r, j)
  BY <1>1 DEF Run, MoveTo, RunsAreServed, TypeOK
<1>2. ASSUME NEW r \in Runs, Step(r)
      PROVE  RunsAreServed'
  <2>1. CASE CountCompute(r) \/ CountAgents(r)
    BY <2>1 DEF CountCompute, CountAgents, CountUsage, MoveTo, RunsAreServed, TypeOK
  <2>2. CASE Forget(r)
    BY <2>2 DEF Forget, MoveTo, RunsAreServed, TypeOK
  <2>3. CASE /\ ~over[r]
             /\ pc' \in {[pc EXCEPT ![r] = p] : p \in {"candidates", "decide", "bill_compute", "bill_agent"}}
             /\ UNCHANGED <<over, chosen>>
    BY <2>3 DEF RunsAreServed, TypeOK
  <2>4. CASE /\ ~over[r]
             /\ \E p \in Providers : chosen' = [chosen EXCEPT ![r] = p]
             /\ MoveTo(r, "route") \/ MoveTo(r, "inference")
             /\ UNCHANGED over
    BY <2>4 DEF MoveTo, RunsAreServed, TypeOK
  <2>5. CASE Preflight(r)
    BY <2>2, <2>3, <2>5 DEF Preflight, ServeCached, Block, RecordUsage, Finish, Remember, MoveTo
  <2>6. CASE ~Preflight(r) /\ ~CountCompute(r) /\ ~CountAgents(r)
    <3>1. ~over[r]
      BY <1>2, <2>6 DEF Step, BuildCandidates, Decide, Route, Infer, RecordCompute, RecordAgentRun,
         RunsAreServed, Place
    <3>2. healthy[r] \in SUBSET Providers
      BY DEF TypeOK
    <3> QED
      BY <1>2, <2>2, <2>3, <2>4, <2>6, <3>1, <3>2
         DEF Step, BuildCandidates, Decide, Route, Infer, RecordCompute, RecordAgentRun, Block,
             RecordUsage, Finish, Remember, MoveTo
  <2> QED
    BY <2>1, <2>5, <2>6
<1>3. CASE UNCHANGED runVars
  BY <1>3 DEF runVars, RunsAreServed
<1> QED
  BY <1>1, <1>2, <1>3 DEF Next, RunNobody, Expire, graphVars

\* The types of all that requests share and keep, for any number of them.
THEOREM GraphTypeCorrect == Spec => []TypeOK
<1>1. Init => TypeOK /\ RunsAreServed
  BY StartsTyped DEF Init, RunsAreServed
<1>2. TypeOK /\ RunsAreServed /\ [Next]_graphVars => TypeOK' /\ RunsAreServed'
  BY NextKeepsTypes, NextKeepsRunsServed
<1> QED
  BY <1>1, <1>2, PTL DEF Spec

-----------------------------------------------------------------------------
(* The quota.                                                              *)

\* Where a run has not counted usage k yet, and where it has recorded it.
Uncounted(k) == IF k = "task" THEN {}
                ELSE IF k = "compute" THEN {"quota_compute"}
                ELSE {"quota_compute", "quota_agent"}

Recorded(k) == IF k = "task" THEN {"bill_compute", "bill_agent"}
               ELSE IF k = "compute" THEN {"bill_agent"}
               ELSE {}

\* The runs of t that may record k in this period on the strength of a count
\* they have made, or of the count of another month.
MayRecord(t, k) ==
  {r \in Runs : /\ pc[r] \notin {"idle"} \cup Recorded(k)
                /\ job[r].tenant = t
                /\ ~over[r]
                /\ pc[r] \in Uncounted(k) => month[r] # period}

\* Every run that may record is paid for in advance.
Bounded(t, k) ==
  Limit[t][k] # 0 =>
    usage[t][k][period] + Cardinality(MayRecord(t, k)) * Share(k)
      <= Limit[t][k] - 1 + Cardinality(Runs) * Share(k)

NothingAhead ==
  \A t \in Tenants, k \in Usage, p \in Periods : p > period => usage[t][k][p] = 0

PastIsBounded ==
  \A t \in Tenants, k \in Usage, p \in Periods :
    (p < period /\ p = Counted(p) /\ Limit[t][k] # 0) =>
      usage[t][k][p] < Limit[t][k] + Cardinality(Runs) * Share(k)

NowIsBounded ==
  period = Counted(period) => \A t \in Tenants, k \in Usage : Bounded(t, k)

\* What OvershootIsBounded lacks: nothing is recorded ahead of time, and in the
\* month that is counted now every run that may record has its share left.
QuotaInv == NothingAhead /\ PastIsBounded /\ NowIsBounded

LEMMA ShareIsPositive == \A k \in Usage : Share(k) \in Nat \ {0}
BY GraphAssumption DEF Share

LEMMA CountOfRuns ==
  \A S \in SUBSET Runs :
    /\ Cardinality(S) \in Nat
    /\ \A T \in SUBSET S : Cardinality(T) <= Cardinality(S)
    /\ \A r \in S : \A T \in SUBSET (S \ {r}) : Cardinality(T) <= Cardinality(S) - 1
<1> SUFFICES ASSUME NEW S \in SUBSET Runs
             PROVE  /\ Cardinality(S) \in Nat
                    /\ \A T \in SUBSET S : Cardinality(T) <= Cardinality(S)
                    /\ \A r \in S : \A T \in SUBSET (S \ {r}) : Cardinality(T) <= Cardinality(S) - 1
  OBVIOUS
<1>1. IsFiniteSet(S)
  BY GraphAssumption, FS_Subset
<1>2. \A r \in S : Cardinality(S \ {r}) = Cardinality(S) - 1 /\ IsFiniteSet(S \ {r})
  BY <1>1, FS_RemoveElement
<1> QED
  BY <1>1, <1>2, FS_Subset, FS_CardinalityType

LEMMA TimesIsMonotonic == \A a, b, s \in Nat : a <= b => a * s <= b * s
<1> SUFFICES ASSUME NEW a \in Nat, NEW b \in Nat, NEW s \in Nat, a <= b
             PROVE  a * s <= b * s
  OBVIOUS
<1>1. PICK d \in Nat : b = a + d
  <2>1. b - a \in Nat /\ b = a + (b - a)
    OBVIOUS
  <2> QED
    BY <2>1
<1>2. (a + d) * s = a * s + d * s /\ d * s \in Nat /\ a * s \in Nat
  OBVIOUS
<1> QED
  BY <1>1, <1>2

\* The month of a period is the period itself every other time.
LEMMA MonthsAlternate == \A p \in Nat : p = Counted(p) => p + 1 # Counted(p + 1)
BY DEF Counted

LEMMA UsageIsNat ==
  ASSUME TypeOK, NEW t \in Tenants, NEW k \in Usage, NEW p \in Periods
  PROVE  usage[t][k][p] \in Nat /\ Limit[t][k] \in Nat
BY UsageAssumption DEF TypeOK

\* Below the limit all runs may be admitted.
LEMMA RoomForAll ==
  ASSUME NEW l \in Nat \ {0}, NEW u \in Nat, u < l, NEW k \in Usage, NEW S \in SUBSET Runs
  PROVE  u + Cardinality(S) * Share(k) <= l - 1 + Cardinality(Runs) * Share(k)
<1>1. Cardinality(S) * Share(k) <= Cardinality(Runs) * Share(k)
  BY CountOfRuns, ShareIsPositive, TimesIsMonotonic
<1>2. Cardinality(S) * Share(k) \in Nat /\ Cardinality(Runs) * Share(k) \in Nat
  BY CountOfRuns, ShareIsPositive
<1> QED
  BY <1>1, <1>2

\* A step that records nothing admits runs below the limit only.
LEMMA QuietStepKeepsBounds ==
  ASSUME TypeOK, UNCHANGED usageVars, NEW t \in Tenants, NEW k \in Usage, Bounded(t, k),
         Limit[t][k] # 0 => \/ MayRecord(t, k)' \subseteq MayRecord(t, k)
                            \/ usage[t][k][period] < Limit[t][k]
  PROVE  Bounded(t, k)'
<1> SUFFICES ASSUME Limit[t][k] # 0
             PROVE  usage[t][k][period] + Cardinality(MayRecord(t, k)') * Share(k)
                      <= Limit[t][k] - 1 + Cardinality(Runs) * Share(k)
  BY DEF Bounded, usageVars
<1>1. /\ MayRecord(t, k) \in SUBSET Runs /\ MayRecord(t, k)' \in SUBSET Runs
      /\ usage[t][k][period] \in Nat /\ Limit[t][k] \in Nat
  BY UsageIsNat DEF MayRecord, TypeOK
<1>2. CASE usage[t][k][period] < Limit[t][k]
  BY <1>1, <1>2, RoomForAll
<1>3. CASE MayRecord(t, k)' \subseteq MayRecord(t, k)
  <2>1. Cardinality(MayRecord(t, k)') * Share(k) <= Cardinality(MayRecord(t, k)) * Share(k)
    BY <1>1, <1>3, CountOfRuns, ShareIsPositive, TimesIsMonotonic
  <2>2. /\ Cardinality(MayRecord(t, k)') * Share(k) \in Nat
        /\ Cardinality(MayRecord(t, k)) * Share(k) \in Nat
        /\ Cardinality(Runs) * Share(k) \in Nat
    BY <1>1, CountOfRuns, ShareIsPositive
  <2> QED
    BY <1>1, <2>1, <2>2 DEF Bounded
<1> QED
  BY <1>2, <1>3

\* A run that records gives up its place among those that may.
LEMMA PaidStepKeepsBounds ==
  ASSUME TypeOK, NEW t \in Tenants, NEW k \in Usage, Bounded(t, k),
         NEW q \in Nat, q <= Share(k), period' = period,
         usage'[t][k][period] = usage[t][k][period] + q,
         NEW r \in MayRecord(t, k), MayRecord(t, k)' \subseteq MayRecord(t, k) \ {r}
  PROVE  Bounded(t, k)'
<1> SUFFICES ASSUME Limit[t][k] # 0
             PROVE  usage[t][k][period] + q + Cardinality(MayRecord(t, k)') * Share(k)
                      <= Limit[t][k] - 1 + Cardinality(Runs) * Share(k)
  BY DEF Bounded
<1> DEFINE c == Cardinality(MayRecord(t, k))
<1>1. /\ MayRecord(t, k) \in SUBSET Runs /\ MayRecord(t, k)' \in SUBSET (MayRecord(t, k) \ {r})
      /\ usage[t][k][period] \in Nat /\ Limit[t][k] \in Nat
  BY UsageIsNat DEF MayRecord, TypeOK
<1>2. c \in Nat /\ Cardinality(MayRecord(t, k)') \in Nat /\ Cardinality(MayRecord(t, k)') <= c - 1
  BY <1>1, CountOfRuns
<1>3. c - 1 \in Nat
  BY <1>2
<1>4. Cardinality(MayRecord(t, k)') * Share(k) <= (c - 1) * Share(k)
  BY <1>2, <1>3, ShareIsPositive, TimesIsMonotonic
<1>5. /\ (c - 1) * Share(k) + Share(k) = c * Share(k)
      /\ c * Share(k) \in Nat /\ (c - 1) * Share(k) \in Nat
      /\ Cardinality(MayRecord(t, k)') * Share(k) \in Nat
      /\ Cardinality(Runs) * Share(k) \in Nat
  BY <1>2, <1>3, CountOfRuns, ShareIsPositive
<1>6. usage[t][k][period] + c * Share(k) <= Limit[t][k] - 1 + Cardinality(Runs) * Share(k)
  BY DEF Bounded
<1> QED
  BY <1>1, <1>4, <1>5, <1>6, ShareIsPositive

LEMMA StartsBounded == Init => QuotaInv
<1> SUFFICES ASSUME Init PROVE QuotaInv
  OBVIOUS
<1>1. TypeOK
  BY StartsTyped
<1>2. NothingAhead /\ PastIsBounded
  BY UsageAssumption DEF Init, UsageInit, NothingAhead, PastIsBounded, Periods
<1>3. ASSUME NEW t \in Tenants, NEW k \in Usage, Limit[t][k] # 0
      PROVE  Bounded(t, k)
  <2>1. usage[t][k][period] = 0 /\ Limit[t][k] \in Nat \ {0} /\ MayRecord(t, k) \in SUBSET Runs
    BY <1>1, <1>3, UsageIsNat DEF Init, UsageInit, MayRecord, TypeOK
  <2> QED
    BY <2>1, RoomForAll DEF Bounded
<1> QED
  BY <1>2, <1>3 DEF QuotaInv, NowIsBounded, Bounded

LEMMA QuietStepKeepsQuota ==
  ASSUME TypeOK, QuotaInv, UNCHANGED usageVars,
         \A t \in Tenants, k \in Usage :
           period = Counted(period) /\ Limit[t][k] # 0 =>
             \/ MayRecord(t, k)' \subseteq MayRecord(t, k)
             \/ usage[t][k][period] < Limit[t][k]
  PROVE  QuotaInv'
<1>1. NothingAhead' /\ PastIsBounded'
  BY DEF QuotaInv, NothingAhead, PastIsBounded, usageVars
<1>2. ASSUME period = Counted(period), NEW t \in Tenants, NEW k \in Usage
      PROVE  Bounded(t, k)'
  BY <1>2, QuietStepKeepsBounds DEF QuotaInv, NowIsBounded
<1>3. NowIsBounded'
  BY <1>2 DEF NowIsBounded, usageVars
<1> QED
  BY <1>1, <1>3 DEF QuotaInv

LEMMA PlacesOfUsage ==
  \A k \in Usage :
    /\ Uncounted(k) = IF k = "task" THEN {} ELSE IF k = "compute" THEN {"quota_compute"}
                      ELSE {"quota_compute", "quota_agent"}
    /\ k \in {"task", "compute", "agent_run"}
BY DEF Uncounted, Usage

\* A request that starts has counted the tasks of the month that is counted
\* now, and has the other counts before it.
LEMMA RunStepKeepsQuota ==
  ASSUME TypeOK, QuotaInv, NEW r \in Runs, NEW j \in Job, Run(r, j)
  PROVE  QuotaInv'
<1>1. UNCHANGED usageVars
  BY DEF Run
<1>2. ASSUME NEW t \in Tenants, NEW k \in Usage, period = Counted(period), Limit[t][k] # 0,
             ~(usage[t][k][period] < Limit[t][k])
      PROVE  MayRecord(t, k)' \subseteq MayRecord(t, k)
  <2>1. r \notin MayRecord(t, k)'
    <3>1. /\ pc'[r] = "quota_compute" /\ job'[r] = j /\ month'[r] = period' /\ period' = period
          /\ over'[r] = AtLimit(j.tenant, "task", period)
      BY <1>2 DEF Run, MoveTo, TypeOK, usageVars
    <3>2. CASE k = "task"
      <4>1. t = j.tenant => over'[r]
        <5>1. AtLimit(t, "task", period)
          BY <1>2, <3>2, UsageIsNat DEF AtLimit, TypeOK
        <5> QED
          BY <3>1, <5>1, Zenon
      <4> QED
        BY <3>1, <4>1 DEF MayRecord
    <3>3. CASE k # "task"
      BY <3>1, <3>3, PlacesOfUsage DEF MayRecord
    <3> QED
      BY <3>2, <3>3
  <2>2. \A s \in Runs \ {r} : /\ pc'[s] = pc[s] /\ job'[s] = job[s]
                              /\ month'[s] = month[s] /\ over'[s] = over[s]
    BY DEF Run, MoveTo, TypeOK
  <2> QED
    BY <1>1, <2>1, <2>2 DEF MayRecord, usageVars
<1> QED
  BY <1>1, <1>2, QuietStepKeepsQuota

\* A count of this month admits the run below the limit only; a count of
\* another month changes nothing for this one.
LEMMA QuotaCheckKeepsQuota ==
  ASSUME TypeOK, QuotaInv, NEW r \in Runs, CountCompute(r) \/ CountAgents(r)
  PROVE  QuotaInv'
<1>1. PICK kind \in Usage, next \in Place :
        /\ \/ kind = "compute" /\ pc[r] = "quota_compute" /\ next = "quota_agent"
           \/ kind = "agent_run" /\ pc[r] = "quota_agent" /\ next = "preflight"
        /\ over' = [over EXCEPT ![r] = @ \/ AtLimit(job[r].tenant, kind, month[r])]
        /\ MoveTo(r, next)
        /\ UNCHANGED <<usageVars, job, month>>
  <2>1. CASE CountCompute(r)
    BY <2>1 DEF CountCompute, CountUsage, Usage, Place
  <2>2. CASE CountAgents(r)
    BY <2>2 DEF CountAgents, CountUsage, Usage, Place
  <2> QED
    BY <2>1, <2>2
<1>2. ASSUME NEW t \in Tenants, NEW k \in Usage, period = Counted(period), Limit[t][k] # 0,
             ~(usage[t][k][period] < Limit[t][k])
      PROVE  MayRecord(t, k)' \subseteq MayRecord(t, k)
  <2>1. \A s \in Runs \ {r} : /\ pc'[s] = pc[s] /\ job'[s] = job[s]
                              /\ month'[s] = month[s] /\ over'[s] = over[s]
    BY <1>1 DEF MoveTo, TypeOK
  <2>2. r \in MayRecord(t, k)' => r \in MayRecord(t, k)
    <3> SUFFICES ASSUME r \in MayRecord(t, k)'
                 PROVE  r \in MayRecord(t, k)
      OBVIOUS
    <3>1. /\ job[r].tenant = t /\ pc'[r] = next
          /\ ~over[r] /\ ~AtLimit(t, kind, month[r])
          /\ period' = period /\ month'[r] = month[r]
          /\ next \in Uncounted(k) => month[r] # period
      BY <1>1 DEF MayRecord, MoveTo, TypeOK, usageVars
    <3>2. k = kind => month[r] # period
      BY <1>2, <3>1, UsageIsNat DEF AtLimit, TypeOK
    <3>3. pc[r] \in Uncounted(k) => month[r] # period
      BY <1>1, <3>1, <3>2, PlacesOfUsage
    <3>4. pc[r] \notin {"idle"} \cup Recorded(k)
      BY <1>1 DEF Recorded
    <3> QED
      BY <3>1, <3>3, <3>4 DEF MayRecord
  <2> QED
    BY <1>1, <2>1, <2>2 DEF MayRecord, usageVars
<1> QED
  BY <1>1, <1>2, QuietStepKeepsQuota

\* A run that ends, or goes on without a record, leaves no more runs that may.
LEMMA WayKeepsQuota ==
  ASSUME TypeOK, QuotaInv, NEW r \in Runs, UNCHANGED usageVars,
         \/ Forget(r)
         \/ /\ pc[r] \in {"preflight", "candidates", "decide", "route"}
            /\ \E next \in {"candidates", "decide", "route", "inference"} : MoveTo(r, next)
            /\ UNCHANGED <<job, month, over>>
  PROVE  QuotaInv'
<1>1. ASSUME NEW t \in Tenants, NEW k \in Usage
      PROVE  MayRecord(t, k)' \subseteq MayRecord(t, k)
  <2>1. \A s \in Runs \ {r} : /\ pc'[s] = pc[s] /\ job'[s] = job[s]
                              /\ month'[s] = month[s] /\ over'[s] = over[s]
    BY DEF Forget, MoveTo, TypeOK
  <2>2. r \in MayRecord(t, k)' => r \in MayRecord(t, k)
    <3>1. CASE Forget(r)
      BY <3>1 DEF Forget, MoveTo, TypeOK, MayRecord
    <3>2. CASE /\ pc[r] \in {"preflight", "candidates", "decide", "route"}
               /\ UNCHANGED <<job, month, over>>
      BY <3>2 DEF MayRecord, Recorded, Uncounted
    <3> QED
      BY <3>1, <3>2
  <2> QED
    BY <2>1, <2>2 DEF MayRecord, usageVars
<1> QED
  BY <1>1, QuietStepKeepsQuota

\* A usage record is made by a run that may make it, and has not yet.
LEMMA RecordKeepsQuota ==
  ASSUME TypeOK, QuotaInv, NEW r \in Runs, NEW k \in Usage, NEW q \in Nat, q <= Share(k),
         NEW fresh, NEW next \in Recorded(k) \cup {"done"},
         RecordUsage(r, k, q, fresh, next), ~over[r],
         pc[r] \notin {"idle", "quota_compute", "quota_agent"} \cup Recorded(k),
         next # "done" => \A kind \in Usage : pc[r] \in Recorded(kind) => next \in Recorded(kind)
  PROVE  QuotaInv'
<1>1. /\ job[r].tenant \in Tenants /\ period \in Periods /\ period' = period
      /\ usage \in [Tenants -> [Usage -> [Periods -> Nat]]]
      /\ usage' = [usage EXCEPT ![job[r].tenant][k][period] = @ + q]
  BY DEF TypeOK, Job, RecordUsage, Record
<1>2. NothingAhead' /\ PastIsBounded'
  <2>1. \A t \in Tenants, u \in Usage, p \in Periods \ {period} : usage'[t][u][p] = usage[t][u][p]
    BY <1>1
  <2>2. \A p \in Periods : p > period \/ p < period => p # period
    BY <1>1 DEF Periods
  <2> QED
    BY <1>1, <2>1, <2>2 DEF QuotaInv, NothingAhead, PastIsBounded
<1>3. \A s \in Runs \ {r} : /\ pc'[s] = pc[s] /\ job'[s] = job[s]
                            /\ month'[s] = month[s] /\ over'[s] = over[s]
  BY DEF RecordUsage, Finish, Remember, Forget, MoveTo, TypeOK
<1>4. \/ pc'[r] = "idle"
      \/ next # "done" /\ pc'[r] = next /\ UNCHANGED <<job, month, over>>
  BY DEF RecordUsage, Finish, Remember, Forget, MoveTo, TypeOK
<1>5. \A u \in Usage : pc[r] \notin {"idle"} \cup Uncounted(u)
  BY DEF Uncounted
<1>6. ASSUME NEW t \in Tenants, NEW u \in Usage
      PROVE  /\ MayRecord(t, u)' \subseteq MayRecord(t, u)
             /\ u = k => r \notin MayRecord(t, u)'
  <2>1. r \in MayRecord(t, u)' =>
          /\ next # "done" /\ next \notin Recorded(u) /\ job[r].tenant = t
    BY <1>4 DEF MayRecord
  <2>2. r \in MayRecord(t, u)' => pc[r] \notin Recorded(u)
    BY <2>1
  <2>3. r \in MayRecord(t, u)' => r \in MayRecord(t, u)
    BY <1>5, <2>1, <2>2 DEF MayRecord
  <2> QED
    BY <1>1, <1>3, <2>1, <2>3 DEF MayRecord
<1>7. ASSUME period = Counted(period), NEW t \in Tenants, NEW u \in Usage
      PROVE  Bounded(t, u)'
  <2>1. Bounded(t, u)
    BY <1>7 DEF QuotaInv, NowIsBounded
  <2>2. CASE t = job[r].tenant /\ u = k
    <3>1. r \in MayRecord(t, u)
      BY <1>5, <2>2 DEF MayRecord
    <3>2. usage'[t][u][period] = usage[t][u][period] + q
      BY <1>1, <2>2
    <3> QED
      BY <1>1, <1>6, <2>1, <2>2, <3>1, <3>2, PaidStepKeepsBounds
  <2>3. CASE ~(t = job[r].tenant /\ u = k)
    <3>1. usage'[t][u][period] = usage[t][u][period]
      BY <1>1, <2>3
    <3>2. Cardinality(MayRecord(t, u)') * Share(u) <= Cardinality(MayRecord(t, u)) * Share(u)
      <4>1. MayRecord(t, u) \in SUBSET Runs
        BY DEF MayRecord
      <4> QED
        BY <1>6, <4>1, CountOfRuns, ShareIsPositive, TimesIsMonotonic
    <3>3. /\ MayRecord(t, u) \in SUBSET Runs /\ MayRecord(t, u)' \in SUBSET Runs
          /\ usage[t][u][period] \in Nat /\ Limit[t][u] \in Nat
      BY <1>1, UsageIsNat DEF MayRecord
    <3>4. /\ Cardinality(MayRecord(t, u)') * Share(u) \in Nat
          /\ Cardinality(MayRecord(t, u)) * Share(u) \in Nat
          /\ Cardinality(Runs) * Share(u) \in Nat
      BY <3>3, CountOfRuns, ShareIsPositive
    <3> QED
      BY <1>1, <2>1, <3>1, <3>2, <3>3, <3>4 DEF Bounded
  <2> QED
    BY <2>2, <2>3
<1> QED
  BY <1>1, <1>2, <1>7 DEF QuotaInv, NowIsBounded

LEMMA StepKeepsQuota ==
  ASSUME TypeOK, RunsAreServed, QuotaInv, NEW r \in Runs, Step(r)
  PROVE  QuotaInv'
<1>1. \A k \in Usage : 1 <= Share(k) /\ 1 \in Nat
  BY ShareIsPositive
<1>2. \A fresh : RecordUsage(r, "task", 1, fresh, "bill_compute") /\ ~over[r]
                /\ pc[r] \in {"preflight", "route", "inference"} => QuotaInv'
  BY <1>1, RecordKeepsQuota DEF Recorded, Usage
<1>3. Block(r) => QuotaInv'
  BY WayKeepsQuota DEF Block
<1>4. CASE CountCompute(r) \/ CountAgents(r)
  BY <1>4, QuotaCheckKeepsQuota
<1>5. CASE Preflight(r)
  BY <1>2, <1>3, <1>5, WayKeepsQuota DEF Preflight, ServeCached
<1>6. CASE Decide(r) \/ \E up \in SUBSET Providers : BuildCandidates(r, up)
  BY <1>3, <1>6, WayKeepsQuota DEF Decide, BuildCandidates
<1>7. CASE \/ \E able \in SUBSET Providers : Route(r, able)
           \/ \E ok \in BOOLEAN : Infer(r, ok)
  <2>1. ~over[r] /\ pc[r] \in {"route", "inference"}
    BY <1>7 DEF Route, Infer, RunsAreServed, Place
  <2> QED
    BY <1>2, <1>7, <2>1, WayKeepsQuota DEF Route, Infer
<1>8. CASE \E minutes \in 1 .. MaxMinutes : RecordCompute(r, minutes)
  <2>1. PICK minutes \in 1 .. MaxMinutes : RecordCompute(r, minutes)
    BY <1>8
  <2>2. minutes \in Nat /\ minutes <= Share("compute") /\ "compute" \in Usage
    BY GraphAssumption DEF Share, Usage
  <2>3. ~over[r] /\ pc[r] = "bill_compute"
    BY <2>1 DEF RecordCompute, RunsAreServed, Place
  <2>4. (IF job[r].agent THEN "bill_agent" ELSE "done") \in Recorded("compute") \cup {"done"}
    BY DEF Recorded
  <2>5. RecordUsage(r, "compute", minutes, answer[r], IF job[r].agent THEN "bill_agent" ELSE "done")
    BY <2>1 DEF RecordCompute
  <2>6. \A kind \in Usage : pc[r] \in Recorded(kind) => "bill_agent" \in Recorded(kind)
    BY <2>3 DEF Recorded, Usage
  <2>7. pc[r] \notin {"idle", "quota_compute", "quota_agent"} \cup Recorded("compute")
    BY <2>3 DEF Recorded
  <2> QED
    BY <2>2, <2>3, <2>4, <2>5, <2>6, <2>7, RecordKeepsQuota
<1>9. CASE RecordAgentRun(r)
  BY <1>1, <1>9, RecordKeepsQuota DEF RecordAgentRun, Recorded, Usage, RunsAreServed, Place
<1> QED
  BY <1>4, <1>5, <1>6, <1>7, <1>8, <1>9 DEF Step

LEMMA TimeKeepsQuota ==
  ASSUME TypeOK, QuotaInv, TimePasses /\ UNCHANGED <<runVars, learned, cache>>
  PROVE  QuotaInv'
<1>1. /\ period \in Nat /\ period + 1 \in Periods /\ period' = period + 1 /\ usage' = usage
      /\ period \in Periods
  BY UsageAssumption DEF TimePasses, TypeOK, Periods
<1>2. NothingAhead'
  BY <1>1, UsageAssumption DEF NothingAhead, QuotaInv, Periods
<1>3. ASSUME NEW t \in Tenants, NEW k \in Usage, period = Counted(period), Limit[t][k] # 0
      PROVE  usage[t][k][period] < Limit[t][k] + Cardinality(Runs) * Share(k)
  <2>1. Bounded(t, k)
    BY <1>3 DEF QuotaInv, NowIsBounded
  <2>2. /\ usage[t][k][period] \in Nat /\ Limit[t][k] \in Nat
        /\ Cardinality(MayRecord(t, k)) * Share(k) \in Nat
        /\ Cardinality(Runs) * Share(k) \in Nat
    BY <1>1, UsageIsNat, CountOfRuns, ShareIsPositive DEF MayRecord
  <2> QED
    BY <1>3, <2>1, <2>2 DEF Bounded
<1>4. PastIsBounded'
  <2>1. \A p \in Periods : p < period' => p < period \/ p = period
    BY <1>1 DEF Periods
  <2> QED
    BY <1>1, <1>3, <2>1 DEF PastIsBounded, QuotaInv
<1>5. ASSUME period' = Counted(period'), NEW t \in Tenants, NEW k \in Usage, Limit[t][k] # 0
      PROVE  Bounded(t, k)'
  <2>1. usage'[t][k][period'] = 0
    BY <1>1 DEF NothingAhead, QuotaInv
  <2>2. MayRecord(t, k)' \in SUBSET Runs /\ Limit[t][k] \in Nat \ {0}
    BY <1>1, <1>5, UsageIsNat DEF MayRecord
  <2> QED
    BY <2>1, <2>2, RoomForAll DEF Bounded
<1>6. NowIsBounded'
  BY <1>5 DEF NowIsBounded, Bounded
<1> QED
  BY <1>2, <1>4, <1>6 DEF QuotaInv

LEMMA NextKeepsQuota ==
  ASSUME TypeOK, RunsAreServed, QuotaInv, [Next]_graphVars
  PROVE  QuotaInv'
<1>1. CASE UNCHANGED <<usageVars, runVars>>
  <2>1. \A t \in Tenants, k \in Usage : MayRecord(t, k)' = MayRecord(t, k)
    BY <1>1 DEF runVars, usageVars, MayRecord
  <2> QED
    BY <1>1, <2>1, QuietStepKeepsQuota
<1> QED
  BY <1>1, RunStepKeepsQuota, StepKeepsQuota, TimeKeepsQuota DEF Next, RunNobody, Expire, graphVars

\* The inductive invariant of the graph.
THEOREM GraphInvariant == Spec => [](TypeOK /\ RunsAreServed /\ QuotaInv)
<1>1. Init => TypeOK /\ RunsAreServed /\ QuotaInv
  BY StartsTyped, StartsBounded DEF Init, RunsAreServed
<1>2. TypeOK /\ RunsAreServed /\ QuotaInv /\ [Next]_graphVars
      => TypeOK' /\ RunsAreServed' /\ QuotaInv'
  BY NextKeepsTypes, NextKeepsRunsServed, NextKeepsQuota
<1> QED
  BY <1>1, <1>2, PTL DEF Spec

\* However many requests overlap, and whenever they were admitted, a limit is
\* overshot by less than their shares together.
THEOREM OvershootBounded == Spec => []OvershootIsBounded
<1>1. TypeOK /\ QuotaInv => OvershootIsBounded
  <2> SUFFICES ASSUME TypeOK, QuotaInv, NEW t \in Tenants, NEW k \in Usage, NEW p \in Periods,
                      Limit[t][k] # 0, p = Counted(p)
               PROVE  usage[t][k][p] < Limit[t][k] + Cardinality(Runs) * Share(k)
    BY DEF OvershootIsBounded
  <2>1. /\ p \in Nat /\ period \in Nat /\ usage[t][k][p] \in Nat /\ Limit[t][k] \in Nat \ {0}
        /\ Cardinality(MayRecord(t, k)) * Share(k) \in Nat
        /\ Cardinality(Runs) * Share(k) \in Nat
    <3>1. usage[t][k][p] \in Nat /\ Limit[t][k] \in Nat \ {0}
      BY UsageIsNat
    <3>2. p \in Nat /\ period \in Nat
      BY DEF TypeOK, Periods
    <3>3. MayRecord(t, k) \in SUBSET Runs
      BY DEF MayRecord
    <3> QED
      BY <3>1, <3>2, <3>3, CountOfRuns, ShareIsPositive
  <2>2. CASE p < period
    BY <2>2 DEF QuotaInv, PastIsBounded
  <2>3. CASE p > period
    BY <2>1, <2>3 DEF QuotaInv, NothingAhead
  <2>4. CASE p = period
    <3>1. Bounded(t, k)
      BY <2>4 DEF QuotaInv, NowIsBounded
    <3> QED
      BY <2>1, <2>4, <3>1 DEF Bounded
  <2> QED
    BY <2>1, <2>2, <2>3, <2>4
<1> QED
  BY <1>1, GraphInvariant, PTL

-----------------------------------------------------------------------------
(* What is learned, decided and cached.                                    *)

\* Provider who is in the record of successes.
WasGiven(who, successes) == \E type \in TaskTypes : <<who, type>> \in successes

\* Only denials fail; and an answer on its way to the cache was given, as the
\* cached ones were.
LearnedInv ==
  /\ \A x \in tried : x[1] = "DENY" \/ x \in worked
  /\ \A r \in Runs : answer[r] # "none" => WasGiven(answer[r], worked)
  /\ CachedAnswersWereGiven

LEMMA LearnKeepsGiven ==
  ASSUME LearnedTypeOK, NEW who, NEW type \in TaskTypes, NEW success \in BOOLEAN,
         Learn(who, type, success), who = "DENY" \/ success,
         \A x \in tried : x[1] = "DENY" \/ x \in worked
  PROVE  /\ \A x \in tried' : x[1] = "DENY" \/ x \in worked'
         /\ worked \subseteq worked'
         /\ success => WasGiven(who, worked')
BY DEF Learn, LearnedTypeOK, WasGiven

LEMMA MoreWereGiven ==
  ASSUME worked \subseteq worked', NEW who, WasGiven(who, worked)
  PROVE  WasGiven(who, worked')
BY DEF WasGiven

\* A usage record, whose run holds an answer that was given, or none.
LEMMA RecordUsageKeepsGiven ==
  ASSUME TypeOK, LearnedInv, worked \subseteq worked', NEW r \in Runs, NEW k, NEW q, NEW fresh, NEW next,
         RecordUsage(r, k, q, fresh, next), fresh # "none" => WasGiven(fresh, worked')
  PROVE  /\ \A s \in Runs : answer'[s] # "none" => WasGiven(answer'[s], worked')
         /\ CachedAnswersWereGiven'
<1>1. \A s \in Runs : answer[s] # "none" => WasGiven(answer[s], worked')
  BY MoreWereGiven DEF LearnedInv
<1>2. \A i \in Inputs : cache[i] # "none" => WasGiven(cache[i], worked')
  BY MoreWereGiven DEF LearnedInv, CachedAnswersWereGiven, WasGiven
<1>3. \A i \in Inputs : cache'[i] # "none" => WasGiven(cache'[i], worked')
  BY <1>2 DEF RecordUsage, Finish, Remember, TypeOK
<1>4. \A s \in Runs : answer'[s] # "none" => WasGiven(answer'[s], worked')
  BY <1>1 DEF RecordUsage, Finish, Remember, Forget, TypeOK
<1> QED
  BY <1>3, <1>4 DEF CachedAnswersWereGiven, WasGiven

\* A step that learns nothing and answers nothing, or ends a run.
LEMMA OtherStepKeepsLearned ==
  ASSUME TypeOK, LearnedInv, UNCHANGED <<tried, worked>>,
         \A s \in Runs : answer'[s] \in {answer[s], "none"},
         \A i \in Inputs : cache'[i] \in {cache[i], "none"}
  PROVE  LearnedInv'
<1>1. \A s \in Runs : answer'[s] # "none" => WasGiven(answer'[s], worked')
  BY DEF LearnedInv, WasGiven
<1>2. CachedAnswersWereGiven'
  BY DEF LearnedInv, CachedAnswersWereGiven
<1> QED
  BY <1>1, <1>2 DEF LearnedInv

LEMMA BlockKeepsLearned ==
  ASSUME TypeOK, LearnedInv, NEW type \in TaskTypes, Learn("DENY", type, FALSE), UNCHANGED cache,
         \A s \in Runs : answer'[s] \in {answer[s], "none"}
  PROVE  LearnedInv'
<1>1. LearnedTypeOK
  BY PartsOfTypeOK
<1>2. worked' = worked /\ \A x \in tried' : x[1] = "DENY" \/ x \in worked'
  BY <1>1, LearnKeepsGiven DEF LearnedInv, Learn
<1>3. \A s \in Runs : answer'[s] # "none" => WasGiven(answer'[s], worked')
  BY <1>2 DEF LearnedInv, WasGiven
<1>4. CachedAnswersWereGiven'
  BY <1>2 DEF LearnedInv, CachedAnswersWereGiven
<1> QED
  BY <1>2, <1>3, <1>4 DEF LearnedInv

LEMMA AnswerKeepsLearned ==
  ASSUME TypeOK, LearnedInv, NEW r \in Runs, NEW who, NEW success \in BOOLEAN, NEW fresh,
         NEW next, Learn(who, job[r].type, success), who = "DENY" \/ success,
         RecordUsage(r, "task", 1, fresh, next), fresh # "none" => success /\ fresh = who
  PROVE  LearnedInv'
<1>1. LearnedTypeOK /\ job[r].type \in TaskTypes
  BY PartsOfTypeOK DEF TypeOK, Job
<1>2. /\ \A x \in tried' : x[1] = "DENY" \/ x \in worked'
      /\ worked \subseteq worked'
      /\ success => WasGiven(who, worked')
  BY <1>1, LearnKeepsGiven DEF LearnedInv
<1> QED
  BY <1>2, RecordUsageKeepsGiven DEF LearnedInv

LEMMA NextKeepsLearned ==
  ASSUME TypeOK, LearnedInv, [Next]_graphVars
  PROVE  LearnedInv'
<1>1. CASE \E type \in TaskTypes : RunNobody(type)
  BY <1>1, BlockKeepsLearned DEF RunNobody, runVars
<1>2. ASSUME NEW r \in Runs, Step(r)
      PROVE  LearnedInv'
  <2>1. job[r].type \in TaskTypes
    BY DEF TypeOK, Job
  <2>2. CASE Block(r)
    BY <2>1, <2>2, BlockKeepsLearned DEF Block, Forget, TypeOK
  <2>3. CASE UNCHANGED <<learned, answer, cache>>
    BY <2>3, OtherStepKeepsLearned DEF learned
  <2>4. CASE Preflight(r)
    BY <2>2, <2>3, <2>4, AnswerKeepsLearned DEF Preflight, ServeCached
  <2>5. CASE \E able \in SUBSET Providers : Route(r, able)
    BY <2>3, <2>5, AnswerKeepsLearned DEF Route
  <2>6. CASE \E ok \in BOOLEAN : Infer(r, ok)
    <3>1. CASE Infer(r, TRUE)
      BY <3>1, AnswerKeepsLearned DEF Infer
    <3>2. CASE Infer(r, FALSE)
      BY <3>2, AnswerKeepsLearned DEF Infer
    <3> QED
      BY <2>6, <3>1, <3>2
  <2>7. CASE RecordAgentRun(r) \/ \E minutes \in 1 .. MaxMinutes : RecordCompute(r, minutes)
    <3>1. UNCHANGED <<tried, worked>>
      BY <2>7 DEF RecordAgentRun, RecordCompute, learned
    <3>2. answer[r] # "none" => WasGiven(answer[r], worked')
      BY <3>1 DEF LearnedInv, WasGiven
    <3>3. \E k, q, next : RecordUsage(r, k, q, answer[r], next)
      BY <2>7 DEF RecordAgentRun, RecordCompute
    <3> QED
      BY <3>1, <3>2, <3>3, RecordUsageKeepsGiven DEF LearnedInv
  <2>8. CASE CountCompute(r) \/ CountAgents(r) \/ \E up \in SUBSET Providers : BuildCandidates(r, up)
    BY <2>3, <2>8 DEF CountCompute, CountAgents, CountUsage, BuildCandidates
  <2>9. CASE Decide(r)
    BY <2>2, <2>3, <2>9 DEF Decide
  <2> QED
    BY <1>2, <2>4, <2>5, <2>6, <2>7, <2>8, <2>9 DEF Step
<1>3. CASE \E r \in Runs, j \in Job : Run(r, j)
  BY <1>3, OtherStepKeepsLearned DEF Run, learned
<1>4. CASE \E i \in Inputs : Expire(i)
  BY <1>4, OtherStepKeepsLearned DEF Expire, learned, runVars, TypeOK
<1>5. CASE UNCHANGED <<runVars, learned, cache>>
  BY <1>5, OtherStepKeepsLearned DEF runVars, learned
<1> QED
  BY <1>1, <1>2, <1>3, <1>4, <1>5 DEF Next, graphVars

\* Nobody but "DENY" is ever learned to have failed, and an answer on its way to the
\* semantic cache was given by somebody (execution-graph.ts:273).
THEOREM LearnedInvariant == Spec => []LearnedInv
<1>1. Init => LearnedInv
  BY DEF Init, LearnedInv, CachedAnswersWereGiven
<1>2. TypeOK /\ LearnedInv /\ [Next]_graphVars => LearnedInv'
  BY NextKeepsLearned
<1> QED
  BY <1>1, <1>2, GraphTypeCorrect, PTL DEF Spec

\* What the cache serves was answered by a provider that succeeded.
THEOREM CacheIsGenuine == Spec => []CachedAnswersWereGiven
<1>1. LearnedInv => CachedAnswersWereGiven
  BY DEF LearnedInv
<1> QED
  BY <1>1, LearnedInvariant, PTL

\* Whatever was learned, a type that has succeeded is not turned away while a
\* provider is healthy: failures are held against nobody.
THEOREM ServedTypesStayServed == Spec => TypeStaysServed
<1>1. ASSUME TypeOK, LearnedInv, [Next]_graphVars, NEW r \in Runs, Decides(r), healthy[r] # {},
             \E x \in worked : x[2] = job[r].type
      PROVE  pc'[r] = "route"
  <2>1. \A p \in healthy[r] : Promising(p, job[r].type)
    <3> SUFFICES ASSUME NEW p \in healthy[r]
                 PROVE  Promising(p, job[r].type)
      OBVIOUS
    <3>1. p # "DENY" /\ p \in Providers
      <4>1. healthy[r] \subseteq Providers
        BY <1>1 DEF TypeOK
      <4> QED
        BY <4>1, GraphAssumption
    <3>2. \A x \in tried : x[1] = p => x \in worked
      BY <1>1, <3>1 DEF LearnedInv
    <3> DEFINE type == job[r].type
               ofProvider == {x \in Patterns : x[1] = p}
               ofType == {x \in Patterns : x[2] = type}
    <3>3. <<p, type>> \in Patterns => Succeeds(<<p, type>>)
      <4>1. <<p, type>>[1] = p
        OBVIOUS
      <4> QED
        BY <3>2, <4>1 DEF Patterns, Succeeds
    <3>4. ofProvider # {} => SomeSucceed(ofProvider)
      BY <3>2 DEF Patterns, Succeeds, SomeSucceed
    <3>5. ofType # {} /\ SomeSucceed(ofType)
      BY <1>1 DEF TypeOK, Patterns, Succeeds, SomeSucceed
    <3> QED
      BY <3>3, <3>4, <3>5 DEF Promising
  <2>2. ~Block(r) \/ ~Decide(r)
    BY <1>1, <2>1 DEF Block, Decide, Forget, MoveTo, TypeOK
  <2>3. Decide(r)
    <3>1. pc[r] = "decide" /\ pc'[r] # pc[r]
      BY <1>1 DEF Decides
    <3>2. PICK s \in Runs : Step(s) \/ \E j \in Job : Run(s, j)
      BY <1>1, <3>1 DEF Next, RunNobody, Expire, runVars, graphVars
    <3>3. s = r
      <4>1. CASE \E j \in Job : Run(s, j)
        BY <1>1, <3>1, <4>1 DEF Run, MoveTo, TypeOK
      <4>2. CASE Step(s)
        <5>1. \E p \in Place : pc' = [pc EXCEPT ![s] = p]
          BY <4>2 DEF Step, CountCompute, CountAgents, CountUsage, Preflight, ServeCached, BuildCandidates, Decide,
             Route, Infer, RecordCompute, RecordAgentRun, Block, RecordUsage, Finish, Remember, Forget, MoveTo, Place
        <5> QED
          BY <1>1, <3>1, <5>1 DEF TypeOK
      <4> QED
        BY <3>2, <4>1, <4>2
    <3> QED
      BY <3>1, <3>2, <3>3 DEF Step, Run, CountCompute, CountAgents, CountUsage, Preflight, ServeCached,
         BuildCandidates, Route, Infer, RecordCompute, RecordAgentRun
  <2> QED
    BY <1>1, <2>1, <2>3 DEF Decide, MoveTo, TypeOK
<1>2. TypeOK /\ LearnedInv /\ [Next]_graphVars
      => \A r \in Runs : (Decides(r) /\ healthy[r] # {} /\ \E x \in worked : x[2] = job[r].type)
                         => pc'[r] = "route"
  BY <1>1
<1> QED
  BY <1>2, GraphTypeCorrect, LearnedInvariant, PTL DEF Spec, TypeStaysServed
=============================================================================
