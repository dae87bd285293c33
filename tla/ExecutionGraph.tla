--------------------------- MODULE ExecutionGraph ---------------------------
(***************************************************************************)
(* UnifiedExecutionGraph.run(): quota, preflight, semantic cache, the      *)
(* decision from history, routing and inference, usage records.            *)
(*                                                                         *)
(* Requests overlap at every await, so a run r is a process, and a step is *)
(* what happens between two awaits.  The sources of a step's freedom are   *)
(* the request, the providers' health and answers, the policy's verdict on *)
(* a provider, and the ranking among the providers that are not blocked.   *)
(*                                                                         *)
(* Of the history the decision engine learns from, the model keeps which   *)
(* provider was tried, and has succeeded, with which type of task: a       *)
(* predicted success rate is 0 iff the runs it averages have no success,   *)
(* as long as they are fewer than the 20 000 at which one success among    *)
(* them rounds to 0.                                                       *)
(***************************************************************************)
EXTENDS UsageTracker, FiniteSets

CONSTANTS Runs,        \* bounds how many requests overlap
          Providers,
          TaskTypes,
          Inputs,      \* prompts that differ for the semantic cache
          MaxMinutes,  \* bounds the compute time of a run, in units of Limit
          MaxRecords   \* bounds the task records of a tenant in a period

ASSUME GraphAssumption ==
  /\ IsFiniteSet(Runs) /\ MaxMinutes \in Nat \ {0} /\ MaxRecords \in Nat
  /\ Tenants # {} /\ TaskTypes # {} /\ Inputs # {}
  /\ "DENY" \notin Providers /\ "none" \notin Providers

Job == [tenant : Tenants, type : TaskTypes, input : Inputs,
        agent : BOOLEAN,    \* an agent run
        sound : BOOLEAN]    \* policy preflight and compression let it pass

NoJob == CHOOSE j \in Job : ~j.agent /\ ~j.sound

VARIABLES pc, job,
          month,      \* the period run r's quota check counts
          over,       \* it has met a limit so far
          healthy,    \* the candidates that are available and support the task
          chosen,     \* the provider the decision, then the router, selected
          answer,     \* the provider whose answer goes into the cache, or "none"
          tried, worked,
          cache       \* the provider that answered an input, or "none"

runVars   == <<pc, job, month, over, healthy, chosen, answer>>
learned   == <<tried, worked>>
graphVars == <<usageVars, runVars, learned, cache>>

Init ==
  /\ UsageInit
  /\ pc = [r \in Runs |-> "idle"]
  /\ job = [r \in Runs |-> NoJob]
  /\ month = [r \in Runs |-> 1]
  /\ over = [r \in Runs |-> FALSE]
  /\ healthy = [r \in Runs |-> {}]
  /\ chosen = [r \in Runs |-> "none"]
  /\ answer = [r \in Runs |-> "none"]
  /\ tried = {} /\ worked = {}
  /\ cache = [i \in Inputs |-> "none"]

-----------------------------------------------------------------------------
\* What is learned from a run: provider who, or "DENY", with a type of task.
Learn(who, type, success) ==
  /\ tried' = tried \cup {<<who, type>>}
  /\ worked' = IF success THEN worked \cup {<<who, type>>} ELSE worked

\* analyze(): the history falls into patterns, one for each provider, or "DENY",
\* and type of task.
Patterns == tried

\* A pattern's success rate is above 0.
Succeeds(pattern) == pattern \in worked

\* The average over patterns, weighted by their attempts, is above 0.
SomeSucceed(patterns) == \E x \in patterns : Succeeds(x)

\* The predicted success rate of provider p for the type is above 0: rated by
\* its runs of the type, else by all its runs, else by everybody's runs of the
\* type (denials included), else by all runs; 0.5 without any.
Promising(p, type) ==
  LET ofProvider == {x \in Patterns : x[1] = p}
      ofType     == {x \in Patterns : x[2] = type}
  IN IF <<p, type>> \in Patterns THEN Succeeds(<<p, type>>)
     ELSE IF ofProvider # {} THEN SomeSucceed(ofProvider)
     ELSE IF ofType # {} THEN SomeSucceed(ofType)
     ELSE Patterns = {} \/ SomeSucceed(Patterns)

MoveTo(r, where) == pc' = [pc EXCEPT ![r] = where]

\* A run is over: what it was about is forgotten.
Forget(r) ==
  /\ MoveTo(r, "idle")
  /\ job' = [job EXCEPT ![r] = NoJob]
  /\ month' = [month EXCEPT ![r] = 1]
  /\ over' = [over EXCEPT ![r] = FALSE]
  /\ healthy' = [healthy EXCEPT ![r] = {}]
  /\ chosen' = [chosen EXCEPT ![r] = "none"]
  /\ answer' = [answer EXCEPT ![r] = "none"]

\* A blocked request is answered without an execution, and learned from.
Block(r) ==
  /\ Learn("DENY", job[r].type, FALSE)
  /\ Forget(r)
  /\ UNCHANGED <<usageVars, cache>>

\* A fresh answer goes into the cache.
Remember(input, fresh) ==
  cache' = IF fresh = "none" THEN cache ELSE [cache EXCEPT ![input] = fresh]

\* The rest of run() once usage is recorded, or its recording has failed.
Finish(r, fresh) ==
  /\ Remember(job[r].input, fresh)
  /\ Forget(r)

\* One usage record of run r; recording goes on with the next one, or ends.
RecordUsage(r, kind, quantity, fresh, next) ==
  /\ Record(job[r].tenant, kind, quantity)
  /\ \/ /\ Refused(job[r].tenant) \/ next = "done"
        /\ Finish(r, fresh)
     \/ /\ ~Refused(job[r].tenant) /\ next # "done"
        /\ MoveTo(r, next)
        /\ answer' = [answer EXCEPT ![r] = fresh]
        /\ UNCHANGED <<job, month, over, healthy, chosen, cache>>
  /\ UNCHANGED period

-----------------------------------------------------------------------------
\* A blank tenant id.
RunNobody(type) ==
  /\ Learn("DENY", type, FALSE)
  /\ UNCHANGED <<usageVars, runVars, cache>>

\* run() up to the first await of the quota check, which has counted the tasks.
Run(r, j) ==
  /\ pc[r] = "idle"
  /\ usage[j.tenant]["task"][period] < MaxRecords
  /\ MoveTo(r, "quota_compute")
  /\ job' = [job EXCEPT ![r] = j]
  /\ month' = [month EXCEPT ![r] = Counted(period)]
  /\ over' = [over EXCEPT ![r] = AtLimit(j.tenant, "task", Counted(period))]
  /\ UNCHANGED <<usageVars, healthy, chosen, answer, learned, cache>>

\* The quota check counts the compute minutes, and then the agent runs.
CountUsage(r, kind, at, next) ==
  /\ pc[r] = at
  /\ over' = [over EXCEPT ![r] = @ \/ AtLimit(job[r].tenant, kind, month[r])]
  /\ MoveTo(r, next)
  /\ UNCHANGED <<usageVars, job, month, healthy, chosen, answer, learned, cache>>

CountCompute(r) == CountUsage(r, "compute", "quota_compute", "quota_agent")
CountAgents(r)  == CountUsage(r, "agent_run", "quota_agent", "preflight")

\* A cached answer counts as a success of the provider that gave it.
ServeCached(r) ==
  /\ cache[job[r].input] # "none"
  /\ Learn(cache[job[r].input], job[r].type, TRUE)
  /\ RecordUsage(r, "task", 1, "none", "bill_compute")

\* From the quota's verdict to the cache.
Preflight(r) ==
  /\ pc[r] = "preflight"
  /\ \/ /\ over[r] \/ ~job[r].sound
        /\ Block(r)
     \/ /\ ~over[r] /\ job[r].sound
        /\ ServeCached(r)
     \/ /\ ~over[r] /\ job[r].sound
        /\ cache[job[r].input] = "none"
        /\ MoveTo(r, "candidates")
        /\ UNCHANGED <<usageVars, job, month, over, healthy, chosen, answer, learned, cache>>

\* buildCandidates(): every provider's health was awaited.
BuildCandidates(r, up) ==
  /\ pc[r] = "candidates"
  /\ MoveTo(r, "decide")
  /\ healthy' = [healthy EXCEPT ![r] = up]
  /\ UNCHANGED <<usageVars, job, month, over, chosen, answer, learned, cache>>

\* The decision takes a candidate that is not blocked, if there is one.
Decide(r) ==
  LET viable == {p \in healthy[r] : Promising(p, job[r].type)}
  IN  /\ pc[r] = "decide"
      /\ \/ /\ viable = {}
            /\ Block(r)
         \/ \E p \in viable :
              /\ chosen' = [chosen EXCEPT ![r] = p]
              /\ MoveTo(r, "route")
              /\ UNCHANGED <<usageVars, job, month, over, healthy, answer, learned, cache>>

\* The router, once it knows which providers are healthy and allowed for the
\* task: the preferred one outscores the others.  A denial is recorded as usage.
Route(r, able) ==
  /\ pc[r] = "route"
  /\ \/ /\ able = {}
        /\ Learn("DENY", job[r].type, FALSE)
        /\ RecordUsage(r, "task", 1, "none", "bill_compute")
     \/ \E p \in able :
          /\ chosen[r] \in able => p = chosen[r]
          /\ chosen' = [chosen EXCEPT ![r] = p]
          /\ MoveTo(r, "inference")
          /\ UNCHANGED <<usageVars, job, month, over, healthy, answer, learned, cache>>

\* Mutants of Infer: a failure is held against the provider, ...
InferBlaming(r, ok) ==
  /\ pc[r] = "inference"
  /\ Learn(chosen[r], job[r].type, ok)
  /\ RecordUsage(r, "task", 1, IF ok THEN chosen[r] ELSE "none", "bill_compute")

\* ... and: a failure leaves the provider in the result.
InferRegardless(r, ok) ==
  /\ pc[r] = "inference"
  /\ Learn(IF ok THEN chosen[r] ELSE "DENY", job[r].type, ok)
  /\ RecordUsage(r, "task", 1, chosen[r], "bill_compute")

\* The provider answers, or fails: then the run counts as denied.
Infer(r, ok) ==
  /\ pc[r] = "inference"
  /\ Learn(IF ok THEN chosen[r] ELSE "DENY", job[r].type, ok)
  /\ RecordUsage(r, "task", 1, IF ok THEN chosen[r] ELSE "none", "bill_compute")

RecordCompute(r, minutes) ==
  /\ pc[r] = "bill_compute"
  /\ RecordUsage(r, "compute", minutes, answer[r], IF job[r].agent THEN "bill_agent" ELSE "done")
  /\ UNCHANGED learned

RecordAgentRun(r) ==
  /\ pc[r] = "bill_agent"
  /\ RecordUsage(r, "agent_run", 1, answer[r], "done")
  /\ UNCHANGED learned

\* The time to live of a cached answer ends.
Expire(i) ==
  /\ cache[i] # "none"
  /\ cache' = [cache EXCEPT ![i] = "none"]
  /\ UNCHANGED <<usageVars, runVars, learned>>

Step(r) ==
  \/ CountCompute(r) \/ CountAgents(r)
  \/ Preflight(r)
  \/ \E up \in SUBSET Providers : BuildCandidates(r, up)
  \/ Decide(r)
  \/ \E able \in SUBSET Providers : Route(r, able)
  \/ \E ok \in BOOLEAN : Infer(r, ok)
  \/ \E minutes \in 1 .. MaxMinutes : RecordCompute(r, minutes)
  \/ RecordAgentRun(r)

Next ==
  \/ \E type \in TaskTypes : RunNobody(type)
  \/ \E r \in Runs, j \in Job : Run(r, j)
  \/ \E r \in Runs : Step(r)
  \/ \E i \in Inputs : Expire(i)
  \/ TimePasses /\ UNCHANGED <<runVars, learned, cache>>

Spec == Init /\ [][Next]_graphVars

-----------------------------------------------------------------------------
TypeOK ==
  /\ period \in Periods
  /\ usage \in [Tenants -> [Usage -> [Periods -> Nat]]]
  /\ pc \in [Runs -> {"idle", "quota_compute", "quota_agent", "preflight", "candidates",
                      "decide", "route", "inference", "bill_compute", "bill_agent"}]
  /\ job \in [Runs -> Job]
  /\ month \in [Runs -> Nat]
  /\ over \in [Runs -> BOOLEAN]
  /\ healthy \in [Runs -> SUBSET Providers]
  /\ chosen \in [Runs -> Providers \cup {"none"}]
  /\ answer \in [Runs -> Providers \cup {"none"}]
  /\ tried \in SUBSET ((Providers \cup {"DENY"}) \X TaskTypes)
  /\ worked \in SUBSET tried
  /\ cache \in [Inputs -> Providers \cup {"none"}]

\* The most a run adds to a kind of usage.
Share(k) == IF k = "compute" THEN MaxMinutes ELSE 1

\* The quota is checked and recorded at different times, so overlapping runs
\* overshoot a limit, but by no more than a share for each of them but one:
\* a run admitted late in a month, or on figures of the last one, included.
OvershootIsBounded ==
  \A t \in Tenants, k \in Usage, p \in Periods :
    (Limit[t][k] # 0 /\ p = Counted(p)) =>
      usage[t][k][p] < Limit[t][k] + Cardinality(Runs) * Share(k)

\* An answer that is served from the cache was given: its provider succeeded.
CachedAnswersWereGiven ==
  \A i \in Inputs : cache[i] # "none" => \E type \in TaskTypes : <<cache[i], type>> \in worked

\* Run r learns whether its decision found a provider.
Decides(r) == pc[r] = "decide" /\ pc'[r] # "decide"

\* Once a type of task has succeeded, with whatever provider, a request for it
\* that finds a healthy provider is never turned away by the decision engine,
\* however many failures and denials it has learned from meanwhile.
TypeStaysServed ==
  [][\A r \in Runs :
       (Decides(r) /\ healthy[r] # {} /\ \E x \in worked : x[2] = job[r].type)
       => pc'[r] = "route"]_graphVars

-----------------------------------------------------------------------------
(* What the repository's docs say and the code does not do.                *)

\* multi-tenant-saas.md: when limits are hit, requests are rejected.  Said here
\* of all a tenant records in a month, with one run at a time.
QuotaIsKept ==
  \A t \in Tenants, p \in Periods :
    (Limit[t]["task"] # 0 /\ p = Counted(p)) =>
      usage[t]["task"][p] + (IF p < MaxPeriod THEN usage[t]["task"][p + 1] ELSE 0)
        <= Limit[t]["task"]

=============================================================================
