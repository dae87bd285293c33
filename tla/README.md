# SawyerCore: TLA+ models and proofs

This directory holds TLA+ models of the parts of SawyerCore in which the order of
events matters, TLC configurations that check them on small instances, and TLAPS
proofs of what holds for every instance. Paths are relative to the repository's root;
where a table names a module of the server, `src/` is left out.
`PROJECT.json` maps every definition to the lines it models.

    tlc -config MCAutonomyQueue.cfg MCAutonomyLoop.tla    # model-check one run
    tlapm AutonomyLoop_proofs.tla                         # check proofs

## The system

SawyerCore routes AI tasks to providers. The TypeScript server (`src/`) is one
JavaScript thread, so all its concurrency is at `await`: a handler runs undisturbed
from one await to the next, and anything may happen in between. A TypeScript SDK
(`sdk/client.ts`) calls it over HTTP. The Rust crates (`crates/`) are a second
implementation of planning and execution.

| Component | State | Operations | What is hard |
|---|---|---|---|
| Work queue `system/autonomy/task-detector.ts` | array of items, sequence counter | enqueue (sorts), dequeue, markRunning, markCompleted, markFailed | attempts, stale order, late verdicts |
| Autonomy loop and orchestrator `system/autonomy/autonomy-loop.ts`, `workflow-orchestrator.ts` | running flag, abort signal, tick number | start, stop, executeTick | a tick in flight at stop(), two loops on one queue |
| State machine, aggregator, healer `system/health/` | state, window of results, attempt trackers | transition, recordResult, collectHealth, evaluate | reports that come late, alarms that are refused, states without a way out |
| Offline queue and sync `offline/` | queue, statistics | enqueueTask, clearQueue, sync | overlapping syncs on snapshots of one queue |
| Execution graph `system/execution-graph.ts` with router, decision engine, semantic cache, pattern engine | history, cache | run | many awaits between quota check and usage record, learning from denials |
| Deterministic engine and execution log `runtime/core/`, audit trail `observability/audit.ts` | entries, size counters, a file and its backups | execute, append, rotate, replay, verify | writes that fail, crashes, several engines on one file |
| Billing `billing/` | usage records, limits, tiers, a Stripe client | checkTenantQuota, recordUsage, bills, invoices | check and use apart, month ends, records stored and then refused, invoices over many awaits |
| Event bus, schedules `system/events/` | listeners, schedules, history | emit, register, unregister, tick | overlapping ticks over awaited callbacks |
| Mesh `mesh/` | registry of nodes, audit trail | register, processHeartbeat, checkStaleNodes, execute | a node that falls silent between selection and answer |
| Tenancy, API, onboarding `tenancy/`, `api/`, `saas/` | contexts, request counts, tenants, keys, configurations, referrals | the checks of a request, the steps of onboarding | status read and then used after awaits, indexes that must agree, failures between steps |
| Execution budget, provider selection `runtime/cost/` | what tasks have spent | allocate, select, canProceed, recordSpend | check and use apart |
| Runtime safety `runtime/safety/` | none of its own | assess, selectTier, fallback, safeExecute | memory assessed once and relied upon |
| SDK and providers `sdk/client.ts`, `providers/providers.ts` | none beyond a call | request, healthCheck, infer | retries of client and provider multiply, answers come late |
| Growth `growth/` | pages, tests, campaigns, viral loops | views, conversions, assignment, winner | lookups and counts apart, stale rates |
| Rules, prompts, variables `memory/`, `prompts/` | graphs, variables | topologicalOrder, evaluate, build, resolve | circles and dangling references in what users write |
| Rust orchestrator and history `crates/` | task graph, outcomes | execute, add_dependency, record | see the end |
| Policy, scores, compression, UI, CLI, scripts | little | | pure functions, catalogues or I/O |

The loop executes items through the execution graph (an await of `engine.execute`),
feeds each result to the aggregator, and the healer moves the state machine, which
decides whether the loop may take items. The execution graph asks billing for the
quota, then cache, decision engine and router, and records usage afterwards. Requests
from outside pass the guards of `api/` and `tenancy/`; invoices are made from the
usage the graph has recorded.

## Modules

| Module | Models | Notes |
|---|---|---|
| `TaskDetector` | the work queue | the array is a rank per item, given by the last sort, since only enqueue sorts |
| `SystemHealth` | `SystemState`, `HealthAggregator`, `SelfHealer` | percentages; a window of the last results; attempt trackers |
| `AutonomyLoop` | loop, orchestrator, and the two above composed | a driver per invocation of `runLoop` or `executeTick`; `pc` is the await it is at |
| `WorkLifecycle` | what the system promises about one item | the abstract specification that `AutonomyLoop` implements |
| `OfflineSync` | `offline/` | a process per call of `sync()` |
| `UsageTracker` | usage records, limits and the month | what is recorded is kept as sums per period |
| `ExecutionGraph` | `UnifiedExecutionGraph.run` with what it calls, composed with `UsageTracker` | a process per request; `pc` is the await it is at |
| `Mesh` | registry, heartbeats, staleness, selection, execution, trail | with time, as ages |
| `ApiClient` | a call of the SDK, the server behind it and the provider behind that | with lost and late messages |
| `Tenancy` | tenant manager, isolation controller, and the calls that go through them | a process per call; every await of a guard, a claim or an onboarding is a step |
| `SafeExecution` | provider selection, safety controller, model scaler and budget tracker | a process per run |
| `Billing` | usage, limits, tiers, the Stripe client and invoices | |
| `Growth` | landing pages, an A/B test, a campaign and viral loops | |
| `Schedules` | schedule registry and the history of the event bus | a process per call of `tick()` |
| `ExecutionLog` | deterministic engines, their log, the router's audit trail | with failing writes, crashes and restarts |
| `Prompts` | rule graphs, prompt fragments and the variables of a prompt memory | the walks over graphs, and `resolve()`, as recursive functions of records |
| `Services` | the last five together | `part` says which of them moves |
| `MC*` | values for the constants, symmetries | |
| `*_proofs` | theorems about `AutonomyLoop`, `OfflineSync`, `ExecutionGraph`, `Mesh`, `Tenancy`, `SafeExecution`, `ApiClient`, `Services` | |

Operators named as mutants in their comments are wrong variants of the definition
that follows them. Replacing one by the other makes a checked property fail, which
is how each property is known to depend on the code it is about.

### Correspondence

*Autonomy loop.* `executeTick` is split at its awaits: `BeginTick` (up to the
schedules), `TakeItem` (`processNext` up to the engine), `FinishItem` (its answer,
mark and record), `EndWork` (the loop's condition is false; health check or sleep),
`Collect` (probes have answered, the report is made), `Heal` (`evaluate`), `NextTick`
or `EndLoop` (the end of `sleep`). `Stop` only aborts and sets the state, as the code
does; the drivers in flight go on. The state RETRYING exists only inside `markFailed`.
Event listeners run synchronously and change nothing here. `tickNumber` is kept
modulo `HealthEvery`, all the code uses of it.

*Health.* Rates are percentages of the window without the rounding to four digits,
which makes no difference for windows up to 100 results. Which providers are healthy
and how much pressure there is are free at each probe.

*Offline.* Tasks are numbered in queue order. `GoOn` is everything between two
handlers. A task that has left the queue is written to without effect, as in
`updateTaskStatus`. One `OfflineSync` object is assumed; the queue is a module-level
array in the code, so several objects would share it.

*Execution graph.* `Run`, `CountCompute` and `CountAgents` are the three awaited
counts of the quota check; `Preflight` is from its verdict to the cache; then
`BuildCandidates`, `Decide`, `Route`, `Infer` and the awaited usage records. Of the
history the model keeps who was tried and who has succeeded with a type of task,
which is what the patterns are made of: a predicted success rate is 0 exactly when the
runs it averages contain no success (up to 20000 failures per success, beyond which
the rounding of the rate would give 0). A month is two periods, its days but the last
and its last day, because `monthEnd` is the midnight before the last day.

*Mesh.* `age[n]` is `Date.now() - lastSeen`, which also a rejected report and
`updateStatus` set back; `silence[n]` is how long the node has really been silent.
Selection, audit record and dispatch are one synchronous stretch; `Receive` and the
end of the local run are later steps. `before` is the order of the `Map`, which
decides between equal scores.

*SDK.* The timer guards the fetch, not the reading of the body. The network may lose a
request or a response; the server goes on with a request whose client has given up.
A backend may answer, fail or be silent until the provider's own timer. The
configuration decides which providers the server has.

*Tenancy.* The manager's methods have no await and are operators; the calls are
split at theirs. An object that a call holds over an await stays visible to it after it
has left its map, so `status` and `owner` outlive `tenants` and `apiKeys`. Ids are
drawn once. `credited` remembers who completed a referral, `told` who answers that it was
completed: an onboarding answers so without looking at what `completeReferral` returned. A rate window is a count and whether its time is over. An onboarding may
stop after any step, as a call that throws does.

*Safe execution.* Nothing in the code calls the selector, the safety controller and the
budget tracker in one place: the module puts them together in the order their
interfaces ask for. Providers' health checks answer one by one, and the budget is
looked at after the last one. Costs are units of the least amount the tracker treats as
something left.

*Services.* The five modules share no variable, so whatever one does commutes with
what the others do; `part`, chosen at the start, lets one of them move, which has the
same reachable states of each module as full interleaving. Growth and Prompts are split
once more for the same reason. In `Billing` money is in thousandths of a cent, which represents
the rates of the default catalogue exactly; Stripe is external: every request may fail,
before or after it took effect. The catalogue begins with the default tiers, and
`RegisterTier` adds or replaces one with any of the rates in `Registrable`; it is exported,
but nothing in the repository calls it. `PostUsage` stores whatever kind and quantity a
body of `Bodies` has, as the route does. `seen` remembers the rates that a tenant had while
its invoice was made.

In `Schedules` a call of `tick()` keeps the time it began with, which `lastFiredMs` gets,
while an event carries the time at which it is emitted. Both are read from one clock that
does not go back, as the loop passes `Date.now()` and the bus stamps the current time.
`since` remembers, for a registration, when the oldest call under way began that will
still meet it.

In `ExecutionLog` a line is the unit of size, and a write
either happens or fails as a whole. A due rotation may fail, and the line is then written to
the log all the same; or its file takes the name of one that was rotated in the same
millisecond. `replaced` and `overdue` remember what was lost in this way and what was
written in that one. In `Prompts` a text is the set of variables it refers
to and an id is its place in the sort; one graph is read, or one prompt built, from any of
the graphs that are possible, and without a limit of tokens. `SortedBy` says where a sort
puts an element, by counting what precedes it; `PostOrder` is the walk of
`topologicalOrder()` and `resolveFragmentOrder()`, which differ in what they list and in that only the
latter tells a fragment on the way from one that was visited.

## What is checked

| Run | Instance | Shows |
|---|---|---|
| `autonomy_queue` | 2 items, 2 priorities, limits 1 and 2, 2 drivers, direct ticks | one owner per item, attempts honoured, one loop, urgent new items first, `WorkLifecycle` implemented |
| `autonomy_health` | 2 providers, window 2, items of 2 attempts (so the window overflows), 2 drivers | the system is started iff its state says so, alarms are always raised |
| `autonomy_live` | 1 item, 1 provider, 2 drivers, fairness | every item settles, aborted loops end |
| `offline_overlap` | 3 tasks, 2 kinds, 2 calls, fairness | statuses, statistics and deliveries stay right; calls return; pending tasks are tried |
| `graph_quota` | 2 requests, 3 periods, limits 1, 2 and 1 | a limit is overshot by no more than a share for each other request |
| `graph_decisions` | 2 requests, 2 providers, 2 types | cached answers were given; a type that has succeeded stays served |
| `graph_last_day` | 1 request, 3 periods | violation: on the last day of a month there is no quota |
| `mesh` | 2 nodes, 1 task, silence 1, checks at most 2 apart, fairness | who can be selected was heard of; trails are true; silent nodes are retired if they are checked for |
| `client` | 1 call of 6 operations, 2 retries on either side, 3 configurations, fairness | work is bounded, results are truthful, calls return |
| `tenancy` | 2 tenants, 2 keys, an agent, a referral, a share, 4 calls of three mixes, 1 request per window | key maps agree, configurations are listed, a referral is completed once and who is told so, suspended tenants stay out |
| `safe_execution` | 2 runs, a local-only task and one that may leave, 3 tiers whose memory is not in order, 1 retry, fairness | overspending is bounded, reports are truthful, falling back finds the best tier, runs end |
| `services` | 1 tenant, the default tiers, one of which is replaced back and forth, usage of either sign, 2 runs, 1 Stripe call; 2 slugs, 3 users; 2 schedules, 2 ticks; 2 engines, 3 executions, 1 crash, 1 replay; 3 rules, 3 fragments with up to 2 edges, 3 variables | usage is stored, invoices cover the bill, views are lost to renames only, the winner is best, schedules do not get ahead of their interval, receipts are on disk, the log is bounded, what was verified stays verified, orders respect edges, references are resolved |

**Why these bounds are enough.** Two drivers, calls, requests, runs or ticks are what an
overlap needs. Two items are needed to have an order, two attempts to have a retry,
three tasks so that a call has work before and after a shared one, two providers or
nodes so that one can be well while the other is not. Three periods hold a month's
turn. Mesh tasks do not meet, so one is enough. Two attempts more on either side of
a call give a first, a middle and a last one. Four calls let two claims and an
onboarding meet on one referral while a route revokes the key; in another mix two
onboardings meet on it. A tier whose rates are replaced by ones that are lower for one kind
and higher for another changes what is cheapest between two items of an invoice; one body
takes tasks back. Three records hold a debit on each side of a credit. Two ticks over
three times let a late firing fall between two firings of the other tick. Three tiers `<<1, 3, 2>>`
have a largest model that does not need most memory. Two engines and a crash are
what the size counter can get wrong. Three ids have every shape of circle, two paths to
one id, and an edge to an id that is not there; `MaxRecursion` is 3 (32 in the code), so
that three variables reach it and two do not. The counters that grow in the code are bounded
by the `Max*` constants, each named where it is declared; the proofs do not depend on
their values. Where no rate can be critical (`autonomy_live`), thresholds are 0, because
of the first item of the next section.

**Symmetry** is used for drivers, requests, providers, runs, tenants and keys, in runs
without liveness: they differ in nothing but their names.

**Deadlock** is checked except in `client`, `tenancy`, `safe_execution` and `services`,
where calls end and nothing need happen after them.

**Fairness.** Weak fairness of each driver's `Continue`: the event loop runs every
ready continuation, timers fire, the promises of the engine and the probes settle.
None for `Submit`, `Start` and `Stop`. For the offline queue, handlers settle, and
`sync()` is called again while tasks are pending, since the module has no timer. For the
mesh, time passes and nothing more: no code of the repository schedules
`checkStaleNodes()`, so that the embedding calls it again and again is the hypothesis of
`SilentNodesAreRetired`. For a call, its timers
fire, the server and the provider's timers go on, and a body that has begun to arrive
ends (the code has no timer for it). For runs, health checks and attempts settle.
The execution graph, tenancy and the services are checked for safety only.

## Where the code and the documents differ

The first one is a run with a counterexample.

- On the last day of a month usage is recorded outside every month, so a tenant at its
  limit is served (`graph_last_day`; `docs/use-cases/multi-tenant-saas.md`:16).

The others were met while modelling; the models contain them, and the properties
are stated so as to be true of the code.

*Autonomy and offline*
- A critical success rate is for good: in CRITICAL no item runs, so the window of
  results never changes (`system-state.ts`:3 draws a way back).
- Two overlapping `sync()` calls deliver a task twice, and a FAILED task is in no
  later snapshot (`docs/runtime/offline-first-mode.md`:10: replays queued tasks, idempotent).
- A retried item can be started after less urgent ones (only enqueue sorts); the
  capacity check of the queue counts finished items, so a loop refuses all work after
  `maxQueueSize` items; `start()` in a state other than STOPPED sets `running` and
  throws (`StartThrows`).
- A tick that awaited a callback fires the rest late, with the time it began: two firings
  of a schedule may then be told less than an interval apart, or at once. The `taskId` of
  a failed callback may carry the number of another tick's firing (`schedule-registry.ts`:69).

*Execution, mesh and SDK*
- A denied request is learned as a failed run of a provider "DENY". While nothing
  has succeeded, that predicts a rate of 0 for every provider, so nothing is routed any
  more (`docs/repo-os/failure-taxonomy.md`:50: falls back to a healthy provider).
- A `local-only` task is sent to a peer: `calculateScore` answers -1 for every node,
  which only ranks them equal (`mesh/task-routing.ts`:35).
- The body of a response is read after the timer was cleared (`sdk/client.ts`:135), and a
  4xx answer whose body is not JSON is retried, because reading it a second time throws
  something other than a `SawyerError` (139-143, against the comment at 169). The 503
  of `docs/api/error-handling.md`:20 is sent by nobody.
- A success that cannot be audited is reported as a failed inference (`runtime/router.ts`).
- Rotated log files are named by the time, so two rotations within a millisecond keep
  one; `replay()` reads the current file only and adds what is in memory already;
  verification takes the first entry with the run id.

*Money*
- The price of a remote fallback is not held against the budget
  (`docs/repo-os/operator-truth.md`:21), and the cumulative spend of a tenant, which the head
  of `execution-budget.ts` says is enforced, is only recorded.
- Invoices round every record to a cent (`stripe.ts`:210), the bill rounds nothing
  (`operator-truth.md`:23): two tasks of the pro tier are invoiced 2 cents for a cost of 1,
  api calls of the starter tier 0. `InvoiceCoversTheBill` gives the exact tolerance.
- `POST /usage` stores its body without applying `UsageRecordSchema`, which wants a known
  type and a positive quantity (`billing/types.ts`:18). A negative quantity lowers the bill
  (`controller.ts`:99) and is passed over by the invoice (`stripe.ts`:157), so the invoice may
  exceed the bill by all credits. A tier that is replaced reprices what was used before.
- A record refused by `enforceLimits` has been stored.

*Tenants and safety*
- `updateAgentConfig` with a `tenantId` leaves the indexes alone; contexts outlive the
  keys and tenants they were made for; `completeReferral` never looks at the status,
  its callers do; an onboarding reports a referral as used that was cleared meanwhile, and
  two of them may report the same one (`onboarding.ts`:92 drops the result).
- A rule on a circle that no other rule leads to is never evaluated (`rule-graph.ts`:77
  starts from the roots), and a chain of more variables than `MAX_RECURSION` is left
  unresolved without a mark; `OrdersRespectEdges` and `ReferencesAreResolved` say so.
- `fallback()` from a tier that is not listed ignores the memory (no caller does this, and
  the model has listed tiers only); the memory is assessed once per run.

## What is proved

Every theorem holds for all values of the constants that satisfy the named
assumptions (`QueueAssumption`, `HealthAssumption`, `LoopAssumption`,
`OfflineAssumption`, `UsageAssumption`, `GraphAssumption`, `MeshAssumption`,
`TenancyAssumption`, `SafeExecutionAssumption`, for `ApiClient` `ClientAssumption`,
`UsedAssumption` and `ConfigAssumption`, and for `Services` `BillingAssumption`,
`GrowthAssumption`, `SchedulesAssumption`, `ExecutionLogAssumption` and
`PromptsAssumption`).

*Autonomy loop.* `IInv` adds to `TypeOK`, `SingleOwner` and `AttemptsAreHonoured` what
they lack to be inductive: that a new item has not been attempted, and that an item
is executed only within the tick's budget. From it follow `TypeCorrect`,
`ItemsHaveOneOwner` and `AttemptsHonoured`; `VerdictsAreFinal`, because a driver
settles only the item it owns, which is RUNNING; and `LifecycleImplemented`, because
each step maps to a step or a stutter of `WorkLifecycle`. `OneLoopGoesOn`,
`RunningIsStarted` (for a system built in STOPPED), `StoppedIsLeftByStartOnly` and
`AlarmsAreRaised` are about the loop and the state machine: the last one from the
transition table, in which every state but STOPPED leads to CRITICAL.
`UrgentWorkComesFirst` needs `ArrayIsSorted`: whatever stands before an item that was
never tried is more urgent than it. Such an item was pending at the last sort, and an item that
the comparator puts before another has strictly fewer before it (`SortIsStrict`,
from the cardinalities and `ComparatorIsOrder`); later steps leave the array as it is.

*Offline.* `SyncMarksAreReal` joins `SyncingHasOwner` and `ShownSyncIsReal`, which are
proved apart. `IInv` says that a task a call still holds has been enqueued, and that
the deliveries of a task and the calls that still hold it are together no more than
the calls there are. The second is why a task is delivered at most once per call: a
call that delivers it stops holding it, and a later call cannot get it.

*Execution graph.* `QuotaInv` calls a request one that may record a kind of usage if
it has counted that usage below the limit, or counted it for another month, and has
not recorded it yet. In the month that is counted now, what is recorded plus a share
for each such request stays below the limit plus a share for every request; a count
below the limit makes room for all of them (`RoomForAll`), and a record uses up the
share of the request that makes it (`PaidStepKeepsBounds`). `NothingAhead` starts the
next month at 0. `OvershootBounded` follows for any number of requests, tenants and
periods. `TypeOK` alone is not inductive: `RunsAreServed` adds that a routed request
has chosen a provider and met no limit. `LearnedInv` says that nobody but "DENY" is
ever learned to have failed, which gives `CacheIsGenuine` and `ServedTypesStayServed`.

*Mesh.* `AgeIsHonest` is what `SelectableNodesAreFresh` lacks: a node that can be
selected has an age that is over the limit, and is found by the next check, or is not
shorter than its real silence. Reports without a signature and `updateStatus` set the
age back, but also take the node out of selection. `TrailIsTrue` needs that a task that
is out is out at a node.

*Tenancy.* The invariant is kept part by part, as each operation changes one: keys,
configurations, referrals, shares, contexts, tenants and calls. The calls' part says that
between its check and its end a call acts for a tenant. `KeyIndexesAgree`,
`AgentsAreListed` are inductive with their types and make `IndexesAgree`. `ReferralsPayOnce`
joins two invariants: who completed a referral and was told so, and `OnboardingsReport`, that
whoever is told of it otherwise is an onboarding. Contexts are
given by two steps only (`ContextsComeFromTwoSteps`), one of which looks at the status
in the step in which it gives the context; hence `SuspendedTenantsStayOut`.

*Safe execution.* `RoomIsLeft` counts the runs that were allowed for a task and may
still be charged: what is paid plus the greatest price for each of them stays below the
budget plus the greatest price for every run. It survives a new allocation, which
forgets what was paid but not who is under way, and the selection, because whoever
is allowed finds the payments within the budget (`SelectionIsWithinBudget`, from
`BooksAreKept`). `TierIsLargest` says that all larger suitable tiers need more memory
than the one a run has, so the tiers below it contain whatever fits less memory
(`FallbackIsSelection`); that a largest tier exists follows from the well-foundedness of
the natural numbers.

*A call.* `WorkIsBounded` is not inductive: the client may have sent again what the server
has already done. `MessageInv` counts: what was handled and the requests that are on
their way are together no more than the attempts, and a write has one (`MaxAttempts`).
So a request on its way is the only one a write will ever have, nothing was done for it
and nothing answered (`TakenIsPending`), which is what `WriteInv` keeps and
`ResultIsTruthful` says. `TaskInv` counts the other side: a provider starts to infer with
no attempts left over from its health check, and while it infers its attempts are those its
backend was asked in.

*Services.* `IInv` joins an invariant for each service, which the others leave alone
(`ServicesStep`); TLC has checked each of them on the instance of `services` as well.
- *Usage and invoices.* `UsageInv` needs only that a run which has not begun has no
  records of its own. `InvoiceInv` keeps, for a call that adds items, that each of them is on the
  call's own account, has a record of its own, and is priced at rates the tenant had since
  the invoice was created (`seen`, which is finite and contains the present rates); and that a
  record already dealt with has an item, or costs less than half a cent at such rates. Hence
  each record is charged (`Charge`) at rates that were seen. Nothing orders the tiers, so the
  bounds are taken record by record: of finitely many costs one is least and one greatest
  (`BoundsOfSome`), a charge is within half a cent of the debit between them, and the sums
  follow (`ChargesAreNear`).
- *Growth.* `PageInv` adds that a page which was found is still there or is known to have
  been renamed; the views are then added up. `TestInv` adds that a rate is always the one of
  the present counts; that a highest rate exists is shown with the least number of variants
  that have none.
- *Schedules.* `ScheduleInv` says that a registration has kept the pace up to now: its last
  firing, in the time of the tick that fired it, is at least as many intervals after `since`
  as it has fired before (`IsPaced`); that a tick which waits in a callback began no earlier
  than `since` of anything it may meet; and that events tell what was so when they were
  emitted. A tick that fires is due by its own time (`PaceFacts`), and the clock is never
  behind that.
- *Log.* `LogInv` adds `EnginesCount`: an engine counts at least the lines of its own that the
  file holds, and lets no more than `RotateAt - 1` of them in without a rotation. Summed over
  the engines, with the overdue lines, this is `LogIsBounded`. `VerifiedStaysVerified` rests on
  `EntriesGrow`: entries are only added at the end, so the first one of an id stays the first.
- *Rules and prompts.* What a reachable state adds is little: `TextTypes` has the types, and
  that the edges of a document's rules are those between neighbours. The rest is about what
  the recursive walks compute from any graph. A visit is defined because each begins with
  fewer ids unseen (`VisitsUpTo`). It keeps `IsGood`: what has been visited and may be listed
  is listed, once; whatever is below an id that has been visited has been seen; and an id that
  comes before something below it leads back to itself. That something below an id is still on
  the way is how a circle shows, because everything on the way leads to where the walk is
  (`GoodVisit`). So `PostOrderFacts` says what is listed and in which order, for rules and
  fragments alike; in a document each rule is led to from the first (`DocumentsAreLedTo`).
- *References.* `resolve()` is defined because each call is nearer to the limit (`LeftsUpTo`).
  It keeps `IsLeftRightly`: if the variables that a text stands in all refer to what it
  refers to, marks are on circles; and if there are fewer variables than the limit, and one
  was seen at each depth, then the limit is never met, what is left are the unset references
  that can be reached without going through a variable seen before, and a text without marks
  has no circles. At depth 0 nothing has been seen, which is the property for one text;
  what fragments leave together adds up (`UnionIsWhole`).

Induction over data is replaced by a least counterexample: a set for which the sums of the
community modules gave something else would contain a smallest one (`SmallestSet`), and a
walk that went wrong, or was not defined, would have one with the least left to do.

**Only model-checked**: the seven properties that something happens eventually
(`EveryItemSettles`, `AbortedLoopEnds`, `SyncReturns`, `PendingIsTried`,
`SilentNodesAreRetired`, `EveryCallReturns`, `EveryRunEnds`), since liveness under fairness
is out of the prover's reach, and what the violation run refutes. Every invariant and every
action property that a run checks is proved.

## What is not modelled, and the plan

`PROJECT.json` lists every component with what is left out of it. Not modelled:

- *Policy, scores, optimizer, compression, intents*: pure functions of texts and numbers.
  Their verdicts are free choices of the models that use them. Of prompts, the cut to a
  budget of tokens, and fragments whose own id begins with `cycle:`, which
  `recursive-prompt-system.ts`:105 takes for marks and drops; of memory, knowledge packs and tags.
- *Partitions and permissions of contexts, usage reports, payment links, passwords of
  shares*: read or formatted data that nothing else depends on.
- *Command line, UI, governance, marketplace, plugins, scripts*: I/O and catalogues.
- *Rust crates*: `sawyer-agents` does not compile as it stands (`execute()` uses a vector
  it has moved), so there is no behaviour to be faithful to. `sawyer-history` is a
  store of outcomes with a blacklist that ends at a time; the others are a server and a
  command line over these, and pure lookups.

Next: `sawyer-history` with its blacklist, and the policy as operators.
