---------------------------- MODULE AutonomyLoop ----------------------------
(***************************************************************************)
(* AutonomyLoop, WorkflowOrchestrator and what they drive: the work queue  *)
(* (TaskDetector) and the health machinery (SystemHealth).                 *)
(*                                                                         *)
(* The process is one JavaScript thread, so a step is what runs between    *)
(* two awaits.  Every invocation of runLoop, and every direct call of      *)
(* executeTick, is a driver d of its own: stop() does not wait for the     *)
(* tick in flight and start() does not look for one, so several ticks can  *)
(* be under way at once.  pc[d] names the await driver d is suspended at:  *)
(*   work    schedule callbacks, or the return of processNext              *)
(*   engine  engine.execute, for the item job[d]                           *)
(*   probe   healthAggregator.collectHealth, probing the providers         *)
(*   heal    the return of collectHealth, with report[d]                   *)
(*   sleep   the pause between two ticks                                   *)
(***************************************************************************)
EXTENDS TaskDetector, SystemHealth

CONSTANTS Drivers,          \* bounds how many ticks are under way at once
          MaxTasksPerTick,
          HealthEvery,      \* healthCheckIntervalTicks
          InitialState,     \* the state SystemState is in when the loop is built
          DirectTicks       \* is executeTick also called from outside the loop?

ASSUME LoopAssumption ==
  /\ MaxTasksPerTick \in Nat \ {0}
  /\ HealthEvery \in Nat \ {0}
  /\ InitialState \in {"STOPPED", "NOMINAL"}
  /\ DirectTicks \in BOOLEAN

VARIABLES running,
          tickNumber,   \* modulo HealthEvery, all the code uses of it
          pc,
          lastTick,     \* no tick follows: the signal is aborted, or there is no loop
          job,          \* the item driver d executes, 0 outside "engine"
          processed,    \* tasks processed in this tick
          due,          \* this tick's number calls for a health check
          report        \* what collectHealth returned, outside "heal" NoReport

driverVars == <<pc, lastTick, job, processed, due, report>>
vars == <<queueVars, healthVars, running, tickNumber, driverVars>>

NoReport == [healthy |-> {}, pressure |-> "NOMINAL", ok |-> 0, total |-> 0]

Init ==
  /\ QueueInit
  /\ sysState = InitialState
  /\ window = <<>>
  /\ healAttempts = [t \in Target |-> 0]
  /\ running = FALSE
  /\ tickNumber = 0
  /\ pc = [d \in Drivers |-> "idle"]
  /\ lastTick = [d \in Drivers |-> TRUE]
  /\ job = [d \in Drivers |-> 0]
  /\ processed = [d \in Drivers |-> 0]
  /\ due = [d \in Drivers |-> FALSE]
  /\ report = [d \in Drivers |-> NoReport]

-----------------------------------------------------------------------------
\* The synchronous head of executeTick, up to the await of the schedules.
BeginTick(d) ==
  /\ tickNumber' = (tickNumber + 1) % HealthEvery
  /\ due' = [due EXCEPT ![d] = tickNumber = 0]
  /\ processed' = [processed EXCEPT ![d] = 0]
  /\ pc' = [pc EXCEPT ![d] = "work"]
  /\ UNCHANGED <<job, report>>

Submit(p, m) ==
  /\ Enqueue(p, m)
  /\ UNCHANGED <<healthVars, running, tickNumber, driverVars>>

Start(d) ==
  /\ ~running
  /\ pc[d] = "idle"
  /\ CanTransition("NOMINAL")
  /\ running' = TRUE
  /\ sysState' = "NOMINAL"
  /\ lastTick' = [lastTick EXCEPT ![d] = FALSE]
  /\ BeginTick(d)
  /\ UNCHANGED <<queueVars, window, healAttempts>>

\* transition() throws, but running is already set: no loop was started and
\* only stop() makes another start() possible.
StartThrows ==
  /\ ~running
  /\ ~CanTransition("NOMINAL")
  /\ running' = TRUE
  /\ UNCHANGED <<queueVars, healthVars, tickNumber, driverVars>>

\* Mutant of Stop: the loop in flight is not aborted.
StopWithoutAbort ==
  /\ running
  /\ running' = FALSE
  /\ sysState' = IF CanTransition("STOPPED") THEN "STOPPED" ELSE sysState
  /\ UNCHANGED <<queueVars, window, healAttempts, tickNumber, driverVars>>

Stop ==
  /\ running
  /\ running' = FALSE
  /\ lastTick' = [d \in Drivers |-> TRUE]
  /\ sysState' = IF CanTransition("STOPPED") THEN "STOPPED" ELSE sysState
  /\ UNCHANGED <<queueVars, window, healAttempts, tickNumber,
                 pc, job, processed, due, report>>

ExecuteTick(d) ==
  /\ DirectTicks
  /\ pc[d] = "idle"
  /\ BeginTick(d)
  /\ UNCHANGED <<queueVars, healthVars, running, lastTick>>

-----------------------------------------------------------------------------
MoreWork(d) ==
  /\ processed[d] < MaxTasksPerTick
  /\ Pending # {}
  /\ IsOperational

\* processNext up to the await of the engine.
TakeItem(d) ==
  /\ pc[d] = "work"
  /\ MoreWork(d)
  /\ \E i \in Item :
       /\ IsDequeued(i)
       /\ MarkRunning(i)
       /\ job' = [job EXCEPT ![d] = i]
  /\ pc' = [pc EXCEPT ![d] = "engine"]
  /\ UNCHANGED <<healthVars, running, tickNumber, lastTick, processed, due, report>>

\* The engine answered (ok), or denied, degraded or threw.
FinishItem(d, ok) ==
  /\ pc[d] = "engine"
  /\ IF ok THEN MarkCompleted(job[d]) ELSE MarkFailed(job[d])
  /\ RecordResult(ok)
  /\ job' = [job EXCEPT ![d] = 0]
  /\ processed' = [processed EXCEPT ![d] = @ + 1]
  /\ pc' = [pc EXCEPT ![d] = "work"]
  /\ UNCHANGED <<sysState, healAttempts, running, tickNumber, lastTick, due, report>>

EndWork(d) ==
  /\ pc[d] = "work"
  /\ ~MoreWork(d)
  /\ pc' = [pc EXCEPT ![d] = IF due[d] \/ ~IsOperational THEN "probe" ELSE "sleep"]
  /\ UNCHANGED <<queueVars, healthVars, running, tickNumber,
                 lastTick, job, processed, due, report>>

Collect(d, healthy, pressure) ==
  /\ pc[d] = "probe"
  /\ report' = [report EXCEPT ![d] = ReportOf(healthy, pressure)]
  /\ pc' = [pc EXCEPT ![d] = "heal"]
  /\ UNCHANGED <<queueVars, healthVars, running, tickNumber,
                 lastTick, job, processed, due>>

Heal(d) ==
  /\ pc[d] = "heal"
  /\ Evaluate(report[d])
  /\ report' = [report EXCEPT ![d] = NoReport]
  /\ pc' = [pc EXCEPT ![d] = "sleep"]
  /\ UNCHANGED <<queueVars, running, tickNumber, lastTick, job, processed, due>>

\* Mutant of NextTick: the loop does not look at the signal.
NextTickRegardless(d) ==
  /\ pc[d] = "sleep"
  /\ BeginTick(d)
  /\ UNCHANGED <<queueVars, healthVars, running, lastTick>>

\* sleep() resolves, by its timer or because the signal is aborted.
NextTick(d) ==
  /\ pc[d] = "sleep"
  /\ ~lastTick[d]
  /\ BeginTick(d)
  /\ UNCHANGED <<queueVars, healthVars, running, lastTick>>

EndLoop(d) ==
  /\ pc[d] = "sleep"
  /\ lastTick[d]
  /\ pc' = [pc EXCEPT ![d] = "idle"]
  /\ processed' = [processed EXCEPT ![d] = 0]
  /\ due' = [due EXCEPT ![d] = FALSE]
  /\ UNCHANGED <<queueVars, healthVars, running, tickNumber, lastTick, job, report>>

\* What the event loop runs of driver d.
Continue(d) ==
  \/ TakeItem(d)
  \/ \E ok \in BOOLEAN : FinishItem(d, ok)
  \/ EndWork(d)
  \/ \E healthy \in SUBSET Providers, pressure \in Pressure : Collect(d, healthy, pressure)
  \/ Heal(d)
  \/ NextTick(d)
  \/ EndLoop(d)

Next ==
  \/ \E p \in Priorities, m \in AttemptLimits : Submit(p, m)
  \/ StartThrows
  \/ Stop
  \/ \E d \in Drivers : Start(d) \/ ExecuteTick(d) \/ Continue(d)

\* The event loop runs every continuation that is ready, timers fire, and the
\* promises of the engine and of the health probes settle.  Nobody has to
\* submit work or to start or stop the loop.
Fairness == \A d \in Drivers : WF_vars(Continue(d))

Spec     == Init /\ [][Next]_vars
FairSpec == Spec /\ Fairness

-----------------------------------------------------------------------------
TypeOK ==
  /\ QueueTypeOK
  /\ HealthTypeOK
  /\ running \in BOOLEAN
  /\ tickNumber \in 0 .. HealthEvery - 1
  /\ pc \in [Drivers -> {"idle", "work", "engine", "probe", "heal", "sleep"}]
  /\ lastTick \in [Drivers -> BOOLEAN]
  /\ job \in [Drivers -> Item]
  /\ processed \in [Drivers -> 0 .. MaxTasksPerTick]
  /\ due \in [Drivers -> BOOLEAN]
  /\ report \in [Drivers -> Report]

\* A task is executed only within the tick's budget.
WithinBudget ==
  \A d \in Drivers : pc[d] = "engine" => processed[d] < MaxTasksPerTick

\* However many ticks overlap (a stop and a start while one is in flight, a
\* direct executeTick), an item marked RUNNING is being executed by exactly
\* one of them: processNext picks an item and marks it without an await.
SingleOwner ==
  /\ \A i \in Item : status[i] = "RUNNING" <=> \E d \in Drivers : pc[d] = "engine" /\ job[d] = i
  /\ \A d, e \in Drivers :
       pc[d] = "engine" /\ pc[e] = "engine" /\ job[d] = job[e] => d = e

\* A verdict is never revised: markCompleted and markFailed overwrite any
\* status, so this rests on who calls them, and when.
TerminalIsFinal ==
  [][\A i \in Item : i \in Settled => status'[i] = status[i]]_vars

\* Work is taken in order of urgency, and of arrival within a priority, as far
\* as items wait that were never tried: whatever ran, failed or came back since
\* the array was sorted, no item is started before a more urgent new one.
\* (An item that is retried may be passed over: only enqueue sorts.)
UrgentNewItemsFirst ==
  [][\A i, j \in Pending :
       status'[i] = "RUNNING" /\ attempts[j] = 0 /\ j # i =>
         \/ priority[i] < priority[j]
         \/ priority[i] = priority[j] /\ i < j]_vars

\* The inductive invariant behind TypeOK, SingleOwner and AttemptsAreHonoured:
\* that a new item has not been attempted, and the tick's budget, is what the
\* three of them lack.
IInv ==
  /\ TypeOK
  /\ SingleOwner
  /\ AttemptsAreHonoured
  /\ WithinBudget
  /\ \A i \in Item : status[i] = "NEW" => attempts[i] = 0

\* start() refuses a second loop by looking at "running" alone; the loops that
\* will take another tick are what it stands for.  A loop that stop() aborted
\* may still be in its tick.
AtMostOneLoop ==
  /\ \A d, e \in Drivers : ~lastTick[d] /\ ~lastTick[e] => d = e
  /\ \A d \in Drivers : ~lastTick[d] => running /\ pc[d] # "idle"

\* A system that is started exactly when its state says so; what start()
\* leaves behind when it throws is the exception (see the run that begins in
\* NOMINAL), so this is for systems built in STOPPED.
RunningIffStarted ==
  /\ running <=> sysState # "STOPPED"
  /\ running => \E d \in Drivers : ~lastTick[d]

\* Only start() takes the system out of STOPPED: the health check of a tick
\* that was in flight at stop() reports later, and must not revive it.
StoppedStaysStopped ==
  [][sysState = "STOPPED" /\ sysState' # "STOPPED" => ~running /\ running']_vars

\* Whatever the healer wants to announce the state machine lets it announce:
\* a critical report on a system that is not stopped always ends in CRITICAL,
\* and CRITICAL is left only for RECOVERING, on a report without a complaint.
AlarmIsRaised ==
  [][\A d \in Drivers : pc[d] = "heal" /\ pc'[d] = "sleep" /\ sysState # "STOPPED" =>
       /\ IsCritical(report[d]) => sysState' = "CRITICAL"
       /\ sysState = "CRITICAL" /\ sysState' # "CRITICAL" =>
            sysState' = "RECOVERING" /\ ~IsDegraded(report[d])]_vars

\* The queue, as its drivers use it, treats every item as WorkLifecycle says.
Lifecycle == INSTANCE WorkLifecycle WITH Items <- Item, Limits <- AttemptLimits
ImplementsLifecycle == Lifecycle!Spec

\* stop() shuts down cleanly: a loop whose signal is aborted ends.
AbortedLoopEnds == \A d \in Drivers : lastTick[d] ~> pc[d] = "idle"

EventuallyHealthy ==
  <>[](\A d \in Drivers :
         pc[d] = "heal" => report[d].healthy = Providers /\ report[d].pressure = "NOMINAL")

\* A loop that keeps running while the providers are well completes or gives
\* up every item, also one it had to leave because the state was CRITICAL.
\* (Only where no success rate is critical: in CRITICAL no item runs, so that
\* the window which makes the rate critical never changes.)
EveryItemSettles ==
  <>[]running /\ EventuallyHealthy =>
    \A i \in Item : status[i] = "PENDING" ~> i \in Settled

=============================================================================
