----------------------------- MODULE OfflineSync ----------------------------
(***************************************************************************)
(* The offline queue (queue.ts), its statistics (state.ts) and sync(),     *)
(* which replays the queue through the handlers (sync.ts).                 *)
(*                                                                         *)
(* sync() works through the tasks that were pending when it was called and *)
(* suspends at each handler.  Nothing keeps a second sync() from starting  *)
(* meanwhile, so every call s is a process.  A step runs from one handler  *)
(* to the next: the outcome of the last one, the tasks nobody handles, and *)
(* the call of the next handler, or the statistics of the end.             *)
(*                                                                         *)
(* Tasks are numbered in the order they were enqueued, which is the order  *)
(* of the array.  The network state is left out: sync() does not read it.  *)
(***************************************************************************)
EXTENDS Naturals, FiniteSets

CONSTANTS MaxTasks,   \* bounds how many tasks are ever enqueued
          Kinds,      \* task types
          Syncs       \* bounds how many sync() calls overlap

ASSUME OfflineAssumption == MaxTasks \in Nat \ {0} /\ Kinds # {} /\ IsFiniteSet(Syncs)

Task == 1 .. MaxTasks

VARIABLES status,      \* "NEW": not enqueued yet; "SYNCED", "CLEARED": removed
          kind,
          retries,     \* retryCount
          handlers,    \* the kinds with a registered handler
          rest,        \* rest[s]: tasks sync s has not settled; a call is running
                       \* iff there are some, and is at the handler of the least
          anyFailed,   \* failedCount > 0 so far
          pendingTasks, isSyncing,
          delivered    \* handler calls that succeeded, which the remote side sees

stats == <<pendingTasks, isSyncing>>
vars  == <<status, kind, retries, handlers, rest, anyFailed, stats, delivered>>

InQueue == {t \in Task : status[t] \in {"PENDING", "SYNCING", "FAILED"}}

\* Mutant of Pending: tasks nobody handles yet are left for later.
PendingHandled == {t \in Task : status[t] = "PENDING" /\ kind[t] \in handlers}

Pending == {t \in Task : status[t] = "PENDING"}

Active(s)       == rest[s] # {}
IsCurrent(s, t) == t \in rest[s] /\ \A u \in rest[s] : t <= u

Init ==
  /\ status = [t \in Task |-> "NEW"]
  /\ kind = [t \in Task |-> CHOOSE k \in Kinds : TRUE]
  /\ retries = [t \in Task |-> 0]
  /\ handlers = {}
  /\ rest = [s \in Syncs |-> {}]
  /\ anyFailed = [s \in Syncs |-> FALSE]
  /\ pendingTasks = 0
  /\ isSyncing = FALSE
  /\ delivered = [t \in Task |-> 0]

-----------------------------------------------------------------------------
EnqueueTask(t, k) ==
  /\ status[t] = "NEW"
  /\ \A u \in Task : status[u] = "NEW" => t <= u
  /\ status' = [status EXCEPT ![t] = "PENDING"]
  /\ kind' = [kind EXCEPT ![t] = k]
  /\ UNCHANGED <<retries, handlers, rest, anyFailed, stats, delivered>>

RegisterHandler(k) ==
  /\ handlers' = handlers \cup {k}
  /\ UNCHANGED <<status, kind, retries, rest, anyFailed, stats, delivered>>

ClearQueue ==
  /\ status' = [t \in Task |-> IF t \in InQueue THEN "CLEARED" ELSE status[t]]
  /\ UNCHANGED <<kind, retries, handlers, rest, anyFailed, stats, delivered>>

\* Of the tasks "todo": those a sync passes over because nobody handles them,
\* and the one whose handler it calls next.
Skipped(todo) == {t \in todo : \A u \in todo : kind[u] \in handlers => t < u}
Called(todo)  == {t \in todo : /\ kind[t] \in handlers
                               /\ \A u \in todo : kind[u] \in handlers => t <= u}

\* Mutants of StatusAfter: a task that has left the queue is written to; a
\* delivered task is released, not removed.
StatusAfterRegardless(t, todo, failing, done) ==
  IF t \in done THEN "SYNCED"
  ELSE IF t \in failing \cup Skipped(todo) THEN "FAILED"
  ELSE IF t \in Called(todo) THEN "SYNCING" ELSE status[t]

StatusAfterReleased(t, todo, failing, done) ==
  IF t \notin InQueue THEN status[t]
  ELSE IF t \in done THEN "PENDING"
  ELSE IF t \in failing \cup Skipped(todo) THEN "FAILED"
  ELSE IF t \in Called(todo) THEN "SYNCING" ELSE status[t]

\* The status of t once a sync has settled "failing" and "done" and goes on
\* with "todo".  What it writes to a task outside the queue is lost.
StatusAfter(t, todo, failing, done) ==
  IF t \notin InQueue THEN status[t]
  ELSE IF t \in done THEN "SYNCED"
  ELSE IF t \in failing \cup Skipped(todo) THEN "FAILED"
  ELSE IF t \in Called(todo) THEN "SYNCING" ELSE status[t]

\* Mutant of GoOn: a call that is through starts again with the failed tasks.
GoOnAgain(s, todo, failing, done, shown) ==
  LET more == IF todo # {} THEN todo
              ELSE failing \cup {t \in Task : status[t] = "FAILED"}
  IN  /\ status' = [t \in Task |-> StatusAfter(t, more, failing, done)]
      /\ rest' = [rest EXCEPT ![s] = more \ Skipped(more)]
      /\ isSyncing' = (Called(more) # {})
      /\ UNCHANGED <<retries, anyFailed, pendingTasks>>

\* Mutant of GoOn: the statistics are brought up to date in the loop only.
GoOnStillSyncing(s, todo, failing, done, shown) ==
  /\ status' = [t \in Task |-> StatusAfter(t, todo, failing, done)]
  /\ rest' = [rest EXCEPT ![s] = todo \ Skipped(todo)]
  /\ isSyncing' = shown[2]
  /\ UNCHANGED <<retries, anyFailed, pendingTasks>>

\* sync s goes on with the tasks "todo", after the tasks of "failing" failed
\* and those of "done" were removed.  While it runs the statistics are "shown".
GoOn(s, todo, failing, done, shown) ==
  LET failures == failing \cup Skipped(todo)
      failure  == anyFailed[s] \/ failures # {}
      atEnd    == Called(todo) = {}
  IN  /\ status' = [t \in Task |-> StatusAfter(t, todo, failing, done)]
      /\ retries' = [t \in Task |->
                       IF t \in failures \cap InQueue THEN retries[t] + 1 ELSE retries[t]]
      /\ rest' = [rest EXCEPT ![s] = todo \ Skipped(todo)]
      /\ anyFailed' = [anyFailed EXCEPT ![s] = failure /\ ~atEnd]
      /\ pendingTasks' = IF ~atEnd THEN shown[1]
                         ELSE IF failure THEN Cardinality({t \in Task : status'[t] = "PENDING"})
                         ELSE 0
      /\ isSyncing' = IF atEnd THEN FALSE ELSE shown[2]

\* sync() up to its first handler; without a pending task it returns at once.
Sync(s) ==
  /\ ~Active(s)
  /\ Pending # {}
  /\ GoOn(s, Pending, {}, {}, <<Cardinality(Pending), TRUE>>)
  /\ UNCHANGED <<kind, handlers, delivered>>

\* The handler of the current task t answers: true, or false or an exception.
HandlerAnswers(s, t, ok) ==
  /\ IsCurrent(s, t)
  /\ delivered' = IF ok THEN [delivered EXCEPT ![t] = @ + 1] ELSE delivered
  /\ GoOn(s, rest[s] \ {t}, IF ok THEN {} ELSE {t}, IF ok THEN {t} ELSE {}, stats)
  /\ UNCHANGED <<kind, handlers>>

Next ==
  \/ \E t \in Task, k \in Kinds : EnqueueTask(t, k)
  \/ \E k \in Kinds : RegisterHandler(k)
  \/ ClearQueue
  \/ \E s \in Syncs : Sync(s)
  \/ \E s \in Syncs, t \in Task, ok \in BOOLEAN : HandlerAnswers(s, t, ok)

Spec == Init /\ [][Next]_vars

\* Handlers settle, and somebody calls sync() again and again while tasks are
\* pending: the module has no timer of its own.
HandlersSettle == \A s \in Syncs : WF_vars(\E t \in Task, ok \in BOOLEAN : HandlerAnswers(s, t, ok))
SyncsRecur     == \A s \in Syncs : WF_vars(Sync(s))

FairSpec == Spec /\ HandlersSettle /\ SyncsRecur

-----------------------------------------------------------------------------
TypeOK ==
  /\ status \in [Task -> {"NEW", "PENDING", "SYNCING", "FAILED", "SYNCED", "CLEARED"}]
  /\ kind \in [Task -> Kinds]
  /\ retries \in [Task -> Nat]
  /\ handlers \in SUBSET Kinds
  /\ rest \in [Syncs -> SUBSET Task]
  /\ anyFailed \in [Syncs -> BOOLEAN]
  /\ pendingTasks \in Nat
  /\ isSyncing \in BOOLEAN
  /\ delivered \in [Task -> Nat]

\* Whatever overlapping syncs report late, a task the remote side has accepted
\* never comes back into the queue, not even as a failed one.
DeliveredStaysOut ==
  \A t \in Task : delivered[t] > 0 => status[t] \in {"SYNCED", "CLEARED"}

\* No task is stranded in SYNCING, a status that no sync() looks at: some call
\* is at its handler.
SyncingHasOwner ==
  \A t \in Task : status[t] = "SYNCING" => \E s \in Syncs : IsCurrent(s, t)

\* A shown sync is a real one: whichever way the calls end, the display never
\* says "syncing" with none under way.  (The converse fails: the first of two
\* overlapping calls to end clears the flag.)
ShownSyncIsReal == isSyncing => \E s \in Syncs : Active(s)

\* No mark of a sync outlives the calls that may set it.
SyncMarksAreReal == SyncingHasOwner /\ ShownSyncIsReal

\* Overlapping calls may each deliver a task they share, but no call delivers
\* it twice and none that starts after a delivery delivers it again.
DeliveredOncePerCall == \A t \in Task : delivered[t] <= Cardinality(Syncs)

\* sync() returns: it works off the tasks it found, not the ones that keep
\* arriving, and a failed task is not tried again by the same call.
SyncReturns == \A s \in Syncs : Active(s) ~> ~Active(s)

\* A task that is queued while a sync is under way is not forgotten: a later
\* sync takes it.
PendingIsTried == \A t \in Task : status[t] = "PENDING" ~> status[t] # "PENDING"

=============================================================================
