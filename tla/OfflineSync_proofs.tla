------------------------- MODULE OfflineSync_proofs -------------------------
(***************************************************************************)
(* What holds of the offline queue however many sync() calls overlap and   *)
(* however many tasks there are.                                           *)
(***************************************************************************)
EXTENDS OfflineSync, FiniteSetTheorems, TLAPS

USE DEF Task

\* The queue's part of the invariant: syncs hold tasks that were enqueued.
HeldWereEnqueued == \A s \in Syncs : \A t \in rest[s] : status[t] # "NEW"

\* The deliveries of a task and the calls that still hold it are no more than
\* the calls.
Holders(t) == {s \in Syncs : t \in rest[s]}

HoldersBound == \A t \in Task : delivered[t] + Cardinality(Holders(t)) <= Cardinality(Syncs)

IInv ==
  /\ TypeOK
  /\ HeldWereEnqueued
  /\ DeliveredStaysOut
  /\ SyncingHasOwner
  /\ ShownSyncIsReal
  /\ HoldersBound

LEMMA CountOfCalls ==
  ASSUME NEW S \in SUBSET Syncs, NEW R \in SUBSET S
  PROVE  /\ Cardinality(R) \in Nat /\ Cardinality(S) \in Nat /\ Cardinality(Syncs) \in Nat
         /\ Cardinality(R) <= Cardinality(S)
         /\ Cardinality(S) <= Cardinality(Syncs)
         /\ R # S => Cardinality(R) < Cardinality(S)
<1>1. IsFiniteSet(Syncs) /\ IsFiniteSet(S)
  BY OfflineAssumption, FS_Subset
<1>2. IsFiniteSet(R) /\ Cardinality(R) <= Cardinality(S) /\ (Cardinality(R) = Cardinality(S) => R = S)
  BY <1>1, FS_Subset
<1>3. Cardinality(S) <= Cardinality(Syncs)
  BY <1>1, FS_Subset
<1>4. Cardinality(R) \in Nat /\ Cardinality(S) \in Nat /\ Cardinality(Syncs) \in Nat
  BY <1>1, <1>2, FS_CardinalityType
<1> QED
  BY <1>2, <1>3, <1>4

LEMMA CountOfTasks == \A S \in SUBSET Task : Cardinality(S) \in Nat
<1>1. IsFiniteSet(Task)
  BY OfflineAssumption, FS_Interval
<1> QED
  BY <1>1, FS_Subset, FS_CardinalityType

\* What one stretch of a sync does to the queue and to its own work list.
LEMMA GoOnEffect ==
  ASSUME TypeOK, NEW s \in Syncs, NEW todo \in SUBSET Task,
         NEW failing \in SUBSET Task, NEW done \in SUBSET Task,
         NEW shown \in Nat \X BOOLEAN,
         GoOn(s, todo, failing, done, shown)
  PROVE  /\ status' \in [Task -> {"NEW", "PENDING", "SYNCING", "FAILED", "SYNCED", "CLEARED"}]
         /\ \A t \in Task : t \notin InQueue => status'[t] = status[t]
         /\ \A t \in InQueue : t \in done => status'[t] = "SYNCED"
         /\ \A t \in InQueue : t \in failing => status'[t] # "SYNCING"
         /\ \A t \in InQueue : status'[t] # "NEW"
         /\ \A t \in Task : status'[t] = "SYNCING" => status[t] = "SYNCING" \/ IsCurrent(s, t)'
         /\ rest' \in [Syncs -> SUBSET Task]
         /\ rest'[s] \subseteq todo
         /\ \A r \in Syncs : r # s => rest'[r] = rest[r]
         /\ retries' \in [Task -> Nat]
         /\ anyFailed' \in [Syncs -> BOOLEAN]
         /\ pendingTasks' \in Nat
         /\ isSyncing' \in BOOLEAN
         /\ isSyncing' => rest'[s] # {}
<1> DEFINE failures == failing \cup Skipped(todo)
<1>1. status' = [t \in Task |->
                   IF t \notin InQueue THEN status[t]
                   ELSE IF t \in done THEN "SYNCED"
                   ELSE IF t \in failures THEN "FAILED"
                   ELSE IF t \in Called(todo) THEN "SYNCING"
                   ELSE status[t]]
  BY DEF GoOn, StatusAfter
<1>2. rest' = [rest EXCEPT ![s] = todo \ Skipped(todo)]
  BY DEF GoOn
<1>3. rest'[s] = todo \ Skipped(todo) /\ \A r \in Syncs : r # s => rest'[r] = rest[r]
  BY <1>2 DEF TypeOK
<1>4. rest' \in [Syncs -> SUBSET Task]
  BY <1>2 DEF TypeOK
<1>5. \A t \in Called(todo) : IsCurrent(s, t)'
  <2> SUFFICES ASSUME NEW t \in Called(todo)
               PROVE  t \in todo \ Skipped(todo) /\ \A u \in todo \ Skipped(todo) : t <= u
    BY <1>3 DEF IsCurrent
  <2>1. t \in todo \ Skipped(todo)
    BY DEF Called, Skipped
  <2>2. ASSUME NEW u \in todo \ Skipped(todo) PROVE t <= u
    <3>1. PICK v \in todo : kind[v] \in handlers /\ ~(u < v)
      BY DEF Skipped
    <3>2. t <= v /\ t \in Nat /\ u \in Nat /\ v \in Nat
      BY <3>1 DEF Called
    <3> QED
      BY <3>1, <3>2
  <2> QED
    BY <2>1, <2>2
<1> HIDE DEF failures
<1>6. \A t \in Task : status'[t] = "SYNCING" => status[t] = "SYNCING" \/ t \in Called(todo)
  BY <1>1 DEF InQueue
<1>7. /\ \A t \in Task : t \notin InQueue => status'[t] = status[t]
      /\ \A t \in InQueue : t \in done => status'[t] = "SYNCED"
      /\ \A t \in InQueue : status'[t] # "NEW"
  BY <1>1 DEF InQueue
<1>8. \A t \in InQueue : t \in failing => status'[t] # "SYNCING"
  BY <1>1 DEF InQueue, failures
<1>9. status' \in [Task -> {"NEW", "PENDING", "SYNCING", "FAILED", "SYNCED", "CLEARED"}]
  BY <1>1 DEF TypeOK
<1>10. retries' \in [Task -> Nat] /\ anyFailed' \in [Syncs -> BOOLEAN]
  <2>1. retries' \in [Task -> Nat]
    <3>1. retries' = [t \in Task |->
                       IF t \in failures \cap InQueue THEN retries[t] + 1 ELSE retries[t]]
      BY DEF GoOn, failures
    <3>2. \A t \in Task : retries[t] \in Nat /\ retries[t] + 1 \in Nat
      BY DEF TypeOK
    <3> QED
      BY <3>1, <3>2
  <2>2. anyFailed' = [anyFailed EXCEPT ![s] = (anyFailed[s] \/ failures # {}) /\ Called(todo) # {}]
    BY DEF GoOn, failures
  <2>3. ((anyFailed[s] \/ failures # {}) /\ Called(todo) # {}) \in BOOLEAN
    OBVIOUS
  <2> QED
    BY <2>1, <2>2, <2>3 DEF TypeOK
<1>11. pendingTasks' \in Nat /\ isSyncing' \in BOOLEAN
  <2>1. Cardinality({t \in Task : status'[t] = "PENDING"}) \in Nat
    BY CountOfTasks
  <2>2. pendingTasks' \in {shown[1], Cardinality({t \in Task : status'[t] = "PENDING"}), 0}
    BY DEF GoOn
  <2>3. isSyncing' = shown[2] \/ isSyncing' = FALSE
    BY DEF GoOn
  <2>4. shown[1] \in Nat /\ shown[2] \in BOOLEAN
    OBVIOUS
  <2>5. pendingTasks' \in Nat
    BY <2>1, <2>2, <2>4
  <2>6. isSyncing' \in BOOLEAN
    BY <2>3, <2>4
  <2> QED
    BY <2>5, <2>6
<1>12. isSyncing' => rest'[s] # {}
  <2>1. isSyncing' => Called(todo) # {}
    BY DEF GoOn
  <2>2. \A t \in Called(todo) : t \in rest'[s]
    BY <1>3 DEF Called, Skipped
  <2> QED
    BY <2>1, <2>2, Zenon
<1> QED
  BY <1>3, <1>4, <1>5, <1>6, <1>7, <1>8, <1>9, <1>10, <1>11, <1>12

LEMMA StartsRight == Init => IInv
<1>1. Init => TypeOK
  <2>1. (CHOOSE k \in Kinds : TRUE) \in Kinds
    BY OfflineAssumption
  <2>2. Init => kind \in [Task -> Kinds]
    BY <2>1 DEF Init
  <2>3. Init => anyFailed \in [Syncs -> BOOLEAN] /\ isSyncing \in BOOLEAN
    BY DEF Init
  <2> QED
    BY <2>2, <2>3 DEF Init, TypeOK
<1>2. Init => HoldersBound
  <2> SUFFICES ASSUME Init, NEW t \in Task
               PROVE  delivered[t] + Cardinality(Holders(t)) <= Cardinality(Syncs)
    BY DEF HoldersBound
  <2>1. Holders(t) \in SUBSET Syncs /\ delivered[t] = 0
    BY DEF Holders, Init
  <2> QED
    BY <2>1, CountOfCalls
<1> QED
  BY <1>1, <1>2 DEF Init, IInv, HeldWereEnqueued, DeliveredStaysOut, SyncingHasOwner, ShownSyncIsReal

LEMMA SyncKeepsIInv ==
  ASSUME IInv, NEW s \in Syncs, Sync(s)
  PROVE  IInv'
<1>1. <<Cardinality(Pending), TRUE>> \in Nat \X BOOLEAN
  BY CountOfTasks DEF Pending
<1>2. GoOn(s, Pending, {}, {}, <<Cardinality(Pending), TRUE>>) /\ Pending \in SUBSET Task
  BY DEF Sync, Pending
<1> DEFINE Effect(todo) ==
      /\ status' \in [Task -> {"NEW", "PENDING", "SYNCING", "FAILED", "SYNCED", "CLEARED"}]
      /\ \A t \in Task : t \notin InQueue => status'[t] = status[t]
      /\ \A t \in InQueue : status'[t] # "NEW"
      /\ \A t \in Task : status'[t] = "SYNCING" => status[t] = "SYNCING" \/ IsCurrent(s, t)'
      /\ rest' \in [Syncs -> SUBSET Task]
      /\ rest'[s] \subseteq todo
      /\ \A r \in Syncs : r # s => rest'[r] = rest[r]
<1>3. Effect(Pending)
  BY <1>1, <1>2, GoOnEffect DEF IInv
<1>4. /\ retries' \in [Task -> Nat] /\ anyFailed' \in [Syncs -> BOOLEAN]
      /\ pendingTasks' \in Nat /\ isSyncing' \in BOOLEAN
      /\ isSyncing' => rest'[s] # {}
  BY <1>1, <1>2, GoOnEffect DEF IInv
<1>5. UNCHANGED <<kind, handlers, delivered>> /\ rest[s] = {}
  BY DEF Sync, Active
<1>6. TypeOK'
  BY <1>3, <1>4, <1>5 DEF IInv, TypeOK
<1>7. HeldWereEnqueued'
  BY <1>3 DEF IInv, HeldWereEnqueued, InQueue, Pending, TypeOK
<1>8. DeliveredStaysOut'
  BY <1>3, <1>5 DEF IInv, DeliveredStaysOut, InQueue
<1>9. SyncingHasOwner'
  <2> SUFFICES ASSUME NEW t \in Task, status'[t] = "SYNCING"
               PROVE  \E r \in Syncs : IsCurrent(r, t)'
    BY DEF SyncingHasOwner
  <2>1. CASE status[t] = "SYNCING"
    <3>1. PICK r \in Syncs : IsCurrent(r, t)
      BY <2>1 DEF IInv, SyncingHasOwner
    <3>2. r # s
      BY <1>5, <3>1 DEF IsCurrent
    <3> QED
      BY <1>3, <3>1, <3>2 DEF IsCurrent
  <2> QED
    BY <1>3, <2>1
<1>10. ShownSyncIsReal'
  BY <1>4 DEF ShownSyncIsReal, Active
<1>11. HoldersBound'
  <2> SUFFICES ASSUME NEW t \in Task
               PROVE  delivered'[t] + Cardinality(Holders(t)') <= Cardinality(Syncs)
    BY DEF HoldersBound
  <2>1. Holders(t)' \in SUBSET Syncs /\ Holders(t) \in SUBSET Syncs
    BY DEF Holders
  <2>2. CASE t \in Pending
    <3>1. delivered'[t] = 0
      BY <1>5, <2>2 DEF Pending, IInv, TypeOK, DeliveredStaysOut
    <3> QED
      BY <2>1, <3>1, CountOfCalls
  <2>3. CASE t \notin Pending
    <3>1. Holders(t)' \in SUBSET Holders(t)
      BY <1>3, <2>3 DEF Holders
    <3>2. delivered'[t] = delivered[t] /\ delivered[t] \in Nat
      BY <1>5 DEF IInv, TypeOK
    <3>3. delivered[t] + Cardinality(Holders(t)) <= Cardinality(Syncs)
      BY DEF IInv, HoldersBound
    <3>4. /\ Cardinality(Holders(t)') \in Nat /\ Cardinality(Holders(t)) \in Nat
          /\ Cardinality(Syncs) \in Nat /\ Cardinality(Holders(t)') <= Cardinality(Holders(t))
      BY <2>1, <3>1, CountOfCalls
    <3> QED
      BY <3>2, <3>3, <3>4
  <2> QED
    BY <2>2, <2>3
<1> QED
  BY <1>6, <1>7, <1>8, <1>9, <1>10, <1>11 DEF IInv

LEMMA HandlerAnswersKeepsIInv ==
  ASSUME IInv, NEW s \in Syncs, NEW t \in Task, NEW ok \in BOOLEAN, HandlerAnswers(s, t, ok)
  PROVE  IInv'
<1> DEFINE failing == IF ok THEN {} ELSE {t}
           done == IF ok THEN {t} ELSE {}
<1>1. stats \in Nat \X BOOLEAN
  BY DEF IInv, TypeOK, stats
<1>2. /\ GoOn(s, rest[s] \ {t}, failing, done, stats)
      /\ rest[s] \ {t} \in SUBSET Task /\ failing \in SUBSET Task /\ done \in SUBSET Task
  BY DEF HandlerAnswers, IInv, TypeOK
<1> HIDE DEF failing, done
<1>3. /\ status' \in [Task -> {"NEW", "PENDING", "SYNCING", "FAILED", "SYNCED", "CLEARED"}]
      /\ \A u \in Task : u \notin InQueue => status'[u] = status[u]
      /\ \A u \in InQueue : u \in done => status'[u] = "SYNCED"
      /\ \A u \in InQueue : u \in failing => status'[u] # "SYNCING"
      /\ \A u \in InQueue : status'[u] # "NEW"
      /\ \A u \in Task : status'[u] = "SYNCING" => status[u] = "SYNCING" \/ IsCurrent(s, u)'
      /\ rest' \in [Syncs -> SUBSET Task]
      /\ rest'[s] \subseteq rest[s] \ {t}
      /\ \A r \in Syncs : r # s => rest'[r] = rest[r]
      /\ retries' \in [Task -> Nat]
      /\ anyFailed' \in [Syncs -> BOOLEAN]
      /\ pendingTasks' \in Nat
      /\ isSyncing' \in BOOLEAN
      /\ isSyncing' => rest'[s] # {}
  BY <1>1, <1>2, GoOnEffect DEF IInv
<1> USE DEF failing, done
<1>4. /\ UNCHANGED <<kind, handlers>>
      /\ delivered' = IF ok THEN [delivered EXCEPT ![t] = @ + 1] ELSE delivered
      /\ IsCurrent(s, t)
  BY DEF HandlerAnswers
<1>5. status[t] # "NEW"
  BY <1>4 DEF IsCurrent, IInv, HeldWereEnqueued
<1>6. TypeOK'
  BY <1>3, <1>4 DEF IInv, TypeOK
<1>7. HeldWereEnqueued'
  BY <1>3 DEF IInv, HeldWereEnqueued, InQueue, TypeOK
<1>8. DeliveredStaysOut'
  <2> SUFFICES ASSUME NEW u \in Task, delivered'[u] > 0
               PROVE  status'[u] \in {"SYNCED", "CLEARED"}
    BY DEF DeliveredStaysOut
  <2>1. CASE delivered[u] > 0
    BY <1>3, <2>1 DEF IInv, DeliveredStaysOut, InQueue
  <2>2. CASE ~(delivered[u] > 0)
    <3>1. u = t /\ ok
      BY <1>4, <2>2 DEF IInv, TypeOK
    <3>2. CASE t \in InQueue
      BY <1>3, <3>1, <3>2
    <3>3. CASE t \notin InQueue
      BY <1>3, <1>5, <3>1, <3>3 DEF InQueue, IInv, TypeOK
    <3> QED
      BY <3>2, <3>3
  <2> QED
    BY <2>1, <2>2
<1>9. SyncingHasOwner'
  <2> SUFFICES ASSUME NEW u \in Task, status'[u] = "SYNCING"
               PROVE  \E r \in Syncs : IsCurrent(r, u)'
    BY DEF SyncingHasOwner
  <2>1. CASE status[u] = "SYNCING"
    <3>1. PICK r \in Syncs : IsCurrent(r, u)
      BY <2>1 DEF IInv, SyncingHasOwner
    <3>2. u # t
      <4>1. u \in InQueue
        BY <2>1 DEF InQueue
      <4>2. t \in InQueue => status'[t] # "SYNCING"
        BY <1>3
      <4> QED
        BY <4>1, <4>2
    <3>3. r # s
      <4>1. ASSUME IsCurrent(s, u) PROVE u <= t /\ t <= u
        BY <1>4, <4>1 DEF IsCurrent
      <4> QED
        BY <3>1, <3>2, <4>1
    <3> QED
      BY <1>3, <3>1, <3>3 DEF IsCurrent
  <2> QED
    BY <1>3, <2>1
<1>10. ShownSyncIsReal'
  BY <1>3 DEF ShownSyncIsReal, Active
<1>11. HoldersBound'
  <2> SUFFICES ASSUME NEW u \in Task
               PROVE  delivered'[u] + Cardinality(Holders(u)') <= Cardinality(Syncs)
    BY DEF HoldersBound
  <2>1. Holders(u)' \in SUBSET Holders(u) /\ Holders(u) \in SUBSET Syncs
    BY <1>3 DEF Holders
  <2>2. delivered[u] + Cardinality(Holders(u)) <= Cardinality(Syncs) /\ delivered[u] \in Nat
    BY DEF IInv, HoldersBound, TypeOK
  <2>3. /\ Cardinality(Holders(u)') \in Nat /\ Cardinality(Holders(u)) \in Nat
        /\ Cardinality(Syncs) \in Nat /\ Cardinality(Holders(u)') <= Cardinality(Holders(u))
        /\ Holders(u)' # Holders(u) => Cardinality(Holders(u)') < Cardinality(Holders(u))
    BY <2>1, CountOfCalls
  <2>4. CASE u = t
    <3>1. s \in Holders(u) /\ s \notin Holders(u)'
      BY <1>3, <1>4, <2>4 DEF Holders, IsCurrent
    <3>2. delivered'[u] <= delivered[u] + 1 /\ delivered'[u] \in Nat
      BY <1>4, <2>4 DEF IInv, TypeOK
    <3> QED
      BY <2>2, <2>3, <3>1, <3>2
  <2>5. CASE u # t
    <3>1. delivered'[u] = delivered[u]
      BY <1>4, <2>5 DEF IInv, TypeOK
    <3> QED
      BY <2>2, <2>3, <3>1
  <2> QED
    BY <2>4, <2>5
<1> QED
  BY <1>6, <1>7, <1>8, <1>9, <1>10, <1>11 DEF IInv

\* What the callers do: enqueue, register a handler, clear the queue.
LEMMA CallersKeepIInv ==
  ASSUME IInv,
         \/ \E t \in Task, k \in Kinds : EnqueueTask(t, k)
         \/ \E k \in Kinds : RegisterHandler(k)
         \/ ClearQueue
         \/ UNCHANGED vars
  PROVE  IInv'
<1>1. UNCHANGED <<retries, rest, anyFailed, pendingTasks, isSyncing, delivered>>
  BY DEF EnqueueTask, RegisterHandler, ClearQueue, vars, stats
<1>2. /\ status' \in [Task -> {"NEW", "PENDING", "SYNCING", "FAILED", "SYNCED", "CLEARED"}]
      /\ \A t \in Task : status'[t] = status[t] \/ status'[t] \in {"PENDING", "CLEARED"}
      /\ \A t \in Task : status[t] \in {"SYNCED", "CLEARED"} => status'[t] = status[t]
  BY DEF EnqueueTask, RegisterHandler, ClearQueue, vars, InQueue, IInv, TypeOK
<1>3. kind' \in [Task -> Kinds] /\ handlers' \in SUBSET Kinds
  BY DEF EnqueueTask, RegisterHandler, ClearQueue, vars, IInv, TypeOK
<1>4. TypeOK'
  BY <1>1, <1>2, <1>3 DEF IInv, TypeOK
<1>5. HeldWereEnqueued'
  BY <1>1, <1>2 DEF IInv, HeldWereEnqueued, TypeOK
<1>6. DeliveredStaysOut'
  BY <1>1, <1>2 DEF IInv, DeliveredStaysOut
<1>7. SyncingHasOwner'
  BY <1>1, <1>2 DEF IInv, SyncingHasOwner, IsCurrent
<1>8. ShownSyncIsReal' /\ HoldersBound'
  BY <1>1 DEF IInv, ShownSyncIsReal, Active, HoldersBound, Holders
<1> QED
  BY <1>4, <1>5, <1>6, <1>7, <1>8 DEF IInv

\* The inductive invariant: besides the properties themselves, a sync only
\* ever holds tasks that were enqueued, and a delivery uses up a holder.
THEOREM OfflineInvariant == Spec => []IInv
<1>1. IInv /\ [Next]_vars => IInv'
  BY SyncKeepsIInv, HandlerAnswersKeepsIInv, CallersKeepIInv DEF Next
<1> QED
  BY <1>1, StartsRight, PTL DEF Spec

\* Every variable has its type.
THEOREM TypeCorrect == Spec => []TypeOK
<1>1. IInv => TypeOK
  BY DEF IInv
<1> QED
  BY <1>1, OfflineInvariant, PTL

\* A task the remote side accepted never returns to the queue, whatever an
\* overlapping sync still reports of it.
THEOREM AcceptedTasksStayOut == Spec => []DeliveredStaysOut
<1>1. IInv => DeliveredStaysOut
  BY DEF IInv
<1> QED
  BY <1>1, OfflineInvariant, PTL

\* No task is stranded in SYNCING.
THEOREM NoTaskIsStranded == Spec => []SyncingHasOwner
<1>1. IInv => SyncingHasOwner
  BY DEF IInv
<1> QED
  BY <1>1, OfflineInvariant, PTL

\* The display never says "syncing" with no call under way.
THEOREM DisplayIsHonest == Spec => []ShownSyncIsReal
<1>1. IInv => ShownSyncIsReal
  BY DEF IInv
<1> QED
  BY <1>1, OfflineInvariant, PTL

\* No mark of a sync outlives the calls that may set it.
THEOREM MarksAreHonest == Spec => []SyncMarksAreReal
BY NoTaskIsStranded, DisplayIsHonest, PTL DEF SyncMarksAreReal

\* However sync() calls overlap, a task is delivered at most once by each call
\* that held it when it was first delivered, and by no later one.
THEOREM DeliveriesAreBounded == Spec => []DeliveredOncePerCall
<1>1. ASSUME IInv PROVE DeliveredOncePerCall
  <2> SUFFICES ASSUME NEW t \in Task PROVE delivered[t] <= Cardinality(Syncs)
    BY DEF DeliveredOncePerCall
  <2>1. Holders(t) \in SUBSET Syncs
    BY DEF Holders
  <2>2. Cardinality(Holders(t)) \in Nat /\ Cardinality(Syncs) \in Nat
    BY <2>1, CountOfCalls
  <2> QED
    BY <1>1, <2>2 DEF IInv, TypeOK, HoldersBound
<1> QED
  BY <1>1, OfflineInvariant, PTL
=============================================================================
