------------------------ MODULE AutonomyLoop_proofs -------------------------
(***************************************************************************)
(* What AutonomyLoop guarantees for every queue size, every set of         *)
(* drivers and providers and every configuration of thresholds.            *)
(***************************************************************************)
EXTENDS AutonomyLoop, FiniteSetTheorems, SequenceTheorems, TLAPS

USE DEF Item

-----------------------------------------------------------------------------
(* The queue.                                                              *)

QueueInv ==
  /\ QueueTypeOK
  /\ AttemptsAreHonoured
  /\ \A i \in Item : status[i] = "NEW" => attempts[i] = 0

LEMMA CountOfItems == \A S \in SUBSET Item : Cardinality(S) \in Nat
<1>1. IsFiniteSet(Item)
  BY QueueAssumption, FS_Interval
<1> QED
  BY <1>1, FS_Subset, FS_CardinalityType

LEMMA QueueStartsRight == QueueInit => QueueInv
BY QueueAssumption DEF QueueInit, QueueInv, QueueTypeOK, AttemptsAreHonoured, Status

LEMMA EnqueueKeepsQueueInv ==
  ASSUME QueueInv, NEW p \in Priorities, NEW m \in AttemptLimits, Enqueue(p, m)
  PROVE  QueueInv'
<1>1. size \in Item /\ size' = size + 1
  BY QueueAssumption DEF QueueInv, QueueTypeOK, Enqueue
<1>2. status' = [status EXCEPT ![size] = "PENDING"] /\ status' \in [Item -> Status]
  BY <1>1 DEF QueueInv, QueueTypeOK, Enqueue, Status
<1>3. /\ limit' = [limit EXCEPT ![size] = m] /\ limit' \in [Item -> Nat]
      /\ priority' \in [Item -> 0..3]
      /\ attempts' = attempts
  BY <1>1, QueueAssumption DEF QueueInv, QueueTypeOK, Enqueue
<1>4. rank' \in [Item -> Nat]
  <2>1. rank' = SortedRank(status', priority')
    BY DEF Enqueue
  <2> QED
    BY <2>1, CountOfItems DEF SortedRank
<1>5. QueueTypeOK'
  <2>1. \A i \in Item : status'[i] = "NEW" <=> i >= size'
    BY <1>1, <1>2 DEF QueueInv, QueueTypeOK
  <2>2. size' \in 0 .. MaxQueueSize
    BY <1>1, QueueAssumption
  <2>3. attempts' \in [Item -> Nat]
    BY <1>3 DEF QueueInv, QueueTypeOK
  <2> HIDE DEF Item
  <2> QED
    BY <1>2, <1>3, <1>4, <2>1, <2>2, <2>3 DEF QueueTypeOK
<1>6. attempts[size] = 0
  BY <1>1 DEF QueueInv, QueueTypeOK
<1> QED
  BY <1>1, <1>2, <1>3, <1>5, <1>6 DEF QueueInv, QueueTypeOK, AttemptsAreHonoured

LEMMA MarkRunningKeepsQueueInv ==
  ASSUME QueueInv, NEW i \in Item, MarkRunning(i)
  PROVE  QueueInv'
<1>1. CASE status[i] = "PENDING"
  <2>1. /\ status' = [status EXCEPT ![i] = "RUNNING"]
        /\ attempts' = [attempts EXCEPT ![i] = @ + 1]
        /\ UNCHANGED <<size, limit, priority, rank>>
    BY <1>1 DEF MarkRunning
  <2>2. QueueTypeOK'
    BY <1>1, <2>1 DEF QueueInv, QueueTypeOK, Status
  <2> QED
    BY <1>1, <2>1, <2>2 DEF QueueInv, QueueTypeOK, AttemptsAreHonoured
<1>2. CASE status[i] # "PENDING"
  BY <1>2 DEF MarkRunning, queueVars, QueueInv, QueueTypeOK, AttemptsAreHonoured
<1> QED
  BY <1>1, <1>2

LEMMA VerdictKeepsQueueInv ==
  ASSUME QueueInv, NEW i \in Item, status[i] = "RUNNING",
         MarkCompleted(i) \/ MarkFailed(i)
  PROVE  QueueInv'
<1>1. /\ \E s \in {"COMPLETED", "PENDING", "FAILED"} :
           /\ status' = [status EXCEPT ![i] = s]
           /\ s = "PENDING" => attempts[i] < limit[i]
           /\ s = "FAILED" => attempts[i] >= limit[i]
      /\ UNCHANGED <<size, attempts, limit, priority, rank>>
  BY DEF MarkCompleted, MarkFailed, QueueInv, QueueTypeOK
<1>2. QueueTypeOK'
  BY <1>1 DEF QueueInv, QueueTypeOK, Status
<1> QED
  BY <1>1, <1>2 DEF QueueInv, QueueTypeOK, AttemptsAreHonoured

-----------------------------------------------------------------------------
(* The health machinery.                                                   *)

LEMMA RecordResultKeepsWindow ==
  ASSUME HealthTypeOK, NEW ok \in BOOLEAN, RecordResult(ok)
  PROVE  window' \in Seq(BOOLEAN) /\ Len(window') <= FailureWindow
<1> DEFINE grown == Append(window, ok)
<1>1. grown \in Seq(BOOLEAN) /\ Len(grown) = Len(window) + 1 /\ grown # <<>>
  BY DEF HealthTypeOK
<1>2. Tail(grown) \in Seq(BOOLEAN) /\ Len(Tail(grown)) = Len(window)
  BY <1>1, HeadTailProperties, LenProperties DEF HealthTypeOK
<1>3. Len(window) \in Nat /\ Len(window) <= FailureWindow /\ FailureWindow \in Nat
  BY HealthAssumption, LenProperties DEF HealthTypeOK
<1>4. window' = IF Len(grown) > FailureWindow THEN Tail(grown) ELSE grown
  BY DEF RecordResult
<1>5. CASE Len(grown) > FailureWindow
  BY <1>2, <1>3, <1>4, <1>5
<1>6. CASE ~(Len(grown) > FailureWindow)
  <2>1. Len(grown) <= FailureWindow
    BY <1>1, <1>3, <1>6
  <2> QED
    BY <1>1, <1>4, <1>6, <2>1
<1> QED
  BY <1>5, <1>6

LEMMA ReportIsTyped ==
  ASSUME HealthTypeOK, NEW healthy \in SUBSET Providers, NEW pressure \in Pressure
  PROVE  ReportOf(healthy, pressure) \in Report
<1> DEFINE good == {k \in DOMAIN window : window[k]}
<1>1. Len(window) \in Nat /\ DOMAIN window = 1 .. Len(window)
  BY LenProperties DEF HealthTypeOK
<1>2. good \in SUBSET (1 .. Len(window)) /\ IsFiniteSet(1 .. Len(window))
  BY <1>1, FS_Interval
<1>3. Cardinality(good) \in Nat
  BY <1>2, FS_Subset, FS_CardinalityType
<1> QED
  BY <1>1, <1>3 DEF ReportOf, Report

LEMMA EvaluateKeepsHealthTypeOK ==
  ASSUME HealthTypeOK, NEW r \in Report, Evaluate(r)
  PROVE  HealthTypeOK'
<1>1. WantedState(r) \in StateName
  BY DEF WantedState, StateName, HealthTypeOK
<1>2. TrackedAttempts(r) \in [Target -> 0 .. MaxHeal]
  BY HealthAssumption DEF TrackedAttempts, Exhausted, HealthTypeOK
<1>3. [t \in Target |-> 0] \in [Target -> 0 .. MaxHeal]
  BY HealthAssumption
<1> QED
  BY <1>1, <1>2, <1>3 DEF Evaluate, HealthTypeOK

-----------------------------------------------------------------------------
(* The drivers.  IInv is split along the parts that different actions      *)
(* disturb.                                                                *)

DriverTypeOK ==
  /\ running \in BOOLEAN
  /\ tickNumber \in 0 .. HealthEvery - 1
  /\ pc \in [Drivers -> {"idle", "work", "engine", "probe", "heal", "sleep"}]
  /\ lastTick \in [Drivers -> BOOLEAN]
  /\ job \in [Drivers -> Item]
  /\ processed \in [Drivers -> 0 .. MaxTasksPerTick]
  /\ due \in [Drivers -> BOOLEAN]
  /\ report \in [Drivers -> Report]

Parts == QueueInv /\ HealthTypeOK /\ DriverTypeOK /\ SingleOwner /\ WithinBudget

LEMMA PartsOfIInv == IInv <=> Parts
BY DEF IInv, Parts, TypeOK, DriverTypeOK, QueueInv

LEMMA PartsOfIInvPrimed == IInv' <=> Parts'
BY DEF IInv, Parts, TypeOK, DriverTypeOK, QueueInv

LEMMA NoReportIsTyped == NoReport \in Report
BY DEF NoReport, Report, Pressure

LEMMA StartsInParts == Init => Parts
<1> SUFFICES ASSUME Init PROVE Parts
  OBVIOUS
<1>1. QueueInv
  BY QueueStartsRight DEF Init
<1>2. HealthTypeOK
  <2>1. window = <<>> /\ window \in Seq(BOOLEAN) /\ Len(window) = 0
    BY EmptySeq DEF Init
  <2>2. sysState \in StateName
    BY LoopAssumption DEF Init, StateName
  <2> QED
    BY <2>1, <2>2, HealthAssumption DEF Init, HealthTypeOK
<1>3. DriverTypeOK
  <2>1. running \in BOOLEAN /\ lastTick \in [Drivers -> BOOLEAN] /\ due \in [Drivers -> BOOLEAN]
    BY DEF Init
  <2>2. /\ tickNumber \in 0 .. HealthEvery - 1
        /\ job \in [Drivers -> Item]
        /\ processed \in [Drivers -> 0 .. MaxTasksPerTick]
    BY LoopAssumption, QueueAssumption DEF Init
  <2>3. /\ pc \in [Drivers -> {"idle", "work", "engine", "probe", "heal", "sleep"}]
        /\ report \in [Drivers -> Report]
    BY NoReportIsTyped DEF Init
  <2> QED
    BY <2>1, <2>2, <2>3 DEF DriverTypeOK
<1>4. SingleOwner /\ WithinBudget
  <2>1. (\A d \in Drivers : pc[d] = "idle") /\ (\A i \in Item : status[i] = "NEW")
    BY DEF Init, QueueInit
  <2> QED
    BY <2>1 DEF SingleOwner, WithinBudget
<1> QED
  BY <1>1, <1>2, <1>3, <1>4 DEF Parts

LEMMA BeginTickKeepsTypes ==
  ASSUME DriverTypeOK, NEW d \in Drivers, BeginTick(d),
         running' \in BOOLEAN, lastTick' \in [Drivers -> BOOLEAN]
  PROVE  DriverTypeOK'
<1>1. (tickNumber + 1) % HealthEvery \in 0 .. HealthEvery - 1
  BY LoopAssumption DEF DriverTypeOK
<1>2. due' \in [Drivers -> BOOLEAN]
  BY DEF BeginTick, DriverTypeOK
<1>3. processed' \in [Drivers -> 0 .. MaxTasksPerTick]
  BY LoopAssumption DEF BeginTick, DriverTypeOK
<1>4. pc' \in [Drivers -> {"idle", "work", "engine", "probe", "heal", "sleep"}]
  BY DEF BeginTick, DriverTypeOK
<1> QED
  BY <1>1, <1>2, <1>3, <1>4 DEF BeginTick, DriverTypeOK

\* A step within a tick that neither begins nor ends the execution of an item.
LEMMA OtherStepKeepsOwners ==
  ASSUME SingleOwner, WithinBudget, UNCHANGED <<status, job>>,
         \A e \in Drivers : pc'[e] = "engine" <=> pc[e] = "engine",
         \A e \in Drivers : pc[e] = "engine" => processed'[e] = processed[e]
  PROVE  SingleOwner' /\ WithinBudget'
<1>1. SingleOwner'
  BY DEF SingleOwner
<1>2. WithinBudget'
  BY DEF WithinBudget
<1> QED
  BY <1>1, <1>2

\* A driver that is not at the engine starts a tick: nobody's item changes hands.
LEMMA BeginTickKeepsOwners ==
  ASSUME SingleOwner, WithinBudget, DriverTypeOK,
         NEW d \in Drivers, pc[d] # "engine", BeginTick(d), UNCHANGED queueVars
  PROVE  SingleOwner' /\ WithinBudget'
<1>1. \A e \in Drivers : pc'[e] = "engine" <=> pc[e] = "engine"
  BY DEF BeginTick, DriverTypeOK
<1>2. \A e \in Drivers : pc[e] = "engine" => processed'[e] = processed[e]
  BY DEF BeginTick, DriverTypeOK
<1>3. job' = job /\ status' = status
  BY DEF BeginTick, queueVars
<1> QED
  BY <1>1, <1>2, <1>3, OtherStepKeepsOwners

LEMMA QueueUnchanged == QueueInv /\ UNCHANGED queueVars => QueueInv'
BY DEF QueueInv, QueueTypeOK, AttemptsAreHonoured, queueVars

LEMMA TakeItemKeepsParts ==
  ASSUME Parts, NEW d \in Drivers, TakeItem(d)
  PROVE  Parts'
<1>1. PICK i \in Item : IsDequeued(i) /\ MarkRunning(i) /\ job' = [job EXCEPT ![d] = i]
  BY DEF TakeItem
<1>2. status[i] = "PENDING" /\ status' = [status EXCEPT ![i] = "RUNNING"]
  BY <1>1 DEF IsDequeued, Pending, MarkRunning
<1>3. QueueInv'
  BY <1>1, MarkRunningKeepsQueueInv DEF Parts
<1>4. HealthTypeOK'
  BY DEF Parts, TakeItem, healthVars, HealthTypeOK
<1>5. DriverTypeOK'
  BY <1>1 DEF Parts, TakeItem, DriverTypeOK
<1>6. /\ pc[d] = "work" /\ processed[d] < MaxTasksPerTick
      /\ pc' = [pc EXCEPT ![d] = "engine"] /\ processed' = processed
  BY DEF TakeItem, MoreWork
<1>7. SingleOwner'
  <2>1. \A e \in Drivers : pc[e] = "engine" => job[e] # i
    BY <1>2 DEF Parts, SingleOwner
  <2>2. \A e \in Drivers : e # d => pc'[e] = pc[e] /\ job'[e] = job[e]
    BY <1>1, <1>6 DEF Parts, DriverTypeOK
  <2>3. pc'[d] = "engine" /\ job'[d] = i
    BY <1>1, <1>6 DEF Parts, DriverTypeOK
  <2>4. \A j \in Item : status'[j] = IF j = i THEN "RUNNING" ELSE status[j]
    BY <1>2 DEF Parts, QueueInv, QueueTypeOK
  <2> QED
    BY <1>6, <2>1, <2>2, <2>3, <2>4 DEF Parts, SingleOwner
<1>8. WithinBudget'
  BY <1>6 DEF Parts, WithinBudget, DriverTypeOK
<1> QED
  BY <1>3, <1>4, <1>5, <1>7, <1>8 DEF Parts

LEMMA FinishItemKeepsParts ==
  ASSUME Parts, NEW d \in Drivers, NEW ok \in BOOLEAN, FinishItem(d, ok)
  PROVE  Parts'
<1> DEFINE i == job[d]
<1>1. i \in Item /\ status[i] = "RUNNING"
  BY DEF FinishItem, Parts, DriverTypeOK, SingleOwner
<1>2. MarkCompleted(i) \/ MarkFailed(i)
  BY DEF FinishItem
<1>3. QueueInv'
  BY <1>1, <1>2, VerdictKeepsQueueInv DEF Parts
<1>4. HealthTypeOK'
  <2>1. RecordResult(ok) /\ UNCHANGED <<sysState, healAttempts>>
    BY DEF FinishItem
  <2> QED
    BY <2>1, RecordResultKeepsWindow DEF Parts, HealthTypeOK
<1>5. /\ pc[d] = "engine" /\ pc' = [pc EXCEPT ![d] = "work"]
      /\ job' = [job EXCEPT ![d] = 0]
      /\ processed' = [processed EXCEPT ![d] = @ + 1]
  BY DEF FinishItem
<1>6. DriverTypeOK'
  <2>1. processed[d] + 1 \in 0 .. MaxTasksPerTick
    BY <1>5, LoopAssumption DEF Parts, DriverTypeOK, WithinBudget
  <2>2. 0 \in Item
    BY QueueAssumption
  <2> QED
    BY <1>5, <2>1, <2>2 DEF FinishItem, Parts, DriverTypeOK
<1>7. SingleOwner'
  <2>1. \A j \in Item : j # i => status'[j] = status[j]
    BY <1>2 DEF MarkCompleted, MarkFailed, Parts, QueueInv, QueueTypeOK
  <2>2. status'[i] # "RUNNING"
    BY <1>1, <1>2 DEF MarkCompleted, MarkFailed, Parts, QueueInv, QueueTypeOK
  <2>3. \A e \in Drivers : e # d => pc'[e] = pc[e] /\ job'[e] = job[e]
    BY <1>5 DEF Parts, DriverTypeOK
  <2>4. pc'[d] # "engine"
    BY <1>5 DEF Parts, DriverTypeOK
  <2>5. \A e \in Drivers : pc[e] = "engine" /\ job[e] = i => e = d
    BY <1>5 DEF Parts, SingleOwner
  <2> QED
    BY <1>1, <2>1, <2>2, <2>3, <2>4, <2>5 DEF Parts, SingleOwner
<1>8. WithinBudget'
  BY <1>5 DEF Parts, WithinBudget, DriverTypeOK
<1> QED
  BY <1>3, <1>4, <1>6, <1>7, <1>8 DEF Parts

\* The actions that start a tick.
LEMMA TickStartKeepsParts ==
  ASSUME Parts, NEW d \in Drivers, Start(d) \/ ExecuteTick(d) \/ NextTick(d)
  PROVE  Parts'
<1>1. BeginTick(d) /\ UNCHANGED queueVars /\ pc[d] # "engine"
  BY DEF Start, ExecuteTick, NextTick
<1>2. QueueInv'
  BY <1>1, QueueUnchanged DEF Parts
<1>3. HealthTypeOK'
  BY DEF Start, ExecuteTick, NextTick, healthVars, Parts, HealthTypeOK, StateName
<1>4. running' \in BOOLEAN
  BY DEF Start, ExecuteTick, NextTick, Parts, DriverTypeOK
<1>5. lastTick' \in [Drivers -> BOOLEAN]
  BY DEF Start, ExecuteTick, NextTick, Parts, DriverTypeOK
<1>6. DriverTypeOK'
  BY <1>1, <1>4, <1>5, BeginTickKeepsTypes DEF Parts
<1>7. SingleOwner' /\ WithinBudget'
  BY <1>1, BeginTickKeepsOwners DEF Parts
<1> QED
  BY <1>2, <1>3, <1>6, <1>7 DEF Parts

\* The actions that leave the queue and the items in execution alone.
LEMMA OtherDriverStepKeepsParts ==
  ASSUME Parts, NEW d \in Drivers,
         \/ EndWork(d)
         \/ \E healthy \in SUBSET Providers, pressure \in Pressure :
               Collect(d, healthy, pressure)
         \/ Heal(d)
         \/ EndLoop(d)
  PROVE  Parts'
<1>1. /\ UNCHANGED queueVars /\ job' = job /\ running' = running
      /\ lastTick' = lastTick /\ tickNumber' = tickNumber
  BY DEF EndWork, Collect, Heal, EndLoop
<1>2. \E to \in {"idle", "probe", "heal", "sleep"} : pc' = [pc EXCEPT ![d] = to] /\ pc[d] # "engine"
  BY DEF EndWork, Collect, Heal, EndLoop
<1>3. QueueInv'
  BY <1>1, QueueUnchanged DEF Parts
<1>4. HealthTypeOK'
  <2>1. CASE UNCHANGED healthVars
    BY <2>1 DEF healthVars, Parts, HealthTypeOK
  <2>2. CASE Heal(d)
    BY <2>2, EvaluateKeepsHealthTypeOK DEF Heal, Parts, DriverTypeOK
  <2> QED
    BY <2>1, <2>2 DEF EndWork, Collect, EndLoop
<1>5. processed' \in [Drivers -> 0 .. MaxTasksPerTick]
  BY LoopAssumption DEF EndWork, Collect, Heal, EndLoop, Parts, DriverTypeOK
<1>6. due' \in [Drivers -> BOOLEAN]
  BY DEF EndWork, Collect, Heal, EndLoop, Parts, DriverTypeOK
<1>7. report' \in [Drivers -> Report]
  <2>1. CASE report' = report
    BY <2>1 DEF Parts, DriverTypeOK
  <2>2. CASE \E r \in Report : report' = [report EXCEPT ![d] = r]
    BY <2>2 DEF Parts, DriverTypeOK
  <2> QED
    BY <2>1, <2>2, NoReportIsTyped, ReportIsTyped DEF EndWork, Collect, Heal, EndLoop, Parts
<1>8. DriverTypeOK'
  <2>1. pc' \in [Drivers -> {"idle", "work", "engine", "probe", "heal", "sleep"}]
    BY <1>2 DEF Parts, DriverTypeOK
  <2> QED
    BY <1>1, <1>5, <1>6, <1>7, <2>1 DEF Parts, DriverTypeOK
<1>9. SingleOwner' /\ WithinBudget'
  <2>1. \A e \in Drivers : pc'[e] = "engine" <=> pc[e] = "engine"
    BY <1>2 DEF Parts, DriverTypeOK
  <2>2. \A e \in Drivers : pc[e] = "engine" => processed'[e] = processed[e]
    BY <1>2 DEF EndWork, Collect, Heal, EndLoop, Parts, DriverTypeOK
  <2> QED
    BY <1>1, <2>1, <2>2, OtherStepKeepsOwners DEF Parts, queueVars
<1> QED
  BY <1>3, <1>4, <1>8, <1>9 DEF Parts

\* The actions of the callers.
LEMMA CallerStepKeepsParts ==
  ASSUME Parts,
         \/ \E p \in Priorities, m \in AttemptLimits : Submit(p, m)
         \/ StartThrows
         \/ Stop
  PROVE  Parts'
<1>1. CASE \E p \in Priorities, m \in AttemptLimits : Submit(p, m)
  <2>1. PICK p \in Priorities, m \in AttemptLimits : Submit(p, m)
    BY <1>1
  <2>2. QueueInv'
    BY <2>1, EnqueueKeepsQueueInv DEF Submit, Parts
  <2>3. HealthTypeOK' /\ DriverTypeOK' /\ WithinBudget'
    BY <2>1 DEF Submit, healthVars, driverVars, Parts, HealthTypeOK, DriverTypeOK, WithinBudget
  <2>4. SingleOwner'
    <3>1. size \in Item /\ status[size] = "NEW" /\ status' = [status EXCEPT ![size] = "PENDING"]
      BY <2>1, QueueAssumption DEF Submit, Enqueue, Parts, QueueInv, QueueTypeOK
    <3>2. \A i \in Item : status'[i] = "RUNNING" <=> status[i] = "RUNNING"
      BY <3>1 DEF Parts, QueueInv, QueueTypeOK
    <3>3. pc' = pc /\ job' = job
      BY <2>1 DEF Submit, driverVars
    <3> QED
      BY <3>2, <3>3 DEF Parts, SingleOwner
  <2> QED
    BY <2>2, <2>3, <2>4 DEF Parts
<1>2. CASE StartThrows
  BY <1>2, QueueUnchanged, OtherStepKeepsOwners
     DEF StartThrows, healthVars, driverVars, queueVars, Parts, HealthTypeOK, DriverTypeOK
<1>3. CASE Stop
  <2>1. QueueInv'
    BY <1>3, QueueUnchanged DEF Stop, Parts
  <2>2. HealthTypeOK'
    BY <1>3 DEF Stop, Parts, HealthTypeOK, StateName
  <2>3. DriverTypeOK'
    BY <1>3 DEF Stop, Parts, DriverTypeOK
  <2>4. SingleOwner' /\ WithinBudget'
    BY <1>3, OtherStepKeepsOwners DEF Stop, Parts, queueVars
  <2> QED
    BY <2>1, <2>2, <2>3, <2>4 DEF Parts
<1> QED
  BY <1>1, <1>2, <1>3

LEMMA StutterKeepsParts == Parts /\ UNCHANGED vars => Parts'
BY DEF vars, queueVars, healthVars, driverVars, Parts, QueueInv, QueueTypeOK,
       AttemptsAreHonoured, HealthTypeOK, DriverTypeOK, SingleOwner, WithinBudget

LEMMA NextKeepsParts == Parts /\ [Next]_vars => Parts'
<1> SUFFICES ASSUME Parts, [Next]_vars PROVE Parts'
  OBVIOUS
<1>1. ASSUME NEW d \in Drivers, Continue(d) PROVE Parts'
  BY <1>1, TakeItemKeepsParts, FinishItemKeepsParts, TickStartKeepsParts,
     OtherDriverStepKeepsParts DEF Continue
<1>2. ASSUME NEW d \in Drivers, Start(d) \/ ExecuteTick(d) PROVE Parts'
  BY <1>2, TickStartKeepsParts
<1> QED
  BY <1>1, <1>2, CallerStepKeepsParts, StutterKeepsParts DEF Next

-----------------------------------------------------------------------------
\* The inductive invariant holds of every system: types, owners and attempts.
THEOREM InductiveInvariant == Spec => []IInv
<1>1. Init => IInv
  BY StartsInParts, PartsOfIInv
<1>2. IInv /\ [Next]_vars => IInv'
  BY NextKeepsParts, PartsOfIInv, PartsOfIInvPrimed
<1> QED
  BY <1>1, <1>2, PTL DEF Spec

\* Every variable of queue, health machinery and drivers keeps its range: the
\* queue holds exactly the items below its size, a tick stays within its
\* budget, the result window and the healing attempts within theirs.
THEOREM TypeCorrect == Spec => []TypeOK
<1>1. IInv => TypeOK
  BY DEF IInv
<1> QED
  BY <1>1, InductiveInvariant, PTL

\* However ticks overlap, a RUNNING item has exactly one executor.
THEOREM ItemsHaveOneOwner == Spec => []SingleOwner
<1>1. IInv => SingleOwner
  BY DEF IInv
<1> QED
  BY <1>1, InductiveInvariant, PTL

\* No item is given up early or attempted too often.
THEOREM AttemptsHonoured == Spec => []AttemptsAreHonoured
<1>1. IInv => AttemptsAreHonoured
  BY DEF IInv
<1> QED
  BY <1>1, InductiveInvariant, PTL

-----------------------------------------------------------------------------
(* Action properties that rest on the inductive invariant.                 *)

\* A step changes the status of at most one item, along the edges of the life
\* cycle: what TerminalIsFinal and the refinement below have in common.
LEMMA NextFollowsLifecycle ==
  IInv /\ [Next]_vars => [Lifecycle!Next]_(Lifecycle!vars)
<1> SUFFICES ASSUME IInv, [Next]_vars PROVE [Lifecycle!Next]_(Lifecycle!vars)
  OBVIOUS
<1> USE DEF Lifecycle!Next, Lifecycle!vars
<1>1. CASE \E p \in Priorities, m \in AttemptLimits : Submit(p, m)
  <2>1. PICK p \in Priorities, m \in AttemptLimits : Enqueue(p, m)
    BY <1>1 DEF Submit
  <2>2. size \in Item /\ status[size] = "NEW"
    BY <2>1, QueueAssumption DEF Enqueue, IInv, TypeOK, QueueTypeOK
  <2>3. Lifecycle!Accept(size, m)
    BY <2>1, <2>2 DEF Enqueue, Lifecycle!Accept
  <2> QED
    BY <2>2, <2>3
<1>2. ASSUME NEW d \in Drivers, TakeItem(d)
      PROVE  Lifecycle!Next
  <2>1. PICK i \in Item : IsDequeued(i) /\ MarkRunning(i)
    BY <1>2 DEF TakeItem
  <2>2. Lifecycle!Begin(i)
    BY <2>1 DEF IsDequeued, Pending, MarkRunning, Lifecycle!Begin
  <2> QED
    BY <2>2
<1>3. ASSUME NEW d \in Drivers, NEW ok \in BOOLEAN, FinishItem(d, ok)
      PROVE  Lifecycle!Next
  <2> DEFINE i == job[d]
  <2>1. i \in Item /\ status[i] = "RUNNING"
    BY <1>3 DEF FinishItem, IInv, TypeOK, SingleOwner
  <2>2. CASE MarkCompleted(i)
    BY <2>1, <2>2 DEF MarkCompleted, Lifecycle!Complete
  <2>3. CASE MarkFailed(i) /\ attempts[i] < limit[i]
    BY <2>1, <2>3 DEF MarkFailed, Lifecycle!Retry
  <2>4. CASE MarkFailed(i) /\ ~(attempts[i] < limit[i])
    <3>1. attempts[i] >= limit[i]
      BY <2>1, <2>4 DEF IInv, TypeOK, QueueTypeOK
    <3> QED
      BY <2>1, <2>4, <3>1 DEF MarkFailed, Lifecycle!GiveUp
  <2> QED
    BY <1>3, <2>2, <2>3, <2>4 DEF FinishItem
<1>4. CASE UNCHANGED queueVars
  BY <1>4 DEF queueVars
<1>5. ASSUME NEW d \in Drivers, Start(d) \/ ExecuteTick(d) \/ Continue(d)
      PROVE  [Lifecycle!Next]_(Lifecycle!vars)
  BY <1>2, <1>3, <1>4, <1>5
     DEF Continue, Start, ExecuteTick, EndWork, Collect, Heal, NextTick, EndLoop
<1>6. CASE StartThrows \/ Stop \/ UNCHANGED vars
  BY <1>4, <1>6 DEF StartThrows, Stop, vars
<1> QED
  BY <1>1, <1>5, <1>6 DEF Next

\* The queue, as the overlapping drivers use it, implements the life cycle of
\* its items: one attempt at a time, bounded retries, final verdicts.
THEOREM LifecycleImplemented == Spec => ImplementsLifecycle
<1>1. Init => Lifecycle!Init
  BY DEF Init, QueueInit, Lifecycle!Init
<1> QED
  BY <1>1, NextFollowsLifecycle, InductiveInvariant, PTL
     DEF Spec, ImplementsLifecycle, Lifecycle!Spec

\* Nothing a late or duplicate continuation does revises a verdict.
THEOREM VerdictsAreFinal == Spec => TerminalIsFinal
<1>1. IInv /\ [Lifecycle!Next]_(Lifecycle!vars)
        => \A i \in Item : i \in Settled => status'[i] = status[i]
  BY DEF Lifecycle!Next, Lifecycle!vars, Lifecycle!Accept, Lifecycle!Begin,
         Lifecycle!Complete, Lifecycle!Retry, Lifecycle!GiveUp,
         IInv, TypeOK, QueueTypeOK, Settled
<1>2. IInv /\ [Next]_vars => [\A i \in Item : i \in Settled => status'[i] = status[i]]_vars
  BY <1>1, NextFollowsLifecycle
<1> QED
  BY <1>2, InductiveInvariant, PTL DEF Spec, TerminalIsFinal

-----------------------------------------------------------------------------
(* The order of the queue.                                                 *)

Urgent(i, j) == priority[i] < priority[j] \/ (priority[i] = priority[j] /\ i < j)

\* What the last sort has left: an item that was never tried has been pending
\* at that sort, so whatever is ranked before it was pending, too, and is more
\* urgent.  Whatever was tried has a count above 0.
ArrayIsSorted ==
  /\ \A i, j \in Queued :
       status[j] = "PENDING" /\ attempts[j] = 0 /\ i # j /\ rank[i] <= rank[j] => Urgent(i, j)
  /\ \A i \in Item : status[i] = "RUNNING" => attempts[i] > 0

\* The comparator is a strict total order of the queued items.
LEMMA ComparatorIsOrder ==
  ASSUME NEW st, NEW pr \in [Item -> 0..3], NEW i \in Item, NEW j \in Item
  PROVE  /\ ~SortsBefore(i, i, st, pr)
         /\ i # j => SortsBefore(i, j, st, pr) \/ SortsBefore(j, i, st, pr)
         /\ \A k \in Item : SortsBefore(k, j, st, pr) /\ SortsBefore(j, i, st, pr)
                              => SortsBefore(k, i, st, pr)
<1>1. /\ i \in Int /\ j \in Int /\ pr[i] \in Int /\ pr[j] \in Int
      /\ \A k \in Item : k \in Int /\ pr[k] \in Int
  OBVIOUS
<1>2. ~SortsBefore(i, i, st, pr)
  BY <1>1 DEF SortsBefore
<1>3. i # j => SortsBefore(i, j, st, pr) \/ SortsBefore(j, i, st, pr)
  BY <1>1 DEF SortsBefore
<1>4. ASSUME NEW k \in Item, SortsBefore(k, j, st, pr), SortsBefore(j, i, st, pr)
      PROVE  SortsBefore(k, i, st, pr)
  BY <1>1, <1>4 DEF SortsBefore
<1> QED
  BY <1>2, <1>3, <1>4

\* The position of an item is that of none that it comes before.
LEMMA SortIsStrict ==
  ASSUME NEW st, NEW pr \in [Item -> 0..3], NEW i \in Item, NEW j \in Item,
         st[j] # "NEW", SortsBefore(j, i, st, pr)
  PROVE  SortedRank(st, pr)[j] < SortedRank(st, pr)[i]
<1> DEFINE Ahead(x) == {k \in Item : st[k] # "NEW" /\ SortsBefore(k, x, st, pr)}
<1>1. Ahead(i) \in SUBSET Item /\ Ahead(j) \in SUBSET Item
  OBVIOUS
<1>2. IsFiniteSet(Ahead(i))
  <2>1. IsFiniteSet(Item)
    BY QueueAssumption, FS_Interval
  <2> HIDE DEF Ahead
  <2> QED
    BY <1>1, <2>1, FS_Subset
<1>3. j \in Ahead(i) /\ j \notin Ahead(j)
  BY ComparatorIsOrder
<1>4. Ahead(j) \subseteq Ahead(i) \ {j}
  <2> SUFFICES ASSUME NEW k \in Ahead(j) PROVE k \in Ahead(i) /\ k # j
    OBVIOUS
  <2>1. SortsBefore(k, i, st, pr)
    BY ComparatorIsOrder
  <2> QED
    BY <1>3, <2>1
<1>5. SortedRank(st, pr)[i] = Cardinality(Ahead(i)) /\ SortedRank(st, pr)[j] = Cardinality(Ahead(j))
  BY DEF SortedRank
<1> HIDE DEF Ahead
<1>6. IsFiniteSet(Ahead(i) \ {j}) /\ Cardinality(Ahead(i) \ {j}) = Cardinality(Ahead(i)) - 1
  BY <1>2, <1>3, FS_RemoveElement
<1>7. Ahead(j) \in SUBSET (Ahead(i) \ {j})
  BY <1>4
<1>8. Cardinality(Ahead(j)) <= Cardinality(Ahead(i) \ {j})
  BY <1>6, <1>7, FS_Subset
<1>9. Cardinality(Ahead(i)) \in Nat /\ Cardinality(Ahead(j)) \in Nat
  BY <1>1, CountOfItems
<1> QED
  BY <1>5, <1>6, <1>8, <1>9

LEMMA EnqueueSorts ==
  ASSUME QueueInv, ArrayIsSorted, NEW p \in Priorities, NEW m \in AttemptLimits, Enqueue(p, m)
  PROVE  ArrayIsSorted'
<1>1. rank' = SortedRank(status', priority') /\ attempts' = attempts
  BY DEF Enqueue
<1>2. QueueInv'
  BY EnqueueKeepsQueueInv
<1>3. priority' \in [Item -> 0..3]
  BY <1>2 DEF QueueInv, QueueTypeOK
<1>4. \A i \in Item : status'[i] = "RUNNING" => attempts'[i] > 0
  BY <1>1 DEF Enqueue, ArrayIsSorted, QueueInv, QueueTypeOK
<1>5. ASSUME NEW i \in Item, NEW j \in Item, status'[i] # "NEW", status'[j] = "PENDING", i # j,
             rank'[i] <= rank'[j]
      PROVE  Urgent(i, j)'
  <2>1. rank'[i] \in Nat /\ rank'[j] \in Nat
    BY <1>2 DEF QueueInv, QueueTypeOK
  <2>2. PICK st, pr : st = status' /\ pr = priority'
    OBVIOUS
  <2>3. ~SortsBefore(j, i, st, pr)
    <3>1. SortsBefore(j, i, st, pr) => SortedRank(st, pr)[j] < SortedRank(st, pr)[i]
      BY <1>3, <1>5, <2>2, SortIsStrict
    <3> QED
      BY <1>1, <1>5, <2>1, <2>2, <3>1
  <2>4. SortsBefore(i, j, st, pr)
    BY <1>3, <1>5, <2>2, <2>3, ComparatorIsOrder
  <2>5. st[j] = "PENDING"
    BY <1>5, <2>2
  <2>6. pr[i] < pr[j] \/ (pr[i] = pr[j] /\ i < j)
    BY <2>4, <2>5 DEF SortsBefore
  <2> QED
    BY <2>2, <2>6 DEF Urgent
<1> QED
  BY <1>4, <1>5 DEF ArrayIsSorted, Queued

\* Other steps neither sort nor give an item that was tried its count back.
LEMMA ArrayStaysSorted ==
  ASSUME ArrayIsSorted, UNCHANGED <<priority, rank>>,
         \A i \in Item : /\ status'[i] # "NEW" => status[i] # "NEW"
                         /\ status'[i] = "PENDING" /\ attempts'[i] = 0
                              => status[i] = "PENDING" /\ attempts[i] = 0
                         /\ status'[i] = "RUNNING" => attempts'[i] > 0
  PROVE  ArrayIsSorted'
BY DEF ArrayIsSorted, Urgent, Queued

LEMMA StepKeepsArray ==
  ASSUME Parts, ArrayIsSorted, [Next]_vars
  PROVE  ArrayIsSorted'
<1>0. /\ QueueInv
      /\ status \in [Item -> Status] /\ attempts \in [Item -> Nat]
  BY DEF Parts, QueueInv, QueueTypeOK
<1>1. CASE UNCHANGED queueVars
  BY <1>1 DEF queueVars, ArrayIsSorted, Urgent, Queued
<1>2. ASSUME NEW p \in Priorities, NEW m \in AttemptLimits, Submit(p, m) PROVE ArrayIsSorted'
  BY <1>0, <1>2, EnqueueSorts DEF Submit
<1>3. ASSUME NEW d \in Drivers, TakeItem(d) PROVE ArrayIsSorted'
  <2>1. PICK i \in Item : status[i] = "PENDING" /\ MarkRunning(i)
    BY <1>3 DEF TakeItem, IsDequeued, Pending
  <2>2. /\ status' = [status EXCEPT ![i] = "RUNNING"]
        /\ attempts' = [attempts EXCEPT ![i] = @ + 1]
        /\ UNCHANGED <<priority, rank>>
    BY <2>1 DEF MarkRunning
  <2>3. \A j \in Item : status'[j] = IF j = i THEN "RUNNING" ELSE status[j]
    BY <1>0, <2>2
  <2>4. \A j \in Item : attempts'[j] = IF j = i THEN attempts[i] + 1 ELSE attempts[j]
    BY <1>0, <2>2
  <2>5. attempts[i] + 1 > 0
    BY <1>0
  <2> QED
    BY <2>1, <2>2, <2>3, <2>4, <2>5, ArrayStaysSorted DEF ArrayIsSorted
<1>4. ASSUME NEW d \in Drivers, NEW ok \in BOOLEAN, FinishItem(d, ok) PROVE ArrayIsSorted'
  <2>1. PICK i \in Item : status[i] = "RUNNING" /\ (MarkCompleted(i) \/ MarkFailed(i))
    BY <1>4 DEF FinishItem, Parts, DriverTypeOK, SingleOwner
  <2>2. PICK s \in {"COMPLETED", "PENDING", "FAILED"} : status' = [status EXCEPT ![i] = s]
    BY <2>1 DEF MarkCompleted, MarkFailed
  <2>3. UNCHANGED <<attempts, priority, rank>>
    BY <2>1 DEF MarkCompleted, MarkFailed
  <2>4. \A j \in Item : status'[j] = IF j = i THEN s ELSE status[j]
    BY <1>0, <2>2
  <2>5. attempts[i] > 0 /\ attempts[i] # 0
    BY <1>0, <2>1 DEF ArrayIsSorted
  <2> QED
    BY <2>1, <2>3, <2>4, <2>5, ArrayStaysSorted DEF ArrayIsSorted
<1>5. \/ UNCHANGED queueVars
      \/ \E p \in Priorities, m \in AttemptLimits : Submit(p, m)
      \/ \E d \in Drivers : TakeItem(d) \/ \E ok \in BOOLEAN : FinishItem(d, ok)
  BY DEF Next, Continue, StartThrows, Stop, Start, ExecuteTick, EndWork, Collect, Heal, NextTick, EndLoop, vars
<1> QED
  BY <1>1, <1>2, <1>3, <1>4, <1>5

\* An item that is started comes before every pending item that was never tried,
\* although only enqueue sorts the array (task-detector.ts, dequeue()).
THEOREM UrgentWorkComesFirst == Spec => UrgentNewItemsFirst
<1>1. Init => ArrayIsSorted
  BY DEF Init, QueueInit, ArrayIsSorted, Queued
<1>2. IInv /\ ArrayIsSorted /\ [Next]_vars => ArrayIsSorted'
  BY StepKeepsArray, PartsOfIInv
<1>3. IInv /\ ArrayIsSorted /\ [Next]_vars =>
        [\A i, j \in Pending :
           status'[i] = "RUNNING" /\ attempts[j] = 0 /\ j # i =>
             \/ priority[i] < priority[j]
             \/ priority[i] = priority[j] /\ i < j]_vars
  <2> SUFFICES ASSUME IInv, ArrayIsSorted, Next, NEW i \in Pending, NEW j \in Pending,
                      status'[i] = "RUNNING", attempts[j] = 0, j # i
               PROVE  Urgent(i, j)
    BY DEF Urgent
  <2>0. status \in [Item -> Status] /\ i \in Item /\ j \in Item /\ status[i] = "PENDING" /\ status[j] = "PENDING"
    BY DEF IInv, TypeOK, QueueTypeOK, Pending
  <2>1. rank[i] <= rank[j]
    <3>1. PICK d \in Drivers : TakeItem(d)
      <4>1. status' # status
        BY <2>0
      <4>2. ASSUME NEW p \in Priorities, NEW m \in AttemptLimits, Submit(p, m) PROVE FALSE
        <5>1. status' = [status EXCEPT ![size] = "PENDING"]
          BY <4>2 DEF Submit, Enqueue
        <5> QED
          BY <2>0, <5>1
      <4>3. ASSUME NEW d \in Drivers, NEW ok \in BOOLEAN, FinishItem(d, ok) PROVE FALSE
        <5>1. PICK k, s : s # "RUNNING" /\ status' = [status EXCEPT ![k] = s]
          BY <4>3 DEF FinishItem, MarkCompleted, MarkFailed
        <5> QED
          BY <2>0, <5>1
      <4>4. UNCHANGED queueVars => status' = status
        BY DEF queueVars
      <4>5. \/ UNCHANGED queueVars
            \/ \E p \in Priorities, m \in AttemptLimits : Submit(p, m)
            \/ \E d \in Drivers : TakeItem(d) \/ \E ok \in BOOLEAN : FinishItem(d, ok)
        BY DEF Next, Continue, StartThrows, Stop, Start, ExecuteTick, EndWork, Collect, Heal, NextTick, EndLoop
      <4> QED
        BY <4>1, <4>2, <4>3, <4>4, <4>5
    <3>2. PICK k \in Item : IsDequeued(k) /\ MarkRunning(k)
      BY <3>1 DEF TakeItem
    <3>3. k = i
      <4>1. status' = [status EXCEPT ![k] = "RUNNING"]
        BY <3>2 DEF IsDequeued, Pending, MarkRunning
      <4> QED
        BY <2>0, <4>1
    <3> QED
      BY <3>2, <3>3 DEF IsDequeued
  <2> QED
    BY <2>0, <2>1 DEF ArrayIsSorted, Queued
<1> QED
  BY <1>1, <1>2, <1>3, InductiveInvariant, PTL DEF Spec, UrgentNewItemsFirst

-----------------------------------------------------------------------------
(* The loops and the state machine.                                        *)

\* At most one loop goes on after its present tick, and only while the system
\* is running.
THEOREM OneLoopGoesOn == Spec => []AtMostOneLoop
<1>1. Init => AtMostOneLoop
  BY DEF Init, AtMostOneLoop
<1>2. IInv /\ AtMostOneLoop /\ [Next]_vars => AtMostOneLoop'
  <2> SUFFICES ASSUME IInv, AtMostOneLoop, [Next]_vars PROVE AtMostOneLoop'
    OBVIOUS
  <2> USE DEF AtMostOneLoop
  <2>1. ASSUME NEW d \in Drivers, Start(d) PROVE AtMostOneLoop'
    <3>1. \A e \in Drivers : lastTick[e]
      BY <2>1 DEF Start
    <3>2. \A e \in Drivers : ~lastTick'[e] => e = d
      BY <2>1, <3>1 DEF Start, IInv, TypeOK
    <3>3. running' /\ pc'[d] = "work"
      BY <2>1 DEF Start, BeginTick, IInv, TypeOK
    <3> QED
      BY <3>2, <3>3
  <2>2. CASE Stop
    BY <2>2 DEF Stop
  <2>3. ASSUME UNCHANGED lastTick, running => running',
               \A d \in Drivers : ~lastTick[d] => pc'[d] = pc[d] \/ pc'[d] # "idle"
        PROVE  AtMostOneLoop'
    BY <2>3
  <2>4. ASSUME NEW d \in Drivers, ExecuteTick(d) \/ NextTick(d) PROVE AtMostOneLoop'
    BY <2>4, <2>3 DEF ExecuteTick, NextTick, BeginTick, IInv, TypeOK
  <2>5. ASSUME NEW d \in Drivers, NEW to \in {"work", "engine", "probe", "heal", "sleep"},
               UNCHANGED <<lastTick, running>>, pc' = [pc EXCEPT ![d] = to]
        PROVE  AtMostOneLoop'
    BY <2>5, <2>3 DEF IInv, TypeOK
  <2>6. ASSUME NEW d \in Drivers, EndLoop(d) PROVE AtMostOneLoop'
    BY <2>6, <2>3 DEF EndLoop, IInv, TypeOK
  <2>7. ASSUME NEW d \in Drivers, Continue(d) PROVE AtMostOneLoop'
    BY <2>7, <2>4, <2>5, <2>6 DEF Continue, TakeItem, FinishItem, EndWork, Collect, Heal
  <2>8. CASE \/ \E p \in Priorities, m \in AttemptLimits : Submit(p, m)
             \/ StartThrows
             \/ UNCHANGED vars
    BY <2>8, <2>3 DEF Submit, StartThrows, vars, driverVars
  <2> QED
    BY <2>1, <2>2, <2>4, <2>7, <2>8 DEF Next
<1> QED
  BY <1>1, <1>2, InductiveInvariant, PTL DEF Spec

\* What a step may do to the state: only start() leaves STOPPED, only stop()
\* reaches it, and the health check moves between the others.
LEMMA StateSteps ==
  ASSUME TypeOK, [Next]_vars
  PROVE  \/ UNCHANGED <<sysState, running>>
         \/ ~running /\ running' /\ sysState' = "NOMINAL"
         \/ StartThrows
         \/ running /\ ~running' /\ (sysState' = "STOPPED" \/ sysState' = sysState)
         \/ UNCHANGED running /\ sysState # "STOPPED" /\ sysState' # "STOPPED"
<1>1. ASSUME NEW d \in Drivers, Heal(d)
      PROVE  /\ UNCHANGED running
             /\ sysState' = sysState \/ (sysState # "STOPPED" /\ sysState' # "STOPPED")
  <2>1. WantedState(report[d]) # "STOPPED" \/ sysState = "STOPPED"
    BY DEF WantedState
  <2>2. CASE sysState = "STOPPED"
    BY <1>1, <2>2 DEF Heal, Evaluate
  <2>3. CASE sysState # "STOPPED"
    <3>1. sysState' \in {sysState, WantedState(report[d])} /\ running' = running
      BY <1>1 DEF Heal, Evaluate
    <3> QED
      BY <2>1, <2>3, <3>1
  <2> QED
    BY <2>2, <2>3
<1> QED
  BY <1>1 DEF Next, Submit, Start, StartThrows, Stop, ExecuteTick, Continue, TakeItem, FinishItem,
              EndWork, Collect, NextTick, EndLoop, healthVars, vars

\* A system built in STOPPED is running exactly when its state is not STOPPED,
\* and then one of its loops goes on: start() cannot fail half-way.
THEOREM RunningIsStarted ==
  ASSUME InitialState = "STOPPED"
  PROVE  Spec => []RunningIffStarted
<1>1. Init => RunningIffStarted
  BY DEF Init, RunningIffStarted
<1>2. TypeOK /\ RunningIffStarted /\ [Next]_vars => RunningIffStarted'
  <2> SUFFICES ASSUME TypeOK, RunningIffStarted, [Next]_vars PROVE RunningIffStarted'
    OBVIOUS
  <2>1. ~StartThrows
    BY DEF StartThrows, RunningIffStarted, CanTransition, ValidTransitions
  <2>2. ASSUME running, ~running' PROVE sysState' = "STOPPED"
    <3>1. CanTransition("STOPPED")
      BY <2>2 DEF RunningIffStarted, CanTransition, ValidTransitions, TypeOK, HealthTypeOK, StateName
    <3>2. Stop
      BY <2>2 DEF Next, Submit, Start, StartThrows, ExecuteTick, Continue, TakeItem, FinishItem,
                  EndWork, Collect, Heal, NextTick, EndLoop, vars
    <3> QED
      BY <3>1, <3>2 DEF Stop
  <2>3. running' <=> sysState' # "STOPPED"
    BY <2>1, <2>2, StateSteps DEF RunningIffStarted
  <2>4. ASSUME running' PROVE \E d \in Drivers : ~lastTick'[d]
    <3>1. ASSUME NEW d \in Drivers, Start(d) PROVE ~lastTick'[d]
      BY <3>1 DEF Start, TypeOK
    <3>2. ~Stop
      BY <2>4 DEF Stop
    <3>3. (\E d \in Drivers : Start(d)) \/ (lastTick' = lastTick /\ running' = running)
      BY <2>1, <3>2 DEF Next, Submit, ExecuteTick, Continue, TakeItem, FinishItem,
                  EndWork, Collect, Heal, NextTick, EndLoop, driverVars, vars
    <3> QED
      BY <2>4, <3>1, <3>3 DEF RunningIffStarted
  <2> QED
    BY <2>3, <2>4 DEF RunningIffStarted
<1> QED
  BY <1>1, <1>2, TypeCorrect, PTL DEF Spec

\* A stopped system is not revived by the health check of a tick that was in
\* flight when it was stopped.
THEOREM StoppedIsLeftByStartOnly == Spec => StoppedStaysStopped
<1>1. TypeOK /\ [Next]_vars
        => [sysState = "STOPPED" /\ sysState' # "STOPPED" => ~running /\ running']_vars
  BY StateSteps DEF StartThrows, healthVars
<1> QED
  BY <1>1, TypeCorrect, PTL DEF Spec, StoppedStaysStopped

\* The state machine never keeps the healer from announcing what its report
\* calls for, and lets it end an alarm on a clean report only.
THEOREM AlarmsAreRaised == Spec => AlarmIsRaised
<1> DEFINE Raised(d) ==
      pc[d] = "heal" /\ pc'[d] = "sleep" /\ sysState # "STOPPED" =>
        /\ IsCritical(report[d]) => sysState' = "CRITICAL"
        /\ sysState = "CRITICAL" /\ sysState' # "CRITICAL" =>
             sysState' = "RECOVERING" /\ ~IsDegraded(report[d])
<1>1. ASSUME TypeOK, [Next]_vars, NEW d \in Drivers,
             pc[d] = "heal", pc'[d] = "sleep"
      PROVE  Heal(d)
  <2>1. ASSUME NEW e \in Drivers, e # d,
               Start(e) \/ ExecuteTick(e) \/ Continue(e)
        PROVE  pc'[d] = pc[d]
    BY <1>1, <2>1 DEF Start, ExecuteTick, BeginTick, Continue, TakeItem, FinishItem, EndWork,
                Collect, Heal, NextTick, EndLoop, TypeOK
  <2>2. CASE Start(d) \/ ExecuteTick(d) \/ Continue(d)
    BY <1>1, <2>2 DEF Start, ExecuteTick, Continue, TakeItem, FinishItem, EndWork,
                      Collect, NextTick, EndLoop
  <2> QED
    BY <1>1, <2>1, <2>2 DEF Next, Submit, StartThrows, Stop, driverVars, vars
<1>2. ASSUME TypeOK, NEW d \in Drivers, Heal(d), sysState # "STOPPED"
      PROVE  Raised(d)
  <2> DEFINE r == report[d]
  <2>1. sysState' = IF CanTransition(WantedState(r)) THEN WantedState(r) ELSE sysState
    BY <1>2 DEF Heal, Evaluate
  <2>2. sysState \in {"NOMINAL", "DEGRADED", "CRITICAL", "RECOVERING"}
    BY <1>2 DEF TypeOK, HealthTypeOK, StateName
  <2>3. CASE IsCritical(r)
    BY <2>1, <2>2, <2>3 DEF WantedState, CanTransition, ValidTransitions
  <2>4. CASE ~IsCritical(r)
    BY <2>1, <2>2, <2>4 DEF WantedState, CanTransition, ValidTransitions
  <2> QED
    BY <2>3, <2>4
<1>3. TypeOK /\ [Next]_vars => [\A d \in Drivers : Raised(d)]_vars
  BY <1>1, <1>2
<1> QED
  BY <1>3, TypeCorrect, PTL DEF Spec, AlarmIsRaised
=============================================================================
