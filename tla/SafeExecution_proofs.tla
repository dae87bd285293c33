------------------------ MODULE SafeExecution_proofs ------------------------
(***************************************************************************)
(* What holds of runs under a budget, for any number of runs and tasks,    *)
(* any prices and any list of model tiers.                                 *)
(***************************************************************************)
EXTENDS SafeExecution, FiniteSetTheorems, WellFoundedInduction, TLAPS

\* Whoever is under way is for a task, and has an attempt left while it executes.
RunsHaveTasks ==
  \A r \in Run : /\ run[r].pc # "idle" => run[r].task \in Task
                 /\ run[r].pc \in {"selected", "executing"} => run[r].attempts <= MaxRetries

\* The figures of the tracker: as long as a task is not exhausted, all that was
\* paid is recorded.
BooksAreKept ==
  \A t \in Task : /\ spent[t] <= paid[t]
                  /\ t \notin exhausted => spent[t] = paid[t]
                  /\ t \notin allocated => paid[t] = 0

\* The tier of a run is suitable, and all that are larger need more memory.
TierIsLargest ==
  \A r \in Run :
    run[r].pc = "executing" /\ run[r].tier # 0 =>
      /\ run[r].tier \in Suitable
      /\ \A j \in Suitable : j > run[r].tier => Ram[j] > Ram[run[r].tier]

\* The runs that have been allowed for t, and may still be charged.
Allowed(t) == {r \in Run : run[r].pc \in {"selected", "executing", "answered"} /\ run[r].task = t}

\* What OverspendIsBounded lacks to be inductive: there is room for the charges of
\* those that have been allowed.
RoomIsLeft ==
  \A t \in Task \ FallbackAllowed :
    Budget[t] # 0 =>
      paid[t] + Cardinality(Allowed(t)) * MaxCost <= Budget[t] + Cardinality(Run) * MaxCost

IInv ==
  TypeOK /\ RunsHaveTasks /\ BooksAreKept /\ TierIsLargest /\ RoomIsLeft /\ ReportsAreTruthful

RunRecord ==
  [pc : {"idle", "checking", "selected", "executing", "answered"},
   task : Task \cup {NoTask}, unchecked : SUBSET Providers, healthy : SUBSET Providers,
   memoryOk : BOOLEAN, assessed : Pressures, tier : Tiers \cup {0}, attempts : 0 .. MaxRetries + 1,
   last : {"none", "thrown", "degraded", "answered"}, state : DegradedStates, success : BOOLEAN]

BookTypes ==
  /\ allocated \subseteq Task /\ exhausted \subseteq allocated
  /\ spent \in [Task -> Nat] /\ paid \in [Task -> Nat]

LEMMA RecordTypes == /\ TypeOK <=> BookTypes /\ run \in [Run -> RunRecord]
                     /\ TypeOK' <=> BookTypes' /\ run' \in [Run -> RunRecord]
BY DEF TypeOK, BookTypes, RunRecord

-----------------------------------------------------------------------------
(* Counting the runs.                                                      *)

LEMMA Counting ==
  /\ Cardinality(Run) \in Nat
  /\ \A S \in SUBSET Run : /\ Cardinality(S) \in Nat
                           /\ Cardinality(S) * MaxCost \in Nat
                           /\ Cardinality(S) * MaxCost <= Cardinality(Run) * MaxCost
  /\ \A S \in SUBSET Run : \A r \in S :
       Cardinality(S) * MaxCost = Cardinality(S \ {r}) * MaxCost + MaxCost
  /\ \A S \in SUBSET Run : \A T \in SUBSET S : Cardinality(T) * MaxCost <= Cardinality(S) * MaxCost
<1> USE SafeExecutionAssumption
<1>1. \A m, n \in Nat : m <= n => m * MaxCost \in Nat /\ n * MaxCost \in Nat /\ m * MaxCost <= n * MaxCost
  <2>1. \A m, d \in Nat : m * MaxCost \in Nat /\ d * MaxCost \in Nat
                          /\ (m + d) * MaxCost = m * MaxCost + d * MaxCost
    OBVIOUS
  <2>2. \A m, n \in Nat : m <= n => n - m \in Nat /\ n = m + (n - m)
    OBVIOUS
  <2> QED
    BY <2>1, <2>2
<1>2. \A n \in Nat : (n + 1) * MaxCost = n * MaxCost + MaxCost
  OBVIOUS
<1>3. \A S \in SUBSET Run : IsFiniteSet(S) /\ Cardinality(S) \in Nat
  BY FS_Subset, FS_CardinalityType
<1>4. \A S \in SUBSET Run : \A T \in SUBSET S : Cardinality(T) <= Cardinality(S)
  BY <1>3, FS_Subset
<1>5. \A S \in SUBSET Run : \A r \in S : Cardinality(S) = Cardinality(S \ {r}) + 1
  <2> SUFFICES ASSUME NEW S \in SUBSET Run, NEW r \in S
               PROVE  Cardinality(S) = Cardinality(S \ {r}) + 1
    OBVIOUS
  <2>1. Cardinality(S \ {r}) = Cardinality(S) - 1
    BY <1>3, FS_RemoveElement
  <2> QED
    BY <1>3, <2>1
<1>6. Cardinality(Run) \in Nat /\ \A S \in SUBSET Run : Cardinality(S) <= Cardinality(Run)
  BY <1>3, <1>4
<1> QED
  BY <1>1, <1>2, <1>3, <1>4, <1>5, <1>6

-----------------------------------------------------------------------------
(* The tiers.                                                              *)

LEMMA LeastExists == \A T \in SUBSET Nat : T # {} => \E x \in T : \A y \in T : x <= y
<1> SUFFICES ASSUME NEW T \in SUBSET Nat, T # {} PROVE \E x \in T : \A y \in T : x <= y
  OBVIOUS
<1> DEFINE R == {p \in Nat \X Nat : p[1] < p[2]}
<1>1. IsWellFoundedOn(R, Nat)
  BY NatLessThanWellFounded DEF OpToRel
<1>2. PICK x \in T : \A y \in T : <<y, x>> \notin R
  <2> HIDE DEF R
  <2> QED
    BY <1>1, WFMin
<1>3. ASSUME NEW y \in T PROVE x <= y
  <2>1. ~(y < x)
    BY <1>2
  <2> QED
    BY <2>1
<1> QED
  BY <1>3

\* The last of a set of tiers exists, so LargestOf is what its name says.
LEMMA LargestOfTiers ==
  ASSUME NEW is \in SUBSET Tiers, is # {}
  PROVE  LargestOf(is) \in is /\ \A j \in is : j <= LargestOf(is)
<1> DEFINE n == Len(Ram)
           T == {n - i : i \in is}
<1>1. n \in Nat /\ Tiers = 1 .. n
  BY SafeExecutionAssumption DEF Tiers
<1>2. T \in SUBSET Nat /\ T # {}
  <2>1. \A i \in is : n - i \in Nat
    BY <1>1
  <2> QED
    BY <2>1
<1>3. PICK x \in T : \A y \in T : x <= y
  BY <1>2, LeastExists
<1>4. PICK i \in is : x = n - i
  BY <1>3
<1>5. \A j \in is : j <= i
  <2> TAKE j \in is
  <2>1. n - j \in T
    OBVIOUS
  <2>2. n - i <= n - j
    BY <1>3, <1>4, <2>1
  <2> QED
    BY <1>1, <2>2
<1>6. \E m \in is : \A j \in is : j <= m
  BY <1>5
<1> QED
  BY <1>6 DEF LargestOf

LEMMA SelectTierPicksTheLargest ==
  ASSUME NEW free \in Nat
  PROVE  /\ SelectTier(free) \in Tiers \cup {0}
         /\ SelectTier(free) # 0 =>
              /\ SelectTier(free) \in Suitable
              /\ \A j \in Suitable : j > SelectTier(free) => Ram[j] > Ram[SelectTier(free)]
<1> DEFINE is == {i \in Suitable : Fits(i, free)}
           s == SelectTier(free)
<1>1. is \in SUBSET Tiers /\ Suitable \subseteq Tiers /\ Tiers = 1 .. Len(Ram) /\ Len(Ram) \in Nat
      /\ \A i \in Tiers : Ram[i] \in Nat
  BY SafeExecutionAssumption DEF Tiers
<1>2. CASE is = {}
  BY <1>2 DEF SelectTier, LargestOf
<1>3. CASE is # {}
  <2>1. s \in is /\ \A j \in is : j <= s
    BY <1>1, <1>3, LargestOfTiers DEF SelectTier
  <2>2. ASSUME NEW j \in Suitable, j > s PROVE Ram[j] > Ram[s]
    <3>1. j \notin is
      BY <1>1, <2>1, <2>2
    <3> QED
      BY <1>1, <2>1, <3>1 DEF Fits
  <2> QED
    BY <1>1, <2>1, <2>2
<1> QED
  BY <1>2, <1>3

LEMMA FallbackIsSelection ==
  ASSUME TypeOK, TierIsLargest, NEW r \in Run, NEW free \in 0 .. MaxFree,
         run[r].pc = "executing", run[r].tier # 0, ~Fits(run[r].tier, free)
  PROVE  Fallback(run[r].tier, free) = SelectTier(free)
<1> DEFINE i == run[r].tier
<1>1. i \in Suitable /\ \A j \in Suitable : j > i => Ram[j] > Ram[i]
  BY DEF TierIsLargest
<1>2. Suitable \subseteq Tiers /\ Tiers = 1 .. Len(Ram) /\ Len(Ram) \in Nat /\ free \in Nat
      /\ \A j \in Tiers : Ram[j] \in Nat
  BY SafeExecutionAssumption DEF Tiers
<1>3. ASSUME NEW j \in Suitable, Fits(j, free) PROVE j < i
  <2>1. j \in Tiers /\ i \in Tiers
    BY <1>1, <1>2
  <2>2. Ram[j] \in Nat /\ Ram[i] \in Nat /\ j \in Nat /\ i \in Nat
    BY <1>2, <2>1
  <2>3. Ram[j] <= free /\ ~(Ram[i] <= free)
    BY <1>3 DEF Fits
  <2>4. ~(Ram[j] > Ram[i]) /\ Ram[j] # Ram[i]
    <3> HIDE DEF i
    <3> QED
      BY <1>2, <2>2, <2>3
  <2>5. ~(j > i) /\ j # i
    BY <1>1, <2>4
  <2> HIDE DEF i
  <2> QED
    BY <2>2, <2>5
<1>4. {j \in Suitable : j < i /\ Fits(j, free)} = {j \in Suitable : Fits(j, free)}
  BY <1>3
<1> QED
  BY <1>4 DEF Fallback, SelectTier

-----------------------------------------------------------------------------
(* The invariant.                                                          *)

LEMMA InitEstablishesIInv == Init => IInv
<1> SUFFICES ASSUME Init PROVE IInv
  OBVIOUS
<1> USE SafeExecutionAssumption
<1>1. Idle \in RunRecord
  BY DEF Idle, Pressures, DegradedStates, RunRecord
<1>2. TypeOK
  BY <1>1, RecordTypes DEF Init, BookTypes
<1>3. RunsHaveTasks /\ BooksAreKept /\ TierIsLargest /\ ReportsAreTruthful
  BY DEF Init, Idle, RunsHaveTasks, BooksAreKept, TierIsLargest, ReportsAreTruthful
<1>4. RoomIsLeft
  <2> SUFFICES ASSUME NEW t \in Task \ FallbackAllowed
               PROVE  paid[t] + Cardinality(Allowed(t)) * MaxCost
                        <= Budget[t] + Cardinality(Run) * MaxCost
    BY DEF RoomIsLeft
  <2>1. Allowed(t) \in SUBSET Run /\ Run \in SUBSET Run /\ paid[t] = 0 /\ Budget[t] \in Nat
    BY DEF Allowed, Init
  <2> QED
    BY <2>1, Counting
<1> QED
  BY <1>2, <1>3, <1>4 DEF IInv

LEMMA IInvImplies == IInv => /\ TypeOK /\ ChargesAreRecorded /\ OverspendIsBounded
                             /\ ReportsAreTruthful /\ FallbackFindsTheBest
<1> SUFFICES ASSUME IInv PROVE TypeOK /\ ChargesAreRecorded /\ OverspendIsBounded
                               /\ ReportsAreTruthful /\ FallbackFindsTheBest
  OBVIOUS
<1> USE SafeExecutionAssumption DEF IInv
<1>1. ChargesAreRecorded
  BY DEF BooksAreKept, ChargesAreRecorded, TypeOK
<1>2. OverspendIsBounded
  <2> SUFFICES ASSUME NEW t \in allocated \ FallbackAllowed, Budget[t] # 0
               PROVE  paid[t] <= Budget[t] + Cardinality(Run) * MaxCost
    BY DEF OverspendIsBounded
  <2>1. t \in Task \ FallbackAllowed /\ paid[t] \in Nat /\ Budget[t] \in Nat
    BY DEF TypeOK
  <2>2. Allowed(t) \in SUBSET Run /\ Run \in SUBSET Run
    BY DEF Allowed
  <2>3. /\ Cardinality(Allowed(t)) * MaxCost \in Nat
        /\ Cardinality(Run) * MaxCost \in Nat
    BY <2>2, Counting
  <2>4. paid[t] + Cardinality(Allowed(t)) * MaxCost <= Budget[t] + Cardinality(Run) * MaxCost
    BY <2>1 DEF RoomIsLeft
  <2> QED
    BY <2>1, <2>3, <2>4
<1>3. FallbackFindsTheBest
  BY FallbackIsSelection DEF FallbackFindsTheBest
<1> QED
  BY <1>1, <1>2, <1>3

\* A step of a run that pays nothing and is allowed nothing new leaves the room.
LEMMA RoomStaysLeft ==
  ASSUME IInv, NEW t \in Task \ FallbackAllowed, Budget[t] # 0,
         paid'[t] = paid[t] \/ paid'[t] = 0, Allowed(t)' \subseteq Allowed(t)
  PROVE  paid'[t] + Cardinality(Allowed(t)') * MaxCost <= Budget[t] + Cardinality(Run) * MaxCost
<1> DEFINE A == Allowed(t)
           B == Allowed(t)'
<1>1. A \in SUBSET Run /\ B \in SUBSET A /\ Run \in SUBSET Run
  BY DEF Allowed
<1>2. paid[t] + Cardinality(A) * MaxCost <= Budget[t] + Cardinality(Run) * MaxCost
  BY DEF IInv, RoomIsLeft
<1>3. /\ Cardinality(A) * MaxCost \in Nat /\ Cardinality(B) * MaxCost \in Nat
      /\ Cardinality(Run) * MaxCost \in Nat
      /\ Cardinality(B) * MaxCost <= Cardinality(A) * MaxCost
  <2> HIDE DEF A, B
  <2>1. B \in SUBSET Run
    BY <1>1
  <2> QED
    BY <1>1, <2>1, Counting
<1>4. paid[t] \in Nat /\ Budget[t] \in Nat
  BY SafeExecutionAssumption DEF IInv, TypeOK
<1> QED
  BY <1>2, <1>3, <1>4

-----------------------------------------------------------------------------
(* The steps.                                                              *)

\* What must be known of the record that a step of r makes, besides the budgets.
Sound(s) ==
  /\ s \in RunRecord
  /\ s.pc # "idle" => s.task \in Task
  /\ s.pc \in {"selected", "executing"} => s.attempts <= MaxRetries
  /\ s.pc = "executing" /\ s.tier # 0 =>
       /\ s.tier \in Suitable
       /\ \A j \in Suitable : j > s.tier => Ram[j] > Ram[s.tier]
  /\ s.pc = "answered" =>
       /\ s.state = "LOW_MEMORY" <=> s.attempts = 0
       /\ s.state = "MODEL_UNAVAILABLE" <=> s.last = "degraded"
       /\ s.success <=> s.last = "answered"
       /\ s.state = "NOMINAL" => s.success
       /\ s.last = "thrown" => s.attempts = MaxRetries + 1

LEMMA RunsAreSound == IInv => \A r \in Run : Sound(run[r])
BY RecordTypes DEF IInv, TypeOK, RunsHaveTasks, TierIsLargest, ReportsAreTruthful, Sound

LEMMA SoundRunsKeep ==
  ASSUME IInv, NEW r \in Run, NEW s, Sound(s), run' = [run EXCEPT ![r] = s]
  PROVE  /\ run' \in [Run -> RunRecord]
         /\ RunsHaveTasks' /\ TierIsLargest' /\ ReportsAreTruthful'
<1>1. \A q \in Run : Sound(run'[q])
  BY RunsAreSound DEF IInv, TypeOK
<1>2. run' = [q \in Run |-> run'[q]]
  BY DEF IInv, TypeOK
<1> QED
  BY <1>1, <1>2 DEF Sound, RunsHaveTasks, TierIsLargest, ReportsAreTruthful


\* The record that a step of r leaves keeps the invariant where the step pays
\* nothing, and allows nothing new.
LEMMA FreeStep ==
  ASSUME IInv, NEW r \in Run, NEW s, Sound(s), run' = [run EXCEPT ![r] = s],
         UNCHANGED budgetVars,
         s.pc \in {"selected", "executing", "answered"} =>
           run[r].pc \in {"selected", "executing", "answered"} /\ s.task = run[r].task
  PROVE  IInv'
<1>1. TypeOK' /\ RunsHaveTasks' /\ TierIsLargest' /\ ReportsAreTruthful'
  BY SoundRunsKeep, RecordTypes DEF IInv, BookTypes, budgetVars
<1>2. BooksAreKept'
  BY DEF IInv, BooksAreKept, budgetVars
<1>3. RoomIsLeft'
  <2> SUFFICES ASSUME NEW t \in Task \ FallbackAllowed, Budget[t] # 0
               PROVE  paid'[t] + Cardinality(Allowed(t)') * MaxCost
                        <= Budget[t] + Cardinality(Run) * MaxCost
    BY DEF RoomIsLeft
  <2>1. \A q \in Run : run'[q] = IF q = r THEN s ELSE run[q]
    BY DEF IInv, TypeOK
  <2>2. Allowed(t)' \subseteq Allowed(t)
    BY <2>1 DEF Allowed
  <2> QED
    BY <2>2, RoomStaysLeft DEF budgetVars
<1> QED
  BY <1>1, <1>2, <1>3 DEF IInv

LEMMA IdleIsSound == Sound(Idle)
BY SafeExecutionAssumption DEF RunRecord, Idle, Sound, Pressures, DegradedStates

\* How a run ends: End with what the code may report.
LEMMA EndStep ==
  ASSUME IInv, NEW r \in Run, NEW state, NEW success, NEW last, End(r, state, success, last),
         UNCHANGED budgetVars, run[r].pc \in {"selected", "executing"},
         \/ state = "LOW_MEMORY" /\ success = FALSE /\ last = "none"
         \/ /\ run[r].pc = "executing"
            /\ \/ /\ state = "PARTIAL_EXECUTION" /\ success = FALSE /\ last = "thrown"
                  /\ run[r].attempts >= MaxRetries
               \/ state = "MODEL_UNAVAILABLE" /\ success = FALSE /\ last = "degraded"
               \/ state \in {"PARTIAL_EXECUTION", "NOMINAL"} /\ success = TRUE /\ last = "answered"
  PROVE  IInv'
<1> DEFINE n == IF last = "none" THEN 0 ELSE run[r].attempts + 1
           s == [Idle EXCEPT !.pc = "answered", !.task = run[r].task, !.state = state,
                             !.success = success, !.last = last, !.attempts = n]
<1>1. run' = [run EXCEPT ![r] = s]
  BY DEF End
<1>2. run[r].task \in Task /\ (run[r].pc = "executing" => run[r].attempts \in 0 .. MaxRetries)
  BY SafeExecutionAssumption DEF IInv, RunsHaveTasks, TypeOK
<1>3. /\ n \in 0 .. MaxRetries + 1 /\ (n = 0 <=> last = "none")
      /\ last = "thrown" => n = MaxRetries + 1
  BY <1>2, SafeExecutionAssumption
<1>4. Sound(s)
  <2> HIDE DEF n
  <2> QED
    BY <1>2, <1>3, SafeExecutionAssumption DEF RunRecord, Idle, Sound, Pressures, DegradedStates
<1>5. s.pc = "answered" /\ s.task = run[r].task
  BY DEF Idle
<1> HIDE DEF s
<1> QED
  BY <1>1, <1>4, <1>5, FreeStep

LEMMA ExecuteStep ==
  ASSUME IInv, NEW r \in Run, NEW pressure \in Pressures, NEW free \in 0 .. MaxFree,
         SafeExecute(r, pressure, free)
  PROVE  IInv'
<1>1. CASE pressure = "HARD_LIMIT"
  BY <1>1, EndStep DEF SafeExecute
<1>2. CASE pressure # "HARD_LIMIT"
  <2> DEFINE s == [run[r] EXCEPT !.pc = "executing", !.assessed = pressure, !.tier = SelectTier(free)]
  <2>1. run' = [run EXCEPT ![r] = s]
    BY <1>2 DEF SafeExecute, IInv, TypeOK
  <2>2. free \in Nat
    BY SafeExecutionAssumption
  <2>3. Sound(run[r]) /\ run[r].pc = "selected"
    BY RunsAreSound DEF SafeExecute
  <2>4. Sound(s)
    BY <2>2, <2>3, SelectTierPicksTheLargest DEF Sound, RunRecord
  <2>5. s.pc = "executing" /\ s.task = run[r].task
    BY DEF IInv, TypeOK
  <2> HIDE DEF s
  <2> QED
    BY <2>1, <2>3, <2>4, <2>5, FreeStep DEF SafeExecute
<1> QED
  BY <1>1, <1>2

LEMMA DelegateStep ==
  ASSUME IInv, NEW r \in Run, DelegateThrows(r) \/ DelegateDegraded(r) \/ DelegateAnswers(r)
  PROVE  IInv'
<1>1. CASE DelegateThrows(r)
  <2>1. CASE run[r].attempts < MaxRetries
    <3> DEFINE n == run[r].attempts + 1
               s == [run[r] EXCEPT !.attempts = n]
    <3>1. run' = [run EXCEPT ![r] = s]
      BY <1>1, <2>1 DEF DelegateThrows, IInv, TypeOK
    <3>2. Sound(run[r]) /\ run[r].pc = "executing"
      BY <1>1, RunsAreSound DEF DelegateThrows
    <3>5. n \in 0 .. MaxRetries + 1 /\ n <= MaxRetries
      BY <2>1, SafeExecutionAssumption DEF IInv, TypeOK
    <3>3. Sound(s)
      <4> HIDE DEF n
      <4> QED
        BY <3>2, <3>5 DEF Sound, RunRecord
    <3>4. s.pc = "executing" /\ s.task = run[r].task
      BY <3>2 DEF Sound, RunRecord
    <3> HIDE DEF s
    <3> QED
      BY <1>1, <3>1, <3>2, <3>3, <3>4, FreeStep DEF DelegateThrows
  <2>2. CASE ~(run[r].attempts < MaxRetries)
    <3>1. run[r].attempts >= MaxRetries
      BY <2>2, SafeExecutionAssumption DEF IInv, TypeOK
    <3> QED
      BY <1>1, <2>2, <3>1, EndStep DEF DelegateThrows
  <2> QED
    BY <2>1, <2>2
<1>2. CASE DelegateDegraded(r)
  BY <1>2, EndStep DEF DelegateDegraded
<1>3. CASE DelegateAnswers(r)
  <2>1. PICK state \in {"PARTIAL_EXECUTION", "NOMINAL"} : End(r, state, TRUE, "answered")
    BY <1>3 DEF DelegateAnswers
  <2> QED
    BY <1>3, <2>1, EndStep DEF DelegateAnswers
<1> QED
  BY <1>1, <1>2, <1>3

LEMMA SelectStep ==
  ASSUME IInv, NEW r \in Run, NEW t \in Task, NEW memoryOk \in BOOLEAN, Select(r, t, memoryOk)
  PROVE  IInv'
<1> DEFINE s == [Idle EXCEPT !.pc = "checking", !.task = t, !.memoryOk = memoryOk,
                             !.unchecked = Providers]
<1>1. Sound(s) /\ s.pc = "checking"
  BY IdleIsSound DEF Sound, RunRecord
<1>2. run' = [run EXCEPT ![r] = s] /\ UNCHANGED budgetVars
  BY DEF Select
<1> HIDE DEF s
<1> QED
  BY <1>1, <1>2, FreeStep

-----------------------------------------------------------------------------
(* The selection: where the budget is looked at.                           *)

\* A task that must stay on the machine is allowed another run only as long as what
\* it has paid is within its budget.
LEMMA SelectionIsWithinBudget ==
  ASSUME IInv, NEW t \in Task, NEW healthy \in SUBSET Providers, NEW memoryOk \in BOOLEAN,
         NEW q \in Selection(t, healthy, memoryOk), q # NoOne
  PROVE  t \in FallbackAllowed \/ Budget[t] = 0 \/ paid[t] <= Budget[t]
<1> SUFFICES ASSUME t \notin FallbackAllowed, Budget[t] # 0 PROVE paid[t] <= Budget[t]
  OBVIOUS
<1>1. PICK p \in Cheapest(healthy \cap Local) : CanProceed(t, Cost[p])
  BY DEF Selection
<1>2. p \in Providers
  BY <1>1 DEF Cheapest
<1>3. Cost[p] \in Nat /\ Budget[t] \in Nat /\ spent[t] \in Nat
  BY <1>2, SafeExecutionAssumption DEF IInv, TypeOK
<1>4. spent[t] = paid[t] /\ spent[t] + Cost[p] <= Budget[t]
  BY <1>1 DEF CanProceed, IInv, BooksAreKept
<1> QED
  BY <1>3, <1>4

LEMMA HealthCheckStep ==
  ASSUME IInv, NEW r \in Run, NEW p \in Providers, NEW ok \in BOOLEAN, HealthCheck(r, p, ok)
  PROVE  IInv'
<1> DEFINE t == run[r].task
           unchecked == run[r].unchecked \ {p}
           healthy == IF ok THEN run[r].healthy \cup {p} ELSE run[r].healthy
           asking == [run[r] EXCEPT !.unchecked = unchecked, !.healthy = healthy]
           chosen == [Idle EXCEPT !.pc = "selected", !.task = t]
<1>1. Sound(run[r]) /\ run[r].pc = "checking" /\ UNCHANGED budgetVars
  BY RunsAreSound DEF HealthCheck
<1>2. t \in Task /\ healthy \in SUBSET Providers /\ unchecked \in SUBSET Providers
      /\ run[r].memoryOk \in BOOLEAN
  BY <1>1 DEF Sound, RunRecord
<1>3. CASE unchecked # {}
  <2>1. run' = [run EXCEPT ![r] = asking]
    BY <1>3 DEF HealthCheck, IInv, TypeOK
  <2>2. Sound(asking) /\ asking.pc = "checking"
    <3> HIDE DEF unchecked, healthy
    <3> QED
      BY <1>1, <1>2 DEF Sound, RunRecord
  <2> HIDE DEF asking
  <2> QED
    BY <1>1, <2>1, <2>2, FreeStep
<1>4. CASE unchecked = {}
  <2>1. PICK q \in Selection(t, healthy, run[r].memoryOk) :
          run' = [run EXCEPT ![r] = IF q = NoOne THEN Idle ELSE chosen]
    BY <1>4 DEF HealthCheck
  <2>2. CASE q = NoOne
    <3>1. run' = [run EXCEPT ![r] = Idle] /\ Idle.pc = "idle"
      BY <2>1, <2>2 DEF Idle
    <3> QED
      BY <1>1, <3>1, IdleIsSound, FreeStep
  <2>3. CASE q # NoOne
    <3>1. run' = [run EXCEPT ![r] = chosen]
      BY <2>1, <2>3
    <3>2. Sound(chosen) /\ chosen.task = t
      <4>1. Idle.attempts = 0 /\ 0 <= MaxRetries
        BY SafeExecutionAssumption DEF Idle
      <4> QED
        BY <1>2, <4>1, IdleIsSound DEF Sound, RunRecord
    <3>3. TypeOK' /\ RunsHaveTasks' /\ TierIsLargest' /\ ReportsAreTruthful'
      <4> HIDE DEF chosen
      <4> QED
        BY <1>1, <3>1, <3>2, SoundRunsKeep, RecordTypes DEF IInv, BookTypes, budgetVars
    <3>4. BooksAreKept'
      BY <1>1 DEF IInv, BooksAreKept, budgetVars
    <3>5. ASSUME NEW u \in Task \ FallbackAllowed, Budget[u] # 0
          PROVE  paid'[u] + Cardinality(Allowed(u)') * MaxCost
                   <= Budget[u] + Cardinality(Run) * MaxCost
      <4>1. CASE u = t
        <5>1. paid[u] <= Budget[u]
          BY <1>2, <2>3, <3>5, <4>1, SelectionIsWithinBudget
        <5>2. Allowed(u)' \in SUBSET Run /\ Run \in SUBSET Run
          BY DEF Allowed
        <5>3. /\ Cardinality(Allowed(u)') * MaxCost \in Nat
              /\ Cardinality(Run) * MaxCost \in Nat
              /\ Cardinality(Allowed(u)') * MaxCost <= Cardinality(Run) * MaxCost
          <6> DEFINE A == Allowed(u)'
          <6> HIDE DEF A
          <6>1. A \in SUBSET Run /\ Run \in SUBSET Run
            BY <5>2 DEF A
          <6>2. Cardinality(A) * MaxCost \in Nat /\ Cardinality(Run) * MaxCost \in Nat
                /\ Cardinality(A) * MaxCost <= Cardinality(Run) * MaxCost
            BY <6>1, Counting
          <6> QED
            BY <6>2 DEF A
        <5>4. paid[u] \in Nat /\ Budget[u] \in Nat /\ paid'[u] = paid[u]
          BY <1>1, SafeExecutionAssumption DEF IInv, TypeOK, budgetVars
        <5> QED
          BY <5>1, <5>3, <5>4
      <4>2. CASE u # t
        <5>1. \A x \in Run : run'[x] = IF x = r THEN chosen ELSE run[x]
          BY <3>1 DEF IInv, TypeOK
        <5>2. Allowed(u)' \subseteq Allowed(u)
          BY <3>2, <4>2, <5>1 DEF Allowed
        <5> QED
          BY <1>1, <3>5, <5>2, RoomStaysLeft DEF budgetVars
      <4> QED
        BY <4>1, <4>2
    <3>6. RoomIsLeft'
      BY <3>5 DEF RoomIsLeft
    <3> QED
      BY <3>3, <3>4, <3>6 DEF IInv
  <2> QED
    BY <2>2, <2>3
<1> QED
  BY <1>3, <1>4

-----------------------------------------------------------------------------
(* The books.                                                              *)

\* A charge finds the room that its run was given.
LEMMA SettleStep ==
  ASSUME IInv, NEW r \in Run, NEW cost \in 0 .. MaxCost, Settle(r, cost)
  PROVE  IInv'
<1> DEFINE t == run[r].task
<1> USE SafeExecutionAssumption
<1>1. /\ run[r].pc = "answered" /\ t \in Task /\ cost \in Nat /\ cost <= MaxCost
      /\ allocated' = allocated /\ run' = [run EXCEPT ![r] = Idle]
  BY DEF Settle, IInv, RunsHaveTasks
<1>2. run' \in [Run -> RunRecord] /\ RunsHaveTasks' /\ TierIsLargest' /\ ReportsAreTruthful'
  BY <1>1, IdleIsSound, SoundRunsKeep
<1>3. /\ BookTypes' /\ BooksAreKept'
      /\ \A u \in Task : paid'[u] = paid[u] \/ (u = t /\ paid'[u] = paid[u] + cost)
  <2> HIDE DEF t
  <2>0. BookTypes /\ BooksAreKept
    BY RecordTypes DEF IInv
  <2>1. CASE t \in allocated /\ RecordSpend(t, cost) /\ paid' = [paid EXCEPT ![t] = @ + cost]
    <3>1. CASE t \in exhausted
      <4>1. UNCHANGED <<spent, exhausted>>
        BY <2>1, <3>1 DEF RecordSpend
      <4> QED
        BY <1>1, <2>0, <2>1, <3>1, <4>1 DEF BookTypes, BooksAreKept
    <3>2. CASE t \notin exhausted
      <4>1. spent' = [spent EXCEPT ![t] = @ + cost] /\ exhausted' \in {exhausted, exhausted \cup {t}}
        BY <2>1, <3>2 DEF RecordSpend
      <4> QED
        BY <1>1, <2>0, <2>1, <3>2, <4>1 DEF BookTypes, BooksAreKept
    <3> QED
      BY <3>1, <3>2
  <2>2. CASE UNCHANGED <<spent, exhausted, paid>>
    BY <1>1, <2>0, <2>2 DEF BookTypes, BooksAreKept
  <2>3. ASSUME RecordSpend(t, cost), paid' = [paid EXCEPT ![t] = IF t \in allocated THEN @ + cost ELSE @]
        PROVE  \/ t \in allocated /\ paid' = [paid EXCEPT ![t] = @ + cost]
               \/ UNCHANGED <<spent, exhausted, paid>>
    BY <1>1, <2>0, <2>3 DEF RecordSpend, BookTypes
  <2> QED
    BY <2>1, <2>2, <2>3 DEF Settle, t
<1>4. ASSUME NEW u \in Task \ FallbackAllowed, Budget[u] # 0
      PROVE  paid'[u] + Cardinality(Allowed(u)') * MaxCost
               <= Budget[u] + Cardinality(Run) * MaxCost
  <2>1. \A q \in Run : run'[q] = IF q = r THEN Idle ELSE run[q]
    BY <1>1 DEF IInv, TypeOK
  <2>2. Allowed(u)' = Allowed(u) \ {r} /\ Allowed(u) \in SUBSET Run
    BY <2>1 DEF Allowed, Idle
  <2>3. CASE u # t
    BY <1>3, <1>4, <2>2, <2>3, RoomStaysLeft
  <2>4. CASE u = t
    <3>1. r \in Allowed(u)
      BY <1>1, <2>4 DEF Allowed
    <3>2. Cardinality(Allowed(u)) * MaxCost = Cardinality(Allowed(u) \ {r}) * MaxCost + MaxCost
      BY <2>2, <3>1, Counting
    <3>3. /\ Cardinality(Allowed(u) \ {r}) * MaxCost \in Nat
          /\ Cardinality(Run) * MaxCost \in Nat
      <4>1. Allowed(u) \ {r} \in SUBSET Run /\ Run \in SUBSET Run
        BY <2>2
      <4> QED
        BY <4>1, Counting
    <3>4. paid[u] + Cardinality(Allowed(u)) * MaxCost <= Budget[u] + Cardinality(Run) * MaxCost
      BY <1>4 DEF IInv, RoomIsLeft
    <3>5. paid[u] \in Nat /\ paid'[u] \in Nat /\ paid'[u] <= paid[u] + cost /\ Budget[u] \in Nat
      <4>1. BookTypes /\ u \in Task
        BY RecordTypes DEF IInv
      <4>2. paid[u] \in Nat /\ paid'[u] \in Nat /\ Budget[u] \in Nat
        BY <1>3, <4>1 DEF BookTypes
      <4>3. paid'[u] = paid[u] \/ paid'[u] = paid[u] + cost
        BY <1>3, <4>1
      <4> QED
        BY <1>1, <4>2, <4>3
    <3>6. Cardinality(Allowed(u)') = Cardinality(Allowed(u) \ {r})
      BY <2>2
    <3> QED
      BY <1>1, <3>2, <3>3, <3>4, <3>5, <3>6
  <2> QED
    BY <2>3, <2>4
<1> QED
  BY <1>2, <1>3, <1>4, RecordTypes DEF IInv, RoomIsLeft

\* A new allocation forgets what was paid, not who is under way.
LEMMA AllocationStep ==
  ASSUME IInv, NEW t \in Task, Allocate(t) \/ Clear(t)
  PROVE  IInv'
<1>1. UNCHANGED run
  BY DEF Allocate, Clear
<1>2. TypeOK' /\ BooksAreKept' /\ \A u \in Task : paid'[u] = paid[u] \/ paid'[u] = 0
  BY DEF Allocate, Clear, IInv, TypeOK, BooksAreKept
<1>3. RunsHaveTasks' /\ TierIsLargest' /\ ReportsAreTruthful'
  BY <1>1 DEF IInv, RunsHaveTasks, TierIsLargest, ReportsAreTruthful
<1>4. RoomIsLeft'
  <2> SUFFICES ASSUME NEW u \in Task \ FallbackAllowed, Budget[u] # 0
               PROVE  paid'[u] + Cardinality(Allowed(u)') * MaxCost
                        <= Budget[u] + Cardinality(Run) * MaxCost
    BY DEF RoomIsLeft
  <2>1. Allowed(u)' \subseteq Allowed(u)
    BY <1>1 DEF Allowed
  <2> QED
    BY <1>2, <2>1, RoomStaysLeft
<1> QED
  BY <1>2, <1>3, <1>4 DEF IInv

LEMMA NextKeepsIInv == IInv /\ [Next]_vars => IInv'
<1> SUFFICES ASSUME IInv, [Next]_vars PROVE IInv'
  OBVIOUS
<1>1. ASSUME NEW r \in Run, RunStep(r) PROVE IInv'
  BY <1>1, HealthCheckStep, ExecuteStep, DelegateStep, SettleStep DEF RunStep
<1>2. CASE UNCHANGED vars
  <2>1. UNCHANGED <<allocated, spent, exhausted, paid, run>>
    BY <1>2 DEF vars, budgetVars
  <2>2. RoomIsLeft'
    BY <2>1 DEF IInv, RoomIsLeft, Allowed
  <2> QED
    BY <2>1, <2>2
       DEF IInv, TypeOK, RunsHaveTasks, BooksAreKept, TierIsLargest, ReportsAreTruthful
<1> QED
  BY <1>1, <1>2, SelectStep, AllocationStep DEF Next

-----------------------------------------------------------------------------
(* The theorems.                                                           *)

LEMMA SpecIInv == Spec => []IInv
BY InitEstablishesIInv, NextKeepsIInv, PTL DEF Spec

\* Every variable has its type.
THEOREM TypeCorrect == Spec => []TypeOK
BY SpecIInv, IInvImplies, PTL

\* A task that must stay on the machine overspends by the price of the runs under
\* way at most, for any number of runs that are allowed on the same figures.
THEOREM OverspendBounded == Spec => []OverspendIsBounded
BY SpecIInv, IInvImplies, PTL

\* What was paid is recorded, up to the charge that exhausts the budget.
THEOREM ChargesRecorded == Spec => []ChargesAreRecorded
BY SpecIInv, IInvImplies, PTL

\* A run reports the state it ended in.
THEOREM ReportsTruthful == Spec => []ReportsAreTruthful
BY SpecIInv, IInvImplies, PTL

\* For any list of models, falling back finds the tier that selection would find.
THEOREM FallbackIsBest == Spec => []FallbackFindsTheBest
BY SpecIInv, IInvImplies, PTL
=============================================================================
