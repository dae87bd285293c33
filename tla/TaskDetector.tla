---------------------------- MODULE TaskDetector ----------------------------
(***************************************************************************)
(* The work queue of the autonomy system (class TaskDetector).             *)
(*                                                                         *)
(* An item is identified by its createdSequence; the hash the code derives *)
(* from it is taken to be unique.  No operation removes an item, so the    *)
(* queue always holds exactly the items 0 .. size-1 and the constant       *)
(* MaxQueueSize bounds the whole life of the queue, not only its backlog.  *)
(*                                                                         *)
(* The array the code keeps is represented by "rank": the position each    *)
(* item was given by the last sort.  Only enqueue sorts.                   *)
(***************************************************************************)
EXTENDS Integers, FiniteSets

CONSTANTS MaxQueueSize,   \* config.maxQueueSize
          Priorities,     \* the priorities callers use; a smaller number is more urgent
          AttemptLimits   \* the maxAttempts values callers ask for

ASSUME QueueAssumption ==
  /\ MaxQueueSize \in Nat \ {0}
  /\ Priorities \subseteq 0..3
  /\ AttemptLimits \subseteq Nat

Item   == 0 .. MaxQueueSize - 1
Status == {"NEW", "PENDING", "RUNNING", "COMPLETED", "FAILED"}

VARIABLES size,      \* sequenceCounter, which is also queue.length
          status,    \* "NEW" stands for an item that is not in the queue yet
          attempts,
          limit,     \* maxAttempts
          priority,
          rank

queueVars == <<size, status, attempts, limit, priority, rank>>

QueueInit ==
  /\ size = 0
  /\ status = [i \in Item |-> "NEW"]
  /\ attempts = [i \in Item |-> 0]
  /\ limit = [i \in Item |-> 0]
  /\ priority = [i \in Item |-> 0]
  /\ rank = [i \in Item |-> 0]

Queued  == {i \in Item : status[i] # "NEW"}
Pending == {i \in Item : status[i] = "PENDING"}
Settled == {i \in Item : status[i] \in {"COMPLETED", "FAILED"}}

-----------------------------------------------------------------------------
\* The comparator of sortQueue, over the statuses st and the priorities pr.
SortsBefore(i, j, st, pr) ==
  IF (st[i] = "PENDING") # (st[j] = "PENDING")
  THEN st[i] = "PENDING"
  ELSE \/ pr[i] < pr[j]
       \/ pr[i] = pr[j] /\ i < j

SortedRank(st, pr) ==
  [i \in Item |->
     Cardinality({j \in Item : st[j] # "NEW" /\ SortsBefore(j, i, st, pr)})]

\* Mutant of Enqueue: the new item stays at the end of the array.
EnqueueUnsorted(p, m) ==
  /\ size < MaxQueueSize
  /\ size' = size + 1
  /\ status' = [status EXCEPT ![size] = "PENDING"]
  /\ limit' = [limit EXCEPT ![size] = m]
  /\ priority' = [priority EXCEPT ![size] = p]
  /\ rank' = [rank EXCEPT ![size] = size]
  /\ UNCHANGED attempts

\* enqueue throws, and changes nothing, when the array is full.
Enqueue(p, m) ==
  /\ size < MaxQueueSize
  /\ size' = size + 1
  /\ status' = [status EXCEPT ![size] = "PENDING"]
  /\ limit' = [limit EXCEPT ![size] = m]
  /\ priority' = [priority EXCEPT ![size] = p]
  /\ rank' = SortedRank(status', priority')
  /\ UNCHANGED attempts

\* Mutant of IsDequeued: the first item of the array, whatever its status.
IsFirstInArray(i) ==
  /\ i \in Queued
  /\ \A j \in Queued : rank[i] <= rank[j]

\* i is the item dequeue() returns: the first pending one in array order.
IsDequeued(i) ==
  /\ i \in Pending
  /\ \A j \in Pending : rank[i] <= rank[j]

\* Refused unless the item is pending; the caller ignores the answer.
MarkRunning(i) ==
  IF status[i] = "PENDING"
  THEN /\ status' = [status EXCEPT ![i] = "RUNNING"]
       /\ attempts' = [attempts EXCEPT ![i] = @ + 1]
       /\ UNCHANGED <<size, limit, priority, rank>>
  ELSE UNCHANGED queueVars

\* Mutant of MarkFailed: one retry too many.
MarkFailedLate(i) ==
  /\ status' = [status EXCEPT ![i] = IF attempts[i] <= limit[i] THEN "PENDING" ELSE "FAILED"]
  /\ UNCHANGED <<size, attempts, limit, priority, rank>>

\* Neither of the two operations below looks at the status it overwrites.
MarkCompleted(i) ==
  /\ status' = [status EXCEPT ![i] = "COMPLETED"]
  /\ UNCHANGED <<size, attempts, limit, priority, rank>>

MarkFailed(i) ==
  /\ status' = [status EXCEPT ![i] = IF attempts[i] < limit[i] THEN "PENDING" ELSE "FAILED"]
  /\ UNCHANGED <<size, attempts, limit, priority, rank>>

-----------------------------------------------------------------------------
QueueTypeOK ==
  /\ size \in 0 .. MaxQueueSize
  /\ status \in [Item -> Status]
  /\ attempts \in [Item -> Nat]
  /\ limit \in [Item -> Nat]
  /\ priority \in [Item -> 0..3]
  /\ rank \in [Item -> Nat]
  /\ \A i \in Item : status[i] = "NEW" <=> i >= size

\* An item is given up only after the attempts its caller asked for, and is
\* never attempted more often (markRunning counts before markFailed compares,
\* so an item whose maxAttempts is 0 is still attempted once).
AttemptsAreHonoured ==
  \A i \in Item :
    /\ status[i] = "FAILED" => attempts[i] >= limit[i]
    /\ status[i] = "PENDING" => attempts[i] < limit[i] \/ attempts[i] = 0
    /\ attempts[i] <= limit[i] \/ attempts[i] = 1
=============================================================================
