-------------------------------- MODULE Mesh --------------------------------
(***************************************************************************)
(* The edge mesh: the registry of nodes (node-registry.ts), the health     *)
(* reports that keep it up to date (health.ts), and the executor that      *)
(* sends a task to the best node or runs it here (task-routing.ts,         *)
(* executor.ts), with the audit trail of what it did (audit.ts).           *)
(*                                                                         *)
(* Selection, the audit record and the checks of the dispatch are one      *)
(* synchronous stretch; the executor suspends for the peer's response and  *)
(* for the local engine, and other calls and reports run meanwhile.        *)
(*                                                                         *)
(* Time passes in steps.  lastSeen is modelled by its age.  The executor's *)
(* own registry, which only names the source, is the global one.           *)
(***************************************************************************)
EXTENDS Naturals

CONSTANTS NodeId,
          NoNode,       \* "null"
          Task,         \* tasks, each executed once
          Able,         \* Able[n]: the tasks whose capability node n declares
          Private,      \* the tasks with privacyRequirement 'local-only'
          Joining,      \* the statuses that nodes register with
          Loads,        \* what a report can say: cpu * (activeTasks + 1)
          DefaultLoad,  \* that of a node without a report
          MaxSilence,   \* MAX_SILENCE_MS, in steps
          CheckGap      \* bounds the steps between two checks for stale nodes

NodeStatus == {"online", "offline", "degraded", "stale", "failed", "active"}

ASSUME MeshAssumption ==
  /\ NoNode \notin NodeId
  /\ Able \in [NodeId -> SUBSET Task]
  /\ Private \in SUBSET Task
  /\ Joining \subseteq NodeStatus
  /\ Loads \subseteq Nat /\ DefaultLoad \in Loads
  /\ MaxSilence \in Nat /\ CheckGap \in Nat

VARIABLES status,      \* status[n]; "absent" if n is not registered
          age,         \* Date.now() - lastSeen
          load,
          before,      \* pairs of registered nodes, in the order of the Map
          selfId,
          pc,          \* where the execution of a task is
          at,          \* at[t]: the peer that executes or has executed t
          trail,       \* trail[t]: the audit events of t; t has each at most once
          silence,     \* how long a node has really not been heard of
          sinceCheck   \* steps since the last check for stale nodes

registry == <<status, age, load, before, selfId>>
executor == <<pc, at, trail>>
clock    == <<silence, sinceCheck>>
vars     == <<registry, executor, clock>>

Registered == {n \in NodeId : status[n] # "absent"}
Self       == IF selfId \in Registered THEN selfId ELSE NoNode

\* Counted up to the first value above what it is compared with.
Longer(x, limit) == IF x <= limit THEN x + 1 ELSE x

Init ==
  /\ status = [n \in NodeId |-> "absent"]
  /\ age = [n \in NodeId |-> 0]
  /\ load = [n \in NodeId |-> DefaultLoad]
  /\ before = {}
  /\ selfId = NoNode
  /\ pc = [t \in Task |-> "idle"]
  /\ at = [t \in Task |-> NoNode]
  /\ trail = [t \in Task |-> {}]
  /\ silence = [n \in NodeId |-> 0]
  /\ sinceCheck = 0

-----------------------------------------------------------------------------
(* The registry and the health reports.                                    *)

\* A node that registers again keeps its place in the Map.
Register(n, st) ==
  /\ status' = [status EXCEPT ![n] = st]
  /\ age' = [age EXCEPT ![n] = 0]
  /\ load' = [load EXCEPT ![n] = DefaultLoad]
  /\ before' = IF n \in Registered THEN before ELSE before \cup (Registered \X {n})
  /\ silence' = [silence EXCEPT ![n] = 0]
  /\ UNCHANGED <<selfId, executor, sinceCheck>>

Deregister(n) ==
  /\ n \in Registered
  /\ status' = [status EXCEPT ![n] = "absent"]
  /\ age' = [age EXCEPT ![n] = 0]
  /\ load' = [load EXCEPT ![n] = DefaultLoad]
  /\ before' = {p \in before : n \notin {p[1], p[2]}}
  /\ silence' = [silence EXCEPT ![n] = 0]
  /\ UNCHANGED <<selfId, executor, sinceCheck>>

SetSelf(n) ==
  /\ selfId' = n
  /\ UNCHANGED <<status, age, load, before, executor, clock>>

Clear ==
  /\ status' = [n \in NodeId |-> "absent"]
  /\ age' = [n \in NodeId |-> 0]
  /\ load' = [n \in NodeId |-> DefaultLoad]
  /\ before' = {}
  /\ selfId' = NoNode
  /\ silence' = [n \in NodeId |-> 0]
  /\ UNCHANGED <<executor, sinceCheck>>

\* Mutant of ProcessHeartbeat: a report counts as a sign of life before its
\* signature has been looked at, and leaves the status alone if that is wrong.
HeartbeatUnverified(n, signed, l) ==
  /\ n \in Registered
  /\ status' = IF signed THEN [status EXCEPT ![n] = "online"] ELSE status
  /\ age' = [age EXCEPT ![n] = 0]
  /\ load' = IF signed THEN [load EXCEPT ![n] = l] ELSE load
  /\ silence' = IF signed THEN [silence EXCEPT ![n] = 0] ELSE silence
  /\ UNCHANGED <<before, selfId, executor, sinceCheck>>

\* A report of node n, with a signature or without.  A report of an unknown
\* node changes nothing.
ProcessHeartbeat(n, signed, l) ==
  /\ n \in Registered
  /\ status' = [status EXCEPT ![n] = IF signed THEN "online" ELSE "offline"]
  /\ age' = [age EXCEPT ![n] = 0]
  /\ load' = IF signed THEN [load EXCEPT ![n] = l] ELSE load
  /\ silence' = IF signed THEN [silence EXCEPT ![n] = 0] ELSE silence
  /\ UNCHANGED <<before, selfId, executor, sinceCheck>>

\* Mutant of CheckStaleNodes: nodes that say they are active are left alone.
CheckOnlineNodes ==
  LET silent == {n \in Registered : age[n] > MaxSilence /\ status[n] # "active"}
  IN  /\ status' = [n \in NodeId |-> IF n \in silent THEN "offline" ELSE status[n]]
      /\ age' = [n \in NodeId |-> IF n \in silent THEN 0 ELSE age[n]]
      /\ sinceCheck' = 0
      /\ UNCHANGED <<load, before, selfId, executor, silence>>

\* updateStatus refreshes lastSeen, also of the nodes it sets offline.
CheckStaleNodes ==
  LET silent == {n \in Registered : age[n] > MaxSilence}
  IN  /\ status' = [n \in NodeId |-> IF n \in silent THEN "offline" ELSE status[n]]
      /\ age' = [n \in NodeId |-> IF n \in silent THEN 0 ELSE age[n]]
      /\ sinceCheck' = 0
      /\ UNCHANGED <<load, before, selfId, executor, silence>>

\* Whoever embeds the mesh calls the check at least every CheckGap steps.
Tick ==
  /\ sinceCheck < CheckGap
  /\ sinceCheck' = sinceCheck + 1
  /\ age' = [n \in NodeId |-> IF n \in Registered THEN Longer(age[n], MaxSilence) ELSE 0]
  /\ silence' = [n \in NodeId |->
                   IF n \in Registered THEN Longer(silence[n], MaxSilence + CheckGap) ELSE 0]
  /\ UNCHANGED <<status, load, before, selfId, executor>>

-----------------------------------------------------------------------------
(* The executor.                                                           *)

Selectable(n) == status[n] \in {"online", "active"}

Candidates(t) == {n \in Registered : t \in Able[n] /\ Selectable(n)}

\* calculateScore and the stable sort: nodes come by load, or, when the score
\* is -1 for all because the task is private, in the order of the Map.
SortsBefore(t, n, m) ==
  IF t \in Private \/ load[n] = load[m] THEN <<n, m>> \in before
  ELSE load[n] < load[m]

Selected(t) == {n \in Candidates(t) : \A m \in Candidates(t) \ {n} : SortsBefore(t, n, m)}

\* The peer that t is sent to, if selectNode returns one and it is not here.
Peer(t) == Selected(t) \ {Self}

\* What execute() logs for t up to its first await when the peer is n:
\* dispatchRemote throws for a stale node.
Trail(t, n) ==
  {<<"dispatch", n>>} \cup (IF status[n] = "stale" THEN {<<"fallback", n>>} ELSE {})

\* executeBatch(): execute() of each task up to its first await.  execute() of
\* one task is the batch of that task.
ExecuteBatch(batch) ==
  LET remote == {t \in batch : \E n \in Peer(t) : status[n] # "stale"}
  IN  /\ batch # {} /\ \A t \in batch : pc[t] = "idle"
      /\ pc' = [t \in Task |-> IF t \in remote THEN "remote"
                               ELSE IF t \in batch THEN "local" ELSE pc[t]]
      /\ at' = [t \in Task |-> IF t \in remote THEN CHOOSE n \in NodeId : n \in Peer(t)
                               ELSE at[t]]
      /\ trail' = [t \in Task |-> IF t \notin batch \/ Peer(t) = {} THEN trail[t]
                                  ELSE trail[t] \cup Trail(t, CHOOSE n \in NodeId : n \in Peer(t))]
      /\ UNCHANGED <<registry, clock>>

\* log(): the audit trail of t goes on.
Log(t, event) == trail' = [trail EXCEPT ![t] = @ \cup {event}]

\* Mutant of Receive: the log names the node that would be selected now.
ReceiveFromBest(t) ==
  /\ pc[t] = "remote"
  /\ pc' = [pc EXCEPT ![t] = "done"]
  /\ Log(t, <<"receive", IF Peer(t) = {} THEN at[t] ELSE CHOOSE n \in NodeId : n \in Peer(t)>>)
  /\ UNCHANGED <<at, registry, clock>>

\* The response is there: the node need not be registered any more.
Receive(t) ==
  /\ pc[t] = "remote"
  /\ pc' = [pc EXCEPT ![t] = "done"]
  /\ Log(t, <<"receive", at[t]>>)
  /\ UNCHANGED <<at, registry, clock>>

\* The local engine answers, with a result or without (execute() throws).
LocalAnswers(t, ok) ==
  /\ pc[t] = "local"
  /\ pc' = [pc EXCEPT ![t] = IF ok THEN "done" ELSE "failed"]
  /\ UNCHANGED <<at, trail, registry, clock>>

ClearAudit ==
  /\ trail' = [t \in Task |-> {}]
  /\ UNCHANGED <<pc, at, registry, clock>>

Next ==
  \/ \E n \in NodeId, st \in Joining : Register(n, st)
  \/ \E n \in NodeId : Deregister(n)
  \/ \E n \in NodeId : SetSelf(n)
  \/ Clear
  \/ \E n \in NodeId, signed \in BOOLEAN, l \in Loads : ProcessHeartbeat(n, signed, l)
  \/ CheckStaleNodes
  \/ Tick
  \/ \E batch \in SUBSET Task : ExecuteBatch(batch)
  \/ \E t \in Task : Receive(t)
  \/ \E t \in Task, ok \in BOOLEAN : LocalAnswers(t, ok)
  \/ ClearAudit

Spec == Init /\ [][Next]_vars

\* Time passes.  Nothing in the repository calls the check for stale nodes, so
\* that it is called is no part of the specification.
FairSpec == Spec /\ WF_vars(Tick)

-----------------------------------------------------------------------------
TypeOK ==
  /\ status \in [NodeId -> NodeStatus \cup {"absent"}]
  /\ age \in [NodeId -> Nat]
  /\ load \in [NodeId -> Loads]
  /\ before \in SUBSET (Registered \X Registered)
  /\ selfId \in NodeId \cup {NoNode}
  /\ pc \in [Task -> {"idle", "remote", "local", "done", "failed"}]
  /\ at \in [Task -> NodeId \cup {NoNode}]
  /\ trail \in [Task -> SUBSET ({"dispatch", "fallback", "receive"} \X NodeId)]
  /\ silence \in [NodeId -> Nat]
  /\ sinceCheck \in 0 .. CheckGap

\* Whatever is reported, forged, registered anew and refreshed by the check
\* itself, a node that tasks are sent to has really been heard of: its silence
\* is never longer than the limit and the time since the last check.
SelectableNodesAreFresh ==
  \A n \in NodeId : Selectable(n) => silence[n] <= MaxSilence + sinceCheck

\* The trails that a task may have at p, when it is or was out at node n: all
\* that it did, or the end of that if the log was cleared.
Story(p, n) ==
  CASE p = "remote" -> {{<<"dispatch", n>>}, {}}
    [] p = "done"   -> {{<<"dispatch", n>>, <<"receive", n>>}, {<<"receive", n>>}, {}}
    [] OTHER        -> {{}}

\* The trail of a task tells what became of it, though the registry changes
\* while the response is awaited.  A node that can be selected is never refused
\* by the dispatch, so no task has both a peer and a local run.
TrailIsTrue == \A t \in Task : trail[t] \in Story(pc[t], at[t])

Reports(n) ==
  \/ \E st \in Joining : Register(n, st)
  \/ \E signed \in BOOLEAN, l \in Loads : ProcessHeartbeat(n, signed, l)

\* If whoever embeds the mesh calls the check on and on (the hypothesis; nobody
\* does so far), then a node that falls silent for good is no longer sent tasks
\* some day, though the check refreshes lastSeen of the nodes it finds.
SilentNodesAreRetired ==
  []<><<CheckStaleNodes>>_vars =>
    \A n \in NodeId : <>[][~Reports(n)]_vars => <>[]~Selectable(n)

=============================================================================
