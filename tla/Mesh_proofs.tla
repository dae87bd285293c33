---------------------------- MODULE Mesh_proofs -----------------------------
(***************************************************************************)
(* What holds of the mesh for any nodes, tasks, loads and limits.          *)
(***************************************************************************)
EXTENDS Mesh, TLAPS

\* What SelectableNodesAreFresh lacks to be inductive: the registry's idea of
\* the silence of a node that can be selected is not too short.
AgeIsHonest ==
  \A n \in NodeId : Selectable(n) => age[n] > MaxSilence \/ silence[n] <= age[n]

\* A task that is out is out at a node.
PeersAreNodes == \A t \in Task : pc[t] = "remote" => at[t] \in NodeId

IInv == TypeOK /\ SelectableNodesAreFresh /\ AgeIsHonest /\ TrailIsTrue /\ PeersAreNodes

LEMMA InitEstablishesIInv == Init => IInv
BY MeshAssumption
   DEF Init, IInv, TypeOK, SelectableNodesAreFresh, AgeIsHonest, TrailIsTrue, Selectable,
       Registered, NodeStatus, PeersAreNodes, Story

LEMMA LongerType ==
  \A x \in Nat : /\ Longer(x, MaxSilence) \in Nat /\ Longer(x, MaxSilence) <= x + 1
                /\ Longer(x, MaxSilence + CheckGap) \in Nat
                /\ Longer(x, MaxSilence + CheckGap) <= x + 1
BY MeshAssumption DEF Longer

-----------------------------------------------------------------------------
(* The registry.                                                           *)

\* The tasks do not change with the registry.
LEMMA RegistryKeepsTrails ==
  ASSUME TrailIsTrue, UNCHANGED executor
  PROVE  TrailIsTrue' /\ (PeersAreNodes => PeersAreNodes')
BY DEF TrailIsTrue, PeersAreNodes, executor

LEMMA RegisterStep ==
  ASSUME IInv, NEW n \in NodeId, NEW st \in Joining, Register(n, st)
  PROVE  IInv'
<1> USE MeshAssumption DEF IInv
<1>1. TypeOK'
  BY DEF TypeOK, Register, Registered, executor, NodeStatus
<1>2. SelectableNodesAreFresh' /\ AgeIsHonest'
  BY DEF TypeOK, Register, SelectableNodesAreFresh, AgeIsHonest, Selectable
<1>3. TrailIsTrue' /\ PeersAreNodes'
  BY RegistryKeepsTrails DEF Register
<1> QED
  BY <1>1, <1>2, <1>3

LEMMA LeaveStep ==
  ASSUME IInv, (\E n \in NodeId : Deregister(n)) \/ Clear
  PROVE  IInv'
<1> USE MeshAssumption DEF IInv
<1>1. before' \in SUBSET (Registered' \X Registered')
  <2>1. ASSUME NEW n \in NodeId, Deregister(n) PROVE before' \in SUBSET (Registered' \X Registered')
    <3>1. Registered' = Registered \ {n}
      BY <2>1 DEF Deregister, Registered, TypeOK
    <3> QED
      BY <2>1, <3>1 DEF Deregister, TypeOK
  <2> QED
    BY <2>1 DEF Clear
<1>5. TypeOK'
  <2>1. ASSUME NEW n \in NodeId, Deregister(n) PROVE TypeOK'
    BY <1>1, <2>1 DEF TypeOK, Deregister, executor
  <2>2. ASSUME Clear PROVE TypeOK'
    BY <1>1, <2>2 DEF TypeOK, Clear, executor
  <2> QED
    BY <2>1, <2>2
<1>2. SelectableNodesAreFresh' /\ AgeIsHonest'
  BY DEF TypeOK, Deregister, Clear, SelectableNodesAreFresh, AgeIsHonest, Selectable
<1>3. TrailIsTrue' /\ PeersAreNodes'
  BY RegistryKeepsTrails DEF Deregister, Clear
<1> QED
  BY <1>5, <1>2, <1>3

LEMMA HeartbeatStep ==
  ASSUME IInv, NEW n \in NodeId, NEW signed \in BOOLEAN, NEW l \in Loads,
         ProcessHeartbeat(n, signed, l)
  PROVE  IInv'
<1> USE MeshAssumption DEF IInv
<1>1. TypeOK'
  BY DEF TypeOK, ProcessHeartbeat, Registered, executor, NodeStatus
<1>2. SelectableNodesAreFresh' /\ AgeIsHonest'
  BY DEF TypeOK, ProcessHeartbeat, SelectableNodesAreFresh, AgeIsHonest, Selectable
<1>3. TrailIsTrue' /\ PeersAreNodes'
  BY RegistryKeepsTrails DEF ProcessHeartbeat
<1> QED
  BY <1>1, <1>2, <1>3

LEMMA CheckStep ==
  ASSUME IInv, CheckStaleNodes
  PROVE  IInv'
<1> USE MeshAssumption DEF IInv
<1>1. TypeOK'
  BY DEF TypeOK, CheckStaleNodes, Registered, executor, NodeStatus
<1>2. ASSUME NEW n \in NodeId, Selectable(n)'
      PROVE  silence'[n] <= MaxSilence /\ silence'[n] <= age'[n]
  <2>1. Selectable(n) /\ age[n] <= MaxSilence /\ age'[n] = age[n]
    BY <1>2 DEF TypeOK, CheckStaleNodes, Selectable, Registered
  <2>2. silence[n] <= age[n]
    BY <2>1 DEF AgeIsHonest, TypeOK
  <2> QED
    BY <2>1, <2>2 DEF CheckStaleNodes, TypeOK
<1>3. SelectableNodesAreFresh' /\ AgeIsHonest'
  BY <1>1, <1>2 DEF TypeOK, CheckStaleNodes, SelectableNodesAreFresh, AgeIsHonest
<1>4. TrailIsTrue' /\ PeersAreNodes'
  BY RegistryKeepsTrails DEF CheckStaleNodes
<1> QED
  BY <1>1, <1>3, <1>4

LEMMA TickStep ==
  ASSUME IInv, Tick
  PROVE  IInv'
<1> USE MeshAssumption DEF IInv
<1>1. TypeOK'
  <2>1. age' \in [NodeId -> Nat] /\ silence' \in [NodeId -> Nat]
    BY LongerType DEF TypeOK, Tick
  <2>2. sinceCheck' \in 0 .. CheckGap
    BY DEF TypeOK, Tick
  <2>3. UNCHANGED <<status, load, before, selfId, pc, at, trail>>
    BY DEF Tick, executor
  <2> QED
    BY <2>1, <2>2, <2>3 DEF TypeOK, Registered
<1>2. ASSUME NEW n \in NodeId, Selectable(n)'
      PROVE  /\ silence'[n] <= MaxSilence + sinceCheck'
             /\ age'[n] > MaxSilence \/ silence'[n] <= age'[n]
  <2>1. Selectable(n) /\ n \in Registered
    BY <1>2 DEF Tick, Selectable, Registered
  <2>2. silence'[n] <= silence[n] + 1
    BY <2>1, LongerType DEF Tick, TypeOK
  <2>3. age'[n] = Longer(age[n], MaxSilence)
    BY <2>1 DEF Tick
  <2>4. age[n] <= MaxSilence => age'[n] = age[n] + 1
    BY <2>3 DEF Longer
  <2>5. age[n] > MaxSilence => age'[n] > MaxSilence
    BY <2>3 DEF Longer, TypeOK
  <2>6. age[n] \in Nat /\ silence[n] \in Nat /\ age'[n] \in Nat /\ silence'[n] \in Nat
        /\ sinceCheck \in Nat /\ sinceCheck' = sinceCheck + 1
    BY <1>1 DEF TypeOK, Tick
  <2> QED
    BY <2>1, <2>2, <2>4, <2>5, <2>6 DEF SelectableNodesAreFresh, AgeIsHonest
<1>3. SelectableNodesAreFresh' /\ AgeIsHonest'
  BY <1>2 DEF SelectableNodesAreFresh, AgeIsHonest
<1>4. TrailIsTrue' /\ PeersAreNodes'
  BY RegistryKeepsTrails DEF Tick
<1> QED
  BY <1>1, <1>3, <1>4

-----------------------------------------------------------------------------
(* The executor.                                                           *)

\* What changes no status and no clock keeps nodes fresh.
LEMMA ExecutorKeepsFreshness ==
  ASSUME SelectableNodesAreFresh, AgeIsHonest, UNCHANGED <<registry, clock>>
  PROVE  SelectableNodesAreFresh' /\ AgeIsHonest'
BY DEF SelectableNodesAreFresh, AgeIsHonest, Selectable, registry, clock

\* A selected peer is never refused by the dispatch.
LEMMA PeersAreDispatched ==
  \A t \in Task : \A n \in Peer(t) : n \in NodeId /\ status[n] # "stale" /\ Trail(t, n) = {<<"dispatch", n>>}
BY DEF Peer, Selected, Candidates, Selectable, Registered, Trail

LEMMA ExecuteStep ==
  ASSUME IInv, NEW batch \in SUBSET Task, ExecuteBatch(batch)
  PROVE  IInv'
<1> USE MeshAssumption DEF IInv
<1> DEFINE p(t) == CHOOSE n \in NodeId : n \in Peer(t)
<1>1. \A t \in Task : Peer(t) # {} => p(t) \in NodeId /\ p(t) \in Peer(t) /\ status[p(t)] # "stale"
                                      /\ Trail(t, p(t)) = {<<"dispatch", p(t)>>}
  BY PeersAreDispatched
<1>2. \A t \in Task : t \in batch => trail[t] = {} /\ pc[t] = "idle"
  BY DEF ExecuteBatch, TrailIsTrue, Story
<1>3. ASSUME NEW t \in Task
      PROVE  /\ t \in batch /\ Peer(t) # {} => /\ pc'[t] = "remote" /\ at'[t] = p(t)
                                               /\ trail'[t] = {<<"dispatch", p(t)>>}
             /\ t \in batch /\ Peer(t) = {} => pc'[t] = "local" /\ at'[t] = at[t] /\ trail'[t] = {}
             /\ t \notin batch => pc'[t] = pc[t] /\ at'[t] = at[t] /\ trail'[t] = trail[t]
  <2>1. CASE t \in batch /\ Peer(t) # {}
    BY <2>1, <1>1, <1>2 DEF ExecuteBatch
  <2>2. CASE t \in batch /\ Peer(t) = {}
    BY <2>2, <1>2 DEF ExecuteBatch
  <2>3. CASE t \notin batch
    BY <2>3 DEF ExecuteBatch
  <2> QED
    BY <2>1, <2>2, <2>3
<1>4. TrailIsTrue' /\ PeersAreNodes'
  <2>1. ASSUME NEW t \in Task
        PROVE  trail'[t] \in Story(pc'[t], at'[t]) /\ (pc'[t] = "remote" => at'[t] \in NodeId)
    <3>1. CASE t \in batch /\ Peer(t) # {}
      <4>1. pc'[t] = "remote" /\ at'[t] = p(t) /\ trail'[t] = {<<"dispatch", p(t)>>}
        BY <3>1, <1>3
      <4>2. p(t) \in NodeId
        BY <3>1, <1>1
      <4>3. Story("remote", p(t)) = {{<<"dispatch", p(t)>>}, {}}
        BY DEF Story
      <4> QED
        BY <4>1, <4>2, <4>3
    <3>2. CASE t \in batch /\ Peer(t) = {}
      BY <3>2, <1>3 DEF Story
    <3>3. CASE t \notin batch
      BY <3>3, <1>3 DEF TrailIsTrue, PeersAreNodes
    <3> QED
      BY <3>1, <3>2, <3>3
  <2> QED
    BY <2>1 DEF TrailIsTrue, PeersAreNodes
<1>5. /\ pc' \in [Task -> {"idle", "remote", "local", "done", "failed"}]
      /\ at' \in [Task -> NodeId \cup {NoNode}]
      /\ trail' \in [Task -> SUBSET ({"dispatch", "fallback", "receive"} \X NodeId)]
  <2>1. \A t \in Task : pc'[t] \in {"idle", "remote", "local", "done", "failed"}
    BY <1>3 DEF TypeOK
  <2>2. \A t \in Task : at'[t] \in NodeId \cup {NoNode}
    BY <1>1, <1>3 DEF TypeOK
  <2>3. \A t \in Task : trail'[t] \in SUBSET ({"dispatch", "fallback", "receive"} \X NodeId)
    BY <1>1, <1>3 DEF TypeOK
  <2> QED
    BY <2>1, <2>2, <2>3 DEF ExecuteBatch
<1>6. TypeOK'
  <2>1. UNCHANGED <<status, age, load, before, selfId, silence, sinceCheck>>
    BY DEF ExecuteBatch, registry, clock
  <2> QED
    BY <1>5, <2>1 DEF TypeOK, Registered
<1> QED
  BY <1>4, <1>6, ExecutorKeepsFreshness DEF ExecuteBatch

LEMMA ReceiveStep ==
  ASSUME IInv, NEW t \in Task, Receive(t)
  PROVE  IInv'
<1> USE MeshAssumption DEF IInv
<1> DEFINE back == <<"receive", at[t]>>
<1>1. trail[t] \in {{<<"dispatch", at[t]>>}, {}}
  BY DEF Receive, TrailIsTrue, Story
<1>2. trail'[t] = trail[t] \cup {back} /\ pc'[t] = "done" /\ at' = at
      /\ \A u \in Task : u # t => trail'[u] = trail[u] /\ pc'[u] = pc[u]
  BY DEF Receive, Log, TypeOK
<1>3. trail'[t] \in {{<<"dispatch", at[t]>>, back}, {back}}
  BY <1>1, <1>2
<1>4. TrailIsTrue' /\ PeersAreNodes'
  BY <1>2, <1>3 DEF TrailIsTrue, Story, PeersAreNodes
<1>5. TypeOK'
  <2>1. at[t] \in NodeId
    BY DEF Receive, PeersAreNodes
  <2>2. trail'[t] \in SUBSET ({"dispatch", "fallback", "receive"} \X NodeId)
    BY <1>3, <2>1
  <2>3. UNCHANGED <<status, age, load, before, selfId, at, silence, sinceCheck>>
    BY DEF Receive, registry, clock
  <2>4. trail' \in [Task -> SUBSET ({"dispatch", "fallback", "receive"} \X NodeId)]
    BY <2>2 DEF Receive, Log, TypeOK
  <2> QED
    BY <2>3, <2>4 DEF TypeOK, Receive, Registered
<1> QED
  BY <1>4, <1>5, ExecutorKeepsFreshness DEF Receive

LEMMA OtherStep ==
  ASSUME IInv,
         \/ \E n \in NodeId : SetSelf(n)
         \/ \E t \in Task, ok \in BOOLEAN : LocalAnswers(t, ok)
         \/ ClearAudit
         \/ UNCHANGED vars
  PROVE  IInv'
<1> USE MeshAssumption DEF IInv
<1>1. TypeOK'
  <2>1. ASSUME NEW n \in NodeId, SetSelf(n) PROVE TypeOK'
    BY <2>1 DEF TypeOK, SetSelf, executor, clock, Registered
  <2>2. ASSUME NEW t \in Task, NEW ok \in BOOLEAN, LocalAnswers(t, ok) PROVE TypeOK'
    BY <2>2 DEF TypeOK, LocalAnswers, registry, clock, Registered
  <2>3. ASSUME ClearAudit PROVE TypeOK'
    BY <2>3 DEF TypeOK, ClearAudit, registry, clock, Registered
  <2>4. ASSUME UNCHANGED vars PROVE TypeOK'
    BY <2>4 DEF TypeOK, vars, registry, executor, clock, Registered
  <2> QED
    BY <2>1, <2>2, <2>3, <2>4
<1>2. SelectableNodesAreFresh' /\ AgeIsHonest'
  BY DEF SelectableNodesAreFresh, AgeIsHonest, Selectable, SetSelf, LocalAnswers, ClearAudit,
         vars, registry, clock
<1>3. TrailIsTrue' /\ PeersAreNodes'
  BY DEF TrailIsTrue, Story, PeersAreNodes, SetSelf, LocalAnswers, ClearAudit, vars, executor, TypeOK
<1> QED
  BY <1>1, <1>2, <1>3

LEMMA NextPreservesIInv == IInv /\ [Next]_vars => IInv'
<1> SUFFICES ASSUME IInv, [Next]_vars PROVE IInv'
  OBVIOUS
<1> QED
  BY RegisterStep, LeaveStep, HeartbeatStep, CheckStep, TickStep, ExecuteStep, ReceiveStep, OtherStep
  DEF Next

-----------------------------------------------------------------------------
LEMMA IInvHolds == Spec => []IInv
BY InitEstablishesIInv, NextPreservesIInv, PTL DEF Spec

\* The registry, the executions and the trails have their types.
THEOREM MeshTypeCorrect == Spec => []TypeOK
BY IInvHolds, PTL DEF IInv

\* health.ts: whatever is reported and checked, tasks go only to nodes that have
\* been heard of lately, for any number of nodes and any limits.
THEOREM NodesAreFresh == Spec => []SelectableNodesAreFresh
BY IInvHolds, PTL DEF IInv

\* executor.ts and audit.ts: the trail of a task is what became of it, or its end.
THEOREM TrailsAreTrue == Spec => []TrailIsTrue
BY IInvHolds, PTL DEF IInv
=============================================================================
