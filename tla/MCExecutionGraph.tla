-------------------------- MODULE MCExecutionGraph --------------------------
(***************************************************************************)
(* Small instances of ExecutionGraph: the values of its functional         *)
(* constants, and its symmetries.                                          *)
(***************************************************************************)
EXTENDS ExecutionGraph, TLC

CONSTANTS TaskLimit, ComputeLimit, AgentLimit, TaskCap

Limits == [t \in Tenants |-> [k \in Usage |->
  CASE k = "task" -> TaskLimit [] k = "compute" -> ComputeLimit [] OTHER -> AgentLimit]]
Caps   == [t \in Tenants |-> TaskCap]

Symmetry == Permutations(Runs) \cup Permutations(Providers)
=============================================================================
