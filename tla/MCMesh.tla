------------------------------- MODULE MCMesh -------------------------------
(***************************************************************************)
(* Small instances of Mesh.  Tasks do not meet each other, so one is       *)
(* enough; both nodes can do it.                                           *)
(***************************************************************************)
EXTENDS Mesh

CONSTANTS n1, n2, t1

AbleToAll == [n \in NodeId |-> Task]
=============================================================================
