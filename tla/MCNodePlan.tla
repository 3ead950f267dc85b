---------------------------- MODULE MCNodePlan ----------------------------
(* Instances of NodePlan for TLC. *)
EXTENDS NodePlan, TLC

NodeSymmetry == Permutations(Nodes)

\* Without counted, which no guard and none of the safety run's properties
\* depends on, TypeOK's one conjunct about it apart.
SafetyView == <<world, server, createdAt, sync, job, stable>>
=============================================================================
