---------------------------- MODULE MCPruneWal ----------------------------
(* A target and two interchangeable replicas.                              *)
EXTENDS PruneWal, TLC

CONSTANTS t, a, b

Symmetric == Permutations(Replicas)
=============================================================================
