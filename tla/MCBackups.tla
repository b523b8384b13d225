---------------------------- MODULE MCBackups ----------------------------
(* A primary, and a replica with a volume of its own for the WAL.         *)
EXTENDS Backups, TLC

CONSTANTS p, r, o1, o2, k

OwnVolumes == (p :> {1}) @@ (r :> {2, 3})
NamingRule == (p :> 1) @@ (r :> 2)
Symmetric  == Permutations(Ops)
=============================================================================
