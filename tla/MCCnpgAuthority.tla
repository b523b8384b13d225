--------------------------- MODULE MCCnpgAuthority ---------------------------
(* Three interchangeable instances.                                         *)
EXTENDS CnpgAuthority, TLC

CONSTANTS a, b, c

Symmetric == Permutations(Instances)

\* The first timeline has business rows; the later ones only churn, or some too.
SomeLedgers == {{1}, {1, 2}, {1, 2, 3}}
=============================================================================
