-------------------------- MODULE MCGaleraAuthority --------------------------
(* Three interchangeable nodes, two lineages, two positions.                *)
EXTENDS GaleraAuthority, TLC

CONSTANTS a, b, c

CONSTANTS A, B

Symmetric == Permutations({a, b, c}) \cup Permutations({A, B})
\* Either no hint, or one, for one node.
NoHint == [n \in Nodes |-> -1]
NoHints == {NoHint}
SomeHints == NoHints \cup {[NoHint EXCEPT ![n] = 2] : n \in Nodes}
=============================================================================
