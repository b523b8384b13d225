--------------------------- MODULE MCGaleraRepair ---------------------------
(* One or two repairs of a cluster of two or three nodes.                   *)
EXTENDS GaleraRepair

CONSTANTS one, two

Solo == {one}
Pair == {one, two}
Untargeted == [r \in Ops |-> NoNode]
Last == [r \in Ops |-> Replicas - 1]
=============================================================================
