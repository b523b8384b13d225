--------------------------- MODULE MCClusterLease ---------------------------
(* Three invocations, the third on a host whose clock runs one renewal     *)
(* period ahead; two of them where the question needs no more.             *)
EXTENDS ClusterLease

CONSTANTS o1, o2, o3

ThreeOps == {o1, o2, o3}
ThreeSkewed == [o \in ThreeOps |-> IF o = o3 THEN 1 ELSE 0]
TwoOps == {o1, o2}
TwoSkewed == [o \in TwoOps |-> IF o = o2 THEN 1 ELSE 0]
TwoInStep == [o \in TwoOps |-> 0]
=============================================================================
