---------------------------- MODULE MCGaleraFence ----------------------------
(* One bootstrap and up to two deep recoveries, on two nodes.               *)
EXTENDS GaleraFence

CONSTANTS boot, recover, recover2

OneOfEach == {boot, recover}
TwoRecoversAndABoot == {boot, recover, recover2}
=============================================================================
