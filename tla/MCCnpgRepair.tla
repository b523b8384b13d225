--------------------------- MODULE MCCnpgRepair ---------------------------
(* Three interchangeable instances; the invocations of a repair that its   *)
(* flags tell apart.                                                        *)
EXTENDS CnpgRepair, TLC

CONSTANTS a, b, c

Symmetric == Permutations(Instances)

AllOrders ==
  [mode : {"repair"}, instance : {NoPod}, force : {FALSE}, noEscrow : BOOLEAN]
  \cup [mode : {"repair"}, instance : Instances, force : BOOLEAN, noEscrow : {FALSE}]
  \cup [mode : {"repair"}, instance : Instances, force : {TRUE}, noEscrow : {TRUE}]
  \cup [mode : {"unwedge"}, instance : {NoPod}, force : {FALSE}, noEscrow : {FALSE}]
  \cup [mode : {"promote"}, instance : Instances, force : BOOLEAN, noEscrow : {FALSE}]
=============================================================================
