----------------------------- MODULE MCScheduler -----------------------------
(* One database, or two of one engine, under one policy that is edited,     *)
(* deleted and created again.                                               *)
EXTENDS Scheduler

CONSTANTS d1, d2, p, r1, r2

One == {d1}
Two == {d1, d2}
SameEngine == [d \in Databases |-> "galera"]

\* In six fields, as docs/deploy/k8s/examples/backuppolicy-default.yaml.
Nightly(mode, repos, timeout) ==
  [backup |-> "six", triage |-> "six", mode |-> mode, repos |-> repos, timeout |-> timeout]

\* A timeout, a mode and the repositories change; and a schedule that does not parse.
FourSpecs == {Nightly("repair", <<r1>>, 1), Nightly("repair", <<r1>>, 2),
              Nightly("disabled", <<r1, r2>>, 1),
              [Nightly("triage", <<r2>>, 1) EXCEPT !.backup = "five"]}

\* As docs/usage/operator.md shows it.
Documented == {[backup |-> "five", triage |-> "five", mode |-> "repair", repos |-> <<r1>>, timeout |-> 1]}

OptIn == [policy |-> p, excluded |-> FALSE, override |-> <<>>]
Annotations ==
  {OptIn, [OptIn EXCEPT !.excluded = TRUE], [OptIn EXCEPT !.policy = None],
   [OptIn EXCEPT !.override = [repos |-> <<>>, mode |-> "repair"]]}
=============================================================================
