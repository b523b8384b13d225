CONSTANTS
  a = a
  b = b
  c = c
  NoNode = NoNode
  NoLineage = NoLineage
  Nodes = {a, b, c}
  Lineages = {A, B}
  A = A
  B = B
  MaxSeqno = 2
  Hints <- SomeHints
  Statuses = {"primary", "nonPrimary", "crashloop", "missing"}
  MayMissReads = FALSE
SYMMETRY Symmetric
SPECIFICATION Spec
INVARIANTS HealLosesNothing BootstrapLosesNothing
CHECK_DEADLOCK FALSE
