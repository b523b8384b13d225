CONSTANTS
  t = t
  a = a
  b = b
  Target = t
  Replicas = {a, b}
  MaxEnd = 2
  Short = 1
  Runs = 2
SYMMETRY Symmetric
SPECIFICATION Spec
INVARIANTS TypeOK RecoverableUnlessWaived OkKeepsAll
PROPERTIES NoReplicaStranded ReleaseLosesNothing
CHECK_DEADLOCK FALSE
