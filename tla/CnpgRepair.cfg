CONSTANTS
  a = a
  b = b
  c = c
  NoPod = NoPod
  Instances = {a, b, c}
  Commits = {1, 2}
  Orders <- AllOrders
  Moves = 1
  Drifts = FALSE
SYMMETRY Symmetric
SPECIFICATION Spec
INVARIANTS TypeOK RollbackHeld
PROPERTIES WipeLosesNothing SuccessIsReal
CHECK_DEADLOCK FALSE
