CONSTANTS
  a = a
  b = b
  c = c
  NoPod = NoPod
  Instances = {a, b, c}
  Commits = {1, 2}
  Orders <- AllOrders
  Moves = 1
  Drifts = TRUE
SYMMETRY Symmetric
SPECIFICATION Spec
INVARIANT ClearedAsConfirmed
CHECK_DEADLOCK FALSE
