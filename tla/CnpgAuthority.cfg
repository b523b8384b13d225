CONSTANTS
  a = a
  b = b
  c = c
  NoPod = NoPod
  Instances = {a, b, c}
  MaxTimeline = 3
  MaxLSN = 2
  Flawed = 1
  Ledgers <- SomeLedgers
  SerialPositions = FALSE
SYMMETRY Symmetric
SPECIFICATION Spec
INVARIANTS TypeOK AuthorityCoversTheSeen HealLosesNothing PromotionLosesNothing
CHECK_DEADLOCK FALSE
