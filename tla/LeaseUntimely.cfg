CONSTANTS
  o1 = o1
  o2 = o2
  o3 = o3
  Ops <- TwoOps
  NoOp = NoOp
  Duration = 3
  Skew <- TwoSkewed
  Spread = 1
  Timely = FALSE
SPECIFICATION LeaseFairSpec
PROPERTIES  CrashedLeaseIsFreed
