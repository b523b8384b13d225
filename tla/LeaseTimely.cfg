CONSTANTS
  o1 = o1
  o2 = o2
  o3 = o3
  Ops <- ThreeOps
  NoOp = NoOp
  Duration = 3
  Skew <- ThreeSkewed
  Spread = 1
  Timely = TRUE
SPECIFICATION LeaseSpec
PROPERTY ImplementsExclusive
