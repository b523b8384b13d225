CONSTANTS
  one = one
  two = two
  NoOne = NoOne
  Ops <- Solo
  Instance <- Untargeted
  Forcing = {}
  Replicas = 3
  MayFail = {"suspend", "scale", "helper"}
  MayMislead = {"scale"}
  Overlap = FALSE
  MayInterrupt <- Solo
  MayDie = TRUE
SPECIFICATION FairSpec
INVARIANTS TypeOK OperatorRestored
PROPERTIES OkIsHonest RepairEnds
CHECK_DEADLOCK FALSE
