CONSTANTS
  i1 = i1
  i2 = i2
  heal = heal
  heal2 = heal2
  clear = clear
  deadlock = deadlock
  inspect = inspect
  NoJob = NoJob
  Instances <- TwoInstances
  Jobs <- Apart
  Target <- ApartTarget
  Locked <- Apart
  GoDriven = {deadlock}
  Destructive = {heal, deadlock}
  KeepFenced = {deadlock}
  MaxAttempts = 2
  MayCrash = TRUE
SPECIFICATION FairSpec
INVARIANTS TypeOK HandoffExclusive NeverStartsHalfWritten IsolationKept OperatorNotForgotten
PROPERTIES OkIsHonest 
CHECK_DEADLOCK FALSE
