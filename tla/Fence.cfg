CONSTANTS
  boot = boot
  recover = recover
  recover2 = recover2
  NoOne = NoOne
  Ops <- TwoRecoversAndABoot
  Recovers = {recover, recover2}
  Forcing = {}
  Replicas = 2
  MayFail = {"lock", "suspend", "scale", "force", "unlock"}
  MayMislead = {"lock", "unlock"}
  Overlap = {recover, recover2}
  MayInterrupt = {boot}
  MayDie = TRUE
SPECIFICATION Spec
INVARIANTS TypeOK DatadirExclusive  ClusterRestored
PROPERTIES RecoversExclude
CHECK_DEADLOCK FALSE
