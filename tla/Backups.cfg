CONSTANTS
  p = p
  r = r
  o1 = o1
  o2 = o2
  k = k
  Instances = {p, r}
  Primary = p
  PVCs = {1, 2, 3}
  DataPVC <- NamingRule
  Volumes <- OwnVolumes
  Commits = {k}
  Ops = {o1, o2}
  Cap = 3
  KeepLast = 1
SYMMETRY Symmetric
SPECIFICATION Spec
INVARIANTS TypeOK RollbackKept
PROPERTIES NewestRunsKept
CHECK_DEADLOCK FALSE
