CONSTANTS
  d1 = d1
  d2 = d2
  p = p
  r1 = r1
  r2 = r2
  None = None
  Databases <- Two
  Engine <- SameEngine
  Policies = {p}
  Specs <- FourSpecs
  Resources <- Annotations
  Slots = {1}
  MaxChanges = 2
SPECIFICATION ScheduleFairSpec
INVARIANT CronIsManaged
PROPERTIES Settles 
