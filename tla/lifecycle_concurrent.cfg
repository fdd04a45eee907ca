SPECIFICATION FairSpec
CONSTANTS
  Procs = {p1, p2}
  Instances = {i1, i2}
  NoInstance = none
  Serialised = FALSE
  MaxFaults = 0
INVARIANTS PublishedWasVerified RemovedLeavesNoFiles
PROPERTY CommandsReturn
CHECK_DEADLOCK FALSE
