SPECIFICATION Spec
CONSTANTS
  Procs = {p1, p2}
  Instances = {i1, i2}
  NoInstance = none
  Serialised = FALSE
  MaxFaults = 0
SYMMETRY Symmetry
INVARIANTS FailedInstallUnlisted
CHECK_DEADLOCK FALSE
