SPECIFICATION RetrySpec
CONSTANTS
  Procs = {p1, p2}
  Instances = {i1, i2}
  NoInstance = none
  Serialised = TRUE
  MaxFaults = 3
INVARIANTS TypeOK InventoryReadable RecordsMaterialized OwnershipKept GoneIsGone LaunchesWhole
PROPERTIES RetireOnlyDismantled AtomicStore RemovalCompletes
CHECK_DEADLOCK FALSE
