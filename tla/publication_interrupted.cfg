SPECIFICATION Spec
CONSTANTS
  Writers = {w1, w2}
  Surfaces <- TwoSurfaces
  Snapshot = "mission_snapshot"
  Versions = {v1, v2, broken}
  Unloadable = {broken}
  Absent = absent
  NoManifest = nomanifest
  Serialised = FALSE
  MaxFaults = 1
INVARIANTS NoFalseManifest
