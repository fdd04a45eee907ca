SPECIFICATION FairSpec
CONSTANTS
  Writers = {w1}
  Surfaces <- ThreeSurfaces
  Snapshot = "mission_snapshot"
  Versions = {v1, v2, broken}
  Unloadable = {broken}
  Absent = absent
  NoManifest = nomanifest
  Serialised = TRUE
  MaxFaults = 1
INVARIANTS TypeOK ManifestDescribes OneLoad
PROPERTIES ChangesUnannounced ExportPublishes
