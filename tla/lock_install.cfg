SPECIFICATION Spec
CONSTANTS
  copy1 = copy1
  copy2 = copy2
  older = older
  foreign = foreign
  Instances = {copy1, copy2, older, foreign}
  Coordinates = {"adapter", "another"}
  Releases = {"new", "old"}
  Backends = {"wheel", "other"}
  OurBackend = "wheel"
  Of <- OfInstance
  Absent = Absent
  Nothing = Nothing
  MaxFaults = 1
SYMMETRY Interchangeable
INVARIANTS TypeOK ReportedStaysUsable FailureLeavesNothing NothingTwice
