SPECIFICATION Spec
CONSTANTS
  none = none
  malformed = malformed
  None <- none
  Malformed <- malformed
  Ids <- MCIds
  Absent = absent
  CutOff = cut_off
  Workspace <- MCWorkspace
  Revisions <- MCRevisions
  Revised <- MCRevised
  Budget <- MCBudget
  Scenarios = {s1, s2}
  MaxUpsets = 1
  Courses <- MCCourses
VIEW ButExit
SYMMETRY ScenarioSymmetry
INVARIANTS
  TypeOK
  ManifestFaithful
  CoverageConsistent
  CoverageTalliesAgree
  DocsAgreeWithEvidence
CHECK_DEADLOCK FALSE
