SPECIFICATION Spec
CONSTANTS
  none = none
  malformed = malformed
  None <- none
  Malformed <- malformed
  Absent = absent
  CutOff = cut_off
  Ids <- MCIds
  Content <- MCContent
  Scenarios <- MCScenarios
  Mission <- MCMission
  Missions <- MCMissions
  Misdeeds <- MCMisdeeds
  Revised <- MCRevised
  Budget <- MCBudget
INVARIANTS
  TypeOK
  ReferencesResolve
  ExpectedIsChecked
  VerifiedAccounts
CHECK_DEADLOCK FALSE
