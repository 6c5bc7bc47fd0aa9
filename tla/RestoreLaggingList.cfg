SPECIFICATION Spec
CONSTANTS
  Backups = {"old", "new"}
  PVCs = {"root", "data"}
  Contents <- MCContents
  Findings <- AllReadable
  RestoreSpecs <- InUserNamespace
  ValidChoices <- BothValid
  StartPhases = {"Completed"}
  Mishaps = {}
  MaxFaults = 0
  MaxRestores = 2
  MaxVersions = 3
  StaleReads = TRUE
INVARIANT CompletedServesAll
CHECK_DEADLOCK FALSE
