SPECIFICATION Spec
CONSTANTS
  Backups = {"old", "new"}
  PVCs = {"root", "data"}
  Contents <- MCContents
  Findings <- AllReadable
  RestoreSpecs <- InUserNamespace
  ValidChoices <- BothValid
  StartPhases = {"Completed"}
  Mishaps = {"restore fails"}
  MaxFaults = 0
  MaxRestores = 3
  MaxVersions = 2
  StaleReads = TRUE
 
PROPERTY SettledIsFinal
CHECK_DEADLOCK FALSE
