SPECIFICATION FairSpec
CONSTANTS
  Backups = {"new"}
  PVCs = {"root", "data"}
  Contents <- MCContents
  Findings <- AllReadable
  RestoreSpecs <- InUserNamespace
  ValidChoices <- BothValid
  StartPhases = {"Completed"}
  Mishaps = {"crash"}
  MaxFaults = 1
  MaxRestores = 4
  MaxVersions = 2
  StaleReads = FALSE
PROPERTY EventuallySettles
CHECK_DEADLOCK FALSE
