SPECIFICATION FairSpec
CONSTANTS
  Backups = {"old", "new"}
  PVCs = {"root", "data"}
  Contents <- MCContents
  Findings <- AllReadable
  RestoreSpecs <- HealthySpecs
  ValidChoices <- BothValid
  StartPhases = {"New", "Completed"}
  Mishaps = {"user deletes", "download stuck"}
  MaxFaults = 0
  MaxRestores = 2
  MaxVersions = 3
  StaleReads = FALSE
INVARIANT HealthyNeverFails
INVARIANT CompletedServesAll
INVARIANT CleanedUp
PROPERTY EventuallySettles
PROPERTY ImplementsLifecycle
CHECK_DEADLOCK FALSE
