SPECIFICATION FairSpec
CONSTANTS
  Backups = {"new"}
  PVCs = {"root", "data"}
  Contents <- MCContents
  Findings <- AllReadable
  RestoreSpecs <- DeletionSpecs
  ValidChoices <- BothValid
  StartPhases = {"Completed"}
  Mishaps = {"user deletes", "api error", "crash", "route refused"}
  MaxFaults = 2
  MaxRestores = 3
  MaxVersions = 3
  StaleReads = FALSE
INVARIANT CompletedServesAll
PROPERTY RecordedRestoresAreReused
INVARIANT WorkloadCleanedUp
PROPERTY DeletionCompletes
PROPERTY ImplementsLifecycle
CHECK_DEADLOCK FALSE
