SPECIFICATION Spec
CONSTANTS
  Backups = {"old", "new"}
  PVCs = {"root", "data"}
  Contents <- MCContents
  Findings <- Anything
  RestoreSpecs <- EverySpec
  ValidChoices <- SomeValid
  StartPhases = {"absent", "InProgress"}
  Mishaps = {"restore fails", "claim lost", "discovery fails", "discovery deleted",
             "access refused"}
  MaxFaults = 0
  MaxRestores = 2
  MaxVersions = 2
  StaleReads = FALSE
INVARIANT TypeOK
PROPERTY TerminalIsFinal
PROPERTY ImplementsLifecycle
CHECK_DEADLOCK FALSE
