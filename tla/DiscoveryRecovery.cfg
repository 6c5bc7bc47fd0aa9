SPECIFICATION FairSpec
CONSTANTS
  Backups = {2, 3, 4}
  DayLength = 2
  SpecChoices <- ThreeSpecs
  Clusters <- AllGood
  BatchSize = 2
  MaxTries = 3
  MaxGeneration = 2
  MaxVersions = 3
  MaxFaults = 2
  StaleReads = FALSE
INVARIANT CompletedMeansScanned
PROPERTY CompletedIsStable
PROPERTY DiscoveryEnds
CHECK_DEADLOCK FALSE
