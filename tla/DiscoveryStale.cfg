SPECIFICATION Spec
CONSTANTS
  Backups = {2, 3, 4}
  DayLength = 2
  SpecChoices <- TwoSpecs
  Clusters <- AllGood
  BatchSize = 2
  MaxTries = 3
  MaxGeneration = 1
  MaxVersions = 3
  MaxFaults = 2
  StaleReads = TRUE
INVARIANT TypeOK
INVARIANT StatsMatchProgress
INVARIANT SlotsDistinct
CHECK_DEADLOCK FALSE
