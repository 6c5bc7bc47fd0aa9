SPECIFICATION Spec
CONSTANTS
  Backups = {2, 3, 4}
  DayLength = 2
  SpecChoices <- EveryMode
  Clusters <- EveryKind
  BatchSize = 2
  MaxTries = 3
  MaxGeneration = 2
  MaxVersions = 2
  MaxFaults = 0
  StaleReads = FALSE
INVARIANT ResultsAnswerSpec
INVARIANT TimeRangeAsWritten
CHECK_DEADLOCK FALSE
