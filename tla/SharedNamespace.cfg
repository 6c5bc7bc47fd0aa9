SPECIFICATION FairSpec
CONSTANTS
  VMFRs = {v1, v2}
  Foreign = {"rolebinding"}
  MaxFaults = 1
  MaxVersions = 3
  Lagging = {TRUE, FALSE}
INVARIANT TypeOK
INVARIANT AccessHasAnOwner
INVARIANT CurrentListKeepsAccess
PROPERTY NamespaceLeftClean
CHECK_DEADLOCK FALSE
