SPECIFICATION Spec
CONSTANTS
  Backups = {1, 2, 3}
  Date <- TwoDays
  Claims <- RecreatedDisk
  Contents <- AnyContents
  Specs <- AnySpec
INVARIANTS TypeOK StatusAccountsForBackups BackupsAreServed
  ReadableBackupsAreAccepted
