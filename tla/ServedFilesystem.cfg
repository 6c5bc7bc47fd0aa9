SPECIFICATION Spec
CONSTANTS
  Backups = {1, 2, 3}
  Date <- TwoDays
  Claims <- FilesystemDisk
  Contents <- OnlyFilesystem
  Specs <- BothMethods
INVARIANT EveryModeIsServed
