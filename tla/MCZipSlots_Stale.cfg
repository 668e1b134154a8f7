CONSTANTS
  Archive <- MCArchive
  NoArchive = "none"
  Floppies <- MCFloppies
  Hdfs <- MCHdfs
  ZIP_SLOTS = 2
  ZIP_MEMBERS = 2
  MAX_DISKS = 2
  Reinits = FALSE

SPECIFICATION Spec

PROPERTY NothingStale
