CONSTANTS
  NBlocks = 2
  Value <- MCValue
  Original = "archive"
  Garbled = "garbled"
  MaxJournal = 5
  Archive <- MCArchive
  NoArchive = "none"
  Floppies <- MCFloppies
  Hdfs <- MCHdfs
  ZIP_SLOTS = 2
  ZIP_MEMBERS = 2
  MAX_DISKS = 2
  Reinits = TRUE

SPECIFICATION ArchivesSpec

INVARIANTS
  TypesOK
  CleanBlocksAgree
  ReplayGivesFlushed
  SlotsKeepTheirArchive
  OpensItsOwn
