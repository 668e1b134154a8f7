CONSTANTS
  Drive <- MCDrive
  File <- MCFile
  NoFile = "none"
  Format <- MCFormat
  Protected <- MCProtected
  Contents <- MCContents
  LastXDF = 1
  LastDIM = 1
  Ready = 1
  Fill <- MCFill
  Byte <- MCByte
  SectorSize = 2
  RMod = 4
  Transfers <- MCTransfers
  Cylinders <- MCCylinders
  Formats <- MCFormats

SPECIFICATION Spec

INVARIANTS
  TypeOK
  ProtectedUnchanged

PROPERTIES
  MovesSectors
  EndIsReported
  ChangeIsAnnounced
  ReadsShrink
