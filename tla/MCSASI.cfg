CONSTANTS
  Target <- MCTarget
  Nowhere = 127
  Drive <- MCDrive
  Byte <- MCByte
  BlockSize = 2
  CountMod = 3
  MaxFirst = 1
  MaxBlocks = 2

SPECIFICATION Spec

INVARIANT TypeOK

PROPERTIES
  MovesBlocks
  StatusIsAnnounced
  ReturnsToBusFree
