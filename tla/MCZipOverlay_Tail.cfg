CONSTANTS
  NBlocks = 2
  Value <- MCValue
  Original = "archive"
  Garbled = "garbled"
  MaxJournal = 5

SPECIFICATION Spec

INVARIANT FlushedIsKept
