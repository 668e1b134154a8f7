CONSTANTS
  NoHandler = NoHandler
  Channel <- MCChannel
  Source <- MCSource
  Mask <- MCMask
  EnableChoice <- MCEnableChoice
  DmaUsed <- MCDmaUsed

SPECIFICATION Spec

INVARIANTS
  TypeOK
  LineIsHighestPending
  MfpFlaggedIffDeliverable
  DmaFlaggedIffWaiting
  AnsweredByRequester

PROPERTY DeliversByPriority
