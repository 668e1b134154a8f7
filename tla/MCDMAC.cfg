CONSTANTS
  NoHandler = NoHandler
  UsedCh <- MCUsedCh
  MaxCount = 2
  MaxBlocks = 1
  MaxChain = 1
  Modes <- MCModes

SPECIFICATION Spec

INVARIANTS
  TypeOK
  ActiveIsStarted

PROPERTIES
  StopIsReported
  CompletesEmpty
  ExecReturns
