SPECIFICATION FairSpec
CONSTANTS
  TxDepth = 2
  RxDepth = 2
  RegCount = 4
  Factory <- MCFactory
  MayNack = TRUE
  StormLimit = 8
  PromptStart = FALSE
  Reads <- MCShortReads
  Writes <- MCShortWrites
PROPERTY WaiterReturns
CHECK_DEADLOCK FALSE
