SPECIFICATION FairSpec
CONSTANTS
  TxDepth = 2
  RxDepth = 2
  RegCount = 4
  Factory <- MCFactory
  MayNack = TRUE
  StormLimit = 30
  PromptStart = TRUE
  Reads <- MCReads
  Writes <- MCWrites
INVARIANTS TypeOK ReadExact WriteExact BufferBounds DoneIsQuiet ErrorHasFault AbortHasSource IdleIsMasked FewEntries
PROPERTIES NoLateStore TransferEnds WaiterReturns ImplementsRegisterAccess
CHECK_DEADLOCK FALSE
