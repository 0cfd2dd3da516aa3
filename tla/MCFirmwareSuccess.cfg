SPECIFICATION Spec
CONSTANTS
  TxDepth = 2
  RxDepth = 2
  RegCount = 8
  Factory <- MCFactory
  MayNack = TRUE
  StormLimit = 30
  PromptStart = TRUE
  TpCalib <- MCTpCalib
  HumCalib <- MCHumCalib
  Config <- MCConfig
  Readback <- MCReadback
INVARIANT ReadbackShown
CHECK_DEADLOCK FALSE
