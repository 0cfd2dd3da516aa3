SPECIFICATION Spec
CONSTANTS
  TxDepth = 2
  RxDepth = 2
  RegCount = 8
  Factory <- MCFactory
  MayNack = TRUE
  StormLimit = 30
  PromptStart = TRUE
  TpCalib <- MCTpCalib
  HumCalib <- MCHumCalib
  Config <- MCConfig
  Readback <- MCReadback
INVARIANTS CalibrationFirst LoopIsConfigured NeverRefused ReadbackOrFault LoopIsCalm
PROPERTY BootEnds
CHECK_DEADLOCK FALSE
