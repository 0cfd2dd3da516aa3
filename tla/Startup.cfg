SPECIFICATION Spec
CONSTANTS
  Half = 16
  Period = 5
  DataSize = 2
  BssSize = 2
  PowerUp = {3, 31}
  ResetLimit = 2
INVARIANT MainInitialised
PROPERTIES EveryPeriod StartupEnds
