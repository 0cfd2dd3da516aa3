SPECIFICATION Spec
CONSTANTS
  DownSize = 4
  MaxRead = 3
  SendLimit = 7
INVARIANT Delivered
PROPERTY TakesWhatIsThere
