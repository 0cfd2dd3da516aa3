SPECIFICATION Spec
CONSTANTS
  UpSize = 4
  Wrap = 4
  Capacity = 2
  MaxText = 3
  TextLimit = 6
  ErrorLimit = 2
INVARIANTS TypeOK InOrder Accounted
PROPERTIES NoOverwrite DropsExcess CallsReturn
