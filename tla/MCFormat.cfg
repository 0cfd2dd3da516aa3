SPECIFICATION Spec
CONSTANTS
  WordBits = 30
  Capacity = 8
  MaxLength = 8
  Numbers <- MCNumbers
  Strings <- MCStrings
INVARIANTS PrintsTheGrammar ReadsBack
CHECK_DEADLOCK FALSE
