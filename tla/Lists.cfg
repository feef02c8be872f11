SPECIFICATION Spec
CONSTANTS
  Calls <- ListCalls
  Extra = {0}
  InsertThreshold = 5
  QuickThreshold = 10
  Growth = 1
CHECK_DEADLOCK FALSE
INVARIANTS NothingLost InOrderWhenShort Meaning
PROPERTY Ends
