SPECIFICATION Spec
CONSTANTS
  Calls <- LongList
  Extra = {0}
  InsertThreshold = 40
  QuickThreshold = 128
  Growth = 0
CHECK_DEADLOCK FALSE
INVARIANT InOrder
