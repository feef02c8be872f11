SPECIFICATION FairSpec
CONSTANTS
  Object = {o1, o2}
  CountLimit = 4
  MaxWork = 1
  MaxStack = 10
  ProgramOps = {"register", "alloc", "fullgc", "emergency", "setstate", "close"}
  FinalizerOps = {"register", "alloc", "emergency", "setstate", "throw"}
CHECK_DEADLOCK FALSE
INVARIANTS StateRestored NoReentry AllFinalized
PROPERTIES FullFinalizes StepReturns EmergencyReturns
