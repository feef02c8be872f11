SPECIFICATION SafeSpec
CONSTANTS
  Main = main
  Registry = reg
  Threads = {main}
  Tables = {reg, t1}
  Raws = {r1}
  Strings = {}
  Lists = {}
  Closures = {}
  NoThread = none
  MaxSweepCount = 1
  FullKinds = {"Normal", "Emergency"}
  Finalizers = {TRUE, FALSE}
INVARIANTS TypeOK NoDangling GrayLinked
PROPERTIES HeapSpec FullCollectsAll
