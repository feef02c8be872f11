SPECIFICATION SafeSpec
CONSTANTS
  Main = main
  Registry = reg
  Threads = {main, co1}
  Tables = {reg}
  Raws = {}
  Strings = {s1}
  Lists = {}
  Closures = {}
  NoThread = none
  MaxSweepCount = 1
  FullKinds = {"Emergency"}
  Finalizers = {FALSE}
INVARIANTS ReachableNotDead TriColor
