SPECIFICATION Spec
CONSTANTS
  Main = main
  Registry = reg
  Threads = {main, co1}
  Tables = {reg, t1}
  Raws = {}
  Strings = {}
  Lists = {}
  Closures = {}
  NoThread = none
  MaxSweepCount = 1
  FullKinds = {}
  Finalizers = {FALSE}
INVARIANT ReachableNotDead
