SPECIFICATION SafeSpec
CONSTANTS
  Main = main
  Registry = reg
  Threads = {main}
  Tables = {reg}
  Raws = {}
  Strings = {}
  Lists = {l1}
  Closures = {c1}
  NoThread = none
  MaxSweepCount = 1
  FullKinds = {"Emergency"}
  Finalizers = {FALSE}
INVARIANT IInv
