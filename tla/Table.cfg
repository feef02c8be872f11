SPECIFICATION SafeSpec
CONSTANTS
  k1 = k1
  k2 = k2
  k3 = k3
  k4 = k4
  Key <- MCKey
  Hash <- MCHash
  Val = {v1, v2}
  NoKey = nokey
  NoVal = noval
  MinSize = 4
  MaxSize = 8
INVARIANTS ChainsWellFormed FoundByKey FreeUnlessMoved NothingMissed
PROPERTY MapSpec
