SPECIFICATION Spec
CONSTANTS
  Main = main
  Thread = {main, co1, co2}
  NoThread = none
  MaxCCall = 3
  ExtraErrCall = 1
  MaxFrames = 2
  MaxArgs = 1
SYMMETRY Symmetry
CHECK_DEADLOCK FALSE
INVARIANTS ChainKept DepthCounted BoundariesCounted ContinuableUnlessBare
PROPERTY EndedStaysEnded
