SPECIFICATION Spec
CONSTANTS
  MaxStack = 40
  FastConsts = 60
  StackSize = 50
  MinStack = 2
  View <- Shown
  ByteMax = 5
  MaxIStrLen = 3
  IntSize = 3
  SizeSize = 3
  Programs <- AllPrograms
  Refused <- BadPrograms
  Stored <- StoredPrograms
  Inputs <- AllInputs
  Compiled <- CompiledPrograms
  Meant <- Meanings
CHECK_DEADLOCK FALSE
INVARIANTS BehavesAsWritten Accepted CodeSound CapturesInFrames StaysInFrame LoadedAsSaved TruncationRefused
PROPERTY Halts
