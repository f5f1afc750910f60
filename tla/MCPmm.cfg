CONSTANTS
  FrameSize = 4
  ByteBits = 2
  WordFrames = 64
  MemoryMaps <- WholeFrameMaps
  Callers = {boot, heap}
SPECIFICATION Spec
INVARIANTS
  TypeOK
  FrameAccounting
  NoSharing
  BitmapsFit
  RefusalJustified
  OutOfMemoryMeansFull
PROPERTIES
  InitFinishes
  ImplementsOwnership
