CONSTANTS
  Index = {0, 510, 511}
  Cr3 = 100
  FrameSize = 4096
  ByteBits = 8
  WordFrames = 262144
  FrameWords = 512
  Hhdm = 512
  Frames = {0, 1, 2, 3, 4, 5, 6, 7, 8, 9, 10, 11, 12, 13, 32768}
  WordMod = 1073741824
  Magic = 1262636360
  LapicFrame = 400
  Machines <- MCMachines
SPECIFICATION Spec
INVARIANTS
  WalkersAgree
  WalksStayInTables
  HaltsForCause
PROPERTIES
  MappingOnlyGrows
  BootEnds
