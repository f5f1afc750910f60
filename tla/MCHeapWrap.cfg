CONSTANTS
  FrameWords = 16
  Hhdm = 4
  Frames = {0, 1}
  Requests = {13, 4090}
  WordMod = 4096
  Magic = 999
SPECIFICATION Spec
INVARIANT OversizePanics
