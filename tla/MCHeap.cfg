CONSTANTS
  FrameWords = 16
  Hhdm = 4
  Frames = {0, 1}
  Requests = {0, 13, 60, 200}
  WordMod = 4096
  Magic = 999
SPECIFICATION Spec
INVARIANTS
  TypeOK
  Tiling
  FreeListComplete
  Accounting
  Coalesced
  PayloadFits
  HeadersHonest
PROPERTIES
  PayloadUntouched
  CallsEnd
  ImplementsGrants
