CONSTANTS
  WaitTicks = 1
  TicksPerSecond = 2
  Seconds = {1, 2, 3}
SPECIFICATION Spec
INVARIANTS
  TypeOK
  NothingLeftInService
  EveryVectorHasGate
  ByteIsAnnounced
PROPERTIES
  BytesConsumed
  BootEnds
  HeaderMovesOn
