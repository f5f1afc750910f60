CONSTANTS
  WaitTicks = 1
  TicksPerSecond = 2
  Seconds = {1, 2, 3}
SPECIFICATION Spec
INVARIANT KeyboardReadsKeys
