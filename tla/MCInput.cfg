CONSTANTS
  Keys = {2, 42, 54}
  Reports <- MCReports
  Leftovers = {250, 14}
SPECIFICATION Spec
INVARIANT InStep
PROPERTIES
  MovesAsReported
  TypedAsHeld
