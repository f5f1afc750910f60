CONSTANTS
  Width = 3
  Height = 4
  ContentTop = 2
  CursorSize = 2
  Moves <- MCMoves
  Seconds = {0, 1}
SPECIFICATION Spec
INVARIANTS
  TypeOK
  CursorInside
  HeaderIntact
PROPERTIES
  PictureKept
