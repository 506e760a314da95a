CONSTANTS
  None = none
  Turns <- TwoTurns
  Running <- OneTurn
  Past = 2
  PageSize = 1
  MaxWire = 1
  MaxOps = 2
  MaxLines = 3
  PageLines = 1
  MaxClicks = 2
SPECIFICATION Spec
INVARIANTS ChunksAreKept IdsAreUnique LinesAreOrdered
PROPERTIES TurnsAreSeenToEnd EndIsShown
CHECK_DEADLOCK FALSE
