CONSTANTS
  Requests = {p1, p2}
  Names = {api}
  NoOne = noone
  SpaceOf <- OneSpace
  MaxUsers = 2
  MaxOps = 6
SYMMETRY Symmetries
SPECIFICATION Spec
INVARIANTS NumbersAreGapless DeletedOnesLeaveNothing OpenCacheIsFresh
CHECK_DEADLOCK FALSE
