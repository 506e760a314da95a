CONSTANTS
  Names = {n1}
  Blobs = {b1, b2}
  Zero = zero
  Revs = {"r1", "r2"}
  MaxSteps = 9
SPECIFICATION Spec
INVARIANT SubdirectoriesAreCommitted
CHECK_DEADLOCK FALSE
