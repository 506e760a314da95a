CONSTANTS
  Names = {n1}
  Blobs = {b1, b2}
  Zero = zero
  Repos = {"p1"}
  Revs = {"r1"}
  MaxSteps = 4
SPECIFICATION Spec
INVARIANTS ReachableObjectsSurvive
CHECK_DEADLOCK FALSE
