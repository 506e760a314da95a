CONSTANTS
  Names = {n1}
  Blobs = {b1, b2}
  Zero = zero
  Repos = {p1, p2}
  Revs = {"r1", "r2"}
  MaxSteps = 4
SYMMETRY RepoSymmetry
SPECIFICATION MCSpec
INVARIANT StoreMatchesReferences
PROPERTY SweepSparesTheLiving
CHECK_DEADLOCK FALSE
