CONSTANTS
  Names = {n1, n2}
  Blobs = {b1, b2, b3}
  Zero = zero
  Revs = {"r1", "r2"}
  MaxSteps = 6
  MaxEdits = 4
  WalkNames = {n1}
  CopyBlobs = {b1, b2}
SPECIFICATION MCSpec
INVARIANTS ScanIsCommitted RevisionTreesAreStored LeafMergeIsDiff3 ChangesOfBothSidesStay
CHECK_DEADLOCK FALSE
