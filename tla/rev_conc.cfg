CONSTANTS
  n1 = n1
  b1 = b1
  b2 = b2
  Names = {n1}
  Blobs = {b1, b2}
  Zero = zero
  Procs = {p1, p2}
  Messages = {"reworded"}
  RefNames = {"main", "dev"}
  Paths <- TopFile
  MaxRevs = 4
  MaxOps = 2
SPECIFICATION SpecTwo
INVARIANTS TypeOK CurrentSnapshotIsOwn HistoryIsStored BranchesResolve BranchesOwnTheirRevision
PROPERTY StableIds
CHECK_DEADLOCK FALSE
