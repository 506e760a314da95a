CONSTANTS
  t1 = t1
  Clients = {c1, c2}
  Branches = {"main", "dev"}
  Texts = {t1, t2}
  Patient = TRUE
  MaxRevs = 3
  MaxOps = 5
SYMMETRY ClientSymmetry
SPECIFICATION SpecShared
INVARIANTS ServerBranchesResolve TipsArrive
PROPERTIES PublishedRevisionsStay BranchesMoveForward PullMergesLines
CHECK_DEADLOCK FALSE
