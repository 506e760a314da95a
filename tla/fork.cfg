CONSTANTS
  Repos = {src, fork1, fork2}
  Names = {main}
  Trees = {t1, t2}
  MaxRevs = 6
  MaxOps = 3
SYMMETRY Symmetries
SPECIFICATION Spec
INVARIANTS ForksStandAlone
PROPERTY ForksCopyVersions
CHECK_DEADLOCK FALSE
