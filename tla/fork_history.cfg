CONSTANTS
  Repos = {src, fork1}
  Names = {main}
  Trees = {t1}
  MaxRevs = 6
  MaxOps = 3
SPECIFICATION Spec
PROPERTIES EdgesAreCopied
CHECK_DEADLOCK FALSE
