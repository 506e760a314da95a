CONSTANTS
  n1 = n1
  b1 = b1
  b2 = b2
  Names = {n1}
  Blobs = {b1, b2}
  Zero = zero
  Procs = {p1}
  Messages = {"reworded"}
  RefNames = {"main"}
  Paths <- Nested
  MaxRevs = 4
  MaxOps = 2
SPECIFICATION SpecSome
INVARIANTS
  RewritesStayInPlace ResolutionPropagates
  RebaseReappliesChange SquashAbsorbsTheChild DropClosesTheGapInAChain IgnoreRewriteKeepsLineage
CHECK_DEADLOCK FALSE
