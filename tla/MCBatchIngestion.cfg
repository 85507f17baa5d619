SPECIFICATION BatchSpec
CONSTANTS
  r1 = r1  r2 = r2
  n1 = n1  n2 = n2
  Nil = Nil
  Calls = {r1, r2}
  Names = {n1, n2}
  NRows = 2
SYMMETRY Symmetry
INVARIANTS
  AllOrNothing
  NothingBrokenLands
  ClosedBatchesStayClosed
