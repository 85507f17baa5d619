SPECIFICATION Spec
CONSTANTS
  Requests = {r1, r2, r3}
  First = first
  None = none
SYMMETRY RequestSymmetry
CHECK_DEADLOCK FALSE
INVARIANTS
  NothingAfterPurge
  DoorsStayShut
  ViewsAreOnRecord
