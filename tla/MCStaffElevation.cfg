SPECIFICATION Spec
CONSTANTS
  r1 = r1  r2 = r2
  None = None
  Seed = Seed
  Earlier = Earlier
  Requests = {r1, r2}
  TTL = 1
  MaxClock = 3
  MaxEpoch = 1
SYMMETRY Symmetry
INVARIANTS
  FactorsAuthoriseOnce
  LiveOnesOverlapped
  OperationsFollowAFreshProof
