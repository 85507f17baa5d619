SPECIFICATION Spec
CONSTANTS
  Connections = {c1}
  Calls = {m1, m2}
  Sweeps = {}
  MaxPages = 2
  Served <- MCServed
SYMMETRY CallSymmetry
INVARIANTS
  SyncingIsTrue
  HealthIsExplained
