SPECIFICATION FairSpec
CONSTANTS
  Connections = {c1, c2}
  Calls = {}
  Sweeps = {s1}
  MaxPages = 2
  Served = {"ASANA", "MONDAY"}
PROPERTIES
  EveryDueOneIsTried
  SyncsSettle
