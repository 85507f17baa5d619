SPECIFICATION FairSpec
CONSTANTS
  r1 = r1
  r2 = r2
  t1 = t1
  t2 = t2
  b = b
  c = c
  g = g
  Requests = {r1, r2}
  Tenants = {t1, t2}
  TenantRows = {b, c}
  Grants = {g}
  Ops <- MCOps
  Arrivals <- MCArrivals
  Seeded <- MCSeeded
  Connections = 2
  MaxCalls = 2
  Admin = Admin
  Owner = Owner
  None = None
CHECK_DEADLOCK FALSE
INVARIANTS
  OperationsStayHome
  OwnerRunsAreExplained
  PoliciesChangeNothing
  PoolStallsOnLookups
PROPERTIES
  EveryCallSettles
