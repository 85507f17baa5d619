SPECIFICATION TowerSpec
CONSTANTS
  dir = dir
  dm = dm
  pm = pm
  arch = arch
  admin = admin
  director = director
  manager = manager
  owner = owner
  consulting = consulting
  Projects = {1, 2, 3}
  PhaseKeys = {"test", "deploy"}
  Controls = {"c1", "c2"}
  Roles = {"lead", "junior"}
  People = {dir, dm, pm, arch}
  HomePractices = {consulting}
  Users = {admin, director, manager, owner}
  Admins = {"a1", "a2"}
  RolePolicies = {"staff"}
  RoleOf <- MCRoleOf
  Level <- MCLevel
  Published <- MCPublished
  ApprovalThreshold = 5
  RateScale = 2
  Entries <- MCEntries
  WindowWeeks = 1
  OverloadAbove = 5
  Files <- MCFiles
  Seed <- MCSeed
  Rows <- MCRows
  Policies <- MCPolicies
  Cells = {0, 1}
  Intakes <- MCIntakes
  Reports <- MCReports
  Targets = {70, 0}
  Hours = {90}
  Days = {0, 1}
  Horizon = 5
  MaxEdits = 2
  TicksPerDay = 2
  DefaultPolicy <- MCDefault
  GoLiveHorizon <- MCGoLive
  DriverWeight = 10
  TriageLimit = 2
  None = None
CHECK_DEADLOCK FALSE
INVARIANTS
  SurfacesAgree
  MoneyReconciles
  EditorsCanSee
  StaleTargetsRaced
PROPERTIES
  TimeNeverHeals
  GoodNewsNeverHurts
