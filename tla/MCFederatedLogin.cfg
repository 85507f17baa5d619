SPECIFICATION LoginSpec
CONSTANTS
  Requests = {r1}
  Posts = {p1, p2}
  Operators = {o1}
  Claims = {c1, c2}
  Roles = {boss, hand}
  Keys = {k1, k2}
  c1 = c1
  c2 = c2
  k1 = k1
  k2 = k2
  boss = boss
  hand = hand
  Priority <- MCPriority
  Configs <- MCConfigs
  Mappings <- MCMappings
  Answers <- MCAnswers
  MaxEdits = 3
  Null = Null
  Unread = Unread
SYMMETRY Symmetry
CHECK_DEADLOCK FALSE
INVARIANTS
  AcceptedTwiceOverlapped
  SwitchesInOrder
PROPERTIES
  LoginsSyncTheRole
  ManualAssignmentsStand
