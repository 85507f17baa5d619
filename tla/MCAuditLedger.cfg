SPECIFICATION Spec
CONSTANTS
  r1 = r1  r2 = r2  r3 = r3  r4 = r4
  o1 = o1  o2 = o2  o3 = o3
  k1 = k1
  None = None
  Requests = {r1, r2, r3, r4}
  Orgs = {o1, o2}
  Locked = {o1}
  Keys = {k1}
  LockKey <- SharedKey
  Clock <- SkewedClock
  MaxAttempts = 2
SYMMETRY Symmetry
INVARIANTS
  ChainVerifies
  SequenceIsPosition
  EntryMatchesMutation
PROPERTIES
  AppendOnly
  ImplementsJournal
