SPECIFICATION ScenarioSpec
CONSTANTS
  u1 = u1
  u2 = u2
  u3 = u3
  u4 = u4
  h1 = h1
  h2 = h2
  h3 = h3
  h4 = h4
  h5 = h5
  c1 = c1
  c2 = c2
  c3 = c3
  c4 = c4
  Uris = {u1, u2, u3}
  Stateless = {}
  Singletons = {u1}
  Internal = {u3}
  Guarded = {u1}
  Existing = {}
  Warm = {}
  Conns = {h1, h2, h4, h5}
  ClientOf <- Shared
  PrincipalOf <- Alice
  Calls = {c1, c2, c3, c4}
  Requests <- Wanted
  Scenarios <- FaultScenarios
  Outcomes = {"accept", "reject", "throw", "return", "dispatch"}
  Faults = {"write", "crash", "send"}
  ReplayLimit = 1
  None = None
  Absent = Absent
  Host = Host
SYMMETRY Symmetry
INVARIANTS
  TypeOK
  LogIncreasing
  DeliveredIsDurable
  SameSeqSameEnvelope
  DeliveryInOrder
PROPERTIES
  StaleIsInert
  ReplayIsExact
  ImplementsCommitLog
CHECK_DEADLOCK FALSE
