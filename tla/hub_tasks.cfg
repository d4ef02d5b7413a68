SPECIFICATION OrderedSpec
CONSTANTS
  u1 = u1
  u2 = u2
  u3 = u3
  u4 = u4
  h1 = h1
  h2 = h2
  h3 = h3
  h4 = h4
  h5 = h5
  c1 = c1
  c2 = c2
  c3 = c3
  c4 = c4
  Uris = {u1, u2}
  Stateless = {u2}
  Singletons = {}
  Internal = {}
  Guarded = {}
  Existing = {u1}
  Warm = {u1}
  Conns = {}
  ClientOf <- Apart
  PrincipalOf <- Alice
  Calls = {1, 2, 3}
  Requests <- TaskRequests
  MaxTasks = 3
  Scenarios = {}
  Outcomes = {"accept", "throw", "return", "dispatch"}
  Faults = {}
  ReplayLimit = 1
  None = None
  Absent = Absent
  Host = Host
INVARIANTS
  CommitsExclude
  NoTaskEscapes
PROPERTIES
  EveryCallSettles
  CloseSettles
CHECK_DEADLOCK FALSE
