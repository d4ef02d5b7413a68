SPECIFICATION Spec
CONSTANTS
  u1 = u1
  u2 = u2
  u3 = u3
  u4 = u4
  h1 = h1
  h2 = h2
  h3 = h3
  h4 = h4
  h5 = h5
  c1 = c1
  c2 = c2
  c3 = c3
  c4 = c4
  Uris = {u1}
  Stateless = {}
  Singletons = {}
  Internal = {}
  Guarded = {}
  Existing = {u1}
  Warm = {u1}
  Conns = {h1}
  ClientOf <- Apart
  PrincipalOf <- Alice
  Calls = {c1, c2, c3}
  Requests <- DestroyRequests
  Scenarios = {}
  Outcomes = {"accept", "return"}
  Faults = {}
  ReplayLimit = 1
  None = None
  Absent = Absent
  Host = Host
SYMMETRY Symmetry
INVARIANTS
  DestroyedStaysDestroyed
CHECK_DEADLOCK FALSE
