SPECIFICATION ScenarioSpec
CONSTANTS
  u1 = u1
  u2 = u2
  u3 = u3
  u4 = u4
  h1 = h1
  h2 = h2
  h3 = h3
  h4 = h4
  h5 = h5
  c1 = c1
  c2 = c2
  c3 = c3
  c4 = c4
  Uris = {u1, u2, u3, u4}
  Stateless = {u3}
  Singletons = {}
  Internal = {u2}
  Guarded = {u1}
  Existing = {u1, u2, u4}
  Warm = {u1, u2, u4}
  Conns = {h1, h2, h3, h4, h5}
  ClientOf <- Shared
  PrincipalOf <- Alice
  Calls = {c1, c2, c3, c4}
  Requests <- Wanted
  Scenarios <- LinkScenarios
  Outcomes = {"accept", "return"}
  Faults = {}
  ReplayLimit = 1
  None = None
  Absent = Absent
  Host = Host
SYMMETRY Symmetry
INVARIANTS
  SnapshotAtMostOneAhead
  MirrorFollowsLogUnlessTorn
  StateIsTheLog
  CommitsFollowClient
  ResumedSeesAll
  OneLinkPerClient
  InternalHidden
CHECK_DEADLOCK FALSE
