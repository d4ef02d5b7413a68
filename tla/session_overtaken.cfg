SPECIFICATION Spec
CONSTANTS
  Uris = {u1}
  Stateless = {}
  Mortal = {}
  MaxSockets = 1
  ReplayLimit = 1
  Verdicts = {"accept"}
  MaxForeign = 0
  Crashes = FALSE
  Durable = TRUE
  Habits = {}
  Troubles = {}
  MaxDispatch = 2
  MaxRequests = 4
  None = None
INVARIANTS
  DuplicatesWereCommitted
CHECK_DEADLOCK FALSE
