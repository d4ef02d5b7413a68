SPECIFICATION Spec
CONSTANTS
  Uris = {u1}
  Stateless = {}
  Mortal = {}
  MaxSockets = 1
  ReplayLimit = 1
  Verdicts = {"accept"}
  MaxForeign = 2
  Crashes = FALSE
  Durable = FALSE
  Habits = {"resubscribe"}
  Troubles = {}
  MaxDispatch = 0
  MaxRequests = 3
  None = None
INVARIANTS
  ConfirmedIsLog
CHECK_DEADLOCK FALSE
