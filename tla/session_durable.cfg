SPECIFICATION Spec
CONSTANTS
  Uris = {u1}
  Stateless = {}
  Mortal = {u1}
  MaxSockets = 2
  ReplayLimit = 1
  Verdicts = {"accept"}
  MaxForeign = 0
  Crashes = TRUE
  Durable = TRUE
  Habits = {}
  Troubles = {"kill", "save"}
  MaxDispatch = 1
  MaxRequests = 4
  None = None
INVARIANTS
  ConfirmedIsLog
  SubscribedHasMirror
  OncePerNumber
  OpenIsAwaited
CHECK_DEADLOCK FALSE
