SPECIFICATION Spec
CONSTANTS
  Uris = {u1, u2}
  Stateless = {}
  Mortal = {}
  MaxSockets = 2
  ReplayLimit = 1
  Verdicts = {"accept", "reject", "throw"}
  MaxForeign = 1
  Crashes = TRUE
  Durable = FALSE
  Habits = {}
  Troubles = {"timeout", "shutdown"}
  MaxDispatch = 1
  MaxRequests = 3
  None = None
INVARIANTS
  TypeOK
  NothingSkipped
  OptimisticIsCurrent
  OutcomesAreTrue
  QuietAgrees
PROPERTIES
  ImplementsFollower
CHECK_DEADLOCK FALSE
