SPECIFICATION Spec
CONSTANTS
  Slash <- slash
  Colon <- colon
  Templates <- Map
  None = None
  Base = 2
  Width = 3
  Channel <- channel
  HostKeys <- OwnKeys
  Handles <- Calls
  Listed = {1, 2, 3}
  PageLimit = 2
INVARIANTS
  ScanIsComplete
  HandleFindsItsOwn
  PagesAgree
