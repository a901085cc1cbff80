\* Three sockets and two acts of the user or deaths of the process.
SPECIFICATION Spec
CONSTANTS
  None = None
  SupportsRelay = TRUE
  MaxDials = 3
  MaxActs = 2
INVARIANTS
  ConnectedIsAuthenticated
  SavedDisconnectHolds
CHECK_DEADLOCK FALSE
