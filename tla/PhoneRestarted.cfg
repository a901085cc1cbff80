\* A disconnect, a restart and a session that is let in.
SPECIFICATION Spec
CONSTANTS
  None = None
  SupportsRelay = TRUE
  MaxDials = 2
  MaxActs = 2
INVARIANTS
  SessionEndsDisconnect
CHECK_DEADLOCK FALSE
