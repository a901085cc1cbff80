\* Two phones and two connections: who gets attached, whatever the phones and the user do.
SPECIFICATION Spec
CONSTANTS
  Phones = {a, b}
  Conns = {c1, c2}
  None = None
  MaxCodes = 1
  MaxActs = 1
INVARIANTS
  DisconnectHolds
  UninvitedStaysOut
PROPERTIES
  OnlyItsEndDetaches
SYMMETRY Symmetric
CHECK_DEADLOCK FALSE
