\* One phone that keeps coming back, two commands of the user and no symmetry: a restart, a
\* pick or a change of the preference around a disconnect, and the end of what it replaces.
SPECIFICATION FairSpec
CONSTANTS
  Phones = {a}
  Conns = {c1, c2}
  None = None
  MaxCodes = 0
  MaxActs = 2
INVARIANTS
  DisconnectHolds
PROPERTIES
  ReplacedEnds
CHECK_DEADLOCK FALSE
