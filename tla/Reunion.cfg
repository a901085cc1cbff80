\* A connection lost, a session failed, another phone refused, and two acts of the users.
SPECIFICATION FairSpec
CONSTANTS
  MaxActs = 2
  MaxLosses = 1
  MaxRefusals = 1
INVARIANTS
  LeftAlone
PROPERTIES
  PickIsHeard
  AutomaticMeets
CHECK_DEADLOCK FALSE
