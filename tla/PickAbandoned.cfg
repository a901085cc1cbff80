\* One act: the user picks a phone whose own user is slow to answer.
SPECIFICATION FairSpec
CONSTANTS
  MaxActs = 1
  MaxLosses = 0
  MaxRefusals = 0
PROPERTIES
  PickIsHonoured
CHECK_DEADLOCK FALSE
