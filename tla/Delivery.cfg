\* One message under two ids, two posts or acts of the users, a fault, and a queue of one frame.
SPECIFICATION FairSpec
CONSTANTS
  None = None
  Ids = {m1, m2}
  Content <- SameMessage
  MaxPending = 1
  MaxFrames = 1
  MaxActs = 2
  MaxFaults = 1
INVARIANTS
  TypeOK
  SentIsStored
  OnePopup
PROPERTIES
  StatusKept
  Delivered
CHECK_DEADLOCK FALSE
