\* Two pairs, two sockets, no symmetry: provisioning, expiry and what time alone must bring about.
SPECIFICATION FairSpec
CONSTANTS
  Pairs = {p1, p2}
  Sockets = {s1, s2}
  None = None
  MaxPairs = 1
  MaxProvisions = 1
  ProvisionWindow = 2
  MaxSockets = 2
  PairTTL = 2
  SessionTTL = 1
  Burst = 2
  FrameCost = 2
  MaxMessages = 0
  Horizon = 3
INVARIANTS
  ProvisionBudget
PROPERTIES
  DeadlinesEnforced
CHECK_DEADLOCK FALSE
