\* One pair, four sockets: two sessions of the same pair, one after the other, so that a
\* replacement, a half-open session and a drained bucket meet a rejoin.
SPECIFICATION Spec
CONSTANTS
  Pairs = {p1}
  Sockets = {s1, s2, s3, s4}
  None = None
  MaxPairs = 1
  MaxProvisions = 1
  ProvisionWindow = 2
  MaxSockets = 3
  PairTTL = 2
  SessionTTL = 1
  Burst = 1
  FrameCost = 1
  MaxMessages = 2
  Horizon = 2
INVARIANTS
  TypeOK
  OpenIsCurrent
  GenerationPaired
  RateBound
PROPERTIES
  ForwardAnnounced
  PeerForLife
SYMMETRY Symmetric
CHECK_DEADLOCK FALSE
