\* Three requests about one address; then one pair and three sockets, a queue of two and
\* three messages.
SPECIFICATION MCSpec
CONSTANTS
  Emails = {e}
  Passwords = {w, v}
  Requests = {q1, q2, q3}
  None = None
  Pairs = {p}
  Conns = {c1, c2, c3}
  MaxPending = 2
  PendingTTL = 1
  RateLimit = 2
  Window = 2
  MaxMessages = 3
  Horizon = 2
SYMMETRY Symmetric
INVARIANTS
  TypeOK
  TokensOutliveCrashes
  OnceAndInOrder
PROPERTIES
  QueueKeeps
CHECK_DEADLOCK FALSE
