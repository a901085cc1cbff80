\* Four sessions: two connections, or one and two phones that try.  Four
\* frames: a confirmation and a record of two chunks, with one frame to spare
\* that a second such record does not fit in.
SPECIFICATION Spec
CONSTANTS
  p1 = p1
  p2 = p2
  a = a
  b = b
  Ids = {s1, s2, s3, s4}
  Phones = {p1, p2}
  PC = PC
  None = None
  Chunks = {a, b}
  Records <- MCRecords
  MaxMessages = 4
SYMMETRY Symmetry
INVARIANTS
  TypeOK
  Agreement
  TalksToPinned
  NonceOnce
PROPERTIES
  ImplementsLink
CONSTRAINT FewRecords
CHECK_DEADLOCK FALSE
