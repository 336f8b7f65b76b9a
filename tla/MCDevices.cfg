\* The drivers, one at a time.  They stop when the bound on what is typed is
\* reached and when the card has failed.
CONSTANTS
  r1 = r1
  None = None
  Readers = {r1, r2}
  Char = {a}
  Newline = Newline
  Old = Old
  KBN = 3
  BUFLEN = 2
  MaxKeys = 4
  MaxSent = 3
  Plain = {"c", "x"}
  MaxWire = 3
  Callers = {p0, p1, p2}
  p0 = p0
  Blocks = {b1}
  Chunk = {v1, v2}
  Chunks = 2
  NNODE = 3
  MaxTime = 3
  User = {p1, p2}
  Letter = {"x"}
  Rows = 2
  Cols = 2
  ClockCol = 2
  MaxChars = 6
SPECIFICATION Spec
CHECK_DEADLOCK FALSE
INVARIANTS
  TypeOK
  NeverLate
  InOrder
  SleepsOnEmpty
  Legible
PROPERTIES
  CallsEnd
  KeysDecoded
  BlocksMoved
