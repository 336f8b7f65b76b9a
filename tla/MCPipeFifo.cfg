\* A pipe is a FIFO channel, and its ends learn that the other is gone: two
\* processes.
CONSTANTS
  Proc = {p1, p2}
  NFD = 2
  NOFT = 2
  NPIPE = 1
  PSIZE = 2
  Byte = {a, b}
  MaxBytes = 2
  None = None
  File = File
  StdFds = {}
  Calls <- NoDups
SPECIFICATION FairSpec
CHECK_DEADLOCK FALSE
PROPERTIES
  FifoChannel
  EndsLearn
