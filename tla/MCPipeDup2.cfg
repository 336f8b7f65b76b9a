\* dup2 over stdout and then a close of the first descriptor.
CONSTANTS
  Proc = {p1, p2, p3}
  NFD = 3
  NOFT = 2
  NPIPE = 1
  PSIZE = 1
  Byte = {a}
  MaxBytes = 1
  None = None
  File = File
  StdFds = {}
  Calls <- ShellCalls
SPECIFICATION SpecDup2
CHECK_DEADLOCK FALSE
PROPERTY
  EndOfFileIsTrue
