\* Safety of pipes without dup2.
CONSTANTS
  Proc = {p1, p2, p3}
  NFD = 2
  NOFT = 2
  NPIPE = 1
  PSIZE = 1
  Byte = {a}
  MaxBytes = 2
  None = None
  File = File
  StdFds = {}
  Calls <- CountingCalls
SPECIFICATION Spec
SYMMETRY ProcSymmetry
CHECK_DEADLOCK FALSE
INVARIANTS
  TypeOK
  CountsExact
  NoMissedWakeup
