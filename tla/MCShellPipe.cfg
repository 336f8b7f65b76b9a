\* c1 | c2 | c3, whose last command may or may not read to the end.
CONSTANTS
  Proc = {p1, p2, p3}
  NFD = 6
  NOFT = 4
  NPIPE = 2
  PSIZE = 2
  Byte = {"x", "y", "z"}
  MaxBytes = 3
  Calls <- ShellCalls
  StdFds <- Terminal
  File = File
  None = None
  Stages = 3
  Text <- ThreeBytes
SPECIFICATION SSpec
CHECK_DEADLOCK FALSE
INVARIANTS
  OutInOrder
  NothingLeft
PROPERTIES
  PipelineEnds
  AllArrives
