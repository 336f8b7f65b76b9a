\* Calls on a file that is shared, on a tree of directories, on a file's bytes and
\* on mount points.
CONSTANTS
  p1 = p1
  p2 = p2
  usr = usr
  etc = etc
  c1 = c1
  c2 = c2
  Foreign = Foreign
  None = None
  Proc = {p1, p2}
  P1 = p1
  Name = {usr, etc}
  Ino = {2, 3, 4}
  Block = {1, 2, 3}
  Path <- Paths
  Flags = {"RD", "WR|CREAT", "RDWR|CREAT"}
  NFD = 2
  NOFT = 2
  MaxBlocks = 1
  MaxLinks = 3
  Careful = TRUE
  Walker = {p1}
  Point = {usr, etc}
  Special = {"fd0", "fd1", "fd2"}
  Route <- Routes
  NMOUNT = 3
SPECIFICATION MCSpec
CHECK_DEADLOCK FALSE
INVARIANTS
  TypeOK
  UsersExact
  NamesCounted
  DirectoryTree
  BlocksOwned
  MountsSound
PROPERTY
  Contents
