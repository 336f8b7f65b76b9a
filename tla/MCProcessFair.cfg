\* Liveness of the process core; one priority, so that round robin applies;
\* a grandchild of init with a child of its own.
CONSTANTS
  NPROC = 5
  MaxPause = 0
  Priorities <- OnePriority
  KillPoints <- LivePoints
  InitCalls <- InitLoop
  UserCalls <- ForkAndSwitch
  PAUSE = PAUSE
  DEV = DEV
  NoEvent = NoEvent
SPECIFICATION FairSpec
PROPERTIES
  InitReaps
  RoundRobin
