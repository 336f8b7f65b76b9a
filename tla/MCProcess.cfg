\* Safety of the process core: P0, init and two process slots.
CONSTANTS
  NPROC = 4
  MaxPause = 1
  Priorities <- TwoPriorities
  KillPoints <- SafePoints
  InitCalls <- InitLoop
  UserCalls <- AllCalls
  PAUSE = PAUSE
  DEV = DEV
  NoEvent = NoEvent
SPECIFICATION Spec
INVARIANTS
  TypeOK
  SchedulerHasNext
  ListInv
  FamilyInv
  NoMissedZombie
PROPERTY
  HighestRuns
