\* A signal that arrives while fork() copies the image.
CONSTANTS
  NPROC = 4
  MaxPause = 1
  Priorities <- OnePriority
  KillPoints <- ForkPoint
  InitCalls <- InitLoop
  UserCalls <- AllCalls
  PAUSE = PAUSE
  DEV = DEV
  NoEvent = NoEvent
SPECIFICATION Spec
PROPERTY
  KilledAtReturn
