\* Mutexes, the console's session, the filters, the loading of programs and the
\* layer of system calls, one at a time.
CONSTANTS
  root = root
  guest = guest
  secret = secret
  None = None
  Null = Null
  Other = Other
  N = 4
  MaxPipes = 1
  Passwd <- Lines
  Typed <- Answers
  Thread = {1, 2, 3}
  Tool = {"cat", "cp", "l2u", "grep", "more"}
  Text <- Texts
  Pattern <- AThenB
  Page = 2
  Signals = {4, 9}
  Value = {0, 1}
  MaxSent = 1
  MaxDepth = 1
  Mailer = {1, 2, 3}
  MaxKills = 2
  Image = 2
  Program = {"a", "b"}
  Blocks <- OneAndTwo
  Place <- Apart
  Direct = 1
  Room = 2
SPECIFICATION MCSpec
CHECK_DEADLOCK FALSE
INVARIANTS
  ServicesTyped
  
  OneSession
  Filtered
  OwnProgram
PROPERTIES
  SessionGoesOn
  EffectAsNamed
  NineKills
