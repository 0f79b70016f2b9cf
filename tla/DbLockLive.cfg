SPECIFICATION FairSpec
CONSTANTS
  Conns = {c1, c2}
  Droppable = {c1}
  Crashable = {c2}
  MaxLines <- OneTalker
  Talker = c1
  SessionsOf <- ShortCommands
PROPERTY LockReleased
CHECK_DEADLOCK FALSE
