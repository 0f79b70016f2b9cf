SPECIFICATION Spec
CONSTANTS
  Conns = {c1, c2}
  Droppable = {}
  Crashable = {}
  MaxLines <- OneTalker
  Talker = c1
  SessionsOf <- ShortCommands
INVARIANT NoConcurrentSessions
CHECK_DEADLOCK FALSE
