SPECIFICATION Spec
CONSTANTS
  Conns = {c1, c2}
  Droppable = {c1, c2}
  Crashable = {c1, c2}
  MaxLines <- OneTalker
  Talker = c1
  SessionsOf <- ShortCommands
INVARIANTS TypeOK SessionWasGranted ExclusiveUnlessRaced FlagMatchesOwner
PROPERTY ServesSessions
CHECK_DEADLOCK FALSE
