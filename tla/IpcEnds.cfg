SPECIFICATION FairSpec
CONSTANTS
  Asks = {"tagger2012"}
  JoinAbove = 1
  MaxSignals = 2
  MaxStatements = 1
PROPERTY StatementEnds
CHECK_DEADLOCK FALSE
