SPECIFICATION FairSpec
CONSTANTS
  Asks = {"database_request"}
  JoinAbove = 2
  MaxSignals = 3
  MaxStatements = 2
INVARIANTS TypeOK OwnAnswers SentOnce NothingLost OnlyUnfetchedKills ShowsLastOutput
CHECK_DEADLOCK FALSE
PROPERTY AnswerArrives
