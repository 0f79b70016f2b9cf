SPECIFICATION Spec
CONSTANTS
  Facts = {"cats", "cows", "rains"}
  Clauses = {"rain", "night"}
  ClausesOf <- MCClausesOf
  Says <- MCSays
  Shown = {"cats", "cows", "rains", "rain", "night"}
  WordsOf <- MCWordsOf
  FlagOf <- MCFlagOf
  FileOf <- MCFileOf
  Garbage = {0, 1}
  None = none
  MaxKey = 5
  MaxAdds = 3
INVARIANTS TypeOK OwnClauses OwnAnswers ClausesHaveTheirFact ClauseFlags FoundForAReason
CHECK_DEADLOCK FALSE
