SPECIFICATION Spec
CONSTANTS
  Questions = {"cat", "cow", "crab", "", "$$has_conditional_questionword$$"}
  Conditional = "$$has_conditional_questionword$$"
  Facts = {1, 2, 3, 4}
  FactsOf <- Indexed
  Hash <- Hashes
  CacheSize = 3
  Limit = 6
  Margin = 1
  MinLookups = 3
  MaxLookups = 5
INVARIANTS TypeOK EntriesAreCurrent AnswersComplete OnlyAlike
CHECK_DEADLOCK FALSE
