SPECIFICATION Spec
CONSTANTS
  Procs = {p1, p2}
  Words <- TextsHere
  Empty = ""
  Facts = {"catpet", "catdog", "dogpet"}
  EntryWords <- Entries
  IndexWords <- Indexed
  FlagOf <- Flags
  FileOf <- Files
  Garbage = {0, 1}
  None = None
  Null = Null
  MaxPk = 3
  MaxId = 27
INVARIANTS TypeOK ReportedStored ColumnsResolve OnlySubjectLost FoundByItsWords
  NewKeysAreClean
PROPERTY AnswersAreFresh
SYMMETRY ProcSymmetry
CHECK_DEADLOCK FALSE
