SPECIFICATION FairSpec
CONSTANTS
  Procs = {p1, p2}
  Files = {"facts.xml", "tobias.xml", "spiele.xml"}
  Facts = {"f1", "f2", "p1", "p2", "n1", "t1", "s1"}
  FileId <- MCId
  Source <- MCSource
  Pro <- MCPro
  Learnt <- MCLearnt
  Batch = 2
  None = none
  Lost = lost
  MaxKey = 8
  MaxOps = 3
  MaxCrash = 1
INVARIANTS TypeOK SourceAgrees RowsLeadToLines
PROPERTY LearnedIsStored
CHECK_DEADLOCK FALSE
