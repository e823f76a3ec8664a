SPECIFICATION FairSpec
CONSTANTS
  Vts = {"old", "new"}
  Kinds <- MCKinds
INVARIANTS
  NoOrphans
  ProgramIsCovered
  RecordsAreBalanced
  JumpReturns
PROPERTIES
  StopsWhenTold
  WaitForSocketEnds
CHECK_DEADLOCK FALSE
