SPECIFICATION Spec
CONSTANTS
  LongLog = 0
  NumPages = 4
  LAST_ENTRY = 3
  WriteSize = 2
  AttrSize = 1
  EXTEND_THRESHOLD = 2
  Ranges <- LastPage
  Fills <- OnePage
  Sizes = {0, 1}
  Modes = {0, 1}
  FilePages = 2
  MaxOps = 4
  MaxFails = 1
  MaxCrashes = 1
INVARIANTS
  RebuildExact
  InvalidPagesExact
  
  PagesOwned
PROPERTY
  CrashAtomic
