SPECIFICATION LongSpec
CONSTANTS
  LongLog = 6
  NumPages = 10
  LAST_ENTRY = 4
  WriteSize = 3
  AttrSize = 1
  EXTEND_THRESHOLD = 1
  Ranges <- EachPage
  Fills <- None
  Sizes = {2}
  Modes = {0}
  FilePages = 2
  MaxOps = 14
  MaxFails = 1
  MaxCrashes = 1
INVARIANTS
  RebuildExact
  PagesOwned
PROPERTY
  CrashAtomic
