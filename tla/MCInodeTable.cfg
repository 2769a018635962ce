SPECIFICATION UsedSpec
CONSTANTS
  CPUS = 2
  NumInodes = 2
  NOVA_NORMAL_INODE_START = 2
  MAX_INODE = 5
  NumPages = 5
  Threads = {t1, t2}
  NoThread = none
  Dirs = {1, 7}
  MaxOps = 3
  MaxFaults = 1
SYMMETRY Symmetry
CHECK_DEADLOCK FALSE
INVARIANTS
  NumbersHeld PagesOwned UpdatesKept LocksReleased NeverStuck
