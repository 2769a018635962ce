SPECIFICATION LongSpec
CONSTANTS
  Inos = {r, x, y}
  Root = r
  First = x
  Second = y
  NoIno = none
  Names = {a, b}
  Kinds = {"reg", "node", "symlink", "dir"}
  PageCap = 2
  NOVA_LINK_MAX = 4
  InitBytes <- AnyBytes
  MaxRootLog = 9
  MaxLog = 3
  Flaggable = {r}
  MaxFaults = 0
  MaxCrashes = 1
SYMMETRY Symmetry
CHECK_DEADLOCK FALSE
PROPERTY OpAtomic
