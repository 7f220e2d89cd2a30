SPECIFICATION FairSpec
CONSTANTS
  d = d
  x = x
  Root = root
  Dirs = {d}
  Files = {x}
  In <- Inside
  Bad = {3}
  Hasty = TRUE
  MaxChanges = 5
PROPERTIES EveryDirectoryIsWatched
CHECK_DEADLOCK FALSE
