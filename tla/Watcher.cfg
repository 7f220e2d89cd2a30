SPECIFICATION FairSpec
CONSTANTS
  d = d
  x = x
  Root = root
  Dirs = {d}
  Files = {x}
  In <- Inside
  Bad = {3}
  Hasty = FALSE
  MaxChanges = 6
INVARIANTS TypeOK ClosedIsQuiet
PROPERTIES NeverGoesBack FollowsDisk
CHECK_DEADLOCK FALSE
