SPECIFICATION FairSpec
CONSTANTS
  Tasks = {t1, t2, t3}
  Places = {p1}
  Keys = {k1, k2}
  Free = free
  None = none
INVARIANTS TypeOK MutualExclusion NoLockLeaks
PROPERTIES ArrivalOrder NoNeedlessWait
CHECK_DEADLOCK FALSE
