SPECIFICATION Spec
CONSTANTS
  Tasks = {t1, t2}
  None = none
  Keys <- Paths
  Under <- PathsUnder
  Rebase <- PathsRebased
  Prepared <- Bundles
  Immovable <- Bundles
  Requests <- Wanted
PROPERTIES ActsAtomically
CHECK_DEADLOCK FALSE
