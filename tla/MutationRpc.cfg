SPECIFICATION RpcFairSpec
CONSTANTS
  Tasks = {1, 2, 3}
  Workers = {w1}
  Main = main
  None = none
  Keys <- Paths
  Under <- PathsUnder
  Rebase <- PathsRebased
  Prepared = {}
  Immovable = {}
  Requests <- Wanted
  Invalid <- Nowhere
INVARIANTS Hierarchy ReadsItsWrites SessionOrder
PROPERTIES ActsAtomicallyWhileReady SettlesOnce EveryCallSettles
CHECK_DEADLOCK FALSE
