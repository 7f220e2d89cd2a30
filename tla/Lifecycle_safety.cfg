SPECIFICATION FairSpec
CONSTANTS
  disk1 = disk1
  disk2 = disk2
  sea = sea
  virtual = virtual
  Disk <- DiskPlaces
  Sea <- SeaPlaces
  Virtual <- VirtualPlaces
  Order <- Places
  Files = {f1, f2, f3}
  Lanes = {w1, w2}
  Watch = TRUE
INVARIANTS TypeOK AllOrNothing RejectedHoldsNothing
PROPERTIES ClosedPublishesNothing InitializeSettles
CHECK_DEADLOCK FALSE
