SPECIFICATION Spec
CONSTANTS
  Keys = {k1, k2}
  SegmentSize = 4
  MaxSegments = 2
  Threshold = 4
  MaxLive = 4
  None = none
SYMMETRY Symmetry
INVARIANTS TypeOK BytesAccounted FreeExtentsCoalesced EmptySegmentsReusable ClosedHoldsNoPublished
PROPERTIES ClosedTakesNothing RelocationsKeepVersions
CHECK_DEADLOCK FALSE
