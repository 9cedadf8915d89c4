\* Numbers up to 3 into a view of two rows: gaps, evictions, and searches that
\* match one kind, both or none.
CONSTANTS
  ViewCapacity = 2
  Kinds = {k1, k2}
  MaxSeq = 3
  MaxSearch = 1
SPECIFICATION Spec
INVARIANTS
  TypeOK
  GapsAreShown
  ScreenIsCurrent
  SelectionInRange
PROPERTIES
  RoomyArrival
  ScreenCatchesUp
\* The user may quit.
CHECK_DEADLOCK FALSE
