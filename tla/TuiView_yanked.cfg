\* A full view and a reader who moved the selection.
CONSTANTS
  ViewCapacity = 2
  Kinds = {k1}
  MaxSeq = 3
  MaxSearch = 0
SPECIFICATION Spec
PROPERTY SelectionStays
\* The user may quit.
CHECK_DEADLOCK FALSE
