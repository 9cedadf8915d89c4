\* Five connections over a log of two and a channel of two: records are
\* evicted, sent out of order and lagged past.  One viewer.
CONSTANTS
  LogCapacity = 2
  Depth = 2
  Conns = {c1, c2, c3, c4, c5}
  Viewers = {v1}
  Attentive = {}
SPECIFICATION Spec
SYMMETRY Symmetry
INVARIANTS
  TypeOK
  LogIsWindow
  OneRecordPerConnection
  LinesIncrease
  NothingHeldBack
  MissesOnlyWhenSlowInOrder
\* Every connection comes and goes once, so the system does stop.
CHECK_DEADLOCK FALSE
