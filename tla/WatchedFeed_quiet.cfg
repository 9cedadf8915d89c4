\* Two connections overtake each other, or a viewer lags before its first row.
CONSTANTS
  LogCapacity = 1
  Depth = 1
  Conns = {c1, c2, c3}
  Viewers = {v1}
  Attentive = {v1}
  Watcher = v1
  ViewCapacity = 2
SPECIFICATION WatchedSpec
INVARIANT NothingQuietlyMissing
\* Every connection happens once.
CHECK_DEADLOCK FALSE
