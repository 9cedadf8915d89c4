\* Three connections and a log and a channel of one: lag, eviction and
\* broadcasts that overtake each other.
CONSTANTS
  LogCapacity = 1
  Depth = 1
  Conns = {c1, c2, c3}
  Viewers = {v1}
  Attentive = {v1}
  Watcher = v1
  ViewCapacity = 2
SPECIFICATION WatchedSpec
INVARIANT GapMeansLag
PROPERTIES
  FeedIsASource
  ReachesTheScreen
\* Every connection happens once.
CHECK_DEADLOCK FALSE
