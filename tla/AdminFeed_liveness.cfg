\* Two connections and two viewers, of which one keeps reading and the
\* other may stall for ever.
CONSTANTS
  LogCapacity = 1
  Depth = 1
  Conns = {c1, c2}
  Viewers = {v1, v2}
  Attentive = {v1}
SPECIFICATION Spec
PROPERTIES
  PushCompletes
  AttentiveCatchUp
  KeepsPromise
CHECK_DEADLOCK FALSE
