\* Two pushes whose broadcasts overtake each other, and a viewer that has
\* room for both in the channel.
CONSTANTS
  LogCapacity = 2
  Depth = 2
  Conns = {c1, c2}
  Viewers = {v1}
  Attentive = {v1}
SPECIFICATION Spec
INVARIANT MissesOnlyWhenSlow
CHECK_DEADLOCK FALSE
