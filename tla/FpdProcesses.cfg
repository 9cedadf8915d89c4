\* Three processes, two versions of the terms.
CONSTANTS
  a = a
  b = b
  c = c
  v1 = v1
  v2 = v2
  Procs = {a, b, c}
  Versions = {v1, v2}
  Scenarios <- Families
  Orders = {o1, o2}
  MaxRows = 1
  Stale = stale
SPECIFICATION Spec
INVARIANTS
  TypeOK
  GrantsAreAccepted
  RunsAreAudited
  AcceptOpensGate
  SocketAnswers
  VerdictsRestOnReports
PROPERTY CommandsEnd
\* Commands end.
CHECK_DEADLOCK FALSE
