\* An upstream that sends its response head and nothing after it.
CONSTANTS
  PrefaceLen = 2
  HeaderLen = 2
  MaxPayload = 2
  Scripts <- OneRequest
  Requests = {1, 2}
SPECIFICATION Spec
PROPERTY AnsweredWholeOr502
\* Every client sends one script, so the system does stop.
CHECK_DEADLOCK FALSE
