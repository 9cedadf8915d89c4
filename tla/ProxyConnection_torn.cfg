\* A capture_timeout that goes off inside a frame.
CONSTANTS
  PrefaceLen = 2
  HeaderLen = 2
  MaxPayload = 2
  Scripts <- OneRequest
  Requests = {1, 2}
SPECIFICATION Spec
INVARIANT HyperReadsWhatWasSent
\* Every client sends one script, so the system does stop.
CHECK_DEADLOCK FALSE
