\* Four clients, one at a time; parts of up to three bytes, so that every read
\* can be cut short.
CONSTANTS
  PrefaceLen = 2
  HeaderLen = 2
  MaxPayload = 2
  Scripts <- SmallScripts
  Requests = {1, 2, 3}
SPECIFICATION Spec
INVARIANTS
  TypeOK
  EveryByteOnce
  IntactWhenFingerprinted
  ForwardedIsReported
PROPERTIES
  SettlesInTime
  RequestsReachForward
  HeadOr502InTime
\* Every client sends one script, so the system does stop.
CHECK_DEADLOCK FALSE
