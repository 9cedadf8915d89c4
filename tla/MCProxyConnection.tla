------------------------- MODULE MCProxyConnection -------------------------
(* Small instances of ProxyConnection for TLC.                             *)
EXTENDS ProxyConnection

Settings(n) == [kind |-> "other", len |-> n]
Headers(n) == [kind |-> "headers", len |-> n]

\* Two concurrent requests, a client that waits for SETTINGS, a frame beyond
\* MaxPayload before the request, and two requests of HTTP/1.1.
SmallScripts ==
  { [h2 |-> TRUE,  patient |-> FALSE, frames |-> <<Settings(0), Headers(2), Headers(1)>>],
    [h2 |-> TRUE,  patient |-> TRUE,  frames |-> <<Settings(2), Headers(0)>>],
    [h2 |-> TRUE,  patient |-> FALSE, frames |-> <<Settings(3), Headers(1)>>],
    [h2 |-> FALSE, patient |-> FALSE, frames |-> <<Headers(1), Headers(0)>>] }

\* One request whose opening bytes come late.
OneRequest == { [h2 |-> TRUE, patient |-> FALSE, frames |-> <<Settings(2), Headers(1)>>] }

============================================================================
