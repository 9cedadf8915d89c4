------------------------------ MODULE Forward -------------------------------
(***************************************************************************)
(* The requests of one connection on their way through `forward`           *)
(* (fingerprint-probe/src/serve.rs): collect the client's body, connect to *)
(* the upstream, send, wait for the response head, collect its body, and   *)
(* answer.  Each request has a connection to the upstream of its own, and  *)
(* the requests of an HTTP/2 connection run concurrently.                  *)
(*                                                                         *)
(* `origin` is the upstream's end of a request's connection, which is not  *)
(* code of this repository: it may refuse, answer, break off, or at any    *)
(* point do nothing more.                                                  *)
(***************************************************************************)

CONSTANT Requests

VARIABLES
  req,     \* where each request is
  body,    \* its body, once collected
  sentFp,  \* the x-fp-* headers it went upstream with
  origin,  \* the upstream's side of it
  reply    \* what the client is given

forwardVars == <<req, body, sentFp, origin, reply>>

Annotations == {"none", "unparsed", "fingerprint"}

ForwardTypeOK ==
  /\ req \in [Requests -> {"waiting", "collect", "connect", "send", "relay", "answered", "dropped"}]
  /\ body \in [Requests -> {"none", "whole", "empty"}]
  /\ sentFp \in [Requests -> Annotations]
  /\ origin \in [Requests -> {"none", "refused", "accepted", "broken", "head", "cut", "whole"}]
  /\ reply \in [Requests -> {"none", "502", "upstream whole", "upstream empty"}]

ForwardInit ==
  /\ req = [r \in Requests |-> "waiting"]
  /\ body = [r \in Requests |-> "none"]
  /\ sentFp = [r \in Requests |-> "none"]
  /\ origin = [r \in Requests |-> "none"]
  /\ reply = [r \in Requests |-> "none"]

----------------------------------------------------------------------------
(* The upstream *)

Goes(r, from, to) == origin[r] \in from /\ origin' = [origin EXCEPT ![r] = to]

UpstreamAccepts(r) == req[r] = "connect" /\ Goes(r, {"none"}, "accepted")
UpstreamRefuses(r) == req[r] = "connect" /\ Goes(r, {"none"}, "refused")
UpstreamBreaks(r) ==
  /\ req[r] \in {"connect", "send", "relay"}
  /\ Goes(r, {"accepted"}, "broken") \/ Goes(r, {"head"}, "cut")
UpstreamAnswers(r) == req[r] = "send" /\ Goes(r, {"accepted"}, "head")
UpstreamFinishes(r) == req[r] \in {"send", "relay"} /\ Goes(r, {"head"}, "whole")

UpstreamStep(r) ==
  /\ \/ UpstreamAccepts(r) \/ UpstreamRefuses(r) \/ UpstreamBreaks(r)
     \/ UpstreamAnswers(r) \/ UpstreamFinishes(r)
  /\ UNCHANGED <<req, body, sentFp, reply>>

----------------------------------------------------------------------------
(* forward *)

Steps(r, from, to) == req[r] \in from /\ req' = [req EXCEPT ![r] = to]
Answer(r, from, how) ==
  /\ Steps(r, from, "answered")
  /\ reply' = [reply EXCEPT ![r] = how]
  /\ UNCHANGED <<body, sentFp, origin>>

Begin(r) ==
  /\ Steps(r, {"waiting"}, "collect")
  /\ UNCHANGED <<body, sentFp, origin, reply>>

\* The client's body ends, or fails to: then the request goes on without one.
CollectBody(r) ==
  /\ Steps(r, {"collect"}, "connect")
  /\ \E b \in {"whole", "empty"} : body' = [body EXCEPT ![r] = b]
  /\ UNCHANGED <<sentFp, origin, reply>>

\* connect and the client handshake succeed, and send_request begins.
Connected(r, fp) ==
  /\ origin[r] \in {"accepted", "broken"}
  /\ Steps(r, {"connect"}, "send")
  /\ sentFp' = [sentFp EXCEPT ![r] = fp]
  /\ UNCHANGED <<body, origin, reply>>

\* connect, the handshake or send_request fails.
UpstreamFails(r) ==
  /\ origin[r] \in {"refused", "broken"}
  /\ Answer(r, {"connect", "send"}, "502")

\* Mutant: only connect is bounded.
ConnectTimesOut(r) == Answer(r, {"connect"}, "502")

\* upstream_timeout, around connect and again around send_request.
UpstreamTimesOut(r) == Answer(r, {"connect", "send"}, "502")

ResponseHead(r) ==
  /\ origin[r] \in {"head", "cut", "whole"}
  /\ Steps(r, {"send"}, "relay")
  /\ UNCHANGED <<body, sentFp, origin, reply>>

\* body.collect() of the response, with no timeout around it.
RelayWhole(r) == origin[r] = "whole" /\ Answer(r, {"relay"}, "upstream whole")

\* unwrap_or_default: the upstream's status goes out over an empty body.
RelayCut(r) == origin[r] = "cut" /\ Answer(r, {"relay"}, "upstream empty")

\* hyper drops the future of a request whose connection is gone.
DropRequest(r) ==
  /\ Steps(r, {"collect", "connect", "send", "relay"}, "dropped")
  /\ UNCHANGED <<body, sentFp, origin, reply>>

ForwardStep(r, fp) ==
  \/ Connected(r, fp) \/ UpstreamFails(r) \/ UpstreamTimesOut(r)
  \/ ResponseHead(r) \/ RelayWhole(r) \/ RelayCut(r)

============================================================================
