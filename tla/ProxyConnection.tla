--------------------------- MODULE ProxyConnection ---------------------------
(***************************************************************************)
(* One connection of `fpd serve`: the task that runs `handle` in           *)
(* fingerprint-probe/src/serve.rs, with its client and its upstream.       *)
(*                                                                         *)
(* The task finishes the TLS handshake, reads an HTTP/2 client's opening   *)
(* bytes to fingerprint it (Preamble), reports the connection to the admin *)
(* feed, and then lets hyper serve it from the replayed bytes and the live *)
(* stream; hyper hands each request to `forward` (Forward).  The push into *)
(* the feed never waits, which is PushCompletes of AdminFeed, so here it   *)
(* is part of the report.                                                  *)
(***************************************************************************)
EXTENDS Preamble, Forward

VARIABLES
  phase,      \* where handle is
  gone,       \* the client closed its end
  h2fp,       \* the HTTP/2 part of the report
  fp,         \* the headers every request of the connection is given
  published   \* how often the connection was pushed into the feed

handleVars == <<phase, h2fp, fp, published>>
vars == <<streamVars, forwardVars, handleVars, gone>>

TypeOK ==
  /\ StreamTypeOK
  /\ ForwardTypeOK
  /\ phase \in {"handshake", "capture", "report", "serving", "closed"}
  /\ gone \in BOOLEAN
  /\ h2fp \in {"none", "partial", "complete"}
  /\ fp \in Annotations
  /\ published \in Nat

Init ==
  /\ StreamInit
  /\ ForwardInit
  /\ phase = "handshake" /\ gone = FALSE
  /\ h2fp = "none" /\ fp = "none" /\ published = 0

----------------------------------------------------------------------------
(* The client *)

ClientSends ==
  /\ ~gone /\ phase # "closed"
  /\ Arrive(phase = "serving")
  /\ UNCHANGED <<forwardVars, handleVars, gone>>

ClientLeaves ==
  /\ ~gone
  /\ gone' = TRUE
  /\ UNCHANGED <<streamVars, forwardVars, handleVars>>

----------------------------------------------------------------------------
(* handle, up to the report *)

EndHandshake(next) ==
  /\ phase = "handshake"
  /\ phase' = next
  /\ UNCHANGED <<streamVars, forwardVars, gone, h2fp, fp, published>>

HandshakeDone == EndHandshake(IF script.h2 THEN "capture" ELSE "report")
\* It fails, or handshake_timeout passes: handle returns.
HandshakeEnds == EndHandshake("closed")

CaptureReads ==
  /\ phase = "capture"
  /\ ReadSome
  /\ UNCHANGED <<forwardVars, handleVars, gone>>

CaptureKeeps ==
  /\ phase = "capture"
  /\ KeepPart
  /\ IF Stops(part)
       THEN /\ phase' = "report"
            /\ h2fp' = IF TooLarge(part) THEN H2Fingerprint(part + 1) ELSE "complete"
       ELSE UNCHANGED <<phase, h2fp>>
  /\ UNCHANGED <<forwardVars, gone, fp, published>>

AbandonCapture ==
  /\ phase = "capture"
  /\ Abandon
  /\ phase' = "report"
  /\ h2fp' = H2Fingerprint(part)
  /\ UNCHANGED <<forwardVars, gone, fp, published>>

\* Mutant: only the read of the preface is bounded.
PrefaceTimesOut == part = 1 /\ AbandonCapture

CaptureTimesOut == AbandonCapture
\* UnexpectedEof from read_exact.
CaptureMeetsEnd == gone /\ Waiting = 0 /\ AbandonCapture

\* Mutant: a connection is pushed into the feed with or without a report.
ReportAlways ==
  /\ phase = "report"
  /\ \E parsed \in BOOLEAN :
       /\ h2fp' = IF parsed THEN h2fp ELSE "none"
       /\ fp' = IF parsed THEN "fingerprint" ELSE "unparsed"
  /\ published' = published + 1
  /\ phase' = "serving"
  /\ UNCHANGED <<streamVars, forwardVars, gone>>

\* build_report and what follows from it, none of which waits.  Whether the
\* recorded ClientHello parses is up to the client.
Report ==
  /\ phase = "report"
  /\ \/ /\ fp' = "fingerprint"
        /\ published' = published + 1
        /\ UNCHANGED h2fp
     \/ /\ fp' = "unparsed"
        /\ h2fp' = "none"
        /\ UNCHANGED published
  /\ phase' = "serving"
  /\ UNCHANGED <<streamVars, forwardVars, gone>>

----------------------------------------------------------------------------
(* serve_connection *)

HyperReadsBytes ==
  /\ phase = "serving"
  /\ HyperReads
  /\ UNCHANGED <<forwardVars, handleVars, gone>>

\* HTTP/1.1 requests come one after the other.
Unfinished(r) == req[r] \notin {"answered", "dropped"}

\* Mutant: an HTTP/2 connection, too, has one request at a time.
HyperDecodesInTurn(r) ==
  /\ phase = "serving"
  /\ r \in RequestFrames /\ HasFrame(r)
  /\ \A q \in RequestFrames : q < r => ~Unfinished(q)
  /\ Begin(r)
  /\ UNCHANGED <<streamVars, handleVars, gone>>

HyperDecodes(r) ==
  /\ phase = "serving"
  /\ r \in RequestFrames /\ HasFrame(r)
  /\ script.h2 \/ \A q \in RequestFrames : q < r => ~Unfinished(q)
  /\ Begin(r)
  /\ UNCHANGED <<streamVars, handleVars, gone>>

\* hyper gives up on bytes that are not what the client sent, and ends when
\* the client leaves.
Torn == \E i \in 1 .. Len(delivered) : delivered[i] # i
ConnectionEnds ==
  /\ phase = "serving"
  /\ Torn \/ gone
  /\ phase' = "closed"
  /\ UNCHANGED <<streamVars, forwardVars, gone, h2fp, fp, published>>

RequestRuns(r) ==
  /\ phase = "serving"
  /\ CollectBody(r) \/ ForwardStep(r, fp)
  /\ UNCHANGED <<streamVars, handleVars, gone>>

RequestDropped(r) ==
  /\ phase = "closed"
  /\ DropRequest(r)
  /\ UNCHANGED <<streamVars, handleVars, gone>>

UpstreamMoves(r) ==
  /\ UpstreamStep(r)
  /\ UNCHANGED <<streamVars, handleVars, gone>>

----------------------------------------------------------------------------
HandleStep ==
  \/ HandshakeDone \/ HandshakeEnds
  \/ CaptureReads \/ CaptureKeeps \/ CaptureTimesOut \/ CaptureMeetsEnd
  \/ Report \/ HyperReadsBytes

Next ==
  \/ ClientSends \/ ClientLeaves \/ HandleStep \/ ConnectionEnds
  \/ \E r \in Requests :
       \/ HyperDecodes(r) \/ RequestRuns(r) \/ RequestDropped(r) \/ UpstreamMoves(r)

(***************************************************************************)
(* The runtime keeps running every task that can run, and timers go off.   *)
(* Nothing is assumed of the client, not even that it goes on with a body  *)
(* it began, and nothing of the upstream.                                  *)
(***************************************************************************)
Fairness ==
  /\ WF_vars(HandleStep) /\ WF_vars(ConnectionEnds)
  /\ \A r \in Requests :
       /\ WF_vars(HyperDecodes(r))
       /\ WF_vars(RequestRuns(r) /\ req[r] # "collect")
       /\ WF_vars(RequestDropped(r))

Spec == Init /\ [][Next]_vars /\ Fairness

----------------------------------------------------------------------------
(* Safety *)

\* Every byte taken off the stream is in one place, and in order: hyper has
\* it, Replaying still holds it, the capture is reading it, or it was in the
\* array of the one read the capture abandoned (capture_h2_preamble and
\* Replaying::poll_read across the hand-over).
EveryByteOnce ==
  LET held == SubSeq(captured, replayed + 1, Len(captured))
      all  == delivered \o held \o Bytes(taken - got, got)
  IN  /\ \A i, j \in 1 .. Len(all) : i < j => all[i] < all[j]
      /\ Range(all) = (1 .. taken) \ lost

\* A connection reported with a complete HTTP/2 fingerprint is served from
\* every byte that fingerprint was made of: only a capture that did not see a
\* whole request can have lost something.
IntactWhenFingerprinted == h2fp = "complete" => lost = {}

\* A request that went upstream as fingerprinted belongs to a connection that
\* is in the feed exactly once, one that went as unparsed to a connection
\* that is not in it, and none goes without an annotation (handle, forward).
WentUpstream(r) == req[r] \in {"send", "relay"} \/ reply[r] \in {"upstream whole", "upstream empty"}
ForwardedIsReported ==
  \A r \in Requests : WentUpstream(r) =>
    \/ sentFp[r] = "fingerprint" /\ published = 1
    \/ sentFp[r] = "unparsed" /\ published = 0

\* serve.rs:181-182 says the bytes consumed are returned "so they can be
\* replayed to hyper", and serve.rs:7 that fingerprinting must never break the
\* site: hyper reads what the client sent.
HyperReadsWhatWasSent == ~Torn

----------------------------------------------------------------------------
(* Liveness *)

\* Whatever the client does, also one that waits for the server's SETTINGS
\* while the capture waits for its request, handle gets to serve it or is done.
SettlesInTime ==
  phase \in {"handshake", "capture"} ~> phase \in {"serving", "closed"}

\* An HTTP/2 request that has arrived reaches forward, whatever the other
\* requests of the connection wait for, unless the capture tore the stream.
RequestsReachForward ==
  \A r \in Requests :
    (script.h2 /\ r \in RequestFrames /\ arrived >= FrameEnd(r))
      ~> (req[r] # "waiting" \/ phase = "closed" \/ lost # {})

\* From connect on a request waits for the upstream's response head no longer
\* than its timeouts.
HeadOr502InTime ==
  \A r \in Requests : req[r] = "connect" ~> req[r] \in {"relay", "answered", "dropped"}

\* serve.rs:92 says "An upstream that is down or slow yields 502": a request
\* is answered by the whole of the upstream's response, or by 502.
AnsweredWholeOr502 ==
  \A r \in Requests :
    req[r] = "connect" ~> req[r] = "dropped" \/ reply[r] \in {"upstream whole", "502"}

============================================================================
