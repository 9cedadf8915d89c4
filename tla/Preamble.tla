------------------------------ MODULE Preamble ------------------------------
(***************************************************************************)
(* The bytes of one proxied connection, from the client to hyper: what     *)
(* capture_h2_preamble (fingerprint-probe/src/serve.rs) takes off the      *)
(* stream to fingerprint it, and what Replaying (replaying.rs) gives back. *)
(*                                                                         *)
(* A byte is its position in what the client sends: 1, 2, 3, ...  What the *)
(* bytes say is the connection's script: the preface when it is HTTP/2,    *)
(* then frames, each a header and a payload.  The capture reads the parts  *)
(* of that one by one, part 1 the preface, 2k the header of frame k and    *)
(* 2k + 1 its payload, with one read_exact each.  read_exact fills a local *)
(* array with whatever has arrived, and only a filled array is kept.       *)
(***************************************************************************)
EXTENDS Integers, Sequences, FiniteSetsExt

CONSTANTS
  PrefaceLen,  \* 24 in the code
  HeaderLen,   \* 9
  MaxPayload,  \* 1 << 20: a longer frame ends the capture
  Scripts      \* what clients send: [h2, patient, frames], a frame [kind, len]

ASSUME LengthsAssumption ==
  PrefaceLen \in Nat \ {0} /\ HeaderLen \in Nat \ {0} /\ MaxPayload \in Nat

Kinds == {"headers", "other"}
ASSUME ScriptsAssumption ==
  Scripts \subseteq
    [h2 : BOOLEAN, patient : BOOLEAN, frames : Seq([kind : Kinds, len : Nat])]

VARIABLES
  script,     \* what this client sends
  arrived,    \* how many bytes of it have arrived
  taken,      \* how many of those were read off the stream
  part,       \* the part the capture is reading
  got,        \* how many bytes of it are in the local array
  captured,   \* the capture's result so far
  lost,       \* the bytes in the local array when a read was abandoned (history)
  replayed,   \* Replaying's pos
  delivered   \* what hyper has read

captureVars == <<part, got, captured, lost>>
replayVars == <<replayed, delivered>>
streamVars == <<script, arrived, taken, captureVars, replayVars>>

StreamTypeOK ==
  /\ script \in Scripts
  /\ {arrived, taken, got} \subseteq Nat
  /\ part \in Nat \ {0}
  /\ lost \subseteq Nat
  /\ captured \in Seq(Nat) /\ delivered \in Seq(Nat)
  /\ replayed \in 0 .. Len(captured)

StreamInit ==
  /\ script \in Scripts
  /\ arrived = 0 /\ taken = 0
  /\ part = 1 /\ got = 0 /\ captured = <<>> /\ lost = {}
  /\ replayed = 0 /\ delivered = <<>>

----------------------------------------------------------------------------
(* What the client sends *)

FrameEnds(s) ==
  LET end[k \in Nat] ==
        IF k = 0 THEN IF s.h2 THEN PrefaceLen ELSE 0
                 ELSE end[k - 1] + (HeaderLen + s.frames[k].len)
  IN  end
FrameEnd(k) == FrameEnds(script)[k]

RequestFrames == {k \in DOMAIN script.frames : script.frames[k].kind = "headers"}

\* A patient client waits for the server's SETTINGS before its first request.
MaySend(served) ==
  IF script.patient /\ ~served
    THEN FrameEnd(Min(RequestFrames \cup {Len(script.frames) + 1}) - 1)
    ELSE FrameEnd(Len(script.frames))

Arrive(served) ==
  /\ \E n \in arrived + 1 .. MaySend(served) : arrived' = n
  /\ UNCHANGED <<script, taken, captureVars, replayVars>>

----------------------------------------------------------------------------
(* capture_h2_preamble *)

Bytes(from, n) == [i \in 1 .. n |-> from + i]

IsHeader(p) == p % 2 = 0
FrameOf(p) == script.frames[p \div 2]
PartLen(p) ==
  IF p = 1 THEN PrefaceLen ELSE IF IsHeader(p) THEN HeaderLen ELSE FrameOf(p).len

\* An empty payload is not read.
EndsFrame(p) == p > 1 /\ (~IsHeader(p) \/ FrameOf(p).len = 0)
NextPart(p) == IF IsHeader(p) /\ EndsFrame(p) THEN p + 2 ELSE p + 1

\* After part p the capture has a request, or gives up on the frame.
HasRequest(p) == EndsFrame(p) /\ FrameOf(p).kind = "headers"
TooLarge(p) == IsHeader(p) /\ FrameOf(p).len > MaxPayload
Stops(p) == HasRequest(p) \/ TooLarge(p)

Room == PartLen(part) - got
Waiting == arrived - taken

\* read_exact takes what has arrived, and the part is not complete yet.
ReadSome ==
  /\ \E n \in 1 .. Room - 1 :
       /\ n <= Waiting
       /\ taken' = taken + n
       /\ got' = got + n
  /\ UNCHANGED <<script, arrived, part, captured, lost, replayVars>>

\* read_exact returns and the part is kept.
KeepPart ==
  /\ Room <= Waiting
  /\ taken' = taken + Room
  /\ captured' = captured \o Bytes(taken - got, PartLen(part))
  /\ got' = 0
  /\ part' = NextPart(part)
  /\ UNCHANGED <<script, arrived, lost, replayVars>>

\* The capture ends inside a read_exact, whose array is dropped.
Abandon ==
  /\ lost' = taken - got + 1 .. taken
  /\ got' = 0
  /\ UNCHANGED <<script, arrived, taken, part, captured, replayVars>>

\* Mutant: a HEADERS frame that lacks its end still counts as a request.
H2FingerprintLenient(p) ==
  CASE p = 1 -> "none"
    [] p > 1 /\ IsHeader(p) -> "partial"
    [] OTHER -> IF FrameOf(p).kind = "headers" THEN "complete" ELSE "partial"

\* What akamai::fingerprint makes of the captured bytes when the capture ended
\* before part p was kept: nothing without a preface or of a header without
\* its payload, and otherwise a fingerprint of the frames there are.
H2Fingerprint(p) ==
  IF p = 1 \/ (~IsHeader(p) /\ PartLen(p) > 0) THEN "none" ELSE "partial"

----------------------------------------------------------------------------
(* Replaying::poll_read *)

\* Mutant: what the reader had no room for is not replayed.
ReplayOnce ==
  /\ replayed < Len(captured)
  /\ \E n \in 1 .. Len(captured) - replayed :
       delivered' = delivered \o SubSeq(captured, replayed + 1, replayed + n)
  /\ replayed' = Len(captured)
  /\ UNCHANGED <<script, arrived, taken, captureVars>>

\* Mutant: the position moves by the room the reader had, not by what it got.
ReplayByRoom ==
  /\ replayed < Len(captured)
  /\ \E room \in 1 .. Len(captured) - replayed + 1 :
       /\ delivered' = delivered \o SubSeq(captured, replayed + 1,
                                          Min({replayed + room, Len(captured)}))
       /\ replayed' = replayed + room
  /\ UNCHANGED <<script, arrived, taken, captureVars>>

Replay ==
  /\ replayed < Len(captured)
  /\ \E n \in 1 .. Len(captured) - replayed :
       /\ delivered' = delivered \o SubSeq(captured, replayed + 1, replayed + n)
       /\ replayed' = replayed + n
  /\ UNCHANGED <<script, arrived, taken, captureVars>>

ReadLive ==
  /\ replayed = Len(captured)
  /\ \E n \in 1 .. Waiting :
       /\ delivered' = delivered \o Bytes(taken, n)
       /\ taken' = taken + n
  /\ UNCHANGED <<script, arrived, captureVars, replayed>>

HyperReads == Replay \/ ReadLive

\* hyper has the whole of frame k, as the client sent it.
HasFrame(k) ==
  /\ Len(delivered) >= FrameEnd(k)
  /\ \A i \in 1 .. FrameEnd(k) : delivered[i] = i

============================================================================
