----------------------- MODULE ProxyConnectionProofs -----------------------
(***************************************************************************)
(* Proofs about ProxyConnection, for every length of the preface and of a  *)
(* frame header, every MaxPayload, every set of scripts and of requests.   *)
(***************************************************************************)
EXTENDS ProxyConnection, SequenceLemmas

----------------------------------------------------------------------------
(* Where the frames of a script lie *)

\* A frame ends where the one before it did, and a header and a payload on.
LEMMA FrameEndsUnfold ==
  ASSUME NEW s
  PROVE  /\ FrameEnds(s)[0] = IF s.h2 THEN PrefaceLen ELSE 0
         /\ \A k \in Nat \ {0} :
              FrameEnds(s)[k] = FrameEnds(s)[k - 1] + (HeaderLen + s.frames[k].len)
<1> DEFINE b == IF s.h2 THEN PrefaceLen ELSE 0
           w == [k \in Nat |-> HeaderLen + s.frames[k].len]
           Good(f) == f = [k \in Nat |-> IF k = 0 THEN b
                                         ELSE f[k - 1] + (HeaderLen + s.frames[k].len)]
<1>1. \E f : Good(f)
  <2>1. PICK f : Totals(f, b, w, Nat)
    BY TotalsExist
  <2>2. f = [k \in Nat |-> IF k = 0 THEN b ELSE f[k - 1] + w[k]]
    BY <2>1 DEF Totals
  <2>3. Good(f)
    BY <2>2
  <2>4. QED
    BY <2>3
<1>2. FrameEnds(s) = CHOOSE f : Good(f)
  BY DEF FrameEnds
<1>3. Good(FrameEnds(s))
  BY <1>1, <1>2
<1>4. QED
  BY <1>3

LEMMA ElementOfSeq ==
  ASSUME NEW R, NEW q \in Seq(R)
  PROVE  Len(q) \in Nat /\ \A i \in 1 .. Len(q) : q[i] \in R
OBVIOUS

LEMMA Concatenation ==
  ASSUME NEW R, NEW p \in Seq(R), NEW q \in Seq(R)
  PROVE  /\ p \o q \in Seq(R) /\ Len(p \o q) = Len(p) + Len(q)
         /\ DOMAIN (p \o q) = 1 .. Len(p \o q)
         /\ \A i \in 1 .. Len(p) : (p \o q)[i] = p[i]
         /\ \A i \in 1 .. Len(q) : (p \o q)[Len(p) + i] = q[i]
OBVIOUS

\* What ScriptsAssumption says of one script.
LEMMA ScriptType ==
  ASSUME NEW s \in Scripts
  PROVE  /\ s.h2 \in BOOLEAN /\ Len(s.frames) \in Nat
         /\ \A k \in 1 .. Len(s.frames) : s.frames[k].len \in Nat /\ s.frames[k].kind \in Kinds
         /\ DOMAIN s.frames = 1 .. Len(s.frames)
<1> DEFINE Frame == [kind : Kinds, len : Nat]
<1>1. s \in [h2 : BOOLEAN, patient : BOOLEAN, frames : Seq(Frame)]
  BY ScriptsAssumption
<1>2. s.frames \in Seq(Frame) /\ s.h2 \in BOOLEAN
  BY <1>1
<1>3. Len(s.frames) \in Nat /\ \A k \in 1 .. Len(s.frames) : s.frames[k] \in Frame
  <2> HIDE DEF Frame
  <2> QED
    BY <1>2, ElementOfSeq
<1>4. DOMAIN s.frames = 1 .. Len(s.frames)
  BY <1>2
<1> QED
  BY <1>2, <1>3, <1>4

\* The ends are naturals and increase, as far as there are frames.
LEMMA FrameEndsIncrease ==
  ASSUME NEW s \in Scripts
  PROVE  \A k \in 0 .. Len(s.frames) :
           \A j \in 0 .. k : FrameEnds(s)[j] \in Nat /\ FrameEnds(s)[j] <= FrameEnds(s)[k]
<1> DEFINE e == FrameEnds(s)
           n == Len(s.frames)
           Good == {k \in Nat : k <= n => \A j \in 0 .. k : e[j] \in Nat /\ e[j] <= e[k]}
<1>0. /\ n \in Nat /\ \A k \in 1 .. n : s.frames[k].len \in Nat
      /\ HeaderLen \in Nat /\ PrefaceLen \in Nat
  BY ScriptType, LengthsAssumption
<1>1. 0 \in Good
  <2>1. e[0] \in Nat
    <3>1. e[0] = IF s.h2 THEN PrefaceLen ELSE 0
      BY FrameEndsUnfold
    <3> HIDE DEF e
    <3> QED
      BY <1>0, <3>1
  <2> HIDE DEF e
  <2> QED
    BY <1>0, <2>1
<1>2. ASSUME NEW k \in Nat, k \in Good PROVE k + 1 \in Good
  <2> SUFFICES ASSUME k + 1 <= n
               PROVE  \A j \in 0 .. k + 1 : e[j] \in Nat /\ e[j] <= e[k + 1]
    OBVIOUS
  <2>1. e[k + 1] = e[k] + (HeaderLen + s.frames[k + 1].len)
    <3>1. k + 1 \in Nat \ {0} /\ k + 1 - 1 = k
      OBVIOUS
    <3>2. \A m \in Nat \ {0} : m <= n => e[m] = e[m - 1] + (HeaderLen + s.frames[m].len)
      BY <1>0, FrameEndsUnfold
    <3> HIDE DEF e, n
    <3>3. QED
      BY <3>1, <3>2
  <2>2. \A j \in 0 .. k : e[j] \in Nat /\ e[j] <= e[k]
    BY <1>2
  <2>3. e[k] \in Nat /\ s.frames[k + 1].len \in Nat
    BY <1>0, <2>2
  <2>4. e[k + 1] \in Nat /\ e[k] <= e[k + 1]
    BY <1>0, <2>1, <2>3, SMTT(30)
  <2> HIDE DEF e
  <2>5. ASSUME NEW j \in 0 .. k + 1 PROVE e[j] \in Nat /\ e[j] <= e[k + 1]
    <3>1. CASE j = k + 1
      BY <2>4, <3>1
    <3>2. CASE j \in 0 .. k
      BY <2>2, <2>3, <2>4, <3>2
    <3> QED
      BY <3>1, <3>2
  <2> QED
    BY <2>5
<1>3. Nat \subseteq Good
  BY <1>1, <1>2, SetInduction
<1>4. ASSUME NEW k \in 0 .. n, NEW j \in 0 .. k PROVE e[j] \in Nat /\ e[j] <= e[k]
  <2>1. k \in Nat /\ k <= n
    BY <1>0
  <2>2. k \in Good
    BY <1>3, <2>1
  <2> HIDE DEF e
  <2> QED
    BY <2>1, <2>2
<1> QED
  BY <1>4

\* The client sends nothing beyond its last frame.
LEMMA SendsItsFrames ==
  ASSUME script \in Scripts, NEW served
  PROVE  /\ MaySend(served) \in Nat
         /\ MaySend(served) <= FrameEnd(Len(script.frames))
<1> DEFINE n == Len(script.frames)
           S == RequestFrames \cup {n + 1}
<1>1. n \in Nat /\ S \subseteq 1 .. n + 1 /\ S \subseteq Nat /\ S # {}
  <2>1. n \in Nat /\ DOMAIN script.frames = 1 .. n
    BY ScriptType
  <2>2. RequestFrames \subseteq 1 .. n
    BY <2>1 DEF RequestFrames
  <2> DEFINE R == RequestFrames
  <2> HIDE DEF n, R
  <2>3. n + 1 \in 1 .. n + 1 /\ R \subseteq 1 .. n + 1
    BY <2>1, <2>2 DEF R
  <2>4. R \cup {n + 1} \subseteq 1 .. n + 1 /\ R \cup {n + 1} # {}
    BY ONLY <2>3
  <2>5. 1 .. n + 1 \subseteq Nat
    BY <2>1
  <2> QED
    BY <2>1, <2>4, <2>5 DEF R
<1>2. Min(S) \in S
  <2>1. \E x \in S : \A y \in S : x <= y
    <3> HIDE DEF S
    <3> QED
      BY <1>1, LeastElement
  <2>2. QED
    BY <2>1 DEF Min
<1>3. Min(S) - 1 \in 0 .. n /\ n \in 0 .. n
  <2>1. Min(S) \in 1 .. n + 1
    BY <1>1, <1>2
  <2> HIDE DEF S, n
  <2> QED
    BY <1>1, <2>1
<1>4. \A k \in 0 .. n : FrameEnd(k) \in Nat /\ FrameEnd(k) <= FrameEnd(n)
  BY <1>3, FrameEndsIncrease DEF FrameEnd
<1>5. QED
  BY <1>3, <1>4 DEF MaySend

----------------------------------------------------------------------------
(* The capture's place in the stream *)

\* Where part p of the script begins.
PartStart(p) ==
  IF p = 1 THEN 0
  ELSE FrameEnd(p \div 2 - 1) + (IF IsHeader(p) THEN 0 ELSE HeaderLen)

\* Only an HTTP/2 connection is captured; what was taken ends inside the part
\* being read; and a payload is read only of a frame the client sends, whose
\* header was read.  This is what makes PartLen the length of something.
Placed ==
  /\ arrived <= FrameEnd(Len(script.frames))
  /\ phase = "handshake" => part = 1 /\ got = 0 /\ taken = 0
  /\ phase = "capture" =>
       /\ script.h2
       /\ taken = PartStart(part) + got
       /\ part # 1 =>
            part \div 2 \in 1 .. Len(script.frames) + (IF IsHeader(part) THEN 1 ELSE 0)

\* Parts are numbered as Preamble says: a header's number is twice its frame's.
LEMMA PartNumbers ==
  ASSUME NEW p \in Nat \ {0}
  PROVE  /\ p \div 2 \in Nat
         /\ p % 2 = 0 => p \div 2 \in Nat \ {0} /\ (p + 1) \div 2 = p \div 2 /\ (p + 1) % 2 = 1
         /\ p % 2 = 0 => (p + 2) \div 2 = p \div 2 + 1 /\ (p + 2) % 2 = 0
         /\ p % 2 # 0 => (p + 1) \div 2 = p \div 2 + 1 /\ (p + 1) % 2 = 0
         /\ p % 2 # 0 /\ p # 1 => p \div 2 \in Nat \ {0}
OBVIOUS

\* In the capture the part being read is a part of the script or the header
\* after its last frame, and so has a length.
LEMMA PartsHaveLengths ==
  ASSUME StreamTypeOK, Placed, phase = "capture"
  PROVE  /\ PartLen(part) \in Nat /\ PartStart(part) \in Nat
         /\ taken = PartStart(part) + got
<1> DEFINE n == Len(script.frames)
           k == part \div 2
<1>1. /\ script \in Scripts /\ part \in Nat \ {0} /\ n \in Nat
      /\ PrefaceLen \in Nat /\ HeaderLen \in Nat
  BY ScriptType, LengthsAssumption DEF StreamTypeOK
<1>2. \A i \in 0 .. n : FrameEnd(i) \in Nat
  BY <1>1, FrameEndsIncrease DEF FrameEnd
<1>3. CASE part = 1
  BY <1>1, <1>3 DEF PartLen, PartStart, Placed
<1>4. CASE part # 1 /\ IsHeader(part)
  <2>1. k - 1 \in 0 .. n
    BY <1>1, <1>4, PartNumbers DEF Placed
  <2>2. FrameEnd(k - 1) \in Nat
    BY <1>2, <2>1
  <2>3. QED
    BY <1>1, <1>4, <2>2 DEF PartLen, PartStart, Placed
<1>5. CASE part # 1 /\ ~IsHeader(part)
  <2>1. k \in 1 .. n /\ k - 1 \in 0 .. n
    BY <1>1, <1>5, PartNumbers DEF Placed
  <2>2. FrameEnd(k - 1) \in Nat /\ FrameOf(part).len \in Nat
    BY <1>1, <1>2, <2>1, ScriptType DEF FrameOf
  <2>3. QED
    BY <1>1, <1>5, <2>2 DEF PartLen, PartStart, Placed
<1>6. QED
  BY <1>3, <1>4, <1>5

\* A part that is kept is a part of the script, and the next one begins where
\* it ends.
LEMMA NextPartFollows ==
  ASSUME StreamTypeOK, Placed, phase = "capture", Room <= Waiting
  PROVE  /\ NextPart(part) \in Nat \ {0, 1}
         /\ PartStart(NextPart(part)) = PartStart(part) + PartLen(part)
         /\ NextPart(part) \div 2
              \in 1 .. Len(script.frames) + (IF IsHeader(NextPart(part)) THEN 1 ELSE 0)
<1> DEFINE n == Len(script.frames)
           k == part \div 2
<1>1. /\ script \in Scripts /\ part \in Nat \ {0} /\ n \in Nat /\ got \in Nat
      /\ arrived \in Nat /\ taken \in Nat
      /\ PrefaceLen \in Nat /\ HeaderLen \in Nat \ {0}
  BY ScriptType, LengthsAssumption DEF StreamTypeOK
<1>2. \A i \in 0 .. n : FrameEnd(i) \in Nat
  BY <1>1, FrameEndsIncrease DEF FrameEnd
<1>3. \A i \in 1 .. n : FrameEnd(i) = FrameEnd(i - 1) + (HeaderLen + script.frames[i].len)
  BY <1>1, FrameEndsUnfold DEF FrameEnd
<1>4. \A i \in 1 .. n : script.frames[i].len \in Nat
  BY <1>1, ScriptType
<1>5. PartStart(part) + PartLen(part) <= FrameEnd(n)
  <2>1. PartLen(part) \in Nat /\ PartStart(part) \in Nat /\ taken = PartStart(part) + got
    BY PartsHaveLengths
  <2>2. FrameEnd(n) \in Nat /\ arrived <= FrameEnd(n)
    BY <1>1, <1>2 DEF Placed
  <2>3. QED
    BY <1>1, <2>1, <2>2, SMTT(30) DEF Room, Waiting
<1>6. CASE part = 1
  <2>1. NextPart(part) = 2 /\ IsHeader(2) /\ 2 \div 2 = 1
    BY <1>6 DEF NextPart, IsHeader
  <2>2. FrameEnd(0) = PrefaceLen
    BY <1>1, FrameEndsUnfold DEF FrameEnd, Placed
  <2>3. PartStart(2) = FrameEnd(0)
    BY <1>2, <1>1, <2>1, <2>2 DEF PartStart
  <2>4. PartStart(part) = 0 /\ PartLen(part) = PrefaceLen
    BY <1>6 DEF PartStart, PartLen
  <2>5. 1 \in 1 .. n + 1
    BY <1>1
  <2>6. QED
    BY <1>1, <2>1, <2>2, <2>3, <2>4, <2>5
<1>7. CASE part # 1 /\ IsHeader(part)
  <2>1. k \in 1 .. n + 1
    BY <1>7 DEF Placed
  <2>2. PartStart(part) = FrameEnd(k - 1) /\ PartLen(part) = HeaderLen
    <3>1. FrameEnd(k - 1) \in Nat
      BY <1>2, <2>1
    <3>2. QED
      BY <1>7, <3>1 DEF PartStart, PartLen
  <2>3. k \in 1 .. n
    <3>1. CASE k = n + 1
      <4>1. FrameEnd(n) + HeaderLen <= FrameEnd(n)
        BY <1>1, <1>5, <2>2, <3>1
      <4>2. QED
        BY <1>1, <1>2, <4>1
    <3>2. QED
      BY <2>1, <3>1
  <2>4. FrameOf(part) = script.frames[k]
    BY DEF FrameOf
  <2>5. CASE FrameOf(part).len = 0
    <3>1. NextPart(part) = part + 2
      BY <1>1, <1>7, <2>5 DEF NextPart, EndsFrame, IsHeader
    <3>2. (part + 2) \div 2 = k + 1 /\ IsHeader(part + 2)
      BY <1>1, <1>7, PartNumbers DEF IsHeader
    <3>3. PartStart(part + 2) = FrameEnd(k)
      <4>1. FrameEnd(k + 1 - 1) = FrameEnd(k) /\ FrameEnd(k) \in Nat
        BY <1>2, <2>3
      <4>2. QED
        BY <1>1, <3>2, <4>1 DEF PartStart
    <3>4. FrameEnd(k) = FrameEnd(k - 1) + HeaderLen
      BY <1>1, <1>2, <1>3, <2>3, <2>4, <2>5
    <3>5. QED
      BY <1>1, <2>2, <2>3, <3>1, <3>2, <3>3, <3>4
  <2>6. CASE FrameOf(part).len # 0
    <3>1. NextPart(part) = part + 1
      BY <1>1, <1>7, <2>6 DEF NextPart, EndsFrame, IsHeader
    <3>2. (part + 1) \div 2 = k /\ ~IsHeader(part + 1)
      BY <1>1, <1>7, PartNumbers DEF IsHeader
    <3>3. PartStart(part + 1) = FrameEnd(k - 1) + HeaderLen
      BY <1>1, <1>7, <3>2 DEF PartStart
    <3>4. PartStart(part) + PartLen(part) = FrameEnd(k - 1) + HeaderLen
      BY <2>2
    <3>5. k \in 1 .. n + 0
      BY <1>1, <2>3
    <3>6. part + 1 \in Nat \ {0, 1}
      BY <1>1
    <3>7. QED
      BY <3>1, <3>2, <3>3, <3>4, <3>5, <3>6
  <2>7. QED
    BY <2>5, <2>6
<1>8. CASE part # 1 /\ ~IsHeader(part)
  <2>1. k \in 1 .. n
    BY <1>8 DEF Placed
  <2>2. PartStart(part) = FrameEnd(k - 1) + HeaderLen /\ PartLen(part) = script.frames[k].len
    BY <1>8 DEF PartStart, PartLen, FrameOf
  <2>3. NextPart(part) = part + 1
    BY <1>8 DEF NextPart
  <2>4. (part + 1) \div 2 = k + 1 /\ IsHeader(part + 1)
    BY <1>1, <1>8, PartNumbers DEF IsHeader
  <2>5. PartStart(part + 1) = FrameEnd(k)
    <3>1. FrameEnd(k + 1 - 1) = FrameEnd(k) /\ FrameEnd(k) \in Nat
      BY <1>2, <2>1
    <3>2. QED
      BY <1>1, <1>8, <2>4, <3>1 DEF PartStart
  <2>6. PartStart(part) + PartLen(part) = FrameEnd(k)
    <3>1. FrameEnd(k - 1) \in Nat
      BY <1>2, <2>1
    <3>2. QED
      BY <1>1, <1>3, <1>4, <2>1, <2>2, <3>1
  <2>7. QED
    BY <1>1, <2>1, <2>3, <2>4, <2>5, <2>6
<1>9. QED
  BY <1>6, <1>7, <1>8

----------------------------------------------------------------------------
(* Type correctness *)

LEMMA ForwardType ==
  ASSUME ForwardTypeOK, NEW r \in Requests, fp \in Annotations,
         Begin(r) \/ CollectBody(r) \/ ForwardStep(r, fp) \/ DropRequest(r) \/ UpstreamStep(r)
  PROVE  ForwardTypeOK'
<1>1. CASE Begin(r)
  BY <1>1 DEF ForwardTypeOK, Begin, Steps
<1>2. CASE CollectBody(r)
  BY <1>2, ZenonT(40) DEF ForwardTypeOK, CollectBody, Steps
<1>3. CASE Connected(r, fp)
  BY <1>3 DEF ForwardTypeOK, Connected, Steps
<1>4. ASSUME NEW from, NEW how \in {"502", "upstream whole", "upstream empty"},
             Answer(r, from, how)
      PROVE  ForwardTypeOK'
  BY <1>4 DEF ForwardTypeOK, Answer, Steps
<1>5. CASE UpstreamFails(r) \/ UpstreamTimesOut(r) \/ RelayWhole(r) \/ RelayCut(r)
  BY <1>4, <1>5 DEF UpstreamFails, UpstreamTimesOut, RelayWhole, RelayCut
<1>6. CASE ResponseHead(r)
  BY <1>6 DEF ForwardTypeOK, ResponseHead, Steps
<1>7. CASE DropRequest(r)
  BY <1>7 DEF ForwardTypeOK, DropRequest, Steps
<1>8. CASE UpstreamStep(r)
  BY <1>8 DEF ForwardTypeOK, UpstreamStep, UpstreamAccepts, UpstreamRefuses, UpstreamBreaks,
     UpstreamAnswers, UpstreamFinishes, Goes
<1>9. QED
  BY <1>1, <1>2, <1>3, <1>5, <1>6, <1>7, <1>8 DEF ForwardStep

\* Reading, keeping and abandoning a part, and the two halves of poll_read.
LEMMA ArriveType ==
  ASSUME StreamTypeOK, Placed, NEW served, Arrive(served)
  PROVE  StreamTypeOK' /\ arrived' <= FrameEnd(Len(script.frames))
<1>1. /\ arrived \in Nat /\ script \in Scripts
      /\ MaySend(served) \in Nat /\ MaySend(served) <= FrameEnd(Len(script.frames))
  BY SendsItsFrames DEF StreamTypeOK
<1>2. FrameEnd(Len(script.frames)) \in Nat
  <2>1. Len(script.frames) \in 0 .. Len(script.frames)
    BY <1>1, ScriptType
  <2>2. QED
    BY <1>1, <2>1, FrameEndsIncrease DEF FrameEnd
<1>3. arrived' \in arrived + 1 .. MaySend(served)
  BY DEF Arrive
<1>4. arrived' \in Nat /\ arrived' <= FrameEnd(Len(script.frames))
  BY <1>1, <1>2, <1>3
<1>5. QED
  BY <1>4 DEF StreamTypeOK, Arrive, captureVars, replayVars

LEMMA BytesType ==
  ASSUME NEW m \in Nat, NEW n \in Nat
  PROVE  /\ Bytes(m, n) \in Seq(Nat) /\ Len(Bytes(m, n)) = n
         /\ \A i \in 1 .. n : Bytes(m, n)[i] = m + i
BY DEF Bytes

LEMMA ReadSomeType ==
  ASSUME StreamTypeOK, Placed, phase = "capture", ReadSome
  PROVE  StreamTypeOK' /\ taken' = PartStart(part) + got'
<1>1. PartLen(part) \in Nat /\ PartStart(part) \in Nat /\ taken = PartStart(part) + got
  BY PartsHaveLengths
<1>2. taken \in Nat /\ got \in Nat
  BY DEF StreamTypeOK
<1>3. PICK n \in 1 .. Room - 1 : taken' = taken + n /\ got' = got + n
  BY DEF ReadSome
<1>4. n \in Nat
  BY <1>1, <1>2, <1>3 DEF Room
<1>5. taken' \in Nat /\ got' \in Nat /\ taken' = PartStart(part) + got'
  BY <1>1, <1>2, <1>3, <1>4
<1>6. QED
  BY <1>5 DEF StreamTypeOK, ReadSome, replayVars

LEMMA KeepPartType ==
  ASSUME StreamTypeOK, Placed, phase = "capture", KeepPart
  PROVE  StreamTypeOK' /\ taken' = PartStart(part') + got' /\ got' = 0
<1>1. PartLen(part) \in Nat /\ PartStart(part) \in Nat /\ taken = PartStart(part) + got
  BY PartsHaveLengths
<1>2. /\ NextPart(part) \in Nat \ {0, 1}
      /\ PartStart(NextPart(part)) = PartStart(part) + PartLen(part)
  BY NextPartFollows DEF KeepPart
<1>3. taken \in Nat /\ got \in Nat /\ captured \in Seq(Nat)
  BY DEF StreamTypeOK
<1>4. taken' = PartStart(part) + PartLen(part) /\ taken' \in Nat
  BY <1>1, <1>3, SMTT(30) DEF KeepPart, Room
<1>5. captured' \in Seq(Nat)
  <2>1. Bytes(taken - got, PartLen(part)) \in Seq(Nat)
    BY <1>1, <1>3, BytesType
  <2>2. QED
    BY <1>3, <2>1 DEF KeepPart
<1>6. PartStart(part') = PartStart(NextPart(part))
  BY DEF KeepPart, PartStart, FrameEnd, IsHeader
<1>7. taken' = PartStart(part') + got' /\ got' = 0
  BY <1>1, <1>2, <1>4, <1>6 DEF KeepPart
<1>8. part' \in Nat \ {0}
  BY <1>2 DEF KeepPart
<1>9. QED
  BY <1>4, <1>5, <1>7, <1>8 DEF StreamTypeOK, KeepPart, replayVars

LEMMA AbandonType ==
  ASSUME StreamTypeOK, Placed, phase = "capture", Abandon
  PROVE  StreamTypeOK'
<1>1. PartStart(part) \in Nat /\ taken = PartStart(part) + got /\ got \in Nat
  BY PartsHaveLengths DEF StreamTypeOK
<1>2. taken - got + 1 .. taken \subseteq Nat
  BY <1>1
<1>3. QED
  BY <1>2 DEF StreamTypeOK, Abandon, replayVars

LEMMA HyperReadsType ==
  ASSUME StreamTypeOK, HyperReads
  PROVE  StreamTypeOK'
<1>1. /\ captured \in Seq(Nat) /\ delivered \in Seq(Nat) /\ replayed \in Nat
      /\ taken \in Nat /\ arrived \in Nat
  BY DEF StreamTypeOK
<1>2. CASE Replay
  <2>1. PICK n \in 1 .. Len(captured) - replayed :
               /\ delivered' = delivered \o SubSeq(captured, replayed + 1, replayed + n)
               /\ replayed' = replayed + n
    BY <1>2 DEF Replay
  <2>2. SubSeq(captured, replayed + 1, replayed + n) \in Seq(Nat)
    BY <1>1, <2>1
  <2>3. delivered' \in Seq(Nat) /\ replayed' \in Nat
    BY <1>1, <2>1, <2>2
  <2>4. QED
    BY <1>2, <2>3 DEF StreamTypeOK, Replay, captureVars
<1>3. CASE ReadLive
  <2>1. PICK n \in 1 .. Waiting :
               delivered' = delivered \o Bytes(taken, n) /\ taken' = taken + n
    BY <1>3 DEF ReadLive
  <2>2. n \in Nat
    BY <1>1, <2>1 DEF Waiting
  <2>3. delivered' \in Seq(Nat) /\ taken' \in Nat
    BY <1>1, <2>1, <2>2, BytesType
  <2>4. QED
    BY <1>3, <2>3 DEF StreamTypeOK, ReadLive, captureVars
<1>4. QED
  BY <1>2, <1>3 DEF HyperReads

LEMMA InitType == Init => TypeOK /\ Placed
<1> SUFFICES ASSUME Init PROVE TypeOK /\ Placed
  OBVIOUS
<1>1. StreamTypeOK
  BY DEF Init, StreamInit, StreamTypeOK
<1>2. ForwardTypeOK
  BY DEF Init, ForwardInit, ForwardTypeOK, Annotations
<1>3. FrameEnd(Len(script.frames)) \in Nat
  <2>1. script \in Scripts
    BY <1>1 DEF StreamTypeOK
  <2>2. Len(script.frames) \in 0 .. Len(script.frames)
    BY <2>1, ScriptType
  <2>3. QED
    BY <2>1, <2>2, FrameEndsIncrease DEF FrameEnd
<1>4. Placed
  BY <1>3 DEF Init, StreamInit, Placed
<1>5. QED
  BY <1>1, <1>2, <1>4 DEF Init, TypeOK, Annotations

\* What the steps that leave the capture and its stream alone have in common.
LEMMA StreamUnmoved ==
  ASSUME StreamTypeOK, UNCHANGED streamVars
  PROVE  /\ StreamTypeOK'
         /\ Placed /\ phase' \in {phase, "report", "serving", "closed"} => Placed'
<1>1. UNCHANGED <<script, arrived, taken, part, got, captured, lost, replayed, delivered>>
  BY DEF streamVars, captureVars, replayVars
<1>2. StreamTypeOK'
  BY <1>1 DEF StreamTypeOK
<1>3. ASSUME Placed, phase' \in {phase, "report", "serving", "closed"} PROVE Placed'
  BY <1>1, <1>3 DEF Placed, FrameEnd, PartStart, IsHeader
<1>4. QED
  BY <1>2, <1>3

LEMMA ForwardUnmoved ==
  ASSUME ForwardTypeOK, UNCHANGED forwardVars
  PROVE  ForwardTypeOK'
BY DEF ForwardTypeOK, forwardVars

LEMMA StepType ==
  ASSUME TypeOK, Placed, [Next]_vars
  PROVE  TypeOK' /\ Placed'
<1>1. /\ StreamTypeOK /\ ForwardTypeOK /\ fp \in Annotations /\ published \in Nat
      /\ gone \in BOOLEAN /\ h2fp \in {"none", "partial", "complete"}
      /\ phase \in {"handshake", "capture", "report", "serving", "closed"}
  BY DEF TypeOK
<1>2. CASE ClientSends
  <2>1. StreamTypeOK' /\ arrived' <= FrameEnd(Len(script.frames))
    BY <1>1, <1>2, ArriveType DEF ClientSends
  <2>2. ForwardTypeOK'
    BY <1>1, <1>2, ForwardUnmoved DEF ClientSends
  <2>3. UNCHANGED <<script, taken, part, got, handleVars, gone>>
    BY <1>2 DEF ClientSends, Arrive, captureVars
  <2>4. TypeOK'
    BY <1>1, <2>1, <2>2, <2>3 DEF TypeOK, handleVars
  <2>5. Placed'
    BY <2>1, <2>3 DEF Placed, FrameEnd, PartStart, IsHeader, handleVars
  <2>6. QED
    BY <2>4, <2>5
<1>3. CASE ClientLeaves
  BY <1>1, <1>3, StreamUnmoved, ForwardUnmoved DEF ClientLeaves, TypeOK, handleVars
<1>4. CASE HandshakeDone \/ HandshakeEnds
  <2>1. PICK next \in {"capture", "report", "closed"} :
               EndHandshake(next) /\ (next = "capture" => script.h2)
    BY <1>4 DEF HandshakeDone, HandshakeEnds
  <2>2. TypeOK'
    BY <1>1, <2>1, StreamUnmoved, ForwardUnmoved DEF EndHandshake, TypeOK
  <2>3. Placed'
    <3>1. CASE next = "capture"
      <4>1. UNCHANGED <<script, arrived, taken, part, got>> /\ phase = "handshake"
        BY <2>1 DEF EndHandshake, streamVars, captureVars
      <4>2. part' = 1 /\ got' = 0 /\ taken' = 0 /\ script'.h2
        BY <2>1, <3>1, <4>1 DEF Placed
      <4>3. arrived' <= FrameEnd(Len(script.frames))'
        BY <4>1 DEF Placed, FrameEnd
      <4>4. QED
        BY <2>1, <3>1, <4>2, <4>3 DEF EndHandshake, Placed, PartStart
    <3>2. CASE next # "capture"
      BY <1>1, <2>1, <3>2, StreamUnmoved DEF EndHandshake
    <3>3. QED
      BY <3>1, <3>2
  <2>4. QED
    BY <2>2, <2>3
<1>5. CASE CaptureReads
  <2>1. StreamTypeOK' /\ taken' = PartStart(part) + got'
    BY <1>1, <1>5, ReadSomeType DEF CaptureReads
  <2>2. ForwardTypeOK'
    BY <1>1, <1>5, ForwardUnmoved DEF CaptureReads
  <2>3. UNCHANGED <<script, arrived, part, handleVars, gone>> /\ phase = "capture"
    BY <1>5 DEF CaptureReads, ReadSome
  <2>4. TypeOK'
    BY <1>1, <2>1, <2>2, <2>3 DEF TypeOK, handleVars
  <2>5. Placed'
    BY <2>1, <2>3 DEF Placed, FrameEnd, PartStart, IsHeader, handleVars
  <2>6. QED
    BY <2>4, <2>5
<1>6. CASE CaptureKeeps
  <2>1. StreamTypeOK' /\ taken' = PartStart(part') + got' /\ got' = 0
    BY <1>1, <1>6, KeepPartType DEF CaptureKeeps
  <2>2. ForwardTypeOK'
    BY <1>1, <1>6, ForwardUnmoved DEF CaptureKeeps
  <2>3. /\ UNCHANGED <<script, arrived, fp, published, gone>> /\ phase = "capture"
        /\ part' = NextPart(part) /\ Room <= Waiting
    BY <1>6 DEF CaptureKeeps, KeepPart
  <2>4. h2fp' \in {"none", "partial", "complete"} /\ phase' \in {"capture", "report"}
    BY <1>1, <1>6, <2>3 DEF CaptureKeeps, H2Fingerprint
  <2>5. TypeOK'
    BY <1>1, <2>1, <2>2, <2>3, <2>4 DEF TypeOK
  <2>6. Placed'
    <3>1. NextPart(part) \div 2
            \in 1 .. Len(script.frames) + (IF IsHeader(NextPart(part)) THEN 1 ELSE 0)
      BY <1>1, <2>3, NextPartFollows
    <3>2. taken' = PartStart(part)' + got'
      BY <2>1, <2>3 DEF PartStart, FrameEnd, IsHeader
    <3>3. QED
      BY <2>3, <2>4, <3>1, <3>2 DEF Placed, FrameEnd, IsHeader
  <2>7. QED
    BY <2>5, <2>6
<1>7. CASE CaptureTimesOut \/ CaptureMeetsEnd
  <2>1. AbandonCapture
    BY <1>7 DEF CaptureTimesOut, CaptureMeetsEnd
  <2>2. StreamTypeOK'
    BY <1>1, <2>1, AbandonType DEF AbandonCapture
  <2>3. ForwardTypeOK'
    BY <1>1, <2>1, ForwardUnmoved DEF AbandonCapture
  <2>4. /\ h2fp' \in {"none", "partial"} /\ phase' = "report"
        /\ UNCHANGED <<script, arrived, fp, published, gone>>
    BY <2>1 DEF AbandonCapture, Abandon, H2Fingerprint
  <2>5. TypeOK' /\ Placed'
    BY <1>1, <2>2, <2>3, <2>4 DEF TypeOK, Placed, FrameEnd
  <2>6. QED
    BY <2>5
<1>8. CASE Report
  <2>1. /\ UNCHANGED <<streamVars, forwardVars, gone>> /\ phase' = "serving"
        /\ fp' \in Annotations /\ published' \in Nat /\ h2fp' \in {"none", "partial", "complete"}
    BY <1>1, <1>8 DEF Report, Annotations
  <2>2. QED
    BY <1>1, <2>1, StreamUnmoved, ForwardUnmoved DEF TypeOK
<1>9. CASE HyperReadsBytes
  <2>1. StreamTypeOK' /\ ForwardTypeOK'
    BY <1>1, <1>9, HyperReadsType, ForwardUnmoved DEF HyperReadsBytes
  <2>2. UNCHANGED <<script, arrived, handleVars, gone>> /\ phase = "serving"
    BY <1>9 DEF HyperReadsBytes, HyperReads, Replay, ReadLive
  <2>3. QED
    BY <1>1, <2>1, <2>2 DEF TypeOK, Placed, FrameEnd, handleVars
<1>10. CASE ConnectionEnds
  BY <1>1, <1>10, StreamUnmoved, ForwardUnmoved DEF ConnectionEnds, TypeOK
<1>11. ASSUME NEW r \in Requests,
              HyperDecodes(r) \/ RequestRuns(r) \/ RequestDropped(r) \/ UpstreamMoves(r)
       PROVE  TypeOK' /\ Placed'
  <2>1. Begin(r) \/ CollectBody(r) \/ ForwardStep(r, fp) \/ DropRequest(r) \/ UpstreamStep(r)
    BY <1>11 DEF HyperDecodes, RequestRuns, RequestDropped, UpstreamMoves
  <2>2. ForwardTypeOK'
    BY <1>1, <2>1, ForwardType
  <2>3. UNCHANGED <<streamVars, handleVars, gone>>
    BY <1>11 DEF HyperDecodes, RequestRuns, RequestDropped, UpstreamMoves
  <2>4. QED
    BY <1>1, <2>2, <2>3, StreamUnmoved DEF TypeOK, handleVars
<1>12. CASE UNCHANGED vars
  BY <1>1, <1>12, StreamUnmoved, ForwardUnmoved DEF vars, handleVars, TypeOK
<1>13. QED
  BY <1>2, <1>3, <1>4, <1>5, <1>6, <1>7, <1>8, <1>9, <1>10, <1>11, <1>12
  DEF Next, HandleStep

\* Every variable keeps its type, and the capture its place in the script,
\* whatever the client sends.
THEOREM TypeCorrect == Spec => [](TypeOK /\ Placed)
<1>1. TypeOK /\ Placed /\ [Next]_vars => (TypeOK /\ Placed)'
  BY StepType
<1>2. QED
  BY <1>1, InitType, PTL DEF Spec

----------------------------------------------------------------------------
(* Every byte once *)

Early == phase \in {"handshake", "capture"}

\* How many of the bytes taken are nowhere.
Missing == taken - got - Len(captured) - (Len(delivered) - replayed)

\* What was captured is the opening of the stream, what is missing came right
\* after it and was abandoned, and hyper reads the rest in order: all of what
\* was captured before any of what follows the gap.
InOrder ==
  /\ Missing \in Nat
  /\ lost = Len(captured) + 1 .. Len(captured) + Missing
  /\ \A i \in 1 .. Len(captured) : captured[i] = i
  /\ \A i \in 1 .. Len(delivered) :
       delivered[i] = IF i <= Len(captured) THEN i ELSE i + Missing
  /\ replayed <= Len(captured) /\ replayed <= Len(delivered)
  /\ replayed < Len(captured) => Len(delivered) = replayed
  /\ IF Early THEN Missing = 0 /\ delivered = <<>> ELSE got = 0

\* The types the arithmetic below needs.
LEMMA StreamNumbers ==
  ASSUME StreamTypeOK
  PROVE  /\ captured \in Seq(Nat) /\ delivered \in Seq(Nat)
         /\ Len(captured) \in Nat /\ Len(delivered) \in Nat
         /\ replayed \in Nat /\ taken \in Nat /\ got \in Nat /\ arrived \in Nat
BY DEF StreamTypeOK

\* A step that leaves the stream alone keeps it in order: only the end of the
\* handshake, before which nothing was read, leaves Early without the capture.
LEMMA UnmovedInOrder ==
  ASSUME InOrder, UNCHANGED <<taken, got, captured, lost, replayed, delivered>>,
         Early' = Early \/ (~Early' /\ got = 0)
  PROVE  InOrder'
BY DEF InOrder, Missing

LEMMA CaptureInOrder ==
  ASSUME StreamTypeOK, InOrder, phase = "capture"
  PROVE  /\ replayed = 0 /\ Len(delivered) = 0 /\ delivered = <<>>
         /\ taken - got = Len(captured) /\ Missing = 0 /\ lost = {}
<1>1. Missing = 0 /\ delivered = <<>>
  BY DEF InOrder, Early
<1>2. replayed = 0 /\ Len(delivered) = 0
  BY <1>1, StreamNumbers DEF InOrder
<1>3. taken - got = Len(captured)
  BY <1>1, <1>2, StreamNumbers DEF Missing
<1>4. lost = {}
  BY <1>1, StreamNumbers DEF InOrder
<1>5. QED
  BY <1>1, <1>2, <1>3, <1>4

LEMMA ReadSomeInOrder ==
  ASSUME StreamTypeOK, Placed, InOrder, phase = "capture", Early', ReadSome
  PROVE  InOrder'
<1>1. PICK n \in Int : taken' = taken + n /\ got' = got + n
  <2>1. PICK n \in 1 .. Room - 1 : taken' = taken + n /\ got' = got + n
    BY DEF ReadSome
  <2>2. n \in Int
    BY <2>1
  <2>3. QED
    BY <2>1, <2>2
<1>2. UNCHANGED <<captured, lost, replayed, delivered>>
  BY DEF ReadSome, replayVars
<1>3. Missing' = Missing
  BY <1>1, <1>2, StreamNumbers DEF Missing
<1>4. QED
  BY <1>2, <1>3 DEF InOrder, Early

LEMMA KeepPartInOrder ==
  ASSUME StreamTypeOK, Placed, InOrder, phase = "capture", KeepPart
  PROVE  InOrder'
<1> DEFINE c == Len(captured)
           n == PartLen(part)
<1>1. /\ replayed = 0 /\ Len(delivered) = 0 /\ delivered = <<>>
      /\ taken - got = c /\ Missing = 0 /\ lost = {}
  BY CaptureInOrder
<1>2. n \in Nat /\ c \in Nat /\ captured \in Seq(Nat) /\ taken \in Nat /\ got \in Nat
  BY PartsHaveLengths, StreamNumbers
<1>3. /\ taken' = taken + (n - got) /\ got' = 0 /\ captured' = captured \o Bytes(c, n)
      /\ UNCHANGED <<lost, replayed, delivered>>
  BY <1>1 DEF KeepPart, Room, replayVars
<1>4. Len(captured') = c + n /\ \A i \in 1 .. c + n : captured'[i] = i
  <2>1. /\ Bytes(c, n) \in Seq(Nat) /\ Len(Bytes(c, n)) = n
        /\ \A i \in 1 .. n : Bytes(c, n)[i] = c + i
    BY <1>2, BytesType
  <2>2. \A i \in 1 .. c : captured[i] = i
    BY DEF InOrder
  <2> HIDE DEF c, n
  <2>3. Len(captured') = c + n
    <3>1. Len(captured \o Bytes(c, n)) = Len(captured) + Len(Bytes(c, n))
      BY <1>2, <2>1, Concatenation
    <3>2. QED
      BY <1>3, <2>1, <3>1 DEF c
  <2>4. \A i \in 1 .. c : captured'[i] = i
    BY <1>2, <1>3, <2>1, <2>2 DEF c
  <2>5. ASSUME NEW i \in c + 1 .. c + n PROVE captured'[i] = i
    <3>1. i - c \in 1 .. n /\ i \in 1 .. c + n /\ i > c
      BY <1>2, <2>5
    <3>2. captured'[i] = Bytes(c, n)[i - c]
      BY <1>2, <1>3, <2>1, <3>1 DEF c
    <3>3. QED
      BY <1>2, <2>1, <3>1, <3>2
  <2>6. QED
    BY <1>2, <2>3, <2>4, <2>5
<1>5. Missing' = 0
  BY <1>1, <1>2, <1>3, <1>4, SMTT(30) DEF Missing
<1>6. lost' = Len(captured') + 1 .. Len(captured') + 0
  BY <1>1, <1>2, <1>3, <1>4
<1>7. delivered' = <<>> /\ Len(delivered') = 0 /\ replayed' = 0
  BY <1>1, <1>3
<1>8. /\ \A i \in 1 .. Len(captured') : captured'[i] = i
      /\ \A i \in 1 .. Len(delivered') :
           delivered'[i] = IF i <= Len(captured') THEN i ELSE i + Missing'
  BY <1>4, <1>7
<1>9. replayed' <= Len(captured') /\ replayed' <= Len(delivered')
  BY <1>2, <1>4, <1>7
<1>10. QED
  BY <1>3, <1>5, <1>6, <1>7, <1>8, <1>9 DEF InOrder

LEMMA AbandonInOrder ==
  ASSUME StreamTypeOK, InOrder, phase = "capture", Abandon, ~Early'
  PROVE  InOrder'
<1> DEFINE c == Len(captured)
<1>1. /\ replayed = 0 /\ Len(delivered) = 0 /\ delivered = <<>>
      /\ taken - got = c /\ Missing = 0
  BY CaptureInOrder
<1>2. c \in Nat /\ taken \in Nat /\ got \in Nat
  BY StreamNumbers
<1>3. /\ lost' = taken - got + 1 .. taken /\ got' = 0
      /\ UNCHANGED <<taken, captured, replayed, delivered>>
  BY DEF Abandon, replayVars
<1>4. Missing' = got /\ taken = c + got
  BY <1>1, <1>2, <1>3 DEF Missing
<1>5. QED
  BY <1>1, <1>2, <1>3, <1>4 DEF InOrder

LEMMA HyperReadsInOrder ==
  ASSUME StreamTypeOK, InOrder, phase = "serving", HyperReads, ~Early'
  PROVE  InOrder'
<1> DEFINE c == Len(captured)
           d == Len(delivered)
           m == Missing
<1>1. /\ captured \in Seq(Nat) /\ delivered \in Seq(Nat) /\ c \in Nat /\ d \in Nat
      /\ replayed \in Nat /\ taken \in Nat /\ got = 0 /\ m \in Nat
      /\ replayed <= c /\ replayed <= d /\ (replayed < c => d = replayed)
  BY StreamNumbers DEF InOrder, Early
<1>2. taken = c + m + (d - replayed)
  BY <1>1 DEF Missing
<1>3. \A i \in 1 .. d : delivered[i] = IF i <= c THEN i ELSE i + m
  BY DEF InOrder
<1>4. ASSUME NEW q \in Seq(Nat), delivered' = delivered \o q,
             \A j \in 1 .. Len(q) : q[j] = IF d + j <= c THEN d + j ELSE d + j + m
      PROVE  /\ Len(delivered') = d + Len(q)
             /\ \A i \in 1 .. Len(delivered') :
                  delivered'[i] = IF i <= c THEN i ELSE i + m
  <2> DEFINE l == Len(q)
  <2> HIDE DEF c, m
  <2>1. Len(delivered') = d + l /\ l \in Nat
    BY <1>1, <1>4
  <2>2. ASSUME NEW i \in 1 .. d PROVE delivered'[i] = IF i <= c THEN i ELSE i + m
    <3>1. delivered'[i] = delivered[i]
      BY <1>1, <1>4
    <3>2. QED
      BY <1>3, <3>1
  <2>3. ASSUME NEW i \in d + 1 .. d + l PROVE delivered'[i] = IF i <= c THEN i ELSE i + m
    <3>1. delivered'[i] = q[i - d] /\ i - d \in 1 .. l /\ d + (i - d) = i
      BY <1>1, <1>4, <2>1
    <3>2. QED
      BY <1>4, <3>1
  <2>4. ASSUME NEW i \in 1 .. Len(delivered')
        PROVE  i \in 1 .. d \/ i \in d + 1 .. d + l
    BY <1>1, <2>1
  <2>5. QED
    BY <2>1, <2>2, <2>3, <2>4
<1>5. CASE Replay
  <2>1. PICK n \in 1 .. c - replayed :
               /\ delivered' = delivered \o SubSeq(captured, replayed + 1, replayed + n)
               /\ replayed' = replayed + n
    BY <1>5 DEF Replay
  <2>2. UNCHANGED <<taken, got, captured, lost>>
    BY <1>5 DEF Replay, captureVars
  <2> DEFINE q == SubSeq(captured, replayed + 1, replayed + n)
  <2>3. /\ q \in Seq(Nat) /\ Len(q) = n /\ n \in Nat /\ d = replayed
        /\ \A j \in 1 .. n : q[j] = captured[replayed + j] /\ replayed + j \in 1 .. c
    BY <1>1, <2>1
  <2>4. \A j \in 1 .. n : q[j] = d + j /\ d + j <= c
    BY <1>1, <2>3 DEF InOrder
  <2>5. /\ Len(delivered') = d + n
        /\ \A i \in 1 .. Len(delivered') : delivered'[i] = IF i <= c THEN i ELSE i + m
    <3> HIDE DEF q, m
    <3>1. \A j \in 1 .. Len(q) : q[j] = IF d + j <= c THEN d + j ELSE d + j + m
      BY <1>1, <2>3, <2>4
    <3>2. delivered' = delivered \o q
      BY <2>1 DEF q
    <3>3. QED
      BY <1>4, <2>3, <3>1, <3>2
  <2>6. Missing' = m
    <3>1. Len(delivered') = d + n /\ replayed' = replayed + n
      BY <2>1, <2>5
    <3>2. QED
      BY <1>1, <2>2, <2>3, <3>1 DEF Missing
  <2>7. replayed' <= c /\ replayed' = Len(delivered')
    BY <1>1, <2>1, <2>3, <2>5
  <2>8. replayed' <= Len(delivered')
    BY <1>1, <2>1, <2>3, <2>7
  <2> HIDE DEF q
  <2>9. QED
    BY <1>1, <2>2, <2>5, <2>6, <2>7, <2>8 DEF InOrder
<1>6. CASE ReadLive
  <2>1. PICK n \in 1 .. Waiting : delivered' = delivered \o Bytes(taken, n) /\ taken' = taken + n
    BY <1>6 DEF ReadLive
  <2>2. UNCHANGED <<got, captured, lost, replayed>> /\ replayed = c
    BY <1>6 DEF ReadLive, captureVars
  <2>3. /\ n \in Nat /\ Bytes(taken, n) \in Seq(Nat) /\ Len(Bytes(taken, n)) = n
        /\ \A j \in 1 .. n : Bytes(taken, n)[j] = taken + j
    <3>1. n \in Nat
      BY <1>1, <2>1, StreamNumbers DEF Waiting
    <3>2. QED
      BY <1>1, <3>1, BytesType
  <2>4. taken = m + d
    BY <1>1, <1>2, <2>2
  <2>5. \A j \in 1 .. n : Bytes(taken, n)[j] = IF d + j <= c THEN d + j ELSE d + j + m
    BY <1>1, <2>2, <2>3, <2>4
  <2>6. /\ Len(delivered') = d + n
        /\ \A i \in 1 .. Len(delivered') : delivered'[i] = IF i <= c THEN i ELSE i + m
    BY <1>4, <2>1, <2>3, <2>5
  <2>7. Missing' = m
    BY <1>1, <2>1, <2>2, <2>3, <2>6 DEF Missing
  <2>8. replayed' <= Len(delivered') /\ ~(replayed' < Len(captured'))
    BY <1>1, <2>2, <2>3, <2>6
  <2>9. QED
    BY <1>1, <2>2, <2>6, <2>7, <2>8 DEF InOrder
<1>7. QED
  BY <1>5, <1>6 DEF HyperReads

LEMMA InitInOrder == Init => InOrder
<1> SUFFICES ASSUME Init PROVE InOrder
  OBVIOUS
<1>1. /\ taken = 0 /\ got = 0 /\ captured = <<>> /\ lost = {} /\ replayed = 0
      /\ delivered = <<>> /\ phase = "handshake"
  BY DEF Init, StreamInit
<1>2. /\ Len(captured) = 0 /\ Len(delivered) = 0
      /\ taken = 0 /\ got = 0 /\ replayed = 0
  BY <1>1
<1>3. Missing = 0
  BY <1>2 DEF Missing
<1>4. QED
  BY <1>1, <1>2, <1>3 DEF InOrder, Early

LEMMA StepInOrder ==
  ASSUME TypeOK, Placed, InOrder, [Next]_vars
  PROVE  InOrder'
<1>1. StreamTypeOK /\ phase \in {"handshake", "capture", "report", "serving", "closed"}
  BY DEF TypeOK
<1>2. ASSUME UNCHANGED <<streamVars, phase>> PROVE InOrder'
  <2>1. UNCHANGED <<taken, got, captured, lost, replayed, delivered>> /\ Early' = Early
    BY <1>2 DEF streamVars, captureVars, replayVars, Early
  <2>2. QED
    BY <2>1, UnmovedInOrder
<1>3. CASE ClientSends
  <2>1. UNCHANGED <<taken, got, captured, lost, replayed, delivered>> /\ Early' = Early
    BY <1>3 DEF ClientSends, Arrive, captureVars, replayVars, handleVars, Early
  <2>2. QED
    BY <2>1, UnmovedInOrder
<1>4. CASE HandshakeDone \/ HandshakeEnds
  <2>1. /\ UNCHANGED <<taken, got, captured, lost, replayed, delivered>>
        /\ phase = "handshake"
    BY <1>4 DEF HandshakeDone, HandshakeEnds, EndHandshake, streamVars, captureVars, replayVars
  <2>2. Early' = Early \/ (~Early' /\ got = 0)
    BY <2>1 DEF Placed, Early
  <2>3. QED
    BY <2>1, <2>2, UnmovedInOrder
<1>5. CASE CaptureReads
  <2>1. phase = "capture" /\ ReadSome /\ Early'
    BY <1>5 DEF CaptureReads, handleVars, Early
  <2>2. QED
    BY <1>1, <2>1, ReadSomeInOrder
<1>6. CASE CaptureKeeps
  <2>1. phase = "capture" /\ KeepPart
    BY <1>6 DEF CaptureKeeps
  <2>2. QED
    BY <1>1, <2>1, KeepPartInOrder
<1>7. CASE CaptureTimesOut \/ CaptureMeetsEnd
  <2>1. phase = "capture" /\ Abandon /\ ~Early'
    BY <1>7 DEF CaptureTimesOut, CaptureMeetsEnd, AbandonCapture, Early
  <2>2. QED
    BY <1>1, <2>1, AbandonInOrder
<1>8. CASE Report \/ ConnectionEnds
  <2>1. /\ UNCHANGED <<taken, got, captured, lost, replayed, delivered>>
        /\ Early' = Early
    BY <1>8 DEF Report, ConnectionEnds, streamVars, captureVars, replayVars, Early
  <2>2. QED
    BY <2>1, UnmovedInOrder
<1>9. CASE HyperReadsBytes
  <2>1. phase = "serving" /\ HyperReads /\ ~Early'
    BY <1>9 DEF HyperReadsBytes, handleVars, Early
  <2>2. QED
    BY <1>1, <2>1, HyperReadsInOrder
<1>10. CASE ClientLeaves
  BY <1>2, <1>10 DEF ClientLeaves, handleVars
<1>11. ASSUME NEW r \in Requests,
              HyperDecodes(r) \/ RequestRuns(r) \/ RequestDropped(r) \/ UpstreamMoves(r)
       PROVE  InOrder'
  BY <1>2, <1>11 DEF HyperDecodes, RequestRuns, RequestDropped, UpstreamMoves, handleVars
<1>12. CASE UNCHANGED vars
  BY <1>2, <1>12 DEF vars, handleVars
<1>13. QED
  BY <1>3, <1>4, <1>5, <1>6, <1>7, <1>8, <1>9, <1>10, <1>11, <1>12 DEF Next, HandleStep

\* In order, and with a gap only where bytes were abandoned, is every byte once.
LEMMA InOrderIsOnce ==
  ASSUME StreamTypeOK, InOrder
  PROVE  EveryByteOnce
<1> DEFINE c == Len(captured)
           d == Len(delivered)
           m == Missing
           held == SubSeq(captured, replayed + 1, c)
           tail == Bytes(taken - got, got)
           all == delivered \o held \o tail
<1>1. /\ captured \in Seq(Nat) /\ delivered \in Seq(Nat) /\ c \in Nat /\ d \in Nat
      /\ replayed \in Nat /\ taken \in Nat /\ got \in Nat /\ m \in Nat
      /\ replayed <= c /\ replayed <= d /\ (replayed < c => d = replayed)
  BY StreamNumbers DEF InOrder
<1>2. taken = c + m + (d - replayed) + got
  BY <1>1 DEF Missing
<1>3. /\ held \in Seq(Nat) /\ Len(held) = c - replayed
      /\ \A i \in 1 .. c - replayed : held[i] = captured[replayed + i] /\ replayed + i \in 1 .. c
  BY <1>1
<1>4. \A i \in 1 .. c - replayed : held[i] = d + i /\ d + i <= c
  <2>1. ASSUME NEW i \in 1 .. c - replayed PROVE held[i] = d + i /\ d + i <= c
    <3>1. replayed < c /\ d = replayed
      BY <1>1
    <3>2. held[i] = captured[replayed + i] /\ replayed + i \in 1 .. c
      BY <1>3
    <3>3. captured[replayed + i] = replayed + i
      BY <3>2 DEF InOrder
    <3>4. QED
      BY <1>1, <3>1, <3>2, <3>3
  <2>2. QED
    BY <2>1
<1>5. /\ tail \in Seq(Nat) /\ Len(tail) = got
      /\ \A i \in 1 .. got : tail[i] = taken - got + i
  <2>1. taken - got \in Nat
    BY <1>1, <1>2
  <2>2. QED
    BY <1>1, <2>1, BytesType
<1>6. got = 0 \/ (d = 0 /\ m = 0 /\ replayed = 0)
  <2>1. CASE Early
    <3>1. delivered = <<>> /\ m = 0
      BY <2>1 DEF InOrder
    <3>2. QED
      BY <1>1, <3>1
  <2>2. CASE ~Early
    BY <2>2 DEF InOrder
  <2>3. QED
    BY <2>1, <2>2
<1>7. /\ Len(all) = d + (c - replayed) + got /\ DOMAIN all = 1 .. Len(all)
      /\ \A i \in 1 .. d : all[i] = delivered[i]
      /\ \A i \in 1 .. c - replayed : all[d + i] = held[i]
      /\ \A i \in 1 .. got : all[d + (c - replayed) + i] = tail[i]
  <2> DEFINE front == delivered \o held
  <2>1. /\ front \in Seq(Nat) /\ Len(front) = d + (c - replayed)
        /\ \A i \in 1 .. d : front[i] = delivered[i]
        /\ \A i \in 1 .. c - replayed : front[d + i] = held[i]
    <3>1. held \in Seq(Nat) /\ delivered \in Seq(Nat) /\ Len(held) = c - replayed
      BY <1>1, <1>3
    <3> HIDE DEF held
    <3>2. /\ front \in Seq(Nat) /\ Len(front) = Len(delivered) + Len(held)
          /\ \A i \in 1 .. Len(delivered) : front[i] = delivered[i]
          /\ \A i \in 1 .. Len(held) : front[Len(delivered) + i] = held[i]
      BY <3>1, Concatenation
    <3> HIDE DEF front
    <3> QED
      BY <3>1, <3>2
  <2>2. /\ Len(front \o tail) = Len(front) + Len(tail)
        /\ DOMAIN (front \o tail) = 1 .. Len(front \o tail)
        /\ \A i \in 1 .. Len(front) : (front \o tail)[i] = front[i]
        /\ \A i \in 1 .. Len(tail) : (front \o tail)[Len(front) + i] = tail[i]
    <3>1. front \in Seq(Nat) /\ tail \in Seq(Nat)
      BY <1>5, <2>1
    <3> HIDE DEF front, tail
    <3> QED
      BY <3>1, Concatenation
  <2>3. all = front \o tail
    OBVIOUS
  <2> HIDE DEF front, tail, all, held
  <2>4. Len(all) = d + (c - replayed) + got /\ DOMAIN all = 1 .. Len(all)
    BY <1>5, <2>1, <2>2, <2>3
  <2>5. \A i \in 1 .. d + (c - replayed) : all[i] = front[i]
    BY <2>1, <2>2, <2>3
  <2>6. \A i \in 1 .. got : all[d + (c - replayed) + i] = tail[i]
    BY <1>5, <2>1, <2>2, <2>3
  <2>7. \A i \in 1 .. d : i \in 1 .. d + (c - replayed)
    BY <1>1
  <2>8. \A i \in 1 .. c - replayed : d + i \in 1 .. d + (c - replayed)
    BY <1>1
  <2>9. QED
    BY <2>1, <2>4, <2>5, <2>6, <2>7, <2>8
<1>8. /\ Len(all) = taken - m
      /\ \A i \in 1 .. taken - m : all[i] = IF i <= c THEN i ELSE i + m
  <2> HIDE DEF all, held, tail, m
  <2>1. Len(all) = taken - m
    BY <1>1, <1>2, <1>7
  <2>2. \A i \in 1 .. d : all[i] = IF i <= c THEN i ELSE i + m
    BY <1>7 DEF InOrder, m
  <2>3. ASSUME NEW i \in d + 1 .. d + (c - replayed) PROVE all[i] = i /\ i <= c
    <3>1. i - d \in 1 .. c - replayed /\ d + (i - d) = i
      BY <1>1, <2>3
    <3>2. all[d + (i - d)] = held[i - d] /\ held[i - d] = d + (i - d) /\ d + (i - d) <= c
      BY <1>4, <1>7, <3>1
    <3>3. QED
      BY <3>1, <3>2
  <2>4. ASSUME NEW i \in d + (c - replayed) + 1 .. d + (c - replayed) + got
        PROVE  all[i] = i /\ m = 0
    <3> DEFINE j == i - (d + (c - replayed))
    <3>1. j \in 1 .. got /\ d + (c - replayed) + j = i /\ got # 0
      BY <1>1, <2>4
    <3>2. d = 0 /\ m = 0 /\ replayed = 0
      BY <1>6, <3>1
    <3>3. all[i] = taken - got + j
      BY <1>5, <1>7, <3>1
    <3>4. QED
      BY <1>1, <1>2, <3>1, <3>2, <3>3
  <2>5. ASSUME NEW i \in 1 .. taken - m PROVE all[i] = IF i <= c THEN i ELSE i + m
    <3>1. \/ i \in 1 .. d \/ i \in d + 1 .. d + (c - replayed)
          \/ i \in d + (c - replayed) + 1 .. d + (c - replayed) + got
      BY <1>1, <1>2, <2>5
    <3>2. CASE i \in 1 .. d
      BY <2>2, <3>2
    <3>3. CASE i \in d + 1 .. d + (c - replayed)
      BY <2>3, <3>3
    <3>4. CASE i \in d + (c - replayed) + 1 .. d + (c - replayed) + got
      <4>1. all[i] = i /\ m = 0
        BY <2>4, <3>4
      <4>2. i \in Int
        BY <3>4
      <4>3. QED
        BY <4>1, <4>2
    <3>5. QED
      BY <3>1, <3>2, <3>3, <3>4
  <2>6. QED
    BY <2>1, <2>5
<1>9. taken - m \in Nat /\ c <= taken - m
  BY <1>1, <1>2
<1>10. \A i, j \in 1 .. Len(all) : i < j => all[i] < all[j]
  <2> SUFFICES ASSUME NEW i \in 1 .. Len(all), NEW j \in 1 .. Len(all), i < j
               PROVE  all[i] < all[j]
    OBVIOUS
  <2> HIDE DEF all, m, c
  <2>1. /\ all[i] = IF i <= c THEN i ELSE i + m
        /\ all[j] = IF j <= c THEN j ELSE j + m
    BY <1>8
  <2>2. i \in Int /\ j \in Int
    OBVIOUS
  <2> QED
    BY ONLY <1>1, <2>1, <2>2, i < j
<1>11. Range(all) = (1 .. taken) \ lost
  <2>1. lost = c + 1 .. c + m
    BY DEF InOrder
  <2> HIDE DEF all, m, c
  <2>2. Range(all) = {all[i] : i \in 1 .. taken - m}
    BY <1>7, <1>8 DEF Range
  <2>3. ASSUME NEW i \in 1 .. taken - m PROVE all[i] \in (1 .. taken) \ lost
    <3>1. all[i] = IF i <= c THEN i ELSE i + m
      BY <1>8, <2>3
    <3>2. (IF i <= c THEN i ELSE i + m) \in 1 .. taken
      BY <1>1, <1>9, <2>3
    <3>3. (IF i <= c THEN i ELSE i + m) \notin c + 1 .. c + m
      BY <1>1, <1>9, <2>3
    <3>4. QED
      BY <2>1, <3>1, <3>2, <3>3
  <2>4. ASSUME NEW b \in (1 .. taken) \ lost PROVE \E i \in 1 .. taken - m : all[i] = b
    <3>1. CASE b <= c
      <4>1. b \in 1 .. taken - m
        BY <1>1, <1>9, <2>4, <3>1
      <4>2. all[b] = b
        BY <1>8, <3>1, <4>1
      <4>3. QED
        BY <4>1, <4>2
    <3>2. CASE b > c + m
      <4>1. b - m \in 1 .. taken - m /\ ~(b - m <= c) /\ b - m + m = b
        BY <1>1, <1>9, <2>4, <3>2
      <4>2. all[b - m] = b
        BY <1>8, <4>1
      <4>3. QED
        BY <4>1, <4>2
    <3>3. QED
      BY <1>1, <2>1, <2>4, <3>1, <3>2
  <2>5. QED
    BY <2>2, <2>3, <2>4
<1>12. QED
  BY <1>10, <1>11 DEF EveryByteOnce

\* Whatever the client sends and whenever the capture ends, every byte taken
\* off the stream is in one place, in order, or was abandoned with the capture.
THEOREM NoByteLostOrRepeated == Spec => []EveryByteOnce
<1>1. TypeOK /\ Placed /\ InOrder /\ [Next]_vars => (TypeOK /\ Placed /\ InOrder)'
  BY StepType, StepInOrder
<1>2. TypeOK /\ Placed /\ InOrder => EveryByteOnce
  BY InOrderIsOnce DEF TypeOK
<1>3. QED
  BY <1>1, <1>2, InitType, InitInOrder, PTL DEF Spec

----------------------------------------------------------------------------
(* What a complete fingerprint says of the stream *)

\* The capture has lost nothing while it runs, and fingerprints as complete
\* only what it did not abandon.
Unabandoned == (phase \in {"handshake", "capture"} \/ h2fp = "complete") => lost = {}

LEMMA StepUnabandoned ==
  ASSUME Unabandoned, [Next]_vars
  PROVE  Unabandoned'
<1>1. ASSUME UNCHANGED <<lost, h2fp>>, phase' \notin {"handshake", "capture"} \/ phase' = phase
      PROVE  Unabandoned'
  BY <1>1 DEF Unabandoned
<1>2. CASE ClientSends
  BY <1>1, <1>2 DEF ClientSends, Arrive, captureVars, handleVars
<1>3. CASE ClientLeaves \/ ConnectionEnds
  BY <1>1, <1>3 DEF ClientLeaves, ConnectionEnds, streamVars, captureVars, handleVars
<1>4. CASE HandshakeDone \/ HandshakeEnds
  BY <1>4 DEF HandshakeDone, HandshakeEnds, EndHandshake, streamVars, captureVars, Unabandoned
<1>5. CASE CaptureReads
  BY <1>1, <1>5 DEF CaptureReads, ReadSome, handleVars
<1>6. CASE CaptureKeeps
  BY <1>6 DEF CaptureKeeps, KeepPart, Unabandoned
<1>7. CASE CaptureTimesOut \/ CaptureMeetsEnd
  <2>1. h2fp' # "complete" /\ phase' = "report"
    BY <1>7 DEF CaptureTimesOut, CaptureMeetsEnd, AbandonCapture, H2Fingerprint
  <2>2. QED
    BY <2>1 DEF Unabandoned
<1>8. CASE Report
  BY <1>8 DEF Report, streamVars, captureVars, Unabandoned
<1>9. CASE HyperReadsBytes
  BY <1>1, <1>9 DEF HyperReadsBytes, HyperReads, Replay, ReadLive, captureVars, handleVars
<1>10. ASSUME NEW r \in Requests,
              HyperDecodes(r) \/ RequestRuns(r) \/ RequestDropped(r) \/ UpstreamMoves(r)
       PROVE  Unabandoned'
  BY <1>1, <1>10 DEF HyperDecodes, RequestRuns, RequestDropped, UpstreamMoves, streamVars,
     captureVars, handleVars
<1>11. CASE UNCHANGED vars
  BY <1>1, <1>11 DEF vars, streamVars, captureVars, handleVars
<1>12. QED
  BY <1>2, <1>3, <1>4, <1>5, <1>6, <1>7, <1>8, <1>9, <1>10, <1>11 DEF Next, HandleStep

\* A connection reported with a complete HTTP/2 fingerprint lost no byte.
THEOREM FingerprintedIsIntact == Spec => []IntactWhenFingerprinted
<1>1. Init => Unabandoned
  BY DEF Init, StreamInit, Unabandoned
<1>2. Unabandoned /\ [Next]_vars => Unabandoned'
  BY StepUnabandoned
<1>3. Unabandoned => IntactWhenFingerprinted
  BY DEF Unabandoned, IntactWhenFingerprinted
<1>4. QED
  BY <1>1, <1>2, <1>3, PTL DEF Spec

\* And so hyper serves it from exactly what the client sent.
THEOREM FingerprintedIsServedWhole ==
  Spec => [](h2fp = "complete" => HyperReadsWhatWasSent)
<1>1. TypeOK /\ Placed /\ InOrder /\ [Next]_vars => (TypeOK /\ Placed /\ InOrder)'
  BY StepType, StepInOrder
<1>2. TypeOK /\ InOrder /\ IntactWhenFingerprinted
        => (h2fp = "complete" => HyperReadsWhatWasSent)
  <2> SUFFICES ASSUME TypeOK, InOrder, lost = {}
               PROVE  HyperReadsWhatWasSent
    BY DEF IntactWhenFingerprinted
  <2>1. Len(captured) \in Nat /\ Len(delivered) \in Nat /\ Missing \in Nat
    BY StreamNumbers DEF TypeOK, InOrder
  <2>2. Missing = 0
    <3>1. Len(captured) + 1 \notin Len(captured) + 1 .. Len(captured) + Missing
      BY DEF InOrder
    <3>2. QED
      BY <2>1, <3>1
  <2>3. \A i \in 1 .. Len(delivered) : delivered[i] = i
    BY <2>1, <2>2 DEF InOrder
  <2>4. QED
    BY <2>3 DEF HyperReadsWhatWasSent, Torn
<1>3. QED
  BY <1>1, <1>2, InitType, InitInOrder, FingerprintedIsIntact, PTL DEF Spec

----------------------------------------------------------------------------
(* What the site is told and what the feed shows *)

\* No request exists before the report, and what the connection's requests are
\* given is what its report was.
Annotated ==
  /\ phase \in {"handshake", "capture", "report"} =>
       /\ published = 0
       /\ \A r \in Requests : req[r] = "waiting" /\ reply[r] = "none"
  /\ phase = "serving" =>
       \/ fp = "fingerprint" /\ published = 1
       \/ fp = "unparsed" /\ published = 0

LEMMA RequestKeepsAnnotation ==
  ASSUME TypeOK, ForwardedIsReported, Annotated, NEW r \in Requests,
         HyperDecodes(r) \/ RequestRuns(r) \/ RequestDropped(r) \/ UpstreamMoves(r)
  PROVE  ForwardedIsReported' /\ Annotated'
<1>1. ForwardTypeOK /\ UNCHANGED <<published, phase, fp>>
  BY DEF TypeOK, HyperDecodes, RequestRuns, RequestDropped, UpstreamMoves, handleVars
<1>2. ASSUME \A q \in Requests : WentUpstream(q)' => WentUpstream(q) /\ sentFp'[q] = sentFp[q]
      PROVE  ForwardedIsReported'
  BY <1>1, <1>2 DEF ForwardedIsReported
<1>3. ASSUME phase \in {"serving", "closed"} PROVE Annotated'
  BY <1>1, <1>3 DEF Annotated
<1>4. ASSUME phase = "serving", Connected(r, fp) PROVE ForwardedIsReported'
  <2>1. ASSUME NEW q \in Requests, WentUpstream(q)'
        PROVE  \/ sentFp'[q] = "fingerprint" /\ published = 1
               \/ sentFp'[q] = "unparsed" /\ published = 0
    <3>1. CASE q = r
      <4>1. sentFp'[q] = fp
        BY <1>1, <1>4, <3>1 DEF Connected, ForwardTypeOK
      <4>2. QED
        BY <1>4, <4>1 DEF Annotated
    <3>2. CASE q # r
      <4>1. WentUpstream(q) /\ sentFp'[q] = sentFp[q]
        BY <1>1, <1>4, <2>1, <3>2 DEF Connected, Steps, ForwardTypeOK, WentUpstream
      <4>2. QED
        BY <4>1 DEF ForwardedIsReported
    <3>3. QED
      BY <3>1, <3>2
  <2>2. QED
    BY <1>1, <2>1 DEF ForwardedIsReported
<1>5. ASSUME Begin(r) \/ CollectBody(r) \/ DropRequest(r) \/ UpstreamFails(r)
               \/ UpstreamTimesOut(r) \/ ResponseHead(r) \/ RelayWhole(r) \/ RelayCut(r)
      PROVE  ForwardedIsReported'
  <2>1. ASSUME NEW q \in Requests, WentUpstream(q)'
        PROVE  WentUpstream(q) /\ sentFp'[q] = sentFp[q]
    <3>1. CASE Begin(r) \/ CollectBody(r) \/ DropRequest(r)
      BY <1>1, <2>1, <3>1, ZenonT(40) DEF Begin, CollectBody, DropRequest, Steps, ForwardTypeOK,
         WentUpstream
    <3>2. CASE UpstreamFails(r) \/ UpstreamTimesOut(r)
      BY <1>1, <2>1, <3>2, ZenonT(40) DEF UpstreamFails, UpstreamTimesOut, Answer, Steps, ForwardTypeOK,
         WentUpstream
    <3>3. CASE ResponseHead(r)
      BY <1>1, <2>1, <3>3 DEF ResponseHead, Steps, ForwardTypeOK, WentUpstream
    <3>4. CASE RelayWhole(r) \/ RelayCut(r)
      BY <1>1, <2>1, <3>4, ZenonT(40) DEF RelayWhole, RelayCut, Answer, Steps, ForwardTypeOK,
         WentUpstream
    <3>5. QED
      BY <1>5, <3>1, <3>2, <3>3, <3>4
  <2>2. QED
    BY <1>2, <2>1
<1>6. CASE HyperDecodes(r)
  BY <1>3, <1>5, <1>6 DEF HyperDecodes
<1>7. CASE RequestRuns(r)
  BY <1>3, <1>4, <1>5, <1>7 DEF RequestRuns, ForwardStep
<1>8. CASE RequestDropped(r)
  BY <1>3, <1>5, <1>8 DEF RequestDropped
<1>9. CASE UpstreamMoves(r)
  <2>1. UNCHANGED <<req, sentFp, reply>>
    BY <1>9 DEF UpstreamMoves, UpstreamStep
  <2>2. Annotated'
    BY <1>1, <2>1 DEF Annotated
  <2>3. ForwardedIsReported'
    BY <1>1, <2>1 DEF ForwardedIsReported, WentUpstream
  <2>4. QED
    BY <2>2, <2>3
<1>10. QED
  BY <1>6, <1>7, <1>8, <1>9

LEMMA StepAnnotated ==
  ASSUME TypeOK, ForwardedIsReported, Annotated, [Next]_vars
  PROVE  ForwardedIsReported' /\ Annotated'
<1>1. ASSUME UNCHANGED <<req, sentFp, reply, published, fp>>,
             \/ phase' = phase \/ phase' = "closed"
             \/ phase \in {"handshake", "capture"} /\ phase' \in {"capture", "report"}
      PROVE  ForwardedIsReported' /\ Annotated'
  BY <1>1 DEF ForwardedIsReported, WentUpstream, Annotated
<1>2. CASE Report
  <2>1. /\ UNCHANGED <<req, sentFp, reply>> /\ phase' = "serving" /\ published = 0
        /\ \A r \in Requests : req[r] = "waiting" /\ reply[r] = "none"
    BY <1>2 DEF Report, forwardVars, Annotated
  <2>2. ForwardedIsReported'
    BY <2>1 DEF ForwardedIsReported, WentUpstream
  <2>3. \/ fp' = "fingerprint" /\ published' = 1
        \/ fp' = "unparsed" /\ published' = 0
    BY <1>2, <2>1 DEF Report
  <2>4. QED
    BY <2>1, <2>2, <2>3 DEF Annotated
<1>3. CASE HandshakeDone \/ HandshakeEnds
  BY <1>1, <1>3 DEF HandshakeDone, HandshakeEnds, EndHandshake, forwardVars
<1>4. CASE CaptureReads
  BY <1>1, <1>4 DEF CaptureReads, forwardVars, handleVars
<1>5. CASE CaptureKeeps
  BY <1>1, <1>5 DEF CaptureKeeps, forwardVars
<1>6. CASE CaptureTimesOut \/ CaptureMeetsEnd
  BY <1>1, <1>6 DEF CaptureTimesOut, CaptureMeetsEnd, AbandonCapture, forwardVars
<1>7. CASE ClientSends \/ ClientLeaves \/ HyperReadsBytes
  BY <1>1, <1>7 DEF ClientSends, ClientLeaves, HyperReadsBytes, forwardVars, handleVars
<1>8. CASE ConnectionEnds
  BY <1>1, <1>8 DEF ConnectionEnds, forwardVars
<1>9. CASE UNCHANGED vars
  BY <1>1, <1>9 DEF vars, forwardVars, handleVars
<1>10. QED
  BY <1>2, <1>3, <1>4, <1>5, <1>6, <1>7, <1>8, <1>9, RequestKeepsAnnotation
  DEF Next, HandleStep

\* What a request is annotated with when it goes upstream is what the feed has
\* of its connection, for any number of requests.
THEOREM AnnotationIsReported == Spec => []ForwardedIsReported
<1>1. Init => ForwardedIsReported /\ Annotated
  BY DEF Init, ForwardInit, ForwardedIsReported, WentUpstream, Annotated
<1>2. TypeOK /\ ForwardedIsReported /\ Annotated /\ [Next]_vars
        => (ForwardedIsReported /\ Annotated)'
  BY StepAnnotated
<1>3. QED
  BY <1>1, <1>2, TypeCorrect, PTL DEF Spec

============================================================================
