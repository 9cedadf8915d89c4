---------------------------- MODULE H2Fingerprint ----------------------------
(* What the HTTP/2 preamble of a connection is reduced to: the frames up to  *)
(* the first HEADERS, the settings, windows and priorities among them, and   *)
(* of the request its pseudo-header order and the names of its headers.      *)
EXTENDS Octets

Preface == << 80, 82, 73, 32, 42, 32, 72, 84, 84, 80, 47, 50, 46, 48, 13, 10,
              13, 10, 83, 77, 13, 10, 13, 10 >>

HEADERS == 1
PRIORITY == 2
SETTINGS == 4
WINDOWUPDATE == 8

FrameHeader == 9
FrameAt(raw, at) ==
    [kind |-> U8(raw, at + 3), flags |-> U8(raw, at + 4), stream |-> U31(raw, at + 5),
     payload |-> Take(raw, at + FrameHeader, U24(raw, at))]

(* The frames of the preamble.  Bytes that begin a header are ignored, a    *)
(* header without its payload spoils the rest.                              *)
ParsePreamble(raw) ==
    LET from[at \in 0 .. Len(raw)] ==
          IF ~Fits(raw, at, FrameHeader) THEN Some(<<>>)
          ELSE IF ~Fits(raw, at + FrameHeader, U24(raw, at)) THEN None
          ELSE IF FrameAt(raw, at).kind = HEADERS THEN Some(<<FrameAt(raw, at)>>)
          ELSE {<<FrameAt(raw, at)>> \o rest :
                  rest \in from[at + FrameHeader + U24(raw, at)]}
    IN  IF IsPrefix(Preface, raw) THEN from[Len(Preface)] ELSE None

OfKind(frames, kind) == Keep(frames, LAMBDA f : f.kind = kind)

-----------------------------------------------------------------------------
(* Payloads *)

(* In the order on the wire.  A payload that is not made of sixes counts    *)
(* for nothing.                                                             *)
PairsOf(payload) ==
    IF Len(payload) % 6 # 0 THEN <<>>
    ELSE [n \in 1 .. Len(payload) \div 6 |->
            << U16(payload, 6 * (n - 1)),
               16777216 * U8(payload, 6 * n - 4) + U24(payload, 6 * n - 3) >>]
SettingsPairs(frames) ==
    LET settings == OfKind(frames, SETTINGS)
    IN  FlattenSeq([n \in DOMAIN settings |-> PairsOf(settings[n].payload)])

(* Of the first one only, and only when it is long enough. *)
WindowUpdate(frames) ==
    LET updates == OfKind(frames, WINDOWUPDATE)
    IN  IF updates = <<>> \/ ~Fits(Head(updates).payload, 0, 4) THEN None
        ELSE Some(U31(Head(updates).payload, 0))

Priority(f) == [stream |-> f.stream, exclusive |-> U8(f.payload, 0) >= 128,
                dependsOn |-> U31(f.payload, 0), weight |-> U8(f.payload, 4) + 1]
Priorities(frames) ==
    LET whole == Keep(OfKind(frames, PRIORITY), LAMBDA f : Fits(f.payload, 0, 5))
    IN  [n \in DOMAIN whole |-> Priority(whole[n])]

Flag(f, bit) == (f.flags \div bit) % 2 = 1
EndHeaders == 4
Padded == 8
HasPriority == 32

(* The fragment lies behind the pad length and the priority, if these are   *)
(* there, and before the padding.                                           *)
HeaderBlockFragment(f) ==
    LET from == (IF Flag(f, Padded) THEN 1 ELSE 0) + (IF Flag(f, HasPriority) THEN 5 ELSE 0)
        pad == IF Flag(f, Padded) THEN U8(f.payload, 0) ELSE 0
    IN  IF ~Fits(f.payload, 0, 1) \/ ~Fits(f.payload, from, pad) THEN <<>>
        ELSE Take(f.payload, from, Len(f.payload) - from - pad)

(* What there is to decode.  Half a block is not decoded at all. *)
BlockOf(frames) ==
    LET requests == Keep(OfKind(frames, HEADERS), LAMBDA f : Flag(f, EndHeaders))
    IN  FlattenSeq([n \in DOMAIN requests |-> HeaderBlockFragment(requests[n])])

-----------------------------------------------------------------------------
(* The request.  Names are lower case on the wire and stand for the names   *)
(* in the comments.                                                         *)

Colon == 58
Method == <<Colon, 109>>     \* :method
Authority == <<Colon, 97>>   \* :authority
Scheme == <<Colon, 115>>     \* :scheme
Path == <<Colon, 112>>       \* :path
FpPrefix == <<120>>          \* x-fp-
Cookie == <<99>>             \* cookie
Referer == <<114>>           \* referer
Language == <<108>>          \* accept-language
UserAgent == <<117>>         \* user-agent

IsPseudo(name) == IsPrefix(<<Colon>>, name)
IsOurs(name) == IsPrefix(FpPrefix, name)

NamesOf(headers) == [n \in DOMAIN headers |-> headers[n].name]

(* The letters of the four known ones. *)
Pseudo == {Method, Authority, Scheme, Path}
PseudoOrder(headers) ==
    Keep(NamesOf(headers), LAMBDA n : n \in Pseudo)

(* The client's own regular headers. *)
RegularNames(headers) ==
    Keep(NamesOf(headers), LAMBDA n : ~IsPseudo(n) /\ ~IsOurs(n))
IsComparable(name) == name \notin {Cookie, Referer}
Comparable(names) == Keep(names, IsComparable)

HttpProfile(headers) ==
    LET names == RegularNames(headers)
        methods == Keep(headers, LAMBDA h : h.name = Method)
    IN  [names |-> names,
         count |-> Len(Comparable(names)),
         language |-> Language \in ToSet(names),
         method |-> IF methods = <<>> THEN None ELSE Some(Last(methods).value),
         cookies |-> Len(Keep(names, LAMBDA n : n = Cookie)),
         referer |-> Referer \in ToSet(names)]

(* Nothing announced is written as an update by nothing. *)
Akamai(frames, headers) ==
    << SettingsPairs(frames),
       IF WindowUpdate(frames) = None THEN 0 ELSE The(WindowUpdate(frames)),
       Priorities(frames), PseudoOrder(headers) >>

H2Of(frames, headers) ==
    [settings |-> SettingsPairs(frames), window |-> WindowUpdate(frames),
     priorities |-> Priorities(frames), pseudo |-> PseudoOrder(headers),
     headers |-> headers, akamai |-> Akamai(frames, headers),
     http |-> HttpProfile(headers)]

=============================================================================
