--------------------------- MODULE TlsFingerprint ----------------------------
(* What a ClientHello is reduced to: JA3, which keeps the order on the wire, *)
(* JA4, which sorts it, the lists both come from, and where in the recorded  *)
(* bytes each of them lies.  A hash stands for what is hashed.               *)
EXTENDS ClientHello

CONSTANTS MaxRecorded,  \* 64 KB: what the tee keeps of a connection
          MaxRetained   \* 8 KB: what a report keeps of that

ASSUME CapsAssumption == MaxRecorded \in Nat /\ MaxRetained \in Nat

AtMost(n, bytes) == SubSeq(bytes, 1, IF Len(bytes) < n THEN Len(bytes) ELSE n)
Recorded(stream) == AtMost(MaxRecorded, stream)
Retain(raw) == AtMost(MaxRetained, raw)

Ja3(hello) ==
    LET exts == hello.extensions
    IN  << hello.version, Strip(hello.ciphers), Strip(Ids(exts)),
           Strip(GroupsOf(exts)), PointFormatsOf(exts) >>

-----------------------------------------------------------------------------
(* JA4 *)

Named == { 772, 771, 770, 769, 768, 2, 65279, 65277, 65276 }
VersionLabel(v) == IF v \in Named THEN v ELSE 0

Count2(n) == IF n > 99 THEN 99 ELSE n

IsAlnum(b) == b \in 48 .. 57 \cup 65 .. 90 \cup 97 .. 122
HexDigit(d) == IF d < 10 THEN 48 + d ELSE 87 + d

(* First and last character of the protocol, or a hex digit of each. *)
AlpnChars(alpn) ==
    IF alpn \subseteq {<<>>} THEN <<48, 48>>
    ELSE LET p == The(alpn)
         IN  IF IsAlnum(Head(p)) /\ IsAlnum(Last(p)) THEN <<Head(p), Last(p)>>
             ELSE <<HexDigit(Head(p) \div 16), HexDigit(Last(p) % 16)>>

(* Mutant: the order on the wire stays. *)
SortedAsSent(values) == values

(* In the n-th place the n-th smallest. *)
Sorted(values) ==
    LET upTo == [v \in ToSet(values) |-> Cardinality({n \in DOMAIN values : values[n] <= v})]
    IN  [n \in DOMAIN values |-> Min({v \in ToSet(values) : upTo[v] >= n})]

Ja4A(hello) ==
    [version |-> VersionLabel(NegotiatedVersion(hello)),
     sni |-> HasExtension(hello.extensions, SNI),
     ciphers |-> Count2(Len(Strip(hello.ciphers))),
     extensions |-> Count2(Len(Strip(Ids(hello.extensions)))),
     alpn |-> AlpnChars(FirstAlpn(hello.extensions))]

Ja4B(ciphers) == Sorted(Strip(ciphers))

(* Segment (a) already counts SNI and ALPN. *)
Ja4C(exts) ==
    << Sorted(Keep(Strip(Ids(exts)), LAMBDA id : id \notin {SNI, ALPN})),
       SigAlgsOf(exts) >>

Ja4(hello) == << Ja4A(hello), Ja4B(hello.ciphers), Ja4C(hello.extensions) >>

-----------------------------------------------------------------------------
(* The fingerprint of the recorded bytes; the spans lie beside the lists.   *)

Provenance(hello) ==
    [ciphers |-> hello.cipherSpan,
     extensions |-> hello.extensionsSpan,
     perExtension |-> [n \in DOMAIN hello.extensions |->
                         [id |-> hello.extensions[n].id,
                          span |-> hello.extensions[n].span]]]

TlsOf(hello) ==
    [ja3 |-> Ja3(hello), ja4 |-> Ja4(hello),
     ciphers |-> hello.ciphers,
     extensions |-> Ids(hello.extensions),
     greaseCiphers |-> GreasePositions(hello.ciphers),
     greaseExts |-> GreasePositions(Ids(hello.extensions)),
     alpn |-> FirstAlpn(hello.extensions),
     hasSni |-> HasExtension(hello.extensions, SNI),
     provenance |-> Provenance(hello)]

FingerprintTls(raw) == {TlsOf(hello) : hello \in ParseHello(raw)}

=============================================================================
