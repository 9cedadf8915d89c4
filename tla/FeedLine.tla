------------------------------- MODULE FeedLine ------------------------------
(* What leaves `serve` about a connection: the headers its requests carry    *)
(* upstream, and the record that the log keeps, the feed writes as a line    *)
(* and an attached view makes a row of; and the row that a listening view    *)
(* makes of the report itself.                                               *)
EXTENDS Profiles

(* The verdict as everything downstream shows it. *)
Unknown == "unknown"
VerdictOf(id) == IF id.best = None THEN Unknown ELSE The(id.best).label
ScoreOf(id) == IF id.best = None THEN <<0, 1>> ELSE The(id.best).score
AkamaiOf(report) == {h.akamai : h \in report.h2}

-----------------------------------------------------------------------------
(* The headers attached.  A header is tagged with who it comes from.        *)

FpName(what) == Append(FpPrefix, what)
Ja4Header == FpName(1)
Ja3Header == FpName(2)
H2Header == FpName(3)
HttpHeader == FpName(4)
VerdictHeader == FpName(5)
ConfidenceHeader == FpName(6)
MismatchHeader == FpName(7)
ClaimedHeader == FpName(8)

Ours(name, value) == [name |-> name, from |-> "fpd", value |-> value]

FpHeaders(report, id) ==
    << Ours(Ja4Header, report.tls.ja4), Ours(Ja3Header, report.tls.ja3),
       Ours(H2Header, AkamaiOf(report)),
       Ours(HttpHeader, {Comparable(h.http.names) : h \in report.h2}),
       Ours(VerdictHeader, VerdictOf(id)), Ours(ConfidenceHeader, ScoreOf(id)),
       Ours(MismatchHeader, id.mismatch # None) >>
    \o [n \in 1 .. Cardinality(id.mismatch) |->
          Ours(ClaimedHeader, The(id.mismatch).claimed)]

(* A hello that does not parse still gets a verdict, and nothing else.      *)
UnparsedHeaders ==
    << Ours(VerdictHeader, "unparsed"), Ours(ConfidenceHeader, <<0, 1>>),
       Ours(MismatchHeader, FALSE) >>

(* Mutant: only the names fpd is about to attach are removed. *)
StripAttachedOnly(headers) ==
    Keep(headers, LAMBDA h : h.name \notin {Ja4Header, VerdictHeader, MismatchHeader})

StripInbound(headers) == Keep(headers, LAMBDA h : ~IsOurs(h.name))

(* A client's value is read as text.  Every header parses again and goes    *)
(* upstream: what hyper lets in holds no control character, and no more     *)
(* does what fpd says of it, as long as no label of a profile does.         *)
AsText(h) == [h EXCEPT !.value = Lossy(@)]
UpstreamHeaders(request, ours) ==
    LET names == [n \in DOMAIN request |-> AsText(request[n])]
    IN  StripInbound(names) \o ours

-----------------------------------------------------------------------------
(* The record, and the line of JSON. *)

RecordOf(report, id) ==
    [ja4 |-> report.tls.ja4, akamai |-> AkamaiOf(report), verdict |-> VerdictOf(id),
     score |-> ScoreOf(id), mismatch |-> id.mismatch # None, alpn |-> report.alpn,
     raw |-> report.raw, provenance |-> report.tls.provenance]

(* Three bytes become four digits below 64; what a short group lacks at the *)
(* end is padding.                                                          *)
Pad == 64
ByteOr0(bytes, n) == IF n <= Len(bytes) THEN bytes[n] ELSE 0

Base64(bytes) ==
    LET group(k) == 65536 * ByteOr0(bytes, 3 * k + 1) + 256 * ByteOr0(bytes, 3 * k + 2)
                      + ByteOr0(bytes, 3 * k + 3)
        given(k) == Len(bytes) - 3 * k
        digit(k, d) == IF given(k) < d THEN Pad ELSE (group(k) \div 64^(3 - d)) % 64
    IN  [n \in 1 .. 4 * ((Len(bytes) + 2) \div 3) |-> digit((n - 1) \div 4, (n - 1) % 4)]

(* Padding is skipped, and six bits at a time make up bytes again.          *)
DecodeBase64(text) ==
    LET digits == Keep(text, LAMBDA d : d # Pad)
        digit(n) == IF n <= Len(digits) THEN digits[n] ELSE 0
        low(n) == (8 * (n - 1)) \div 6 + 1
        shift(n) == 4 - ((8 * (n - 1)) % 6)
    IN  [n \in 1 .. (6 * Len(digits)) \div 8 |->
           ((64 * digit(low(n)) + digit(low(n) + 1)) \div 2^shift(n)) % 256]

Line(record) == [record EXCEPT !.raw = Base64(@)]

-----------------------------------------------------------------------------
(* Rows *)

GreaseSpans(perExtension) ==
    LET grease == Keep(perExtension, LAMBDA e : IsGrease(e.id))
    IN  [n \in DOMAIN grease |-> grease[n].span]

(* The count of ciphers does not travel. *)
ParseFrame(line) ==
    [ja4 |-> line.ja4, akamai |-> line.akamai, verdict |-> line.verdict, score |-> line.score,
     mismatch |-> line.mismatch, alpn |-> line.alpn, raw |-> DecodeBase64(line.raw),
     ciphers |-> line.provenance.ciphers, extensions |-> line.provenance.extensions,
     cipherCount |-> 0, extCount |-> Len(line.provenance.perExtension),
     grease |-> GreaseSpans(line.provenance.perExtension)]

FromReport(report, id) ==
    LET p == report.tls.provenance
    IN  [ja4 |-> report.tls.ja4, akamai |-> AkamaiOf(report), verdict |-> VerdictOf(id),
         score |-> ScoreOf(id), mismatch |-> id.mismatch # None, alpn |-> report.alpn,
         raw |-> report.raw, ciphers |-> p.ciphers, extensions |-> p.extensions,
         cipherCount |-> Len(report.tls.ciphers), extCount |-> Len(report.tls.extensions),
         grease |-> GreaseSpans(p.perExtension)]

CiphersLen(row) == IF row.cipherCount > 0 THEN row.cipherCount ELSE row.ciphers.len \div 2

=============================================================================
