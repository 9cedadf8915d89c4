---------------------------- MODULE ClientHello -----------------------------
(* The first flight of a TLS client as bytes, and the walk over it that      *)
(* fingerprint-core makes: a record, a handshake message inside it, and the  *)
(* fields inside that, each read through a reader of its own.  Every length  *)
(* is the client's word and is checked against the reader it was found in.   *)
EXTENDS Octets

CONSTANT RandomLen   \* Bound: bytes of `random`, 32 on the wire

ASSUME RandomLenAssumption == RandomLen \in Nat

Span(start, len) == [start |-> start, len |-> len]
BytesAt(raw, span) == Take(raw, span.start, span.len)

-----------------------------------------------------------------------------
(* The walk.  Each level knows its own bytes and, as a base, where they lie *)
(* in the whole.                                                            *)

RecordBase == 5
RecordFits(raw) == /\ Fits(raw, 0, RecordBase)
                   /\ U8(raw, 0) = 22
                   /\ Fits(raw, RecordBase, U16(raw, 3))
RecordBody(raw) == Take(raw, RecordBase, U16(raw, 3))

HandshakeBase == RecordBase + 4
HandshakeFits(rec) == /\ Fits(rec, 0, 4)
                      /\ U8(rec, 0) = 1
                      /\ Fits(rec, 4, U24(rec, 1))
HandshakeBody(rec) == Take(rec, 4, U24(rec, 1))

(* Offsets of the variable parts of the message. *)
CiphersAt(c) == 2 + RandomLen + 1 + U8(c, 2 + RandomLen)
CipherLen(c) == U16(c, CiphersAt(c))
CompressionAt(c) == CiphersAt(c) + 2 + CipherLen(c)
ExtensionsAt(c) == CompressionAt(c) + 1 + U8(c, CompressionAt(c))

FieldsFit(c) == /\ Fits(c, 0, 2 + RandomLen + 1)
                /\ Fits(c, CiphersAt(c), 2)
                /\ CipherLen(c) % 2 = 0
                /\ Fits(c, CiphersAt(c) + 2, CipherLen(c))
                /\ Fits(c, CompressionAt(c), 1)
                /\ Fits(c, CompressionAt(c) + 1, U8(c, CompressionAt(c)))

(* Mutant: spans count from the extensions block, not from the first byte.  *)
ExtensionFrom(e, at, base) ==
    [id |-> U16(e, at), body |-> Take(e, at + 4, U16(e, at + 2)),
     span |-> Span(at, U16(e, at + 2) + 4)]

Extension(e, at, base) ==
    [id |-> U16(e, at), body |-> Take(e, at + 4, U16(e, at + 2)),
     span |-> Span(base + at, U16(e, at + 2) + 4)]

(* The extensions from an offset on, unless one of them overruns.  Up to    *)
(* three bytes at the end are ignored.                                      *)
ExtensionsIn(e, base) ==
    LET from[at \in 0 .. Len(e)] ==
          IF ~Fits(e, at, 4) THEN Some(<<>>)
          ELSE IF ~Fits(e, at + 4, U16(e, at + 2)) THEN None
          ELSE {<<Extension(e, at, base)>> \o rest :
                    rest \in from[at + 4 + U16(e, at + 2)]}
    IN  from[0]

Hello(c, exts, extSpan) ==
    [version |-> U16(c, 0),
     ciphers |-> U16s(Take(c, CiphersAt(c) + 2, CipherLen(c))),
     cipherSpan |-> Span(HandshakeBase + CiphersAt(c) + 2, CipherLen(c)),
     extensions |-> exts,
     extensionsSpan |-> extSpan]

(* With less than two bytes left there is no extensions block at all.       *)
ParseFields(c) ==
    LET at == ExtensionsAt(c)
        base == HandshakeBase + at + 2
        block == Take(c, at + 2, U16(c, at))
    IN  IF ~FieldsFit(c) THEN None
        ELSE IF ~Fits(c, at, 2)
             THEN Some(Hello(c, <<>>, Span(HandshakeBase + at, 0)))
        ELSE IF ~Fits(c, at + 2, U16(c, at)) THEN None
        ELSE {Hello(c, exts, Span(base, U16(c, at))) : exts \in ExtensionsIn(block, base)}

ParseHello(raw) ==
    IF RecordFits(raw) /\ HandshakeFits(RecordBody(raw))
    THEN ParseFields(HandshakeBody(RecordBody(raw)))
    ELSE None

-----------------------------------------------------------------------------
(* Extension bodies.  A body that cannot be read counts as a missing one.   *)

SNI == 0
Groups == 10
PointFormats == 11
SigAlgs == 13
ALPN == 16
PreSharedKey == 41
SupportedVersions == 43

Ids(exts) == [n \in DOMAIN exts |-> exts[n].id]
HasExtension(exts, id) == id \in ToSet(Ids(exts))
BodyOf(exts, id) == Keep(exts, LAMBDA e : e.id = id)[1].body

(* A list of bytes behind a length of one or two bytes. *)
ListBehind(width, body) ==
    LET len == IF width = 1 THEN U8(body, 0) ELSE U16(body, 0)
    IN  IF Fits(body, 0, width) /\ Fits(body, width, len)
        THEN Some(Take(body, width, len)) ELSE None
ListIn(exts, id, width) ==
    IF HasExtension(exts, id) THEN ListBehind(width, BodyOf(exts, id)) ELSE None
ListOf(exts, id, width) == OrEmpty(ListIn(exts, id, width))

SigAlgsOf(exts) == U16s(ListOf(exts, SigAlgs, 2))
GroupsOf(exts) == U16s(ListOf(exts, Groups, 2))
PointFormatsOf(exts) == ListOf(exts, PointFormats, 1)

(* The first protocol only, when it is text. *)
FirstAlpn(exts) == {p \in UNION {ListBehind(1, l) : l \in ListIn(exts, ALPN, 2)} : IsText(p)}

IsGrease(v) == v \div 256 = v % 256 /\ v % 16 = 10
Strip(values) == Keep(values, LAMBDA v : ~IsGrease(v))
GreasePositions(values) == {n \in DOMAIN values : IsGrease(values[n])}

(* The highest version offered, or the one in the fixed field. *)
NegotiatedVersion(hello) ==
    LET offered == ToSet(Strip(U16s(ListOf(hello.extensions, SupportedVersions, 1))))
    IN  IF offered = {} THEN hello.version ELSE Max(offered)

=============================================================================
