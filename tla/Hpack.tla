-------------------------------- MODULE Hpack --------------------------------
(* HPACK, the coding of header lists, as fingerprint-h2 reads and writes it: *)
(* prefix integers, strings, the Huffman code and the indexes of the two     *)
(* tables.  Names and values are sequences of bytes.                         *)
EXTENDS Octets

CONSTANTS HuffmanCode,  \* the bits of each symbol, the bytes and Eos
          StaticTable,  \* a sequence of [name, value]
          MaxString     \* 1 << 16: a longer string is refused

Eos == 256
Symbols == DOMAIN HuffmanCode

(* Every symbol has a code, and none is the beginning of another one's. *)
ASSUME HuffmanAssumption ==
    /\ Symbols = 0 .. Eos
    /\ \A s \in Symbols : HuffmanCode[s] \in Seq({0, 1})
    /\ \A s, t \in Symbols : IsPrefix(HuffmanCode[s], HuffmanCode[t]) => s = t

Field(name, value) == [name |-> name, value |-> value]
Entry == [name : Seq(Octet), value : Seq(Octet)]

ASSUME StringsAssumption == MaxString \in Nat /\ StaticTable \in Seq(Entry)

-----------------------------------------------------------------------------
(* Integers: what fits beside the prefix, or seven bits an octet after it,  *)
(* the lowest first.                                                        *)

MaxOctets == 9   \* the tenth would need a shift by 63

IntegerAt(buf, at, bits) ==
    LET mask == 2^bits - 1
        first == U8(buf, at) % 2^bits
        last == {k \in 1 .. MaxOctets : /\ Fits(buf, at, k + 1)
                                        /\ U8(buf, at + k) < 128
                                        /\ \A j \in 1 .. k - 1 : U8(buf, at + j) >= 128}
        digit(k) == U8(buf, at + k) % 128
        rest(k) == LET highest[n \in 0 .. k] ==
                         IF n = 0 THEN 0 ELSE 128 * highest[n - 1] + digit(k + 1 - n)
                   IN  highest[k]
    IN  IF ~Fits(buf, at, 1) THEN None
        ELSE IF first < mask THEN Some([value |-> first, next |-> at + 1])
        ELSE {[value |-> mask + rest(k), next |-> at + k + 1] : k \in last}

Continued(rest) ==
    LET octets[v \in 0 .. rest] ==
          IF v < 128 THEN <<v>> ELSE <<128 + (v % 128)>> \o octets[v \div 128]
    IN  octets[rest]

Integer(value, bits, pattern) ==
    LET mask == 2^bits - 1
    IN  IF value < mask THEN <<pattern + value>>
        ELSE <<pattern + mask>> \o Continued(value - mask)

-----------------------------------------------------------------------------
(* The Huffman code.  A string ends within its last octet, and what is left *)
(* of that is filled with ones, the beginning of the code of Eos.           *)

BitsOf(octets) == [n \in 1 .. 8 * Len(octets) |->
                     (octets[(n - 1) \div 8 + 1] \div 2^(7 - ((n - 1) % 8))) % 2]

(* The decode tree, each of its nodes named by the path to it, and the      *)
(* symbols at its leaves.                                                   *)
Tree == UNION {{SubSeq(HuffmanCode[s], 1, n) : n \in 0 .. Len(HuffmanCode[s])} : s \in Symbols}
SymbolAt == [path \in Tree |-> {s \in Symbols : HuffmanCode[s] = path}]

(* One bit further down. *)
Descend(walk, bit) ==
    LET path == Append(walk.path, bit)
        leaf == SymbolAt[path]
    IN  IF walk.bad \/ path \notin Tree \/ leaf = {Eos}
        THEN [walk EXCEPT !.bad = TRUE]
        ELSE IF leaf = {} THEN [walk EXCEPT !.path = path]
        ELSE [walk EXCEPT !.path = <<>>, !.out = Append(@, The(leaf))]

HuffmanDecode(octets) ==
    LET bits == BitsOf(octets)
        after[n \in 0 .. Len(bits)] ==
          IF n = 0 THEN [path |-> <<>>, out |-> <<>>, bad |-> FALSE]
          ELSE Descend(after[n - 1], bits[n])
        walk == after[Len(bits)]
    IN  IF walk.bad \/ Len(walk.path) > 7 \/ 0 \in ToSet(walk.path)
        THEN None ELSE Some(walk.out)

HuffmanEncode(bytes) ==
    LET code == FlattenSeq([n \in DOMAIN bytes |-> HuffmanCode[bytes[n]]])
        octets == (Len(code) + 7) \div 8
        bit(n) == IF n <= Len(code) THEN code[n] ELSE 1
        nibble(n) == 8 * bit(n + 1) + 4 * bit(n + 2) + 2 * bit(n + 3) + bit(n + 4)
    IN  [k \in 1 .. octets |-> 16 * nibble(8 * (k - 1)) + nibble(8 * (k - 1) + 4)]

-----------------------------------------------------------------------------
(* Strings *)

(* A string of bytes that are no text is not refused, and made text.        *)
StringAt(buf, at) ==
    LET octets(n) == Take(buf, n.next, n.value)
        plain(n) == IF U8(buf, at) >= 128 THEN HuffmanDecode(octets(n)) ELSE Some(octets(n))
    IN  UNION {{[value |-> Lossy(s), next |-> n.next + n.value] : s \in plain(n)} :
                 n \in {m \in IntegerAt(buf, at, 7) : /\ m.value <= MaxString
                                                      /\ Fits(buf, m.next, m.value)}}

(* Huffman where it is shorter. *)
String(bytes) ==
    LET huffman == HuffmanEncode(bytes)
    IN  IF Len(huffman) < Len(bytes) THEN Integer(Len(huffman), 7, 128) \o huffman
        ELSE Integer(Len(bytes), 7, 0) \o bytes

-----------------------------------------------------------------------------
(* Indexes count the static table first, then the dynamic one, newest first. *)

Lookup(index, entries) ==
    {(StaticTable \o entries)[n] : n \in {index} \cap 1 .. Len(StaticTable \o entries)}

(* An index or a name of its own, then the value. *)
LiteralAt(buf, at, bits, entries) ==
    LET named(i) == IF i.value = 0 THEN StringAt(buf, i.next)
                    ELSE {[value |-> e.name, next |-> i.next] : e \in Lookup(i.value, entries)}
        whole(n) == {[field |-> Field(n.value, v.value), next |-> v.next] :
                       v \in StringAt(buf, n.next)}
    IN  UNION {whole(n) : n \in UNION {named(i) : i \in IntegerAt(buf, at, bits)}}

(* The representation that starts at an offset: what its first bits say it  *)
(* is, where it ends and what it carries.                                   *)
RepresentationAt(buf, at, entries) ==
    LET first == U8(buf, at)
        literal(kind, bits) ==
            {[kind |-> kind, next |-> l.next, field |-> l.field] :
               l \in LiteralAt(buf, at, bits, entries)}
    IN  CASE first >= 128 ->
                UNION {{[kind |-> "indexed", next |-> i.next, field |-> e] :
                          e \in Lookup(i.value, entries)} : i \in IntegerAt(buf, at, 7)}
          [] first \in 64 .. 127 -> literal("inserted", 6)
          [] first \in 32 .. 63 ->
                {[kind |-> "resized", next |-> i.next, size |-> i.value] :
                   i \in IntegerAt(buf, at, 5)}
          [] OTHER -> literal("plain", 4)

(* What encode_headers writes: no dynamic references of its own, the static *)
(* table wherever it has the name.                                          *)
EncodeField(f) ==
    LET exact == {n \in DOMAIN StaticTable : StaticTable[n] = f}
        named == {n \in DOMAIN StaticTable : StaticTable[n].name = f.name}
    IN  IF exact # {} THEN Integer(Min(exact), 7, 128)
        ELSE IF named # {} THEN Integer(Min(named), 6, 64) \o String(f.value)
        ELSE <<64>> \o String(f.name) \o String(f.value)

EncodeHeaders(headers) == FlattenSeq([n \in DOMAIN headers |-> EncodeField(headers[n])])

=============================================================================
