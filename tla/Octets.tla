------------------------------- MODULE Octets --------------------------------
(* Reading a sequence of bytes: fingerprint-core's Reader.  A buffer is a    *)
(* sequence of numbers below 256 and offsets count from 0.  What a read      *)
(* finds is a set: empty when the bytes run out or make no sense, which is   *)
(* the one thing every caller asks of an error, and a singleton otherwise.   *)
EXTENDS Naturals, Sequences, SequencesExt, FiniteSetsExt, Selection

Octet == 0 .. 255

None == {}
Some(x) == {x}
The(found) == CHOOSE x \in found : TRUE
OrEmpty(found) == IF found = None THEN <<>> ELSE The(found)

Fits(buf, at, n) == at + n <= Len(buf)
Take(buf, at, n) == SubSeq(buf, at + 1, at + n)
U8(buf, at) == buf[at + 1]
U16(buf, at) == 256 * buf[at + 1] + buf[at + 2]
U24(buf, at) == 65536 * buf[at + 1] + U16(buf, at + 1)

(* Four bytes whose reserved top bit is masked off. *)
U31(buf, at) == 16777216 * (buf[at + 1] % 128) + U24(buf, at + 1)

(* The sixteen-bit numbers of a list; an odd byte at its end is left out. *)
U16s(bytes) == [n \in 1 .. Len(bytes) \div 2 |-> U16(bytes, 2 * (n - 1))]

(* The same on the writing side, where a number that is too large loses its *)
(* highest bits.                                                            *)
Octets16(v) == <<(v \div 256) % 256, v % 256>>
Octets24(v) == <<(v \div 65536) % 256>> \o Octets16(v)
Octets32(v) == <<(v \div 16777216) % 256>> \o Octets24(v)

-----------------------------------------------------------------------------
(* Text is UTF-8: a first byte says how long its character is, and what may *)
(* come second; no other byte begins one.                                   *)
CharLen(first) ==
    CASE first < 128          -> 1
      [] first \in 194 .. 223 -> 2
      [] first \in 224 .. 239 -> 3
      [] first \in 240 .. 244 -> 4
      [] OTHER                -> 0
Second(first) ==
    CASE first = 224 -> 160 .. 191
      [] first = 237 -> 128 .. 159
      [] first = 240 -> 144 .. 191
      [] first = 244 -> 128 .. 143
      [] OTHER       -> 128 .. 191

(* The n-th byte begins a character and k bytes of that are there.          *)
Begins(bytes, n, k) ==
    /\ k \in 1 .. CharLen(bytes[n])
    /\ n + k <= Len(bytes) + 1
    /\ \A i \in 1 .. k - 1 :
         bytes[n + i] \in (IF i = 1 THEN Second(bytes[n]) ELSE 128 .. 191)
IsWhole(bytes, n) == Begins(bytes, n, CharLen(bytes[n]))
IsInside(bytes, n) == \E m \in 1 .. n - 1 : Begins(bytes, m, n - m + 1)

IsText(bytes) == \A n \in DOMAIN bytes : IsInside(bytes, n) \/ IsWhole(bytes, n)

(* What is no text is made text: each beginning of a character and each     *)
(* byte that begins none becomes the replacement character.                 *)
Replacement == <<239, 191, 189>>
Lossy(bytes) ==
    IF IsText(bytes) THEN bytes
    ELSE FlattenSeq([n \in DOMAIN bytes |->
           IF IsInside(bytes, n) THEN <<>>
           ELSE IF IsWhole(bytes, n) THEN Take(bytes, n - 1, CharLen(bytes[n]))
           ELSE Replacement])

=============================================================================
