---- MODULE FingerprintPipelineProofs ----
(***************************************************************************)
(* The pipeline's inductive invariant, and what follows from it: how the   *)
(* bytes of a hello lie in what is recorded and what they are read back    *)
(* as, that a feed line carries bytes unharmed, that JA4 has neither       *)
(* GREASE nor the order of the extensions in it, that the request of a     *)
(* visit is found among its frames and decoded as the client meant it, and *)
(* that a client that is known is recognised and its claims judged rightly.*)
(***************************************************************************)
EXTENDS FingerprintTypes, SequenceTheorems

-----------------------------------------------------------------------------
(* What is read of a hello lies in the bytes where its spans say *)

(* What is taken of bytes lies in them. *)
LEMMA TakeWithin ==
  ASSUME NEW s \in Seq(Octet), NEW at \in Nat, NEW n \in Nat, Fits(s, at, n)
  PROVE  Take(s, at, n) \in Seq(Octet) /\ Len(Take(s, at, n)) = n /\ Within(Take(s, at, n), s, at)
BY TakeFacts DEF Within, Fits

(* A number is read the same in what the bytes lie in. *)
LEMMA U16Within ==
  ASSUME NEW c \in Seq(Octet), NEW s \in Seq(Octet), NEW off \in Nat, NEW at \in Nat,
         Within(c, s, off), at + 2 <= Len(c)
  PROVE  U16(s, off + at) = U16(c, at)
<1>1. Len(c) \in Nat /\ \A i \in 1 .. Len(c) : c[i] = s[off + i]
  BY DEF Within
<1>2. at + 1 \in 1 .. Len(c) /\ at + 2 \in 1 .. Len(c)
  BY <1>1
<1>3. off + (at + 1) = (off + at) + 1 /\ off + (at + 2) = (off + at) + 2
  OBVIOUS
<1>4. c[at + 1] = s[(off + at) + 1] /\ c[at + 2] = s[(off + at) + 2]
  BY <1>1, <1>2, <1>3
<1> QED
  BY <1>4 DEF U16

(* What is taken of a part can be taken of the whole. *)
LEMMA TakeAgain ==
  ASSUME NEW c \in Seq(Octet), NEW s \in Seq(Octet), NEW off \in Nat, NEW at \in Nat, NEW n \in Nat,
         Within(c, s, off), Fits(c, at, n)
  PROVE  Take(s, off + at, n) = Take(c, at, n)
<1> DEFINE p == Take(s, off + at, n)
           q == Take(c, at, n)
<1>1. Len(c) \in Nat /\ Len(s) \in Nat /\ at + n <= Len(c) /\ off + Len(c) <= Len(s)
  BY DEF Within, Fits
<1>2. Fits(s, off + at, n) /\ off + at \in Nat
  <2> DEFINE lc == Len(c)
             ls == Len(s)
  <2>1. lc \in Nat /\ ls \in Nat /\ at + n <= lc /\ off + lc <= ls
    BY <1>1
  <2> HIDE DEF lc, ls
  <2>2. (off + at) + n <= ls
    BY ONLY <2>1, off \in Nat, at \in Nat, n \in Nat
  <2> QED
    BY <2>2 DEF Fits, ls
<1>3. /\ p \in Seq(Octet) /\ Len(p) = n /\ \A i \in 1 .. n : p[i] = s[(off + at) + i]
      /\ q \in Seq(Octet) /\ Len(q) = n /\ \A i \in 1 .. n : q[i] = c[at + i]
  BY <1>2, TakeFacts
<1> HIDE DEF p, q
<1>4. \A i \in 1 .. n : p[i] = q[i]
  <2> SUFFICES ASSUME NEW i \in 1 .. n PROVE p[i] = q[i]
    OBVIOUS
  <2>1. at + i \in 1 .. Len(c) /\ off + (at + i) = (off + at) + i
    BY <1>1
  <2>2. c[at + i] = s[off + (at + i)]
    BY <2>1 DEF Within
  <2> QED
    BY <1>3, <2>1, <2>2
<1>5. p = q
  BY <1>3, <1>4
<1> QED
  BY <1>5 DEF p, q

(* The message inside the record. *)
LEMMA MessageLies ==
  ASSUME NEW s \in Seq(Octet), RecordFits(s), HandshakeFits(RecordBody(s))
  PROVE  LET c == HandshakeBody(RecordBody(s))
         IN  c \in Seq(Octet) /\ Within(c, s, HandshakeBase)
<1> DEFINE rec == RecordBody(s)
           c == HandshakeBody(rec)
<1>1. Fits(s, 0, 5) /\ Fits(s, 5, U16(s, 3))
  BY DEF RecordFits, RecordBase
<1>2. Fits(s, 3, 2) /\ 3 \in Nat /\ 5 \in Nat
  BY <1>1 DEF Fits
<1>3. U16(s, 3) \in Nat
  BY <1>2, NumbersType
<1>4. rec \in Seq(Octet) /\ Within(rec, s, 5)
  BY <1>1, <1>2, <1>3, TakeWithin DEF RecordBody, RecordBase
<1> HIDE DEF rec
<1>5. Fits(rec, 0, 4) /\ Fits(rec, 4, U24(rec, 1))
  BY DEF HandshakeFits, rec
<1>6. Fits(rec, 1, 3) /\ 1 \in Nat /\ 4 \in Nat
  BY <1>5 DEF Fits
<1>7. U24(rec, 1) \in Nat
  BY <1>4, <1>6, NumbersType
<1>8. c \in Seq(Octet) /\ Within(c, rec, 4)
  BY <1>4, <1>5, <1>6, <1>7, TakeWithin DEF HandshakeBody
<1> HIDE DEF c
<1>9. Within(c, s, 5 + 4)
  BY <1>4, <1>6, <1>2, <1>8, WithinWithin
<1>10. 5 + 4 = HandshakeBase
  BY DEF HandshakeBase, RecordBase
<1> QED
  BY <1>8, <1>9, <1>10 DEF c, rec

(* The places the extensions of a block have been found at. *)
Places(p, exts, e, base) ==
  /\ p[0] = 0
  /\ \A k \in 0 .. Len(exts) : p[k] \in 0 .. Len(e)
  /\ \A k \in 1 .. Len(exts) :
       /\ p[k - 1] + 4 <= Len(e)
       /\ exts[k] = Extension(e, p[k - 1], base)
       /\ p[k] = p[k - 1] + 4 + U16(e, p[k - 1] + 2)
  /\ p[Len(exts)] + 4 > Len(e)

(* The extensions of a block were found one behind the other. *)
LEMMA ExtensionsLie ==
  ASSUME NEW e \in Seq(Octet), NEW base \in Nat, NEW exts \in ExtensionsIn(e, base)
  PROVE  exts \in Seq(ExtensionType) /\ \E p : Places(p, exts, e, base)
<1> DEFINE n == Len(e)
<1>1. PICK f : /\ ExtensionsIn(e, base) = f[0]
               /\ Walks(f, 0, Len(e), ExtStop(e), ExtEnd(e), ExtFound(e, base), ExtNext(e))
  BY ExtensionsWalk
<1>2. n \in Nat /\ 0 \in 0 .. n
  OBVIOUS
<1>3. \A at \in 0 .. n : at \in ExtStop(e) => ExtEnd(e)[at] \subseteq {<<>>}
  BY DEF ExtEnd, Some, None
<1>4. PICK p : Follows(p, exts, 0, n, ExtStop(e), ExtEnd(e), ExtFound(e, base), ExtNext(e))
  BY <1>1, <1>2, <1>3, ExtensionsAdvance, WalkFollows
<1>5. exts \in Seq(ExtensionType)
  BY ExtensionsInOne
<1>6. /\ p[0] = 0
      /\ \A k \in 0 .. Len(exts) : p[k] \in 0 .. n
      /\ \A k \in 1 .. Len(exts) :
           p[k - 1] \notin ExtStop(e) /\ exts[k] = ExtFound(e, base)[p[k - 1]] /\ p[k] = ExtNext(e)[p[k - 1]]
      /\ p[Len(exts)] \in ExtStop(e) /\ <<>> \in ExtEnd(e)[p[Len(exts)]]
  BY <1>4 DEF Follows
<1>7. \A at \in 0 .. n : at \notin ExtStop(e) => /\ at + 4 <= n
                                                 /\ ExtFound(e, base)[at] = Extension(e, at, base)
                                                 /\ ExtNext(e)[at] = at + 4 + U16(e, at + 2)
  BY DEF ExtStop, ExtFound, ExtNext, Fits
<1>8. \A at \in 0 .. n : <<>> \in ExtEnd(e)[at] => at + 4 > n
  BY DEF ExtEnd, Fits, None
<1> HIDE DEF n
<1>9. ASSUME NEW k \in 1 .. Len(exts)
      PROVE  /\ p[k - 1] + 4 <= n
             /\ exts[k] = Extension(e, p[k - 1], base)
             /\ p[k] = p[k - 1] + 4 + U16(e, p[k - 1] + 2)
  <2>1. k - 1 \in 0 .. Len(exts)
    BY <1>5
  <2>2. p[k - 1] \in 0 .. n
    BY <1>6, <2>1
  <2> QED
    BY <1>6, <1>7, <2>2
<1>10. p[Len(exts)] + 4 > n
  <2>1. Len(exts) \in 0 .. Len(exts)
    BY <1>5
  <2> QED
    BY <1>6, <1>8, <2>1
<1>11. Places(p, exts, e, base)
  BY <1>6, <1>9, <1>10 DEF Places, n
<1> QED
  BY <1>5, <1>11

(* What the spans of a hello mark in the bytes it was read from. *)
Marked(h, s) ==
  /\ h.cipherSpan.len \in Nat /\ h.cipherSpan.len % 2 = 0
  /\ Len(h.ciphers) = h.cipherSpan.len \div 2
  /\ U16s(BytesAt(s, h.cipherSpan)) = h.ciphers
  /\ h.extensions \in Seq(ExtensionType)
  /\ \A n \in DOMAIN h.extensions :
        /\ U16(s, h.extensions[n].span.start) = h.extensions[n].id
        /\ h.extensions[n].span.start =
             IF n = 1 THEN h.extensionsSpan.start
             ELSE h.extensions[n - 1].span.start + h.extensions[n - 1].span.len

(* The span of the ciphers is the span they were read from. *)
LEMMA CiphersMarked ==
  ASSUME NEW s \in Seq(Octet), NEW c \in Seq(Octet), Within(c, s, HandshakeBase), FieldsFit(c),
         NEW exts, NEW span
  PROVE  LET h == Hello(c, exts, span)
         IN  /\ h.cipherSpan.len \in Nat /\ h.cipherSpan.len % 2 = 0
             /\ Len(h.ciphers) = h.cipherSpan.len \div 2
             /\ U16s(BytesAt(s, h.cipherSpan)) = h.ciphers
<1> DEFINE h == Hello(c, exts, span)
           at == CiphersAt(c)
           len == CipherLen(c)
<1>1. /\ h.ciphers = U16s(Take(c, at + 2, len))
      /\ h.cipherSpan.start = HandshakeBase + at + 2 /\ h.cipherSpan.len = len
  BY DEF Hello, Span
<1>2. at \in Nat /\ len \in Nat
  BY RandomLenAssumption, FieldsLie
<1>3. Fits(c, at + 2, len) /\ len % 2 = 0
  BY DEF FieldsFit
<1> HIDE DEF h, at, len
<1>4. HandshakeBase \in Nat /\ at + 2 \in Nat /\ HandshakeBase + at + 2 = HandshakeBase + (at + 2)
  BY <1>2 DEF HandshakeBase, RecordBase
<1>5. Take(c, at + 2, len) \in Seq(Octet) /\ Len(Take(c, at + 2, len)) = len
  <2> DEFINE from == at + 2
  <2>1. from \in Nat /\ len \in Nat /\ Fits(c, from, len)
    BY <1>2, <1>3, <1>4
  <2> HIDE DEF from
  <2>2. Take(c, from, len) \in Seq(Octet) /\ Len(Take(c, from, len)) = len
    BY <2>1, TakeFacts
  <2> QED
    BY <2>2 DEF from
<1>6. Len(U16s(Take(c, at + 2, len))) = len \div 2
  BY <1>5, U16sType
<1>7. Take(s, HandshakeBase + (at + 2), len) = Take(c, at + 2, len)
  BY <1>2, <1>3, <1>4, TakeAgain
<1>8. BytesAt(s, h.cipherSpan) = Take(c, at + 2, len)
  BY <1>1, <1>4, <1>7 DEF BytesAt
<1> QED
  BY <1>1, <1>2, <1>3, <1>6, <1>8 DEF h

(* Each extension starts where its span does, and where the last one ends. *)
LEMMA ExtensionsMarked ==
  ASSUME NEW s \in Seq(Octet), NEW e \in Seq(Octet), NEW base \in Nat, Within(e, s, base),
         NEW exts \in ExtensionsIn(e, base)
  PROVE  /\ exts \in Seq(ExtensionType)
         /\ \A n \in DOMAIN exts :
               /\ U16(s, exts[n].span.start) = exts[n].id
               /\ exts[n].span.start =
                    IF n = 1 THEN base ELSE exts[n - 1].span.start + exts[n - 1].span.len
<1>1. exts \in Seq(ExtensionType)
  BY ExtensionsLie
<1>2. PICK p : Places(p, exts, e, base)
  BY ExtensionsLie
<1>3. /\ p[0] = 0
      /\ \A k \in 0 .. Len(exts) : p[k] \in 0 .. Len(e)
      /\ \A k \in 1 .. Len(exts) :
           /\ p[k - 1] + 4 <= Len(e)
           /\ exts[k] = Extension(e, p[k - 1], base)
           /\ p[k] = p[k - 1] + 4 + U16(e, p[k - 1] + 2)
  BY <1>2 DEF Places
<1>4. Len(exts) \in Nat /\ DOMAIN exts = 1 .. Len(exts) /\ Len(e) \in Nat
  BY <1>1
<1>5. ASSUME NEW k \in 1 .. Len(exts)
      PROVE  /\ p[k - 1] \in Nat /\ p[k] \in Nat /\ p[k - 1] + 4 <= Len(e)
             /\ exts[k].id = U16(e, p[k - 1])
             /\ exts[k].span.start = base + p[k - 1]
             /\ exts[k].span.len = p[k] - p[k - 1]
  <2>1. k - 1 \in 0 .. Len(exts) /\ k \in 0 .. Len(exts)
    BY <1>4
  <2>2. p[k - 1] \in Nat /\ p[k] \in Nat
    BY <1>3, <1>4, <2>1
  <2>3. /\ exts[k].id = U16(e, p[k - 1])
        /\ exts[k].span.start = base + p[k - 1]
        /\ exts[k].span.len = U16(e, p[k - 1] + 2) + 4
    <3> DEFINE x == Extension(e, p[k - 1], base)
    <3>1. /\ x.id = U16(e, p[k - 1])
          /\ x.span.start = base + p[k - 1]
          /\ x.span.len = U16(e, p[k - 1] + 2) + 4
      BY DEF Extension, Span
    <3>2. exts[k] = x
      BY <1>3
    <3> HIDE DEF x
    <3> QED
      BY ONLY <3>1, <3>2
  <2>4. p[k - 1] + 4 <= Len(e) /\ p[k] = p[k - 1] + 4 + U16(e, p[k - 1] + 2)
    BY <1>3
  <2> DEFINE u == U16(e, p[k - 1] + 2)
             a == p[k - 1]
             b == p[k]
  <2>5. u \in Nat
    <3>0. a \in Nat /\ a + 4 <= Len(e)
      BY <2>2, <2>4
    <3> HIDE DEF a
    <3>1. Fits(e, a + 2, 2) /\ a + 2 \in Nat
      BY <1>4, <3>0 DEF Fits
    <3>2. U16(e, a + 2) \in Nat
      BY <3>1, NumbersType
    <3> QED
      BY <3>2 DEF a
  <2>6. u + 4 = b - a
    <3>1. b = a + 4 + u /\ a \in Nat
      BY <2>2, <2>4
    <3> HIDE DEF u, a, b
    <3> QED
      BY <2>5, <3>1
  <2> QED
    BY <2>2, <2>3, <2>4, <2>6
<1>6. ASSUME NEW n \in DOMAIN exts
      PROVE  /\ U16(s, exts[n].span.start) = exts[n].id
             /\ exts[n].span.start =
                  IF n = 1 THEN base ELSE exts[n - 1].span.start + exts[n - 1].span.len
  <2>1. n \in 1 .. Len(exts)
    BY <1>4
  <2>2. U16(s, exts[n].span.start) = exts[n].id
    <3> DEFINE a == p[n - 1]
    <3>1. a \in Nat /\ a + 4 <= Len(e) /\ exts[n].id = U16(e, a) /\ exts[n].span.start = base + a
      BY <1>5, <2>1
    <3> HIDE DEF a
    <3>2. a + 2 <= Len(e)
      BY <1>4, <3>1
    <3> QED
      BY <3>1, <3>2, U16Within
  <2>3. CASE n = 1
    <3>1. exts[1].span.start = base + p[0]
      BY <1>5, <2>1, <2>3
    <3> QED
      BY <1>3, <2>2, <2>3, <3>1
  <2>4. CASE n # 1
    <3> DEFINE m == n - 1
    <3>1. m \in 1 .. Len(exts)
      BY <2>1, <2>4
    <3>2. /\ exts[m].span.start = base + p[m - 1] /\ exts[m].span.len = p[m] - p[m - 1]
          /\ p[m] \in Nat /\ p[m - 1] \in Nat
      BY <1>5, <3>1
    <3>3. exts[n].span.start = base + p[m]
      BY <1>5, <2>1
    <3> DEFINE x == p[m - 1]
               y == p[m]
    <3>4. base + y = (base + x) + (y - x)
      <4>1. x \in Nat /\ y \in Nat
        BY <3>2
      <4> HIDE DEF x, y
      <4> QED
        BY <4>1
    <3>5. exts[n].span.start = exts[m].span.start + exts[m].span.len
      BY <3>2, <3>3, <3>4
    <3> QED
      BY <2>2, <2>4, <3>5
  <2> QED
    BY <2>3, <2>4
<1> QED
  BY <1>1, <1>6

(* The block of extensions of a message. *)
Block(c) == Take(c, ExtensionsAt(c) + 2, U16(c, ExtensionsAt(c)))
BlockBase(c) == HandshakeBase + ExtensionsAt(c) + 2

(* The block of extensions lies in the whole. *)
LEMMA BlockLies ==
  ASSUME NEW s \in Seq(Octet), NEW c \in Seq(Octet), Within(c, s, HandshakeBase), FieldsFit(c),
         Fits(c, ExtensionsAt(c), 2), Fits(c, ExtensionsAt(c) + 2, U16(c, ExtensionsAt(c)))
  PROVE  /\ Block(c) \in Seq(Octet) /\ Len(Block(c)) = U16(c, ExtensionsAt(c))
         /\ BlockBase(c) \in Nat /\ Within(Block(c), s, BlockBase(c))
<1> DEFINE at == ExtensionsAt(c)
           len == U16(c, at)
           e == Take(c, at + 2, len)
<1>1. at \in Nat
  BY RandomLenAssumption, FieldsLie
<1>2. len \in Nat /\ at + 2 \in Nat
  BY <1>1, NumbersType
<1>3. Fits(c, at + 2, len)
  OBVIOUS
<1>4. Block(c) = e /\ BlockBase(c) = HandshakeBase + at + 2
  BY DEF Block, BlockBase
<1> HIDE DEF at, len
<1>5. e \in Seq(Octet) /\ Len(e) = len /\ Within(e, c, at + 2)
  BY <1>2, <1>3, TakeWithin
<1>6. HandshakeBase \in Nat /\ HandshakeBase + at + 2 = HandshakeBase + (at + 2)
      /\ HandshakeBase + at + 2 \in Nat
  BY <1>1 DEF HandshakeBase, RecordBase
<1> HIDE DEF e
<1>7. Within(e, s, HandshakeBase + (at + 2))
  BY <1>2, <1>5, <1>6, WithinWithin
<1> QED
  BY <1>4, <1>5, <1>6, <1>7 DEF len, at

(* A hello's spans mark what was read of it. *)
LEMMA HelloMarked ==
  ASSUME NEW s \in Seq(Octet), NEW h \in ParseHello(s)
  PROVE  /\ Marked(h, s)
         /\ h.extensions # <<>> =>
              LET c == HandshakeBody(RecordBody(s))
              IN  /\ RecordFits(s) /\ HandshakeFits(RecordBody(s)) /\ FieldsFit(c)
                  /\ Fits(c, ExtensionsAt(c), 2)
                  /\ Fits(c, ExtensionsAt(c) + 2, U16(c, ExtensionsAt(c)))
                  /\ h.extensionsSpan = Span(BlockBase(c), U16(c, ExtensionsAt(c)))
                  /\ h.extensions \in ExtensionsIn(Block(c), BlockBase(c))
<1> DEFINE c == HandshakeBody(RecordBody(s))
           at == ExtensionsAt(c)
<1>1. RecordFits(s) /\ HandshakeFits(RecordBody(s)) /\ h \in ParseFields(c)
  BY DEF ParseHello, None
<1>2. c \in Seq(Octet) /\ Within(c, s, HandshakeBase)
  BY <1>1, MessageLies
<1> HIDE DEF c
<1>3. FieldsFit(c)
  BY <1>1 DEF ParseFields, None
<1>4. CASE ~Fits(c, at, 2)
  <2> DEFINE span == Span(HandshakeBase + at, 0)
  <2>1. h = Hello(c, <<>>, span)
    BY <1>1, <1>3, <1>4 DEF ParseFields, Some
  <2> HIDE DEF span
  <2>2. h.extensions = <<>>
    BY <2>1 DEF Hello
  <2>3. /\ h.cipherSpan.len \in Nat /\ h.cipherSpan.len % 2 = 0
        /\ Len(h.ciphers) = h.cipherSpan.len \div 2
        /\ U16s(BytesAt(s, h.cipherSpan)) = h.ciphers
    BY <1>2, <1>3, <2>1, CiphersMarked
  <2>4. <<>> \in Seq(ExtensionType) /\ DOMAIN <<>> = {}
    OBVIOUS
  <2> QED
    BY <2>2, <2>3, <2>4 DEF Marked
<1>5. CASE Fits(c, at, 2)
  <2>1. Fits(c, at + 2, U16(c, at))
    BY <1>1, <1>3, <1>5 DEF ParseFields, None
  <2>2. PICK exts \in ExtensionsIn(Block(c), BlockBase(c)) :
          h = Hello(c, exts, Span(BlockBase(c), U16(c, at)))
    BY <1>1, <1>3, <1>5, <2>1 DEF ParseFields, Block, BlockBase
  <2> DEFINE span == Span(BlockBase(c), U16(c, at))
  <2>3. h.extensions = exts /\ h.extensionsSpan = span /\ span.start = BlockBase(c)
    BY <2>2 DEF Hello, Span
  <2>4. /\ h.cipherSpan.len \in Nat /\ h.cipherSpan.len % 2 = 0
        /\ Len(h.ciphers) = h.cipherSpan.len \div 2
        /\ U16s(BytesAt(s, h.cipherSpan)) = h.ciphers
    BY <1>2, <1>3, <2>2, CiphersMarked
  <2>5. Block(c) \in Seq(Octet) /\ BlockBase(c) \in Nat /\ Within(Block(c), s, BlockBase(c))
    BY <1>2, <1>3, <1>5, <2>1, BlockLies
  <2>6. /\ exts \in Seq(ExtensionType)
        /\ \A n \in DOMAIN exts :
              /\ U16(s, exts[n].span.start) = exts[n].id
              /\ exts[n].span.start =
                   IF n = 1 THEN BlockBase(c) ELSE exts[n - 1].span.start + exts[n - 1].span.len
    BY <2>5, ExtensionsMarked
  <2>7. Marked(h, s)
    BY <2>3, <2>4, <2>6 DEF Marked
  <2> QED
    BY <1>1, <1>3, <1>5, <2>1, <2>3, <2>7 DEF c
<1> QED
  BY <1>4, <1>5

-----------------------------------------------------------------------------
(* Bytes travel in a line of the feed and come back *)

(* The first n elements of s. *)
Copies(u, s, n) == Len(u) = n /\ \A i \in 1 .. n : u[i] = s[i]

(* Picking the first ones leaves them. *)
LEMMA FirstArePicked ==
  ASSUME NEW T, NEW s \in Seq(T), NEW at, NEW m \in 0 .. Len(s),
         \A k \in 1 .. Len(s) : k \in at <=> k <= m
  PROVE  ElementsAt(s, at) \in Seq(T) /\ Copies(ElementsAt(s, at), s, m)
<1> DEFINE N == Len(s)
           least(k) == IF k <= m THEN k ELSE m
<1>1. PICK f : Picks(f, s, at, N) /\ ElementsAt(s, at) = f[N]
  BY ElementsArePicked
<1> DEFINE G == {k \in Nat : k <= N => f[k] \in Seq(T) /\ Copies(f[k], s, least(k))}
<1>2. N \in Nat /\ m \in 0 .. N /\ \A k \in 1 .. N : s[k] \in T /\ (k \in at <=> k <= m)
  OBVIOUS
<1>3. f[0] = <<>> /\ \A k \in 1 .. N : f[k] = IF k \in at THEN Append(f[k - 1], s[k]) ELSE f[k - 1]
  BY <1>1, <1>2, PicksUnfold
<1> HIDE DEF N
<1>4. 0 \in G
  <2>1. <<>> \in Seq(T) /\ Len(<<>>) = 0 /\ least(0) = 0
    BY <1>2
  <2>2. Copies(<<>>, s, 0)
    BY DEF Copies
  <2>3. f[0] \in Seq(T) /\ Copies(f[0], s, least(0))
    BY <1>3, <2>1, <2>2
  <2> QED
    BY <2>3
<1>5. ASSUME NEW k \in Nat, k \in G PROVE k + 1 \in G
  <2> SUFFICES ASSUME k + 1 <= N PROVE f[k + 1] \in Seq(T) /\ Copies(f[k + 1], s, least(k + 1))
    OBVIOUS
  <2>1. k + 1 \in 1 .. N /\ (k + 1) - 1 = k /\ k <= N
    BY <1>2
  <2>2. f[k] \in Seq(T) /\ Copies(f[k], s, least(k))
    BY <1>5, <2>1
  <2>3. f[k + 1] = IF k + 1 \in at THEN Append(f[k], s[k + 1]) ELSE f[k]
    BY <1>3, <2>1
  <2>4. CASE k + 1 <= m
    <3> DEFINE u == f[k]
               x == s[k + 1]
    <3>1. f[k + 1] = Append(u, x) /\ least(k + 1) = k + 1 /\ least(k) = k /\ x \in T
      BY <1>2, <2>1, <2>3, <2>4
    <3>2. u \in Seq(T) /\ Len(u) = k /\ \A i \in 1 .. k : u[i] = s[i]
      BY <2>2, <3>1 DEF Copies
    <3> HIDE DEF u
    <3>3. /\ Append(u, x) \in Seq(T) /\ Len(Append(u, x)) = k + 1
          /\ \A i \in 1 .. k : Append(u, x)[i] = u[i]
          /\ Append(u, x)[k + 1] = x
      BY <3>1, <3>2, AppendFacts
    <3>4. \A i \in 1 .. k + 1 : Append(u, x)[i] = s[i]
      BY <3>2, <3>3
    <3> QED
      BY <3>1, <3>3, <3>4 DEF Copies
  <2>5. CASE ~(k + 1 <= m)
    <3>1. f[k + 1] = f[k] /\ least(k + 1) = m /\ least(k) = m
      BY <1>2, <2>1, <2>3, <2>5
    <3> QED
      BY <2>2, <3>1
  <2> QED
    BY <2>4, <2>5
<1>6. Nat \subseteq G
  <2> HIDE DEF G
  <2> QED
    BY <1>4, <1>5, SetInduction
<1>7. least(N) = m
  BY <1>2
<1> QED
  BY <1>1, <1>2, <1>6, <1>7

(* Four digits of three bytes, and three bytes of four digits. *)
Digits(d0, d1, d2, d3, a, b, c) ==
  /\ d0 = a \div 4
  /\ d1 = 16 * (a % 4) + (b \div 16)
  /\ d2 = 4 * (b % 16) + (c \div 64)
  /\ d3 = c % 64

(* A byte, cut in three ways. *)
LEMMA Halves ==
  ASSUME NEW a \in Octet
  PROVE  /\ a \div 4 \in 0 .. 63 /\ (a % 4) \in 0 .. 3 /\ a = 4 * (a \div 4) + (a % 4)
         /\ a \div 16 \in 0 .. 15 /\ (a % 16) \in 0 .. 15 /\ a = 16 * (a \div 16) + (a % 16)
         /\ a \div 64 \in 0 .. 3 /\ (a % 64) \in 0 .. 63 /\ a = 64 * (a \div 64) + (a % 64)
<1>1. a \in 0 .. 255
  BY DEF Octet
<1>2. a \div 4 \in 0 .. 63 /\ (a % 4) \in 0 .. 3 /\ a = 4 * (a \div 4) + (a % 4)
  BY ONLY <1>1, SMT
<1>3. a \div 16 \in 0 .. 15 /\ (a % 16) \in 0 .. 15 /\ a = 16 * (a \div 16) + (a % 16)
  BY ONLY <1>1, SMT
<1>4. a \div 64 \in 0 .. 3 /\ (a % 64) \in 0 .. 63 /\ a = 64 * (a \div 64) + (a % 64)
  BY ONLY <1>1, SMT
<1> QED
  BY <1>2, <1>3, <1>4

(* Three bytes as one number are four digits. *)
LEMMA DigitsOfThree ==
  ASSUME NEW a \in Octet, NEW b \in Octet, NEW c \in Octet, NEW g,
         g = 65536 * a + 256 * b + c
  PROVE  Digits((g \div 262144) % 64, (g \div 4096) % 64, (g \div 64) % 64, g % 64, a, b, c)
<1> DEFINE a1 == a \div 4
           a0 == a % 4
           b1 == b \div 16
           b0 == b % 16
           c1 == c \div 64
           c0 == c % 64
<1>1. a1 \in 0 .. 63 /\ a0 \in 0 .. 3 /\ a = 4 * a1 + a0
  BY Halves
<1>2. b1 \in 0 .. 15 /\ b0 \in 0 .. 15 /\ b = 16 * b1 + b0
  BY Halves
<1>3. c1 \in 0 .. 3 /\ c0 \in 0 .. 63 /\ c = 64 * c1 + c0
  BY Halves
<1> HIDE DEF a1, a0, b1, b0, c1, c0
<1>4. g = 262144 * a1 + 65536 * a0 + 4096 * b1 + 256 * b0 + 64 * c1 + c0
  BY ONLY <1>1, <1>2, <1>3, g = 65536 * a + 256 * b + c, SMT
<1>5. (g \div 262144) % 64 = a1
  <2>1. g \div 262144 = a1
    BY ONLY <1>1, <1>2, <1>3, <1>4, SMT
  <2> QED
    BY ONLY <1>1, <2>1, SMT
<1>6. (g \div 4096) % 64 = 16 * a0 + b1
  <2>1. g \div 4096 = 64 * a1 + (16 * a0 + b1)
    BY ONLY <1>1, <1>2, <1>3, <1>4, SMT
  <2> QED
    BY ONLY <1>1, <1>2, <2>1, SMT
<1>7. (g \div 64) % 64 = 4 * b0 + c1
  <2>1. g \div 64 = 64 * (64 * a1 + 16 * a0 + b1) + (4 * b0 + c1)
    BY ONLY <1>1, <1>2, <1>3, <1>4, SMT
  <2> QED
    BY ONLY <1>1, <1>2, <1>3, <2>1, SMT
<1>8. g % 64 = c0
  BY ONLY <1>1, <1>2, <1>3, <1>4, SMT
<1>9. Digits(a1, 16 * a0 + b1, 4 * b0 + c1, c0, a, b, c)
  BY DEF Digits, a1, a0, b1, b0, c1, c0
<1> QED
  BY ONLY <1>5, <1>6, <1>7, <1>8, <1>9

(* Four digits are three bytes. *)
LEMMA ThreeOfDigits ==
  ASSUME NEW a \in Octet, NEW b \in Octet, NEW c \in Octet,
         NEW d0, NEW d1, NEW d2, NEW d3, Digits(d0, d1, d2, d3, a, b, c)
  PROVE  /\ ((64 * d0 + d1) \div 16) % 256 = a
         /\ ((64 * d1 + d2) \div 4) % 256 = b
         /\ ((64 * d2 + d3) \div 1) % 256 = c
<1> DEFINE a1 == a \div 4
           a0 == a % 4
           b1 == b \div 16
           b0 == b % 16
           c1 == c \div 64
           c0 == c % 64
<1>1. a1 \in 0 .. 63 /\ a0 \in 0 .. 3 /\ a = 4 * a1 + a0 /\ a \in 0 .. 255
  BY Halves DEF Octet
<1>2. b1 \in 0 .. 15 /\ b0 \in 0 .. 15 /\ b = 16 * b1 + b0 /\ b \in 0 .. 255
  BY Halves DEF Octet
<1>3. c1 \in 0 .. 3 /\ c0 \in 0 .. 63 /\ c = 64 * c1 + c0 /\ c \in 0 .. 255
  BY Halves DEF Octet
<1>4. d0 = a1 /\ d1 = 16 * a0 + b1 /\ d2 = 4 * b0 + c1 /\ d3 = c0
  BY DEF Digits
<1> HIDE DEF a1, a0, b1, b0, c1, c0
<1>5. ((64 * d0 + d1) \div 16) % 256 = a
  <2>1. (64 * d0 + d1) \div 16 = a
    BY ONLY <1>1, <1>2, <1>4, SMT
  <2> QED
    BY ONLY <1>1, <2>1, SMT
<1>6. ((64 * d1 + d2) \div 4) % 256 = b
  <2>1. (64 * d1 + d2) \div 4 = 256 * a0 + b
    BY ONLY <1>1, <1>2, <1>3, <1>4, SMT
  <2> QED
    BY ONLY <1>1, <1>2, <2>1, SMT
<1>7. ((64 * d2 + d3) \div 1) % 256 = c
  <2>1. (64 * d2 + d3) \div 1 = 256 * b0 + c
    BY ONLY <1>2, <1>3, <1>4, SMT
  <2> QED
    BY ONLY <1>2, <1>3, <2>1, SMT
<1> QED
  BY <1>5, <1>6, <1>7

(* As many groups of three as are begun, and as many digits as bytes and groups. *)
Groups3(n) == (n + 2) \div 3

(* So many digits stand for so many bytes, and padding stands after them. *)
LEMMA DigitsAndPadding ==
  ASSUME NEW N \in Nat
  PROVE  /\ Groups3(N) \in Nat /\ N + Groups3(N) <= 4 * Groups3(N)
         /\ (6 * (N + Groups3(N))) \div 8 = N
         /\ \A k \in Nat, d \in 0 .. 3 :
              4 * k + d + 1 <= 4 * Groups3(N) =>
                (N - 3 * k < d <=> ~(4 * k + d + 1 <= N + Groups3(N)))
<1> DEFINE K == Groups3(N)
           e == 3 * K - N
<1>1. K \in Nat /\ e \in 0 .. 2
  BY SMT DEF Groups3
<1>2. 3 * K = N + e
  BY <1>1
<1> HIDE DEF K, e
<1>3. N + K <= 4 * K
  BY <1>1, <1>2
<1>4. (6 * (N + K)) \div 8 = N
  <2>1. 6 * (N + K) = 24 * K - 6 * e
    BY <1>1, <1>2
  <2>2. e = 0 \/ e = 1 \/ e = 2
    BY <1>1
  <2> QED
    BY ONLY <1>1, <1>2, <2>1, <2>2, N \in Nat, SMT
<1>5. ASSUME NEW k \in Nat, NEW d \in 0 .. 3, 4 * k + d + 1 <= 4 * K
      PROVE  N - 3 * k < d <=> ~(4 * k + d + 1 <= N + K)
  <2>1. k + 1 <= K
    BY <1>1, <1>5
  <2>2. CASE k + 1 = K
    BY <1>1, <1>2, <2>2
  <2>3. CASE k + 1 # K
    <3>1. k + 2 <= K
      BY <1>1, <2>1, <2>3
    <3>2. N >= 3 * k + 4
      BY <1>1, <1>2, <3>1
    <3> QED
      BY <1>1, <3>1, <3>2
  <2> QED
    BY <2>2, <2>3
<1> QED
  BY <1>1, <1>3, <1>4, <1>5 DEF K

(* The bytes of a group, and its digits. *)
GroupOf(s, k) ==
  65536 * ByteOr0(s, 3 * k + 1) + 256 * ByteOr0(s, 3 * k + 2) + ByteOr0(s, 3 * k + 3)
DigitOf(s, k, d) == (GroupOf(s, k) \div 64^(3 - d)) % 64

(* The digits of a group are of its three bytes. *)
LEMMA DigitsOfGroup ==
  ASSUME NEW s \in Seq(Octet), NEW k \in Nat
  PROVE  /\ \A i \in 1 .. 3 : ByteOr0(s, 3 * k + i) \in Octet
         /\ Digits(DigitOf(s, k, 0), DigitOf(s, k, 1), DigitOf(s, k, 2), DigitOf(s, k, 3),
                   ByteOr0(s, 3 * k + 1), ByteOr0(s, 3 * k + 2), ByteOr0(s, 3 * k + 3))
         /\ \A d \in 0 .. 3 : DigitOf(s, k, d) \in 0 .. 63
<1> DEFINE g == GroupOf(s, k)
           a == ByteOr0(s, 3 * k + 1)
           b == ByteOr0(s, 3 * k + 2)
           c == ByteOr0(s, 3 * k + 3)
<1>1. ASSUME NEW n \in Nat, n >= 1 PROVE ByteOr0(s, n) \in Octet
  <2>1. 0 \in Octet
    BY DEF Octet
  <2>2. n <= Len(s) => s[n] \in Octet
    BY <1>1
  <2> QED
    BY <2>1, <2>2 DEF ByteOr0
<1>2. a \in Octet /\ b \in Octet /\ c \in Octet
  BY <1>1
<1>3. g = 65536 * a + 256 * b + c
  BY DEF GroupOf
<1> HIDE DEF a, b, c, g
<1>4. Digits((g \div 262144) % 64, (g \div 4096) % 64, (g \div 64) % 64, g % 64, a, b, c)
  BY ONLY <1>2, <1>3, DigitsOfThree
<1>5. g \in Nat
  BY ONLY <1>2, <1>3, SMT DEF Octet
<1>6. 64^3 = 262144 /\ 64^2 = 4096 /\ 64^1 = 64 /\ 64^0 = 1
  BY SMT
<1>7. 3 - 0 = 3 /\ 3 - 1 = 2 /\ 3 - 2 = 1 /\ 3 - 3 = 0
  OBVIOUS
<1>8. g \div 1 = g
  BY ONLY <1>5, SMT
<1>9. /\ DigitOf(s, k, 0) = (g \div 262144) % 64
      /\ DigitOf(s, k, 1) = (g \div 4096) % 64
      /\ DigitOf(s, k, 2) = (g \div 64) % 64
      /\ DigitOf(s, k, 3) = g % 64
  BY ONLY <1>6, <1>7, <1>8 DEF DigitOf, g
<1>10. \A d \in 0 .. 3 : DigitOf(s, k, d) \in 0 .. 63
  <2>1. /\ (g \div 262144) % 64 \in 0 .. 63 /\ (g \div 4096) % 64 \in 0 .. 63
        /\ (g \div 64) % 64 \in 0 .. 63 /\ g % 64 \in 0 .. 63
    BY ONLY <1>5, SMT
  <2> SUFFICES ASSUME NEW d \in 0 .. 3 PROVE DigitOf(s, k, d) \in 0 .. 63
    OBVIOUS
  <2>2. d = 0 \/ d = 1 \/ d = 2 \/ d = 3
    OBVIOUS
  <2>3. CASE d = 0
    BY ONLY <1>9, <2>1, <2>3
  <2>4. CASE d = 1
    BY ONLY <1>9, <2>1, <2>4
  <2>5. CASE d = 2
    BY ONLY <1>9, <2>1, <2>5
  <2>6. CASE d = 3
    BY ONLY <1>9, <2>1, <2>6
  <2> QED
    BY ONLY <2>2, <2>3, <2>4, <2>5, <2>6
<1>11. \A i \in 1 .. 3 : ByteOr0(s, 3 * k + i) \in Octet
  BY <1>1
<1> QED
  BY <1>4, <1>9, <1>10, <1>11 DEF a, b, c

(* Text, by the digit. *)
LEMMA TextIs ==
  ASSUME NEW s
  PROVE  Base64(s) =
           [n \in 1 .. 4 * Groups3(Len(s)) |->
              IF Len(s) - 3 * ((n - 1) \div 4) < (n - 1) % 4 THEN Pad
              ELSE DigitOf(s, (n - 1) \div 4, (n - 1) % 4)]
BY DEF Base64, Groups3, DigitOf, GroupOf

(* The text of bytes, digit by digit. *)
LEMMA TextFacts ==
  ASSUME NEW s \in Seq(Octet)
  PROVE  /\ Base64(s) \in Seq(0 .. 64) /\ Len(Base64(s)) = 4 * Groups3(Len(s))
         /\ \A k \in Nat, d \in 0 .. 3 :
              4 * k + d + 1 <= 4 * Groups3(Len(s)) =>
                Base64(s)[4 * k + d + 1] = IF Len(s) - 3 * k < d THEN Pad ELSE DigitOf(s, k, d)
<1> DEFINE N == Len(s)
           L == 4 * Groups3(N)
           dig(k, d) == IF N - 3 * k < d THEN Pad ELSE DigitOf(s, k, d)
<1>1. N \in Nat /\ L \in Nat
  <2>1. N \in Nat
    OBVIOUS
  <2> HIDE DEF N
  <2>2. Groups3(N) \in Nat
    BY <2>1, DigitsAndPadding
  <2> QED
    BY <2>1, <2>2
<1>2. Base64(s) = [n \in 1 .. L |-> dig((n - 1) \div 4, (n - 1) % 4)]
  BY ONLY TextIs, Zenon DEF N, L, dig
<1> HIDE DEF N, L
<1>3. ASSUME NEW k \in Nat, NEW d \in 0 .. 3 PROVE dig(k, d) \in 0 .. 64
  <2>1. DigitOf(s, k, d) \in 0 .. 63
    BY DigitsOfGroup
  <2> QED
    BY <2>1 DEF Pad
<1> HIDE DEF dig
<1>4. ASSUME NEW n \in 1 .. L
      PROVE  (n - 1) \div 4 \in Nat /\ (n - 1) % 4 \in 0 .. 3
  BY <1>1
<1>5. Base64(s) \in Seq(0 .. 64) /\ Len(Base64(s)) = L
  <2>1. \A n \in 1 .. L : dig((n - 1) \div 4, (n - 1) % 4) \in 0 .. 64
    BY <1>3, <1>4
  <2> QED
    BY <1>1, <1>2, <2>1
<1>6. ASSUME NEW k \in Nat, NEW d \in 0 .. 3, 4 * k + d + 1 <= L
      PROVE  Base64(s)[4 * k + d + 1] = dig(k, d)
  <2> DEFINE n == 4 * k + d + 1
  <2>1. n \in 1 .. L /\ (n - 1) \div 4 = k /\ (n - 1) % 4 = d
    <3>1. n \in 1 .. L /\ n - 1 = 4 * k + d
      BY <1>1, <1>6
    <3>2. (4 * k + d) \div 4 = k /\ (4 * k + d) % 4 = d
      BY ONLY k \in Nat, d \in 0 .. 3, SMT
    <3> QED
      BY <3>1, <3>2
  <2> HIDE DEF n
  <2>2. Base64(s)[n] = dig((n - 1) \div 4, (n - 1) % 4)
    BY <1>2, <2>1
  <2> QED
    BY <2>1, <2>2 DEF n
<1> QED
  BY <1>5, <1>6 DEF N, L, dig

(* Without the padding, the digits of the bytes are left. *)
DigitsOf(digits, s) ==
  /\ Len(digits) = Len(s) + Groups3(Len(s))
  /\ \A k \in Nat, d \in 0 .. 3 :
       4 * k + d + 1 <= Len(digits) => digits[4 * k + d + 1] = DigitOf(s, k, d)

(* The digits of a text without its padding. *)
LEMMA DigitsRead ==
  ASSUME NEW s \in Seq(Octet)
  PROVE  DigitsOf(Keep(Base64(s), LAMBDA d : d # Pad), s)
<1> DEFINE t == Base64(s)
           N == Len(s)
           K == Groups3(N)
           M == N + K
           at == {n \in DOMAIN t : t[n] # Pad}
           digits == ElementsAt(t, at)
<1>1. N \in Nat
  OBVIOUS
<1> HIDE DEF N
<1>2. /\ K \in Nat /\ M <= 4 * K
      /\ \A k \in Nat, d \in 0 .. 3 :
           4 * k + d + 1 <= 4 * K => (N - 3 * k < d <=> ~(4 * k + d + 1 <= M))
  BY <1>1, DigitsAndPadding
<1>3. /\ t \in Seq(0 .. 64) /\ Len(t) = 4 * K
      /\ \A k \in Nat, d \in 0 .. 3 :
           4 * k + d + 1 <= 4 * K => t[4 * k + d + 1] = IF N - 3 * k < d THEN Pad ELSE DigitOf(s, k, d)
  BY TextFacts DEF N
<1> HIDE DEF t, K
<1>4. M \in Nat /\ M \in 0 .. Len(t)
  BY <1>1, <1>2, <1>3
<1> HIDE DEF M
<1>5. \A k \in Nat, d \in 0 .. 3 : DigitOf(s, k, d) # Pad
  <2> SUFFICES ASSUME NEW k \in Nat, NEW d \in 0 .. 3 PROVE DigitOf(s, k, d) # Pad
    OBVIOUS
  <2>1. DigitOf(s, k, d) \in 0 .. 63
    BY DigitsOfGroup
  <2>2. \A x \in 0 .. 63 : x # Pad
    BY ONLY SMT DEF Pad
  <2> QED
    BY ONLY <2>1, <2>2
<1>6. ASSUME NEW k \in Nat, NEW d \in 0 .. 3, 4 * k + d + 1 <= 4 * K
      PROVE  /\ t[4 * k + d + 1] # Pad <=> 4 * k + d + 1 <= M
             /\ 4 * k + d + 1 <= M => t[4 * k + d + 1] = DigitOf(s, k, d)
  <2> DEFINE n == 4 * k + d + 1
             low == N - 3 * k < d
  <2>1. low <=> ~(n <= M)
    BY <1>2, <1>6
  <2>2. t[n] = IF low THEN Pad ELSE DigitOf(s, k, d)
    BY <1>3, <1>6
  <2>3. DigitOf(s, k, d) # Pad
    BY <1>5
  <2> HIDE DEF n, low
  <2>4. (t[n] # Pad <=> n <= M) /\ (n <= M => t[n] = DigitOf(s, k, d))
    BY <2>1, <2>2, <2>3
  <2> QED
    BY <2>4 DEF n
<1>7. ASSUME NEW n \in 1 .. 4 * K
      PROVE  \E k \in Nat : \E d \in 0 .. 3 : n = 4 * k + d + 1
  <2> DEFINE k == (n - 1) \div 4
             d == (n - 1) % 4
  <2>1. n - 1 \in Nat
    BY <1>2
  <2>2. k \in Nat /\ d \in 0 .. 3 /\ n - 1 = 4 * k + d
    BY ONLY <2>1, SMT DEF k, d
  <2> HIDE DEF k, d
  <2>3. n = 4 * k + d + 1
    BY <1>2, <2>2
  <2> QED
    BY <2>2, <2>3
<1>8. \A n \in 1 .. Len(t) : n \in at <=> n <= M
  <2> SUFFICES ASSUME NEW n \in 1 .. 4 * K PROVE t[n] # Pad <=> n <= M
    BY <1>3
  <2>1. PICK k \in Nat : \E d \in 0 .. 3 : n = 4 * k + d + 1
    BY <1>7
  <2>2. PICK d \in 0 .. 3 : n = 4 * k + d + 1
    BY <2>1
  <2>3. 4 * k + d + 1 <= 4 * K
    BY <1>2, <2>2
  <2> QED
    BY <1>6, <2>2, <2>3
<1>9. Copies(digits, t, M)
  <2> HIDE DEF at
  <2> QED
    BY <1>3, <1>4, <1>8, FirstArePicked
<1> HIDE DEF digits
<1>10. Len(digits) = M /\ \A i \in 1 .. M : digits[i] = t[i]
  BY <1>9 DEF Copies
<1>11. ASSUME NEW k \in Nat, NEW d \in 0 .. 3, 4 * k + d + 1 <= Len(digits)
       PROVE  digits[4 * k + d + 1] = DigitOf(s, k, d)
  <2> DEFINE n == 4 * k + d + 1
  <2>1. n \in 1 .. M /\ n <= 4 * K
    <3>1. n <= M
      BY <1>10, <1>11
    <3>2. M <= 4 * K
      BY <1>2 DEF M
    <3>3. M \in Nat /\ K \in Nat
      BY <1>2, <1>4
    <3> QED
      BY ONLY <3>1, <3>2, <3>3, k \in Nat, d \in 0 .. 3, SMT DEF n
  <2>2. t[4 * k + d + 1] = DigitOf(s, k, d)
    <3>1. 4 * k + d + 1 <= 4 * K /\ 4 * k + d + 1 <= M
      BY <1>4, <2>1
    <3> QED
      BY ONLY <1>6, <3>1, k \in Nat, d \in 0 .. 3, Zenon
  <2> HIDE DEF n
  <2>3. digits[n] = DigitOf(s, k, d)
    BY <1>10, <2>1, <2>2 DEF n
  <2> QED
    BY <2>3 DEF n
<1>12. DigitsOf(digits, s)
  BY <1>10, <1>11 DEF DigitsOf, M, K, N
<1> QED
  BY <1>12 DEF digits, at, t, Keep

(* From base64 comes what went into it. *)
Sextet(digits, n) == IF n <= Len(digits) THEN digits[n] ELSE 0
Decoded(digits) ==
  [n \in 1 .. (6 * Len(digits)) \div 8 |->
     ((64 * Sextet(digits, (8 * (n - 1)) \div 6 + 1)
        + Sextet(digits, (8 * (n - 1)) \div 6 + 1 + 1)) \div 2^(4 - ((8 * (n - 1)) % 6))) % 256]
(* What a text stands for, by the digit. *)
LEMMA DecodedIs ==
  ASSUME NEW text
  PROVE  DecodeBase64(text) = Decoded(Keep(text, LAMBDA d : d # Pad))
BY DEF DecodeBase64, Decoded, Sextet

(* Which digits a byte is read from. *)
LEMMA PlaceOfByte ==
  ASSUME NEW n \in Nat, n >= 1
  PROVE  \E k \in Nat : \E j \in 0 .. 2 :
           /\ n = 3 * k + j + 1
           /\ (8 * (n - 1)) \div 6 + 1 = 4 * k + j + 1
           /\ 4 - ((8 * (n - 1)) % 6) = 4 - 2 * j
<1> DEFINE k == (n - 1) \div 3
           j == (n - 1) % 3
           m == n - 1
<1>1. m \in Nat /\ n = m + 1
  OBVIOUS
<1>2. k \in Nat /\ j \in 0 .. 2 /\ m = 3 * k + j
  <2> HIDE DEF m
  <2>1. m \div 3 \in Nat /\ (m % 3) \in 0 .. 2 /\ m = 3 * (m \div 3) + (m % 3)
    BY ONLY <1>1, SMT
  <2> QED
    BY ONLY <2>1, <1>1 DEF k, j, m
<1> HIDE DEF m, k, j
<1>3. n = 3 * k + j + 1
  BY <1>1, <1>2
<1>4. (8 * m) \div 6 = 4 * k + j /\ (8 * m) % 6 = 2 * j
  <2>1. 8 * m = 6 * (4 * k + j) + 2 * j
    BY ONLY <1>2, SMT
  <2>2. 4 * k + j \in Nat /\ 2 * j \in 0 .. 5
    BY ONLY <1>2, SMT
  <2>3. \A q \in Nat, r \in 0 .. 5 : (6 * q + r) \div 6 = q /\ (6 * q + r) % 6 = r
    BY ONLY SMT
  <2> QED
    BY ONLY <2>1, <2>2, <2>3
<1>5. /\ (8 * (n - 1)) \div 6 + 1 = 4 * k + j + 1
      /\ 4 - ((8 * (n - 1)) % 6) = 4 - 2 * j
  BY ONLY <1>4 DEF m
<1> QED
  BY <1>2, <1>3, <1>5

(* Whatever the bytes and however many, what a line of the feed carries them *)
(* as is read back as the same bytes: digits, padding and all.               *)
THEOREM RoundTrip ==
  ASSUME NEW s \in Seq(Octet)
  PROVE  DecodeBase64(Base64(s)) = s
<1> DEFINE text == Base64(s)
           digits == Keep(text, LAMBDA d : d # Pad)
           N == Len(s)
           low(n) == (8 * (n - 1)) \div 6 + 1
           shift(n) == 4 - ((8 * (n - 1)) % 6)
           byte(n) == ((64 * Sextet(digits, low(n)) + Sextet(digits, low(n) + 1)) \div 2^shift(n)) % 256
           u == DecodeBase64(text)
<1>1. DigitsOf(digits, s)
  BY DigitsRead
<1>2. N \in Nat /\ s = [n \in 1 .. N |-> s[n]] /\ \A n \in 1 .. N : s[n] \in Octet
  OBVIOUS
<1>3. u = [n \in 1 .. (6 * Len(digits)) \div 8 |-> byte(n)]
  BY ONLY DecodedIs, Zenon DEF Decoded, u, byte, low, shift, digits
<1> HIDE DEF digits, u, text
<1>4. Len(digits) = N + Groups3(N)
  BY <1>1 DEF DigitsOf
<1>5. (6 * Len(digits)) \div 8 = N /\ Groups3(N) \in Nat /\ 3 * Groups3(N) >= N
  <2>1. (6 * (N + Groups3(N))) \div 8 = N /\ Groups3(N) \in Nat /\ N + Groups3(N) <= 4 * Groups3(N)
    BY ONLY <1>2, DigitsAndPadding
  <2> HIDE DEF N
  <2> QED
    BY <1>2, <1>4, <2>1, SMTT(30)
<1>6. ASSUME NEW n \in 1 .. N PROVE byte(n) = s[n]
  <2>1. PICK k \in Nat, j \in 0 .. 2 : n = 3 * k + j + 1 /\ low(n) = 4 * k + j + 1 /\ shift(n) = 4 - 2 * j
    <3>1. n \in Nat /\ n >= 1
      BY <1>2
    <3> QED
      BY ONLY <3>1, PlaceOfByte DEF low, shift
  <2> DEFINE a == ByteOr0(s, 3 * k + 1)
             b == ByteOr0(s, 3 * k + 2)
             c == ByteOr0(s, 3 * k + 3)
             d0 == DigitOf(s, k, 0)
             d1 == DigitOf(s, k, 1)
             d2 == DigitOf(s, k, 2)
             d3 == DigitOf(s, k, 3)
  <2>2. /\ a \in Octet /\ b \in Octet /\ c \in Octet /\ Digits(d0, d1, d2, d3, a, b, c)
        /\ \A d \in 0 .. 3 : DigitOf(s, k, d) \in 0 .. 63
    <3>1. \A i \in 1 .. 3 : ByteOr0(s, 3 * k + i) \in Octet
      BY DigitsOfGroup
    <3>2. a \in Octet /\ b \in Octet /\ c \in Octet
      BY ONLY <3>1, 1 \in 1 .. 3, 2 \in 1 .. 3, 3 \in 1 .. 3 DEF a, b, c
    <3>3. Digits(d0, d1, d2, d3, a, b, c) /\ \A d \in 0 .. 3 : DigitOf(s, k, d) \in 0 .. 63
      BY ONLY s \in Seq(Octet), k \in Nat, DigitsOfGroup DEF a, b, c, d0, d1, d2, d3
    <3> QED
      BY ONLY <3>2, <3>3
  <2>3. /\ ((64 * d0 + d1) \div 16) % 256 = a
        /\ ((64 * d1 + d2) \div 4) % 256 = b
        /\ ((64 * d2 + d3) \div 1) % 256 = c
    BY ONLY <2>2, ThreeOfDigits
  <2>4. n = 3 * k + j + 1
    BY <2>1
  <2>5. s[n] = ByteOr0(s, n)
    BY <1>2 DEF ByteOr0
  <2>6. 4 * k + (j + 1) + 1 <= Len(digits) /\ 4 * k + j + 1 <= Len(digits)
    <3>1. n = 3 * k + j + 1 /\ n \in 1 .. N
      BY <2>1
    <3>2. 3 * Groups3(N) >= 3 * k + j + 1 /\ Groups3(N) \in Nat
      BY ONLY <1>2, <1>5, <3>1, k \in Nat, j \in 0 .. 2, SMT
    <3>3. Groups3(N) >= k + 1
      BY ONLY <3>2, k \in Nat, j \in 0 .. 2, SMT
    <3> QED
      <4>1. N \in Nat /\ n <= N /\ Groups3(N) \in Nat
        BY ONLY <1>2, <3>1, <3>2
      <4> QED
        BY ONLY <1>4, <3>1, <3>3, <4>1, k \in Nat, j \in 0 .. 2, SMT
  <2>7. Sextet(digits, 4 * k + j + 1) = DigitOf(s, k, j)
    <3>1. j \in 0 .. 3
      OBVIOUS
    <3> QED
      BY ONLY <1>1, <2>6, <3>1, k \in Nat DEF DigitsOf, Sextet
  <2>8. Sextet(digits, 4 * k + j + 1 + 1) = DigitOf(s, k, j + 1)
    <3>1. digits[4 * k + (j + 1) + 1] = DigitOf(s, k, j + 1)
      <4>1. j + 1 \in 0 .. 3
        OBVIOUS
      <4> QED
        BY ONLY <1>1, <2>6, <4>1, k \in Nat DEF DigitsOf
    <3>2. 4 * k + (j + 1) + 1 = 4 * k + j + 1 + 1
      OBVIOUS
    <3> QED
      BY ONLY <2>6, <3>1, <3>2 DEF Sextet
  <2>9. byte(n) = ((64 * DigitOf(s, k, j) + DigitOf(s, k, j + 1)) \div 2^(4 - 2 * j)) % 256
    BY ONLY <2>1, <2>7, <2>8, SMTT(30) DEF byte
  <2>10. 2^4 = 16 /\ 2^2 = 4 /\ 2^0 = 1 /\ 4 - 2 * 0 = 4 /\ 4 - 2 * 1 = 2 /\ 4 - 2 * 2 = 0
    BY SMT
  <2>0. 0 + 1 = 1 /\ 1 + 1 = 2 /\ 2 + 1 = 3
    BY ONLY SMT
  <2> HIDE DEF byte, low, shift
  <2>11. CASE j = 0
    <3>1. byte(n) = ((64 * d0 + d1) \div 16) % 256
      BY ONLY <2>0, <2>9, <2>10, <2>11 DEF d0, d1
    <3>2. n = 3 * k + 1
      BY ONLY <2>4, <2>11, k \in Nat
    <3> QED
      BY ONLY <2>3, <2>5, <3>1, <3>2 DEF a
  <2>12. CASE j = 1
    <3>1. byte(n) = ((64 * d1 + d2) \div 4) % 256
      BY ONLY <2>0, <2>9, <2>10, <2>12 DEF d1, d2
    <3>2. n = 3 * k + 2
      BY ONLY <2>4, <2>12, k \in Nat
    <3> QED
      BY ONLY <2>3, <2>5, <3>1, <3>2 DEF b
  <2>13. CASE j = 2
    <3>1. byte(n) = ((64 * d2 + d3) \div 1) % 256
      BY ONLY <2>0, <2>9, <2>10, <2>13 DEF d2, d3
    <3>2. n = 3 * k + 3
      BY ONLY <2>4, <2>13, k \in Nat
    <3> QED
      BY ONLY <2>3, <2>5, <3>1, <3>2 DEF c
  <2> QED
    BY <2>11, <2>12, <2>13
<1> HIDE DEF byte
<1>7. u = s
  BY <1>2, <1>3, <1>5, <1>6, Zenon
<1> QED
  BY <1>7 DEF u, text

-----------------------------------------------------------------------------
(* What a client writes is read at the same place *)

(* Parts of a whole, and numbers read through them. *)
JoinIs(p, q, r) ==
  /\ r \in Seq(Octet) /\ Len(r) = Len(p) + Len(q)
  /\ Within(p, r, 0) /\ Within(q, r, Len(p))

(* Two pieces, one behind the other. *)
LEMMA BytesJoined ==
  ASSUME NEW p \in Seq(Octet), NEW q \in Seq(Octet), NEW r, r = p \o q
  PROVE  JoinIs(p, q, r)
<1>1. /\ p \o q \in Seq(Octet) /\ Len(p \o q) = Len(p) + Len(q)
      /\ Within(p, p \o q, 0) /\ Within(q, p \o q, Len(p))
  BY PartsOfConcat
<1> QED
  BY <1>1 DEF JoinIs

(* What lies in a part lies in the whole. *)
LEMMA BytesWithin ==
  ASSUME NEW b \in Seq(Octet), NEW c \in Seq(Octet), NEW s \in Seq(Octet),
         NEW m \in Nat, NEW n \in Nat, Within(b, c, m), Within(c, s, n), NEW o, o = n + m
  PROVE  Within(b, s, o)
BY WithinWithin

(* The first number of a part, read in the whole. *)
LEMMA FirstU16 ==
  ASSUME NEW c \in Seq(Octet), NEW s \in Seq(Octet), NEW off \in Nat, Within(c, s, off),
         Len(c) >= 2
  PROVE  U16(s, off) = U16(c, 0)
<1>1. 1 \in 1 .. Len(c) /\ 2 \in 1 .. Len(c)
  OBVIOUS
<1>2. c[1] = s[off + 1] /\ c[2] = s[off + 2]
  BY <1>1 DEF Within
<1>3. 0 + 1 = 1 /\ 0 + 2 = 2
  OBVIOUS
<1> QED
  BY ONLY <1>2, <1>3 DEF U16

(* The first longer number of a part, read in the whole. *)
LEMMA FirstU24 ==
  ASSUME NEW c \in Seq(Octet), NEW s \in Seq(Octet), NEW off \in Nat, Within(c, s, off),
         Len(c) >= 3
  PROVE  U24(s, off) = U24(c, 0)
<1>1. 1 \in 1 .. Len(c) /\ 2 \in 1 .. Len(c) /\ 3 \in 1 .. Len(c)
  OBVIOUS
<1>2. c[1] = s[off + 1] /\ c[2] = s[off + 2] /\ c[3] = s[off + 3]
  BY <1>1 DEF Within
<1>3. 0 + 1 = 1 /\ 1 + 1 = 2 /\ 1 + 2 = 3 /\ (off + 1) + 1 = off + 2 /\ (off + 1) + 2 = off + 3
  OBVIOUS
<1> QED
  BY ONLY <1>2, <1>3, SMTT(30) DEF U24, U16

(* A length of two bytes, or of three, that it fits in. *)
LEMMA LengthsRead ==
  ASSUME NEW v \in Nat, v < 65536
  PROVE  U16(Octets16(v), 0) = v /\ U24(Octets24(v), 0) = v
<1> DEFINE hi == (v \div 256) % 256
           lo == v % 256
           top == (v \div 65536) % 256
           w == <<hi, lo>>
           z == <<top>> \o w
<1>1. v \div 256 \in 0 .. 255 /\ lo \in 0 .. 255 /\ v = 256 * (v \div 256) + lo /\ v \div 65536 = 0
  BY ONLY v \in Nat, v < 65536, SMT
<1>2. hi = v \div 256 /\ top = 0
  BY ONLY <1>1, SMT
<1>3. hi \in Octet /\ lo \in Octet /\ top \in Octet /\ v = 256 * hi + lo
  BY ONLY <1>1, <1>2 DEF Octet
<1>4. Octets16(v) = w /\ Octets24(v) = z
  BY DEF Octets16, Octets24
<1> HIDE DEF hi, lo, top
<1>5. Len(w) = 2 /\ w[1] = hi /\ w[2] = lo /\ w \in Seq(Octet)
  BY <1>3
<1>6. Len(<<top>>) = 1 /\ <<top>>[1] = top /\ <<top>> \in Seq(Octet)
  BY <1>3
<1>7. Within(<<top>>, z, 0) /\ Within(w, z, 1)
  <2>1. z = <<top>> \o w
    OBVIOUS
  <2> HIDE DEF w, z
  <2> DEFINE y == <<top>>
  <2> HIDE DEF y
  <2>2. y \in Seq(Octet) /\ Len(y) = 1 /\ w \in Seq(Octet) /\ z = y \o w
    BY ONLY <1>5, <1>6, <2>1 DEF y
  <2>3. JoinIs(y, w, z)
    BY ONLY <2>2, BytesJoined
  <2>4. Within(y, z, 0) /\ Within(w, z, 1)
    BY ONLY <2>2, <2>3 DEF JoinIs
  <2> QED
    BY ONLY <2>4 DEF y
<1> HIDE DEF w, z
<1>8. z[1] = top /\ z[2] = hi /\ z[3] = lo
  <2>1. \A i \in 1 .. 1 : <<top>>[i] = z[0 + i]
    BY <1>6, <1>7 DEF Within
  <2>2. \A i \in 1 .. 2 : w[i] = z[1 + i]
    BY <1>5, <1>7 DEF Within
  <2>3. z[0 + 1] = top /\ z[1 + 1] = hi /\ z[1 + 2] = lo
    <3>1. 1 \in 1 .. 1 /\ 1 \in 1 .. 2 /\ 2 \in 1 .. 2
      OBVIOUS
    <3> QED
      BY <1>5, <1>6, <2>1, <2>2, <3>1
  <2> QED
    BY <2>3
<1>9. U16(w, 0) = v
  <2>1. 0 + 1 = 1 /\ 0 + 2 = 2
    OBVIOUS
  <2> QED
    BY ONLY <1>3, <1>5, <2>1 DEF U16
<1>10. U24(z, 0) = v
  <2>1. 0 + 1 = 1 /\ 1 + 1 = 2 /\ 1 + 2 = 3
    OBVIOUS
  <2>2. U24(z, 0) = 65536 * top + (256 * hi + lo)
    BY ONLY <1>8, <2>1 DEF U24, U16
  <2>3. 65536 * 0 + (256 * hi + lo) = v
    BY ONLY <1>3, SMT DEF Octet
  <2> QED
    BY ONLY <1>2, <2>2, <2>3
<1> QED
  BY <1>4, <1>9, <1>10

(* What lies inside holds the same numbers. *)
LEMMA U8Within ==
  ASSUME NEW c \in Seq(Octet), NEW s \in Seq(Octet), NEW off \in Nat, Within(c, s, off), Len(c) >= 1
  PROVE  U8(s, off) = c[1]
<1>1. 1 \in 1 .. Len(c)
  OBVIOUS
<1>2. c[1] = s[off + 1]
  BY <1>1 DEF Within
<1> QED
  BY <1>2 DEF U8

(* A list behind its length. *)
LEMMA ListLies ==
  ASSUME NEW s \in Seq(Octet), Len(s) < 65536
  PROVE  /\ List16(s) \in Seq(Octet) /\ Len(List16(s)) = Len(s) + 2
         /\ U16(List16(s), 0) = Len(s) /\ Within(s, List16(s), 2)
<1> DEFINE a == Octets16(Len(s))
           b == List16(s)
<1>1. Len(s) \in Nat
  OBVIOUS
<1>2. a \in Seq(Octet) /\ Len(a) = 2 /\ U16(a, 0) = Len(s)
  BY <1>1, OctetsType, OctetsLength, LengthsRead
<1>3. b = a \o s
  BY DEF List16
<1> HIDE DEF a, b
<1>4. b \in Seq(Octet) /\ Len(b) = Len(s) + 2 /\ Within(a, b, 0) /\ Within(s, b, 2)
  <2>1. JoinIs(a, s, b)
    BY ONLY s \in Seq(Octet), <1>2, <1>3, BytesJoined
  <2> QED
    BY ONLY <1>1, <1>2, <2>1 DEF JoinIs
<1>5. U16(b, 0) = Len(s)
  <2>1. 0 \in Nat /\ Len(a) >= 2
    BY <1>2
  <2>2. U16(b, 0) = U16(a, 0)
    BY ONLY <1>2, <1>4, <2>1, FirstU16
  <2> QED
    BY <1>2, <2>2
<1> QED
  BY <1>4, <1>5 DEF b

(* A record holds its bytes behind their length. *)
LEMMA RecordLies ==
  ASSUME NEW s \in Seq(Octet), Len(s) < 65536
  PROVE  /\ Record(s) \in Seq(Octet) /\ Len(Record(s)) = Len(s) + 5
         /\ U16(Record(s), 3) = Len(s) /\ Within(s, Record(s), 5)
<1> DEFINE a == <<22, 3, 1>>
           b == List16(s)
           r == Record(s)
<1>1. Len(s) \in Nat
  OBVIOUS
<1>2. b \in Seq(Octet) /\ Len(b) = Len(s) + 2 /\ U16(b, 0) = Len(s) /\ Within(s, b, 2)
  BY ListLies
<1>3. 22 \in Octet /\ 3 \in Octet /\ 1 \in Octet
  BY SMT DEF Octet
<1>4. a \in Seq(Octet) /\ Len(a) = 3
  BY <1>3
<1>5. r = a \o b
  BY DEF Record
<1> HIDE DEF a, b, r
<1>6. r \in Seq(Octet) /\ Len(r) = Len(s) + 5 /\ Within(b, r, 3)
  <2>1. JoinIs(a, b, r)
    BY ONLY <1>2, <1>4, <1>5, BytesJoined
  <2> QED
    BY ONLY <1>1, <1>2, <1>4, <2>1 DEF JoinIs
<1>7. Within(s, r, 5)
  <2>1. 2 \in Nat /\ 3 \in Nat /\ 5 = 3 + 2
    OBVIOUS
  <2> QED
    BY ONLY s \in Seq(Octet), <1>2, <1>6, <2>1, BytesWithin
<1>8. U16(r, 3) = Len(s)
  <2>1. 3 \in Nat /\ Len(b) >= 2
    BY <1>1, <1>2
  <2>2. U16(r, 3) = U16(b, 0)
    BY ONLY <1>2, <1>6, <2>1, FirstU16
  <2> QED
    BY <1>2, <2>2
<1> QED
  BY <1>6, <1>7, <1>8 DEF r

(* The handshake message, with its kind and its length before it. *)
Handshake(m) == <<1>> \o Octets24(Len(m)) \o m

(* A message in a handshake is where its length says. *)
LEMMA HandshakeLies ==
  ASSUME NEW m \in Seq(Octet), Len(m) + 4 < 65536
  PROVE  /\ Handshake(m) \in Seq(Octet) /\ Len(Handshake(m)) = Len(m) + 4
         /\ U24(Handshake(m), 1) = Len(m) /\ Within(m, Handshake(m), 4)
<1> DEFINE a == <<1>>
           b == Octets24(Len(m))
           h == a \o b
           r == Handshake(m)
<1>1. Len(m) \in Nat /\ Len(m) < 65536
  OBVIOUS
<1>2. b \in Seq(Octet) /\ Len(b) = 3 /\ U24(b, 0) = Len(m)
  BY <1>1, OctetsType, OctetsLength, LengthsRead
<1>3. a \in Seq(Octet) /\ Len(a) = 1
  BY SmallOctets
<1>4. r = h \o m
  BY DEF Handshake
<1> HIDE DEF a, b, r
<1>5. h \in Seq(Octet) /\ Len(h) = 4 /\ Within(b, h, 1)
  <2>1. h = a \o b
    OBVIOUS
  <2> HIDE DEF h
  <2>2. h \in Seq(Octet) /\ Len(h) = Len(a) + Len(b) /\ Within(b, h, Len(a))
    BY ONLY <1>2, <1>3, <2>1, PartsOfConcat
  <2> QED
    BY <1>2, <1>3, <2>2
<1> HIDE DEF h
<1>6. r \in Seq(Octet) /\ Len(r) = Len(m) + 4 /\ Within(h, r, 0) /\ Within(m, r, 4)
  <2>1. JoinIs(h, m, r)
    BY ONLY m \in Seq(Octet), <1>4, <1>5, BytesJoined
  <2> QED
    BY ONLY <1>1, <1>5, <2>1 DEF JoinIs
<1>7. U24(r, 1) = Len(m)
  <2>1. 0 \in Nat /\ 1 \in Nat /\ Len(b) >= 3 /\ 1 = 0 + 1
    BY <1>2
  <2>2. Within(b, r, 1)
    BY ONLY <1>2, <1>5, <1>6, <2>1, BytesWithin
  <2>3. U24(r, 1) = U24(b, 0)
    BY ONLY <1>2, <1>6, <2>1, <2>2, FirstU24
  <2> QED
    BY <1>2, <2>3
<1> QED
  BY <1>6, <1>7 DEF r

(* A byte behind its length of one byte. *)
LEMMA ByteLies ==
  ASSUME NEW x \in Octet
  PROVE  List8(<<x>>) \in Seq(Octet) /\ Len(List8(<<x>>)) = 2 /\ List8(<<x>>)[1] = 1
<1>1. <<x>> \in Seq(Octet) /\ Len(<<x>>) = 1 /\ 1 % 256 = 1 /\ 1 \in Octet
  <2>1. 1 % 256 = 1
    BY ONLY SMT
  <2> QED
    BY <2>1, SmallOctets
<1> DEFINE a == <<1>>
           b == <<x>>
           r == List8(b)
<1>2. r = a \o b
  BY <1>1 DEF List8
<1>3. a \in Seq(Octet) /\ Len(a) = 1 /\ a[1] = 1 /\ b \in Seq(Octet) /\ Len(b) = 1
  BY <1>1
<1> HIDE DEF a, b, r
<1>4. r \in Seq(Octet) /\ Len(r) = Len(a) + Len(b) /\ Within(a, r, 0)
  BY ONLY <1>2, <1>3, PartsOfConcat
<1>5. Len(r) = 2 /\ 1 \in 1 .. Len(a)
  BY ONLY <1>3, <1>4
<1>6. r[1] = 1
  <2>1. a[1] = r[0 + 1] /\ 0 + 1 = 1
    BY ONLY <1>4, <1>5, 0 + 1 = 1 DEF Within
  <2> QED
    BY ONLY <1>3, <2>1
<1> QED
  BY <1>4, <1>5, <1>6 DEF r, b

(* A list is two bytes longer than what is in it. *)
LEMMA ListLength ==
  ASSUME NEW s \in Seq(Octet)
  PROVE  List16(s) \in Seq(Octet) /\ Len(List16(s)) = Len(s) + 2
<1> DEFINE l == Octets16(Len(s))
           b == List16(s)
<1>1. Len(s) \in Nat
  OBVIOUS
<1>2. l \in Seq(Octet) /\ Len(l) = 2
  BY <1>1, OctetsType, OctetsLength
<1>3. b = l \o s
  BY DEF List16
<1> HIDE DEF l, b
<1>4. b \in Seq(Octet) /\ Len(b) = Len(l) + Len(s)
  BY ONLY <1>2, <1>3, s \in Seq(Octet), PartsOfConcat
<1>5. Len(b) = Len(s) + 2
  BY ONLY <1>1, <1>2, <1>4
<1> QED
  BY <1>4, <1>5 DEF b

(* Where the parts of a message lie. *)
MessageParts(m, ciphers, rest) ==
  LET fixed == 2 + RandomLen
      len == Len(ciphers)
  IN  /\ Len(m) = fixed + 6 + len + Len(rest)
      /\ Within(Octets16(771), m, 0)
      /\ Within(List8(<< 8 >>), m, fixed)
      /\ Within(List16(ciphers), m, fixed + 2)
      /\ Within(List8(<< 0 >>), m, fixed + 4 + len)
      /\ Within(rest, m, fixed + 6 + len)

SixIn(a, b, c, d, e, f, m) ==
  /\ m \in Seq(Octet)
  /\ Len(m) = Len(a) + Len(b) + Len(c) + Len(d) + Len(e) + Len(f)
  /\ Within(a, m, 0)
  /\ Within(c, m, Len(a) + Len(b))
  /\ Within(d, m, Len(a) + Len(b) + Len(c))
  /\ Within(e, m, Len(a) + Len(b) + Len(c) + Len(d))
  /\ Within(f, m, Len(a) + Len(b) + Len(c) + Len(d) + Len(e))

(* Six pieces one behind the other. *)
LEMMA SixJoined ==
  ASSUME NEW a \in Seq(Octet), NEW b \in Seq(Octet), NEW c \in Seq(Octet), NEW d \in Seq(Octet),
         NEW e \in Seq(Octet), NEW f \in Seq(Octet), NEW m, m = a \o b \o c \o d \o e \o f
  PROVE  SixIn(a, b, c, d, e, f, m)
<1> DEFINE p == a \o b
           q == p \o c
           r == q \o d
           s == r \o e
<1>1. /\ Len(a) \in Nat /\ Len(b) \in Nat /\ Len(c) \in Nat /\ Len(d) \in Nat
      /\ Len(e) \in Nat /\ Len(f) \in Nat
  OBVIOUS
<1>2. p \in Seq(Octet) /\ Len(p) = Len(a) + Len(b) /\ Within(a, p, 0)
  BY PartsOfConcat
<1>3. m = s \o f
  OBVIOUS
<1> HIDE DEF p
<1>4. /\ q \in Seq(Octet) /\ Len(q) = Len(p) + Len(c) /\ Within(p, q, 0) /\ Within(c, q, Len(p))
  <2>1. p \in Seq(Octet)
    BY <1>2
  <2> QED
    BY <2>1, PartsOfConcat
<1> HIDE DEF q
<1>5. /\ r \in Seq(Octet) /\ Len(r) = Len(q) + Len(d) /\ Within(q, r, 0) /\ Within(d, r, Len(q))
  BY <1>4, PartsOfConcat
<1> HIDE DEF r
<1>6. /\ s \in Seq(Octet) /\ Len(s) = Len(r) + Len(e) /\ Within(r, s, 0) /\ Within(e, s, Len(r))
  BY <1>5, PartsOfConcat
<1> HIDE DEF s
<1>7. /\ m \in Seq(Octet) /\ Len(m) = Len(s) + Len(f) /\ Within(s, m, 0) /\ Within(f, m, Len(s))
  <2>1. s \o f \in Seq(Octet) /\ Len(s \o f) = Len(s) + Len(f) /\ Within(s, s \o f, 0)
        /\ Within(f, s \o f, Len(s))
    BY <1>6, PartsOfConcat
  <2> QED
    BY ONLY <1>3, <2>1
<1> DEFINE np == Len(p)
           nq == Len(q)
           nr == Len(r)
           ns == Len(s)
<1>8. np \in Nat /\ nq \in Nat /\ nr \in Nat /\ ns \in Nat /\ 0 \in Nat
  BY <1>2, <1>4, <1>5, <1>6
<1>9. np = 0 + np /\ nq = 0 + nq /\ nr = 0 + nr /\ ns = 0 + ns /\ 0 = 0 + 0
  BY <1>8
<1>10. /\ Within(p, q, 0) /\ Within(c, q, np) /\ Within(q, r, 0) /\ Within(d, r, nq)
       /\ Within(r, s, 0) /\ Within(e, s, nr) /\ Within(s, m, 0) /\ Within(f, m, ns)
  BY <1>4, <1>5, <1>6, <1>7
<1> HIDE DEF np, nq, nr, ns
<1>11. Within(r, m, 0)
  BY ONLY <1>5, <1>6, <1>7, <1>8, <1>9, <1>10, BytesWithin
<1>12. Within(q, m, 0)
  BY ONLY <1>4, <1>5, <1>7, <1>8, <1>9, <1>10, <1>11, BytesWithin
<1>13. Within(e, m, nr)
  BY ONLY e \in Seq(Octet), <1>6, <1>7, <1>8, <1>9, <1>10, BytesWithin
<1>14. Within(d, m, nq)
  BY ONLY d \in Seq(Octet), <1>5, <1>7, <1>8, <1>9, <1>10, <1>11, BytesWithin
<1>15. Within(c, m, np)
  BY ONLY c \in Seq(Octet), <1>4, <1>7, <1>8, <1>9, <1>10, <1>12, BytesWithin
<1>16. Within(p, m, 0)
  BY ONLY <1>2, <1>4, <1>7, <1>8, <1>9, <1>10, <1>12, BytesWithin
<1>17. Within(a, m, 0)
  BY ONLY a \in Seq(Octet), <1>2, <1>7, <1>8, <1>9, <1>16, BytesWithin
<1>18. /\ np = Len(a) + Len(b) /\ nq = np + Len(c) /\ nr = nq + Len(d) /\ ns = nr + Len(e)
       /\ Len(m) = ns + Len(f)
  BY <1>2, <1>4, <1>5, <1>6, <1>7 DEF np, nq, nr, ns
<1> QED
  BY <1>7, <1>10, <1>13, <1>14, <1>15, <1>18, <1>17 DEF SixIn

(* The parts of a message lie where they are looked for. *)
LEMMA MessageJoined ==
  ASSUME NEW ciphers \in Seq(Octet), NEW rest \in Seq(Octet),
         NEW m, m = Octets16(771) \o [n \in 1 .. RandomLen |-> 7] \o List8(<< 8 >>)
                      \o List16(ciphers) \o List8(<< 0 >>) \o rest
  PROVE  MessageParts(m, ciphers, rest)
<1> DEFINE a == Octets16(771)
           b == [n \in 1 .. RandomLen |-> 7]
           c == List8(<< 8 >>)
           d == List16(ciphers)
           e == List8(<< 0 >>)
           R == RandomLen
<1>1. 7 \in Octet /\ 8 \in Octet /\ 0 \in Octet /\ 771 \in Nat
  BY SMT DEF Octet
<1>2. a \in Seq(Octet) /\ Len(a) = 2
  BY <1>1, OctetsType, OctetsLength
<1>3. b \in Seq(Octet) /\ Len(b) = R /\ R \in Nat
  BY <1>1, RandomLenAssumption
<1>4. c \in Seq(Octet) /\ Len(c) = 2 /\ e \in Seq(Octet) /\ Len(e) = 2
  BY <1>1, ByteLies
<1>5. d \in Seq(Octet) /\ Len(d) = Len(ciphers) + 2 /\ Len(ciphers) \in Nat /\ Len(rest) \in Nat
  BY ListLength, SMTT(30)
<1>6. m = a \o b \o c \o d \o e \o rest
  OBVIOUS
<1> HIDE DEF a, b, c, d, e, R
<1>7. /\ Len(m) = Len(a) + Len(b) + Len(c) + Len(d) + Len(e) + Len(rest)
      /\ Within(a, m, 0)
      /\ Within(c, m, Len(a) + Len(b))
      /\ Within(d, m, Len(a) + Len(b) + Len(c))
      /\ Within(e, m, Len(a) + Len(b) + Len(c) + Len(d))
      /\ Within(rest, m, Len(a) + Len(b) + Len(c) + Len(d) + Len(e))
  <2>1. SixIn(a, b, c, d, e, rest, m)
    BY ONLY <1>2, <1>3, <1>4, <1>5, <1>6, rest \in Seq(Octet), SixJoined
  <2> QED
    BY ONLY <2>1 DEF SixIn
<1> DEFINE len == Len(ciphers)
<1>8. /\ Len(a) + Len(b) = 2 + R /\ Len(a) + Len(b) + Len(c) = 2 + R + 2
      /\ Len(a) + Len(b) + Len(c) + Len(d) = 2 + R + 4 + len
      /\ Len(a) + Len(b) + Len(c) + Len(d) + Len(e) = 2 + R + 6 + len
  BY ONLY <1>2, <1>3, <1>4, <1>5
<1>9. MessageParts(m, ciphers, rest)
  BY ONLY <1>7, <1>8 DEF MessageParts, R, a, c, d, e
<1> QED
  BY ONLY <1>9

(* The walk over a message finds the extensions where the client has put them. *)
LEMMA ExtensionsFound ==
  ASSUME NEW m \in Seq(Octet), NEW ciphers \in Seq(Octet), NEW rest \in Seq(Octet),
         Len(ciphers) < 65536, MessageParts(m, ciphers, rest)
  PROVE  ExtensionsAt(m) + Len(rest) = Len(m) /\ Within(rest, m, ExtensionsAt(m))
         /\ ExtensionsAt(m) \in Nat
         /\ CipherLen(m) = Len(ciphers) /\ CiphersAt(m) \in Nat
         /\ Within(List16(ciphers), m, CiphersAt(m))
<1> DEFINE R == RandomLen
           len == Len(ciphers)
           c == List8(<< 8 >>)
           d == List16(ciphers)
           e == List8(<< 0 >>)
<1>1. R \in Nat /\ len \in Nat /\ Len(rest) \in Nat
  BY RandomLenAssumption
<1>2. 8 \in Octet /\ 0 \in Octet
  BY SMT DEF Octet
<1>3. c \in Seq(Octet) /\ Len(c) = 2 /\ c[1] = 1 /\ e \in Seq(Octet) /\ Len(e) = 2 /\ e[1] = 1
  BY <1>2, ByteLies
<1>4. d \in Seq(Octet) /\ Len(d) = len + 2 /\ U16(d, 0) = len
  BY ListLies
<1>5. /\ Len(m) = 2 + R + 6 + len + Len(rest)
      /\ Within(c, m, 2 + R) /\ Within(d, m, 2 + R + 2) /\ Within(e, m, 2 + R + 4 + len)
      /\ Within(rest, m, 2 + R + 6 + len)
  <2>1. MessageParts(m, ciphers, rest)
    OBVIOUS
  <2> QED
    BY ONLY <2>1 DEF MessageParts, R, len, c, d, e
<1> HIDE DEF R, len, c, d, e
<1> DEFINE o1 == 2 + R
           o2 == 2 + R + 2
           o3 == 2 + R + 4 + len
           o4 == 2 + R + 6 + len
<1>6. /\ o1 \in Nat /\ o2 \in Nat /\ o3 \in Nat /\ o4 \in Nat
      /\ o1 + 1 + 1 = o2 /\ o2 + 2 + len = o3 /\ o3 + 1 + 1 = o4 /\ o4 + Len(rest) = Len(m)
      /\ Within(c, m, o1) /\ Within(d, m, o2) /\ Within(e, m, o3) /\ Within(rest, m, o4)
      /\ Len(c) >= 1 /\ Len(d) >= 2 /\ Len(e) >= 1
  BY <1>1, <1>3, <1>4, <1>5
<1>7. /\ ExtensionsAt(m) = LET c0 == o1 + 1 + U8(m, o1)
                               k0 == c0 + 2 + U16(m, c0)
                           IN  k0 + 1 + U8(m, k0)
      /\ CiphersAt(m) = o1 + 1 + U8(m, o1) /\ CipherLen(m) = U16(m, o1 + 1 + U8(m, o1))
  BY DEF ExtensionsAt, CompressionAt, CipherLen, CiphersAt, R
<1> HIDE DEF o1, o2, o3, o4
<1>8. U8(m, o1) = 1 /\ U8(m, o3) = 1
  <2>1. U8(m, o1) = c[1]
    BY ONLY m \in Seq(Octet), <1>3, <1>6, U8Within, ZenonT(40)
  <2>2. U8(m, o3) = e[1]
    BY ONLY m \in Seq(Octet), <1>3, <1>6, U8Within, ZenonT(40)
  <2> QED
    BY ONLY <1>3, <2>1, <2>2
<1>9. U16(m, o2) = len
  BY ONLY m \in Seq(Octet), <1>4, <1>6, FirstU16, ZenonT(40)
<1>10. o1 + 1 + U8(m, o1) = o2 /\ o2 + 2 + U16(m, o2) = o3 /\ o3 + 1 + U8(m, o3) = o4
  BY ONLY <1>6, <1>8, <1>9
<1>11. ExtensionsAt(m) = o4
  BY ONLY <1>7, <1>10
<1>12. CiphersAt(m) = o2 /\ CipherLen(m) = len
  <2>1. o1 + 1 + U8(m, o1) = o2
    BY ONLY <1>6, <1>8
  <2> QED
    BY ONLY <1>7, <1>9, <2>1
<1>13. Within(List16(ciphers), m, CiphersAt(m)) /\ CiphersAt(m) \in Nat /\ CipherLen(m) = Len(ciphers)
  BY ONLY <1>6, <1>12 DEF d, len
<1> QED
  BY <1>6, <1>11, <1>13

(* The parts of a block, one for each extension. *)
BlockParts(client, v) ==
  [n \in DOMAIN ExtensionIds(client, v) |->
     Octets16(ExtensionIds(client, v)[n])
       \o List16(ExtensionBody(client, v.grease, ExtensionIds(client, v)[n]))]

IsPart(part) == \E x \in Nat, body \in Seq(Octet) : part = Octets16(x) \o List16(body)

(* A block is of as many parts as it has extensions. *)
LEMMA BlockIsOfParts ==
  ASSUME NEW client, SaysHello(client), NEW v, v.grease \in Nat
  PROVE  /\ BlockParts(client, v) \in Seq(Seq(Octet))
         /\ ExtensionBlock(client, v) = FlattenSeq(BlockParts(client, v))
         /\ \A n \in 1 .. Len(BlockParts(client, v)) : IsPart(BlockParts(client, v)[n])
<1> DEFINE ids == ExtensionIds(client, v)
           body(n) == ExtensionBody(client, v.grease, ids[n])
           e == [n \in DOMAIN ids |-> Octets16(ids[n]) \o List16(body(n))]
<1>1. ids \in Seq(Nat)
  BY ExtensionIdsType
<1>2. \A n \in DOMAIN ids : body(n) \in Seq(Octet)
  BY ExtensionBodyIsBytes
<1>3. ExtensionBlock(client, v) = FlattenSeq(e) /\ BlockParts(client, v) = e
  BY DEF ExtensionBlock, BlockParts
<1> HIDE DEF ids, body
<1>4. Len(ids) \in Nat /\ DOMAIN ids = 1 .. Len(ids) /\ \A n \in DOMAIN ids : ids[n] \in Nat
  BY <1>1
<1>5. ASSUME NEW n \in DOMAIN ids PROVE Octets16(ids[n]) \o List16(body(n)) \in Seq(Octet)
  <2>1. Octets16(ids[n]) \in Seq(Octet) /\ List16(body(n)) \in Seq(Octet)
    BY <1>2, <1>4, OctetsType, Lists
  <2> QED
    BY <2>1, ConcatType
<1>6. e \in [1 .. Len(ids) -> Seq(Octet)] /\ e \in Seq(Seq(Octet)) /\ Len(e) = Len(ids)
  BY <1>4, <1>5
<1>7. \A n \in 1 .. Len(ids) : e[n] = Octets16(ids[n]) \o List16(body(n))
  BY <1>4
<1>8. \A n \in 1 .. Len(ids) : IsPart(e[n])
  BY ONLY <1>2, <1>4, <1>7 DEF IsPart
<1> HIDE DEF e
<1> QED
  BY ONLY <1>3, <1>6, <1>8

(* An extension is as long as it says. *)
LEMMA PartLength ==
  ASSUME NEW x \in Nat, NEW body \in Seq(Octet), Len(Octets16(x) \o List16(body)) < 65536
  PROVE  LET part == Octets16(x) \o List16(body)
         IN  /\ part \in Seq(Octet) /\ Len(body) \in Nat /\ Len(part) = Len(body) + 4
             /\ U16(part, 2) = Len(body)
<1> DEFINE a == Octets16(x)
           b == List16(body)
           part == a \o b
<1>1. a \in Seq(Octet) /\ Len(a) = 2 /\ Len(body) \in Nat
  BY OctetsType, OctetsLength
<1>3. b \in Seq(Octet) /\ Len(b) = 2 + Len(body)
  BY <1>1, ListLength
<1>4. part = a \o b
  OBVIOUS
<1>5. Len(part) < 65536
  OBVIOUS
<1> HIDE DEF a, b, part
<1>6. part \in Seq(Octet) /\ Len(part) = Len(a) + Len(b) /\ Within(b, part, Len(a))
  BY ONLY <1>1, <1>3, <1>4, PartsOfConcat
<1>7. Len(part) = Len(body) + 4 /\ Len(body) < 65536 /\ Within(b, part, 2) /\ Len(b) >= 2
  BY ONLY <1>1, <1>3, <1>5, <1>6
<1>8. U16(b, 0) = Len(body)
  BY <1>7, ListLies DEF b
<1>9. U16(part, 2) = U16(b, 0)
  BY ONLY <1>3, <1>6, <1>7, 2 \in Nat, FirstU16
<1> QED
  BY <1>1, <1>6, <1>7, <1>8, <1>9 DEF part, a, b

(* The spans of the extensions, by their places. *)
LEMMA SpansAtPlaces ==
  ASSUME NEW e \in Seq(Octet), NEW base \in Nat, NEW exts \in Seq(ExtensionType), exts # <<>>,
         NEW p, Places(p, exts, e, base)
  PROVE  Last(exts).span.start + Last(exts).span.len = base + p[Len(exts)]
<1> DEFINE n == Len(exts)
           a == p[n - 1]
           b == p[n]
           u == U16(e, a + 2)
           x == Extension(e, a, base)
<1>1. n \in Nat /\ n >= 1 /\ n \in 1 .. n /\ n - 1 \in 0 .. n /\ n \in 0 .. n /\ Len(e) \in Nat
  OBVIOUS
<1>2. a \in 0 .. Len(e) /\ b \in 0 .. Len(e)
  BY <1>1 DEF Places
<1>3. a + 4 <= Len(e) /\ exts[n] = x /\ b = a + 4 + u
  BY <1>1 DEF Places
<1>4. Last(exts) = exts[n]
  BY DEF Last
<1>5. x.span.start = base + a /\ x.span.len = u + 4
  BY DEF Extension, Span
<1> HIDE DEF n, x, a, b
<1>6. u \in Nat
  <2>1. Fits(e, a + 2, 2) /\ a + 2 \in Nat
    BY <1>1, <1>2, <1>3 DEF Fits
  <2> QED
    BY <2>1, NumbersType
<1> HIDE DEF u
<1>7. (base + a) + (u + 4) = base + b
  BY <1>1, <1>2, <1>3, <1>6
<1> QED
  BY ONLY <1>3, <1>4, <1>5, <1>7 DEF n, b

(* A sequence of numbers of sixteen bits is one of numbers. *)
LEMMA Wider ==
  ASSUME NEW s \in Seq(Number16) PROVE s \in Seq(Nat)
<1>1. Len(s) \in Nat /\ s \in [1 .. Len(s) -> Number16]
  OBVIOUS
<1>2. \A n \in 1 .. Len(s) : s[n] \in Nat
  BY <1>1 DEF Number16
<1>3. s = [n \in 1 .. Len(s) |-> s[n]]
  BY <1>1
<1>4. s \in [1 .. Len(s) -> Nat]
  BY ONLY <1>2, <1>3
<1> QED
  BY ONLY <1>1, <1>4, SeqDef

(* What kinds of clients and visits there are. *)
LEMMA ClientFacts ==
  ASSUME NEW client \in ClientType
  PROVE  /\ SaysHello(client)
         /\ client.ciphers \in Seq(Number16) /\ client.extensions \in Seq(Number16)
<1>1. /\ client.ciphers \in Seq(Number16) /\ client.extensions \in Seq(Number16)
      /\ client.protocols \in Seq(Seq(Octet))
  BY DEF ClientType
<1>2. client.ciphers \in Seq(Nat) /\ client.extensions \in Seq(Nat)
  BY ONLY <1>1, Wider
<1> QED
  BY <1>1, <1>2 DEF SaysHello

(* A visit brings a GREASE value. *)
LEMMA VisitFacts ==
  ASSUME NEW v \in VisitType
  PROVE  /\ v.grease \in Number16 /\ v.grease \in Nat /\ IsGrease(v.grease)
         /\ v.hello \in {"whole", "split", "cut"}
<1>1. v.grease \in GreaseValue /\ v.hello \in {"whole", "split", "cut"}
  BY DEF VisitType
<1>2. v.grease \in Number16 /\ IsGrease(v.grease)
  BY <1>1 DEF GreaseValue
<1>3. v.grease \in Nat
  BY <1>2 DEF Number16
<1> QED
  BY ONLY <1>1, <1>2, <1>3
(* Where the parts of a block begin, and where the last one ends. *)
Boundaries(at, parts, e) ==
  /\ \A k \in 1 .. Len(parts) : Within(parts[k], e, at[k - 1]) /\ at[k] = at[k - 1] + Len(parts[k])
  /\ at[0] = 0 /\ at[Len(parts)] = Len(e)
  /\ \A k \in 0 .. Len(parts) : at[k] \in Nat

(* A block of extensions has a boundary after each of them. *)
LEMMA BlockHasBoundaries ==
  ASSUME NEW client, SaysHello(client), NEW v, v.grease \in Nat,
         Len(ExtensionBlock(client, v)) < 65536
  PROVE  \E at : Boundaries(at, BlockParts(client, v), ExtensionBlock(client, v))
<1> DEFINE e == ExtensionBlock(client, v)
           parts == BlockParts(client, v)
           N == Len(parts)
           E == Len(e)
<1>1. /\ parts \in Seq(Seq(Octet)) /\ e = FlattenSeq(parts) /\ e \in Seq(Octet) /\ E < 65536
      /\ N \in Nat /\ E \in Nat
      /\ \A n \in 1 .. N : IsPart(parts[n])
  <2>1. /\ parts \in Seq(Seq(Octet)) /\ e = FlattenSeq(parts) /\ e \in Seq(Octet) /\ E < 65536
        /\ \A n \in 1 .. N : IsPart(parts[n])
    BY ONLY SaysHello(client), v.grease \in Nat, Len(ExtensionBlock(client, v)) < 65536,
            BlockIsOfParts, ExtensionBlockIsBytes DEF e, parts, N, E
  <2> HIDE DEF e, parts
  <2> QED
    BY <2>1
<1> HIDE DEF e, parts
<1>2. PICK g : Joined(g, parts, Octet)
  BY <1>1, FlattenJoins
<1> DEFINE at == [k \in 0 .. N |-> Len(g[k])]
<1>3. /\ \A k \in 1 .. N : Within(parts[k], e, at[k - 1]) /\ at[k] = at[k - 1] + Len(parts[k])
      /\ at[0] = 0 /\ at[N] = E
      /\ \A k \in 0 .. N : at[k] \in Nat
  <2>1. /\ \A k \in 1 .. N : /\ Within(parts[k], e, Len(g[k - 1]))
                             /\ Len(g[k]) = Len(g[k - 1]) + Len(parts[k])
        /\ Len(g[0]) = 0 /\ Len(g[N]) = E
    <3>1. parts \in Seq(Seq(Octet)) /\ e = FlattenSeq(parts)
      BY ONLY <1>1
    <3>2. /\ \A k \in 1 .. Len(parts) : /\ Within(parts[k], FlattenSeq(parts), Len(g[k - 1]))
                                       /\ Len(g[k]) = Len(g[k - 1]) + Len(parts[k])
          /\ Len(g[0]) = 0 /\ Len(g[Len(parts)]) = Len(FlattenSeq(parts))
      BY ONLY <1>2, <3>1, FlattenLies
    <3> QED
      BY ONLY <3>1, <3>2 DEF N, E
  <2>2. \A k \in 0 .. N : g[k] \in Seq(Octet)
    BY <1>2 DEF Joined
  <2>3. \A k \in 1 .. N : k \in 0 .. N /\ k - 1 \in 0 .. N
    BY <1>1
  <2>4. 0 \in 0 .. N /\ N \in 0 .. N
    BY <1>1
  <2>5. \A k \in 0 .. N : at[k] = Len(g[k])
    OBVIOUS
  <2> HIDE DEF N, E, at
  <2>6. \A k \in 1 .. N : at[k - 1] = Len(g[k - 1]) /\ at[k] = Len(g[k])
    BY <2>3, <2>5
  <2>7. at[0] = 0 /\ at[N] = E
    BY <2>1, <2>4, <2>5
  <2>8. \A k \in 0 .. N : at[k] \in Nat
    BY <2>2, <2>5
  <2>9. \A k \in 1 .. N : Within(parts[k], e, at[k - 1]) /\ at[k] = at[k - 1] + Len(parts[k])
    BY ONLY <2>1, <2>6
  <2> QED
    BY <2>7, <2>8, <2>9
<1>4. Boundaries(at, parts, e)
  <2> HIDE DEF at
  <2> QED
    BY ONLY <1>3 DEF Boundaries, N, E
<1> HIDE DEF at
<1> QED
  BY ONLY <1>4 DEF parts, e

(* The walk over a block of the client's finds each of its parts, and all of them. *)
LEMMA WalkReads ==
  ASSUME NEW client, SaysHello(client), NEW v, v.grease \in Nat,
         Len(ExtensionBlock(client, v)) < 65536,
         NEW exts \in Seq(ExtensionType), NEW base, NEW p,
         Places(p, exts, ExtensionBlock(client, v), base)
  PROVE  /\ Len(exts) = Len(BlockParts(client, v))
         /\ Boundaries(p, BlockParts(client, v), ExtensionBlock(client, v))
<1> DEFINE e == ExtensionBlock(client, v)
           parts == BlockParts(client, v)
           N == Len(parts)
           E == Len(e)
<1>1. /\ parts \in Seq(Seq(Octet)) /\ e = FlattenSeq(parts) /\ e \in Seq(Octet) /\ E < 65536
      /\ N \in Nat /\ E \in Nat
      /\ \A n \in 1 .. N : IsPart(parts[n])
  <2>1. /\ parts \in Seq(Seq(Octet)) /\ e = FlattenSeq(parts) /\ e \in Seq(Octet) /\ E < 65536
        /\ \A n \in 1 .. N : IsPart(parts[n])
    BY ONLY SaysHello(client), v.grease \in Nat, Len(ExtensionBlock(client, v)) < 65536,
            BlockIsOfParts, ExtensionBlockIsBytes DEF e, parts, N, E
  <2> HIDE DEF e, parts
  <2> QED
    BY <2>1
<1> HIDE DEF e, parts
<1>2. PICK at : Boundaries(at, parts, e)
  BY ONLY SaysHello(client), v.grease \in Nat, Len(ExtensionBlock(client, v)) < 65536,
          BlockHasBoundaries DEF parts, e
<1>3. /\ \A k \in 1 .. N : Within(parts[k], e, at[k - 1]) /\ at[k] = at[k - 1] + Len(parts[k])
      /\ at[0] = 0 /\ at[N] = E
      /\ \A k \in 0 .. N : at[k] \in Nat
  BY ONLY <1>2 DEF Boundaries, N, E
<1>4. /\ p[0] = 0 /\ p[Len(exts)] + 4 > E
      /\ \A k \in 0 .. Len(exts) : p[k] \in 0 .. E
      /\ \A k \in 1 .. Len(exts) : p[k - 1] + 4 <= E /\ p[k] = p[k - 1] + 4 + U16(e, p[k - 1] + 2)
  BY DEF Places, e
<1> HIDE DEF N, E
(* At a boundary with something behind it stands a part. *)
<1>5. ASSUME NEW j \in 0 .. N, at[j] # E
      PROVE  /\ j + 1 \in 1 .. N /\ at[j + 1] = at[j] + 4 + U16(e, at[j] + 2)
             /\ at[j] + 4 <= E
  <2>1. j \in Nat /\ j + 1 \in 1 .. N /\ (j + 1) - 1 = j
    BY <1>1, <1>3, <1>5
  <2> DEFINE part == parts[j + 1]
             o == at[j]
  <2>2. part \in Seq(Octet) /\ Within(part, e, o) /\ at[j + 1] = o + Len(part) /\ o \in Nat
    <3>1. parts[j + 1] \in Seq(Octet)
      BY <1>1, <2>1 DEF N
    <3>2. Within(parts[j + 1], e, at[(j + 1) - 1]) /\ at[j + 1] = at[(j + 1) - 1] + Len(parts[j + 1])
      BY ONLY <1>3, <2>1
    <3>3. at[j] \in Nat
      BY <1>3
    <3> QED
      BY ONLY <2>1, <3>1, <3>2, <3>3 DEF part, o
  <2>3. PICK x \in Nat, body \in Seq(Octet) : part = Octets16(x) \o List16(body)
    <3>1. IsPart(part)
      BY ONLY <1>1, <2>1 DEF part
    <3> QED
      BY ONLY <3>1 DEF IsPart
  <2> HIDE DEF part, o
  <2>4. Len(part) < 65536 /\ Len(part) \in Nat /\ o + Len(part) <= E
    BY <1>1, <2>2 DEF Within, E
  <2>5. Len(body) \in Nat /\ Len(part) = Len(body) + 4 /\ U16(part, 2) = Len(body)
    BY <2>3, <2>4, PartLength
  <2>6. U16(e, o + 2) = U16(part, 2)
    <3>1. 2 \in Nat /\ 2 + 2 <= Len(part)
      BY <2>5
    <3> QED
      BY <1>1, <2>2, <3>1, U16Within, SMTT(30)
  <2>7. at[j + 1] = o + 4 + U16(e, o + 2) /\ o + 4 <= E
    <3> DEFINE len == Len(part)
    <3>1. at[j + 1] = o + len /\ o + len <= E /\ o \in Nat /\ Len(body) \in Nat /\ E \in Nat
          /\ len = Len(body) + 4 /\ U16(e, o + 2) = Len(body)
      BY ONLY <1>1, <2>2, <2>4, <2>5, <2>6
    <3> HIDE DEF len
    <3> QED
      BY ONLY <3>1, SMTT(30)
  <2> QED
    BY <2>1, <2>7 DEF o
<1> DEFINE M == Len(exts)
<1>6. M \in Nat
  OBVIOUS
<1> HIDE DEF M
<1> DEFINE G == {k \in Nat : k <= M => k <= N /\ p[k] = at[k]}
<1>7. 0 \in G
  BY <1>1, <1>3, <1>4
<1>8. ASSUME NEW k \in Nat, k \in G PROVE k + 1 \in G
  <2> SUFFICES ASSUME k + 1 <= M PROVE k + 1 <= N /\ p[k + 1] = at[k + 1]
    OBVIOUS
  <2>1. k + 1 \in 1 .. M /\ (k + 1) - 1 = k /\ k <= M
    BY <1>6
  <2>2. k \in 0 .. N /\ p[k] = at[k]
    BY <1>1, <1>8, <2>1
  <2>3. p[k] + 4 <= E /\ p[k + 1] = p[k] + 4 + U16(e, p[k] + 2)
    BY <1>4, <2>1 DEF M
  <2>4. at[k] # E
    BY <1>1, <1>3, <2>2, <2>3
  <2>5. k + 1 \in 1 .. N /\ at[k + 1] = at[k] + 4 + U16(e, at[k] + 2)
    BY <1>5, <2>2, <2>4
  <2> QED
    BY <1>1, <2>2, <2>3, <2>5
<1>9. \A k \in Nat : k \in G
  <2> HIDE DEF G
  <2> QED
    BY ONLY <1>7, <1>8, SetInduction
<1>10. M <= N /\ \A k \in 0 .. M : p[k] = at[k]
  BY <1>6, <1>9
<1>11. M = N
  <2> SUFFICES ASSUME M # N PROVE FALSE
    OBVIOUS
  <2>1. M \in 0 .. N /\ M + 1 \in 1 .. N /\ p[M] = at[M]
    BY <1>1, <1>6, <1>10
  <2>2. at[M] \in Nat /\ at[M] + 4 > E
    BY <1>3, <1>4, <2>1 DEF M
  <2>3. at[M] = E
    BY ONLY <1>1, <1>5, <2>1, <2>2, SMTT(30)
  <2>4. parts[M + 1] \in Seq(Octet) /\ Within(parts[M + 1], e, at[M]) /\ (M + 1) - 1 = M
    BY <1>1, <1>3, <1>6, <2>1 DEF N
  <2>5. PICK x \in Nat, body \in Seq(Octet) : parts[M + 1] = Octets16(x) \o List16(body)
    <3>1. IsPart(parts[M + 1])
      BY ONLY <1>1, <2>1
    <3> QED
      BY ONLY <3>1 DEF IsPart
  <2> DEFINE part == parts[M + 1]
  <2>6. part \in Seq(Octet) /\ at[M] + Len(part) <= E /\ Len(part) \in Nat
    BY ONLY <1>1, <2>4 DEF Within, E
  <2> HIDE DEF part
  <2>7. Len(part) < 65536
    BY ONLY <1>1, <2>2, <2>6, SMTT(30)
  <2>8. Len(part) = Len(body) + 4 /\ Len(body) \in Nat
    BY ONLY <2>5, <2>7, PartLength DEF part
  <2> QED
    BY ONLY <1>1, <2>3, <2>6, <2>8
<1>12. Boundaries(p, parts, e)
  <2>1. /\ \A k \in 1 .. N : k \in 0 .. M /\ k - 1 \in 0 .. M
        /\ 0 \in 0 .. M /\ N \in 0 .. M /\ \A k \in 0 .. N : k \in 0 .. M
    BY <1>1, <1>11
  <2>2. \A k \in 1 .. N : Within(parts[k], e, p[k - 1]) /\ p[k] = p[k - 1] + Len(parts[k])
    BY ONLY <1>3, <1>10, <2>1
  <2>3. p[0] = 0 /\ p[N] = E /\ \A k \in 0 .. N : p[k] \in Nat
    BY ONLY <1>3, <1>10, <2>1
  <2> QED
    BY ONLY <2>2, <2>3 DEF Boundaries, N, E
<1> QED
  BY <1>11, <1>12 DEF M, N, parts, e

(* The walk over a block of the client's ends at its end. *)
LEMMA WalkEnds ==
  ASSUME NEW client, SaysHello(client), NEW v, v.grease \in Nat,
         Len(ExtensionBlock(client, v)) < 65536,
         NEW exts \in Seq(ExtensionType), NEW base, NEW p,
         Places(p, exts, ExtensionBlock(client, v), base)
  PROVE  p[Len(exts)] = Len(ExtensionBlock(client, v))
BY WalkReads DEF Boundaries

(* What lies somewhere is what is taken from there. *)
LEMMA TakeIs ==
  ASSUME NEW b \in Seq(Octet), NEW m \in Seq(Octet), NEW o \in Nat, Within(b, m, o)
  PROVE  Take(m, o, Len(b)) = b
<1> DEFINE n == Len(b)
           t == Take(m, o, n)
<1>1. n \in Nat /\ o + n <= Len(m) /\ \A i \in 1 .. n : b[i] = m[o + i]
  BY DEF Within
<1>2. t \in Seq(Octet) /\ Len(t) = n /\ \A i \in 1 .. n : t[i] = m[o + i]
  <2>1. Fits(m, o, n)
    BY ONLY <1>1 DEF Fits
  <2> QED
    BY ONLY m \in Seq(Octet), o \in Nat, <1>1, <2>1, TakeFacts
<1> HIDE DEF t
<1>3. \A i \in 1 .. n : t[i] = b[i]
  BY ONLY <1>1, <1>2
<1> QED
  <2>1. b \in Seq(Octet) /\ Len(b) = n /\ t \in Seq(Octet) /\ Len(t) = n
    BY ONLY b \in Seq(Octet), <1>2 DEF n
  <2>2. t = b
    BY ONLY <1>3, <2>1
  <2> QED
    BY ONLY <2>2 DEF t, n

(* Bytes lie in themselves. *)
LEMMA StartsItself == ASSUME NEW s \in Seq(Octet) PROVE Within(s, s, 0)
<1>1. \A i \in 1 .. Len(s) : 0 + i = i
  OBVIOUS
<1>2. 0 + Len(s) <= Len(s)
  OBVIOUS
<1> QED
  BY ONLY <1>1, <1>2 DEF Within

(* So do their first ones. *)
LEMMA PrefixStarts ==
  ASSUME NEW s \in Seq(Octet), NEW n \in Nat, n <= Len(s)
  PROVE  SubSeq(s, 1, n) \in Seq(Octet) /\ Len(SubSeq(s, 1, n)) = n /\ Within(SubSeq(s, 1, n), s, 0)
<1> DEFINE t == SubSeq(s, 1, n)
<1>1. t \in Seq(Octet) /\ Len(t) = n /\ \A i \in 1 .. n : t[i] = s[i]
  BY PrefixFacts
<1>2. \A i \in 1 .. n : 0 + i = i
  OBVIOUS
<1>3. 0 + n <= Len(s)
  OBVIOUS
<1> HIDE DEF t
<1>4. Within(t, s, 0)
  BY ONLY <1>1, <1>2, <1>3 DEF Within
<1> QED
  BY <1>1, <1>4 DEF t

(* What is recorded starts like the first record, which holds the handshake or its start. *)
Starts(s, h) ==
  \E whole \in Seq(Octet), q \in Seq(Octet) :
    /\ Within(s, whole, 0) /\ Within(Record(q), whole, 0) /\ Within(q, h, 0)

(* What bytes start with, in so many words. *)
LEMMA StartsWith ==
  ASSUME NEW s, NEW h, NEW whole \in Seq(Octet), NEW q \in Seq(Octet),
         Within(s, whole, 0), Within(Record(q), whole, 0), Within(q, h, 0)
  PROVE  Starts(s, h)
BY DEF Starts

(* A byte of a part, in the whole. *)
LEMMA ByteWithin ==
  ASSUME NEW c, NEW s, NEW off, Within(c, s, off), NEW i \in 1 .. Len(c)
  PROVE  c[i] = s[off + i]
BY DEF Within

(* What a client writes starts with its handshake or a part of it. *)
LEMMA HelloStarts ==
  ASSUME NEW client, SaysHello(client), NEW v \in VisitType,
         Len(Message(client, v)) + 4 < 65536
  PROVE  Starts(WriteHello(client, v), Handshake(Message(client, v)))
<1> DEFINE m == Message(client, v)
           h == Handshake(m)
           half == Len(h) \div 2
           first == Take(h, 0, half)
           second == Take(h, half, Len(h) - half)
           s == WriteHello(client, v)
<1> SUFFICES Starts(s, h)
  OBVIOUS
<1>1. m \in Seq(Octet) /\ v.hello \in {"whole", "split", "cut"} /\ Len(m) + 4 < 65536
  BY MessageIsBytes, VisitFacts
<1>2. s = CASE v.hello = "whole" -> Record(h) \o <<20, 3, 3>>
            [] v.hello = "split" -> Record(first) \o Record(second)
            [] v.hello = "cut" -> Front(Record(h))
  BY DEF WriteHello, Handshake
<1> HIDE DEF m, s
<1>3. h \in Seq(Octet) /\ Len(h) = Len(m) + 4
  BY <1>1, HandshakeLies
<1> HIDE DEF h
<1>4. half \in Nat /\ half <= Len(h) /\ Len(h) - half \in Nat /\ Len(h) < 65536 /\ Len(h) \in Nat
  <2>1. Len(m) \in Nat
    BY <1>1
  <2> QED
    BY <1>1, <1>3, <2>1
<1> HIDE DEF half
<1>5. first \in Seq(Octet) /\ Len(first) = half /\ Within(first, h, 0) /\ second \in Seq(Octet)
  <2>1. Fits(h, 0, half) /\ Fits(h, half, Len(h) - half)
    BY <1>4 DEF Fits
  <2> QED
    BY <1>3, <1>4, <2>1, TakeFacts, TakeWithin
<1> HIDE DEF first, second
<1>6. Record(h) \in Seq(Octet) /\ Record(first) \in Seq(Octet) /\ Record(second) \in Seq(Octet)
  BY <1>3, <1>5, RecordIsBytes
<1>7. <<20, 3, 3>> \in Seq(Octet)
  <2>1. 20 \in Octet /\ 3 \in Octet
    BY SMT DEF Octet
  <2> QED
    BY <2>1
<1>8. Within(h, h, 0)
  BY <1>3, StartsItself
<1>9. CASE v.hello = "whole"
  <2> DEFINE rest == <<20, 3, 3>>
             r == Record(h)
  <2>1. s = r \o rest
    BY <1>2, <1>9, SMTT(30)
  <2>2. r \in Seq(Octet) /\ rest \in Seq(Octet)
    BY <1>6, <1>7
  <2> HIDE DEF rest, r
  <2>3. r \o rest \in Seq(Octet) /\ Within(r, r \o rest, 0)
    BY ONLY <2>2, PartsOfConcat
  <2>4. s \in Seq(Octet) /\ Within(Record(h), s, 0)
    BY ONLY <2>1, <2>3 DEF r
  <2>5. Within(s, s, 0)
    BY ONLY <2>4, StartsItself
  <2> QED
    BY ONLY <1>3, <1>8, <2>4, <2>5, StartsWith
<1>10. CASE v.hello = "split"
  <2> DEFINE rest == Record(second)
             r == Record(first)
  <2>1. s = r \o rest
    BY <1>2, <1>10
  <2>2. r \in Seq(Octet) /\ rest \in Seq(Octet)
    BY <1>6
  <2> HIDE DEF rest, r
  <2>3. r \o rest \in Seq(Octet) /\ Within(r, r \o rest, 0)
    BY ONLY <2>2, PartsOfConcat
  <2>4. s \in Seq(Octet) /\ Within(Record(first), s, 0)
    BY ONLY <2>1, <2>3 DEF r
  <2>5. Within(s, s, 0)
    BY ONLY <2>4, StartsItself
  <2> QED
    BY ONLY <1>5, <2>4, <2>5, StartsWith
<1>11. CASE v.hello = "cut"
  <2> DEFINE r == Record(h)
  <2>1. r \in Seq(Octet) /\ Len(r) = Len(h) + 5
    BY <1>3, <1>4, RecordLies
  <2>2. s = SubSeq(r, 1, Len(r) - 1)
    BY <1>2, <1>11 DEF Front
  <2> HIDE DEF r
  <2>3. Len(r) - 1 \in Nat /\ Len(r) - 1 <= Len(r)
    BY <1>4, <2>1
  <2>4. Within(s, r, 0) /\ Within(r, r, 0)
    BY <2>1, <2>2, <2>3, PrefixStarts, StartsItself
  <2>5. Within(Record(h), r, 0)
    BY ONLY <2>4 DEF r
  <2> QED
    BY ONLY <1>3, <1>8, <2>1, <2>4, <2>5, StartsWith
<1>12. v.hello = "whole" \/ v.hello = "split" \/ v.hello = "cut"
  BY ONLY <1>1
<1> QED
  BY ONLY <1>9, <1>10, <1>11, <1>12

(* So does what is recorded of it. *)
LEMMA RecordedStarts ==
  ASSUME NEW s \in Seq(Octet), NEW h \in Seq(Octet), Starts(s, h)
  PROVE  Recorded(s) \in Seq(Octet) /\ Starts(Recorded(s), h)
<1> DEFINE n == IF Len(s) < MaxRecorded THEN Len(s) ELSE MaxRecorded
           t == Recorded(s)
<1>1. n \in Nat /\ n <= Len(s)
  BY CapsAssumption
<1>2. t = SubSeq(s, 1, n)
  BY DEF Recorded, AtMost
<1> HIDE DEF n, t
<1>3. t \in Seq(Octet) /\ Within(t, s, 0)
  BY <1>1, <1>2, PrefixStarts
<1>4. PICK whole \in Seq(Octet), q \in Seq(Octet) :
         Within(s, whole, 0) /\ Within(Record(q), whole, 0) /\ Within(q, h, 0)
  BY DEF Starts
<1>5. Within(t, whole, 0)
  <2>1. 0 \in Nat /\ 0 = 0 + 0
    OBVIOUS
  <2> QED
    BY ONLY s \in Seq(Octet), <1>3, <1>4, <2>1, BytesWithin
<1> QED
  BY <1>3, <1>4, <1>5 DEF Starts, t

(* What is read of a hello that is read at all is the client's message. *)
LEMMA MessageRead ==
  ASSUME NEW m \in Seq(Octet), Len(m) + 4 < 65536, NEW s \in Seq(Octet), Starts(s, Handshake(m)),
         RecordFits(s), HandshakeFits(RecordBody(s))
  PROVE  HandshakeBody(RecordBody(s)) = m
<1> DEFINE h == Handshake(m)
           rec == RecordBody(s)
           n == U16(s, 3)
<1>1. h \in Seq(Octet) /\ Len(h) = Len(m) + 4 /\ U24(h, 1) = Len(m) /\ Within(m, h, 4)
  BY HandshakeLies
<1>2. PICK whole \in Seq(Octet), q \in Seq(Octet) :
         Within(s, whole, 0) /\ Within(Record(q), whole, 0) /\ Within(q, h, 0)
  BY DEF Starts
<1> HIDE DEF h
<1> DEFINE M == Len(m)
           H == Len(h)
           Q == Len(q)
           r == Record(q)
<1>3. M \in Nat /\ H = M + 4 /\ Q \in Nat /\ Q <= H /\ Q < 65536
  BY <1>1, <1>2 DEF Within
<1>4. r \in Seq(Octet) /\ Len(r) = Q + 5 /\ U16(r, 3) = Q /\ Within(q, r, 5)
  BY <1>3, RecordLies
<1>5. Fits(s, 0, 5) /\ Fits(s, 5, n)
  BY DEF RecordFits, RecordBase
<1> HIDE DEF r
<1>6. n = Q
  <2>1. /\ \A i \in 1 .. Len(s) : s[i] = whole[0 + i]
        /\ \A i \in 1 .. Len(r) : r[i] = whole[0 + i]
    BY <1>2 DEF Within, r
  <2>2. /\ 4 \in 1 .. Len(s) /\ 5 \in 1 .. Len(s) /\ 4 \in 1 .. Len(r) /\ 5 \in 1 .. Len(r)
    BY <1>3, <1>4, <1>5 DEF Fits
  <2>3. s[4] = r[4] /\ s[5] = r[5]
    BY <2>1, <2>2
  <2>4. 3 + 1 = 4 /\ 3 + 2 = 5
    OBVIOUS
  <2>5. U16(s, 3) = U16(r, 3)
    BY ONLY <2>3, <2>4 DEF U16
  <2> QED
    BY <1>4, <2>5
<1>7. rec = Take(s, 5, n)
  BY DEF RecordBody, RecordBase
<1> HIDE DEF rec, n
<1>8. rec \in Seq(Octet) /\ Len(rec) = Q /\ Within(rec, s, 5)
  <2>1. n \in Nat /\ 5 \in Nat
    BY <1>3, <1>6
  <2> QED
    BY <1>5, <1>6, <1>7, <2>1, TakeWithin
<1>9. ASSUME NEW i \in 1 .. Q PROVE rec[i] = h[i]
  <2>1. i \in 1 .. Len(rec) /\ i \in 1 .. Len(q)
    BY <1>8
  <2>2. rec[i] = s[5 + i]
    BY ONLY <1>8, <2>1, ByteWithin
  <2>3. q[i] = r[5 + i]
    <3>1. Within(q, r, 5)
      BY <1>4
    <3> QED
      BY ONLY <2>1, <3>1, ByteWithin
  <2>4. q[i] = h[0 + i]
    BY ONLY <1>2, <2>1, ByteWithin
  <2> DEFINE k == 5 + i
  <2>5. k \in 1 .. Len(s) /\ k \in 1 .. Len(r)
    BY <1>3, <1>4, <1>5, <1>6 DEF Fits
  <2> HIDE DEF k
  <2>6. s[k] = whole[0 + k]
    BY ONLY <1>2, <2>5, ByteWithin
  <2>7. Within(r, whole, 0)
    BY <1>2 DEF r
  <2>8. r[k] = whole[0 + k]
    BY ONLY <2>5, <2>7, ByteWithin
  <2>9. 0 + i = i
    OBVIOUS
  <2> QED
    BY ONLY <2>2, <2>3, <2>4, <2>6, <2>8, <2>9 DEF k
<1>10. Fits(rec, 0, 4) /\ Fits(rec, 4, U24(rec, 1))
  BY DEF HandshakeFits, rec
<1>11. Q >= 4
  BY <1>3, <1>8, <1>10 DEF Fits
<1>12. U24(rec, 1) = M
  <2>1. rec[2] = h[2] /\ rec[3] = h[3] /\ rec[4] = h[4]
    BY <1>3, <1>9, <1>11
  <2>2. 1 + 1 = 2 /\ 2 + 1 = 3 /\ 2 + 2 = 4 /\ (1 + 1) + 1 = 3 /\ (1 + 1) + 2 = 4
    OBVIOUS
  <2>3. U24(rec, 1) = U24(h, 1)
    BY ONLY <2>1, <2>2 DEF U24, U16
  <2> QED
    BY <1>1, <2>3
<1>13. Q = H
  BY <1>3, <1>8, <1>10, <1>12 DEF Fits
<1> DEFINE c == HandshakeBody(rec)
<1>14. c = Take(rec, 4, M)
  BY ONLY <1>12 DEF HandshakeBody, c
<1> HIDE DEF c
<1>15. Fits(rec, 4, M) /\ 4 \in Nat
  BY <1>10, <1>12
<1> HIDE DEF M, Q, H
<1>16. c \in Seq(Octet) /\ Len(c) = M /\ \A i \in 1 .. M : c[i] = rec[4 + i]
  BY ONLY <1>3, <1>8, <1>14, <1>15, TakeFacts, SMTT(30)
<1>17. \A i \in 1 .. M : m[i] = h[4 + i]
  BY <1>1 DEF Within, M
<1>18. \A i \in 1 .. M : 4 + i \in 1 .. Q
  BY <1>3, <1>13
<1>19. ASSUME NEW i \in 1 .. M PROVE c[i] = m[i]
  <2> DEFINE k == 4 + i
  <2>1. k \in 1 .. Q
    BY ONLY <1>18
  <2>2. c[i] = rec[k] /\ m[i] = h[k]
    BY ONLY <1>16, <1>17
  <2> HIDE DEF k
  <2>3. rec[k] = h[k]
    BY ONLY <1>9, <2>1
  <2> QED
    BY ONLY <2>2, <2>3
<1>20. c = m
  <2>1. Len(m) = M /\ M \in Nat
    BY <1>3 DEF M
  <2> QED
    BY ONLY <1>16, <1>19, <2>1, m \in Seq(Octet)
<1> QED
  BY <1>20 DEF c, rec

(* A message is the client's ciphers and the client's extensions. *)
LEMMA MessageHolds ==
  ASSUME NEW client, SaysHello(client), NEW v, v.grease \in Nat
  PROVE  \E ciphers \in Seq(Octet), rest \in Seq(Octet) :
           /\ MessageParts(Message(client, v), ciphers, rest)
           /\ ciphers = Numbers(Greased(client, v.grease, client.ciphers))
           /\ rest = IF client.extensions = <<>> THEN <<>> ELSE List16(ExtensionBlock(client, v))
<1> DEFINE ciphers == Numbers(Greased(client, v.grease, client.ciphers))
           rest == IF client.extensions = <<>> THEN <<>> ELSE List16(ExtensionBlock(client, v))
<1>1. ciphers \in Seq(Octet)
  <2>1. client.ciphers \in Seq(Nat)
    BY DEF SaysHello
  <2> QED
    BY <2>1, GreasedType, NumbersAreBytes
<1>2. rest \in Seq(Octet)
  <2>1. List16(ExtensionBlock(client, v)) \in Seq(Octet) /\ <<>> \in Seq(Octet)
    BY ExtensionBlockIsBytes, Lists
  <2> QED
    BY ONLY <2>1
<1>3. Message(client, v) = Octets16(771) \o [n \in 1 .. RandomLen |-> 7] \o List8(<<8>>)
                             \o List16(ciphers) \o List8(<< 0 >>) \o rest
  BY DEF Message
<1>4. /\ rest = IF client.extensions = <<>> THEN <<>> ELSE List16(ExtensionBlock(client, v))
      /\ ciphers = Numbers(Greased(client, v.grease, client.ciphers))
  OBVIOUS
<1> HIDE DEF ciphers, rest
<1>5. MessageParts(Message(client, v), ciphers, rest)
  BY ONLY <1>1, <1>2, <1>3, MessageJoined, ZenonT(40)
<1> QED
  BY ONLY <1>1, <1>2, <1>4, <1>5

(* The block of a message is the client's. *)
LEMMA BlockRead ==
  ASSUME NEW client, SaysHello(client), NEW v, v.grease \in Nat,
         Len(Message(client, v)) + 4 < 65536,
         Fits(Message(client, v), ExtensionsAt(Message(client, v)), 2)
  PROVE  /\ U16(Message(client, v), ExtensionsAt(Message(client, v))) = Len(ExtensionBlock(client, v))
         /\ Len(ExtensionBlock(client, v)) < 65536
         /\ Block(Message(client, v)) = ExtensionBlock(client, v)
<1> DEFINE m == Message(client, v)
           at == ExtensionsAt(m)
           b == ExtensionBlock(client, v)
           l == List16(b)
           n == Len(b)
<1>1. PICK ciphers \in Seq(Octet), rest \in Seq(Octet) :
         MessageParts(m, ciphers, rest) /\ rest = IF client.extensions = <<>> THEN <<>> ELSE l
  BY MessageHolds
<1>2. m \in Seq(Octet) /\ b \in Seq(Octet) /\ Len(m) + 4 < 65536 /\ at + 2 <= Len(m)
  BY MessageIsBytes, ExtensionBlockIsBytes DEF Fits
<1> SUFFICES U16(m, at) = n /\ n < 65536 /\ Block(m) = b
  OBVIOUS
<1> HIDE DEF m, b
<1>3. Len(ciphers) < 65536
  <2>1. Len(m) = 2 + RandomLen + 6 + Len(ciphers) + Len(rest)
    BY ONLY <1>1 DEF MessageParts
  <2>2. RandomLen \in Nat /\ Len(ciphers) \in Nat /\ Len(rest) \in Nat /\ Len(m) + 4 < 65536
    BY <1>2, RandomLenAssumption
  <2> QED
    BY ONLY <2>1, <2>2
<1>4. at + Len(rest) = Len(m) /\ Within(rest, m, at) /\ at \in Nat
  <2>1. MessageParts(m, ciphers, rest)
    BY ONLY <1>1
  <2>2. m \in Seq(Octet)
    BY ONLY <1>2
  <2> QED
    BY ONLY <1>3, <2>1, <2>2, ciphers \in Seq(Octet), rest \in Seq(Octet), ExtensionsFound DEF at
<1> HIDE DEF at
<1>5. rest = l /\ Len(rest) >= 2
  <2>1. Len(rest) \in Nat
    OBVIOUS
  <2>2. Len(rest) >= 2
    BY ONLY <1>2, <1>4, <2>1
  <2>3. rest # <<>>
    BY <2>2
  <2> QED
    BY ONLY <1>1, <2>2, <2>3
<1>6. l \in Seq(Octet) /\ Len(l) = n + 2 /\ n \in Nat
  BY <1>2, ListLength
<1> HIDE DEF l, n
<1>7. n + 6 < 65536
  <2>1. Len(rest) = n + 2
    BY ONLY <1>5, <1>6
  <2>2. at + (n + 2) + 4 < 65536
    BY ONLY <1>2, <1>4, <2>1, SMTT(30)
  <2> QED
    BY ONLY <1>4, <1>6, <2>2
<1>8. U16(l, 0) = n /\ Within(b, l, 2)
  <2>1. Len(b) < 65536 /\ Len(b) = n
    BY <1>6, <1>7 DEF n
  <2> QED
    BY ONLY <1>2, <2>1, ListLies DEF l
<1>9. U16(m, at) = U16(l, 0)
  BY ONLY <1>2, <1>4, <1>5, <1>6, FirstU16
<1> DEFINE o == at + 2
<1>10. o \in Nat /\ o = at + 2 /\ 2 \in Nat
  BY <1>4
<1> HIDE DEF o
<1>11. Within(b, m, o)
  <2>1. Within(l, m, at)
    BY ONLY <1>4, <1>5
  <2> QED
    BY ONLY <1>2, <1>4, <1>6, <1>8, <1>10, <2>1, BytesWithin, SMTT(30)
<1>12. Take(m, o, n) = b
  BY ONLY <1>2, <1>10, <1>11, TakeIs DEF n
<1>13. Block(m) = Take(m, o, U16(m, at))
  BY ONLY <1>10 DEF Block, at
<1>14. U16(m, at) = n /\ n < 65536
  BY ONLY <1>6, <1>7, <1>8, <1>9
<1> QED
  BY ONLY <1>12, <1>13, <1>14

(* The last extension of a client's hello ends where its block does. *)
LEMMA HelloEnds ==
  ASSUME NEW client, SaysHello(client), NEW v \in VisitType,
         Len(Message(client, v)) + 4 < 65536,
         NEW h \in ParseHello(Recorded(WriteHello(client, v))), h.extensions # <<>>
  PROVE  Last(h.extensions).span.start + Last(h.extensions).span.len =
           h.extensionsSpan.start + h.extensionsSpan.len
<1> DEFINE m == Message(client, v)
           b == ExtensionBlock(client, v)
           hs == Handshake(m)
           s == Recorded(WriteHello(client, v))
           exts == h.extensions
<1>1. v.grease \in Nat /\ v.hello \in {"whole", "split", "cut"} /\ m \in Seq(Octet) /\ b \in Seq(Octet)
  BY MessageIsBytes, ExtensionBlockIsBytes, VisitFacts
<1>2. s \in Seq(Octet) /\ Starts(s, hs)
  <2>1. WriteHello(client, v) \in Seq(Octet)
    BY <1>1, HelloIsBytes
  <2>2. Starts(WriteHello(client, v), hs)
    BY HelloStarts
  <2>3. hs \in Seq(Octet)
    BY <1>1, HandshakeLies
  <2> HIDE DEF hs
  <2> QED
    BY ONLY <2>1, <2>2, <2>3, RecordedStarts DEF s
<1>3. Len(m) + 4 < 65536 /\ h \in ParseHello(s) /\ exts # <<>>
  OBVIOUS
<1> SUFFICES Last(exts).span.start + Last(exts).span.len = h.extensionsSpan.start + h.extensionsSpan.len
  OBVIOUS
<1> HIDE DEF s, m, b
<1>4. LET c == HandshakeBody(RecordBody(s))
      IN  /\ RecordFits(s) /\ HandshakeFits(RecordBody(s)) /\ FieldsFit(c)
          /\ Fits(c, ExtensionsAt(c), 2)
          /\ Fits(c, ExtensionsAt(c) + 2, U16(c, ExtensionsAt(c)))
          /\ h.extensionsSpan = Span(BlockBase(c), U16(c, ExtensionsAt(c)))
          /\ exts \in ExtensionsIn(Block(c), BlockBase(c))
  BY ONLY <1>2, <1>3, HelloMarked
<1>5. HandshakeBody(RecordBody(s)) = m
  BY ONLY <1>1, <1>2, <1>3, <1>4, MessageRead
<1> DEFINE base == BlockBase(m)
           n == Len(b)
<1>6. /\ FieldsFit(m) /\ Fits(m, ExtensionsAt(m), 2)
      /\ h.extensionsSpan = Span(base, U16(m, ExtensionsAt(m)))
      /\ exts \in ExtensionsIn(Block(m), base)
  BY ONLY <1>4, <1>5
<1>7. U16(m, ExtensionsAt(m)) = n /\ n < 65536 /\ Block(m) = b
  BY ONLY <1>1, <1>3, <1>6, SaysHello(client), BlockRead DEF m, b, n
<1>8. base \in Nat
  <2>1. ExtensionsAt(m) \in Nat
    BY ONLY <1>1, <1>6, RandomLenAssumption, FieldsLie
  <2> QED
    BY <2>1 DEF BlockBase, HandshakeBase, RecordBase
<1> HIDE DEF base, exts
<1>9. exts \in Seq(ExtensionType) /\ \E p : Places(p, exts, b, base)
  <2>1. exts \in ExtensionsIn(b, base)
    BY ONLY <1>6, <1>7
  <2> QED
    BY ONLY <1>1, <1>8, <2>1, ExtensionsLie
<1>10. PICK p : Places(p, exts, b, base)
  BY ONLY <1>9
<1>11. Last(exts).span.start + Last(exts).span.len = base + p[Len(exts)]
  BY ONLY <1>1, <1>3, <1>8, <1>9, <1>10, SpansAtPlaces
<1>12. p[Len(exts)] = n
  BY ONLY SaysHello(client), <1>1, <1>7, <1>9, <1>10, WalkEnds DEF b, n
<1>13. h.extensionsSpan.start = base /\ h.extensionsSpan.len = n
  BY ONLY <1>6, <1>7 DEF Span
<1> QED
  BY ONLY <1>11, <1>12, <1>13

-----------------------------------------------------------------------------
(* Rows *)

(* The marked spans are those of extensions with a GREASE value. *)
LEMMA GreaseSpansMark ==
  ASSUME NEW each, NEW N \in Nat, DOMAIN each = 1 .. N, each \in Seq({each[k] : k \in 1 .. N})
  PROVE  \A n \in DOMAIN GreaseSpans(each) :
            \E k \in DOMAIN each : IsGrease(each[k].id) /\ GreaseSpans(each)[n] = each[k].span
<1> DEFINE T == {each[k] : k \in 1 .. N}
           S == {e \in T : IsGrease(e.id)}
           grease == Keep(each, LAMBDA e : IsGrease(e.id))
<1>1. grease = Keeping(each, S)
  <2>1. {n \in DOMAIN each : IsGrease(each[n].id)} = {n \in DOMAIN each : each[n] \in S}
    OBVIOUS
  <2> QED
    BY <2>1 DEF Keep, Keeping
<1>2. GreaseSpans(each) = [n \in DOMAIN grease |-> grease[n].span]
  BY DEF GreaseSpans
<1>3. \A x \in T : x \in S => x \in S
  OBVIOUS
<1>4. \A x \in S : \E k \in 1 .. N : x = each[k] /\ IsGrease(each[k].id)
  OBVIOUS
<1>5. each \in Seq(T)
  OBVIOUS
<1> HIDE DEF T, S, grease
<1>6. grease \in Seq(S)
  BY <1>1, <1>3, <1>5, KeepingType
<1>7. \A n \in DOMAIN grease : grease[n] \in S
  BY <1>6
<1> QED
  BY <1>2, <1>4, <1>7

(* What was found of a hello travels as it is. *)
LEMMA ProvenanceTravels ==
  ASSUME NEW r, NEW i
  PROVE  Line(RecordOf(r, i)).provenance = r.tls.provenance
BY DEF Line, RecordOf

(* What a report takes over from a hello. *)
LEMMA TlsOfSays ==
  ASSUME NEW h
  PROVE  /\ TlsOf(h).ciphers = h.ciphers /\ TlsOf(h).extensions = Ids(h.extensions)
         /\ TlsOf(h).provenance.ciphers = h.cipherSpan
         /\ TlsOf(h).provenance.extensions = h.extensionsSpan
         /\ TlsOf(h).provenance.perExtension =
              [n \in DOMAIN h.extensions |->
                 [id |-> h.extensions[n].id, span |-> h.extensions[n].span]]
<1>1. TlsOf(h).ciphers = h.ciphers /\ TlsOf(h).extensions = Ids(h.extensions)
  BY DEF TlsOf
<1>2. TlsOf(h).provenance = Provenance(h)
  BY DEF TlsOf
<1>3. /\ Provenance(h).ciphers = h.cipherSpan /\ Provenance(h).extensions = h.extensionsSpan
      /\ Provenance(h).perExtension =
           [n \in DOMAIN h.extensions |->
              [id |-> h.extensions[n].id, span |-> h.extensions[n].span]]
  BY DEF Provenance
<1> QED
  BY ONLY <1>1, <1>2, <1>3

(* What travels in a line and is made a row of again. *)
LEMMA RowTravels ==
  ASSUME NEW r, NEW i, DecodeBase64(Base64(r.raw)) = r.raw,
         Len(r.tls.provenance.perExtension) = Len(r.tls.extensions)
  PROVE  LET row == ParseFrame(Line(RecordOf(r, i)))
             own == FromReport(r, i)
         IN  /\ [row EXCEPT !.cipherCount = own.cipherCount] = own
             /\ row.cipherCount = 0 /\ row.ciphers = r.tls.provenance.ciphers
             /\ row.extensions = r.tls.provenance.extensions
             /\ row.raw = r.raw
             /\ row.grease = GreaseSpans(r.tls.provenance.perExtension)
             /\ own.cipherCount = Len(r.tls.ciphers) /\ own.ciphers = r.tls.provenance.ciphers
<1> DEFINE p == r.tls.provenance
           l == Line(RecordOf(r, i))
           own == FromReport(r, i)
           row == ParseFrame(l)
<1>1. /\ l.ja4 = r.tls.ja4 /\ l.akamai = AkamaiOf(r) /\ l.verdict = VerdictOf(i)
      /\ l.score = ScoreOf(i) /\ l.mismatch = (i.mismatch # None) /\ l.alpn = r.alpn
      /\ l.raw = Base64(r.raw) /\ l.provenance = p
  BY DEF Line, RecordOf
<1> HIDE DEF l, p
<1>2. row = [ja4 |-> r.tls.ja4, akamai |-> AkamaiOf(r), verdict |-> VerdictOf(i),
             score |-> ScoreOf(i), mismatch |-> (i.mismatch # None), alpn |-> r.alpn,
             raw |-> r.raw, ciphers |-> p.ciphers, extensions |-> p.extensions,
             cipherCount |-> 0, extCount |-> Len(r.tls.extensions),
             grease |-> GreaseSpans(p.perExtension)]
  BY <1>1 DEF ParseFrame, p
<1>3. own = [ja4 |-> r.tls.ja4, akamai |-> AkamaiOf(r), verdict |-> VerdictOf(i),
             score |-> ScoreOf(i), mismatch |-> (i.mismatch # None), alpn |-> r.alpn,
             raw |-> r.raw, ciphers |-> p.ciphers, extensions |-> p.extensions,
             cipherCount |-> Len(r.tls.ciphers), extCount |-> Len(r.tls.extensions),
             grease |-> GreaseSpans(p.perExtension)]
  BY DEF FromReport, p
<1> SUFFICES /\ [row EXCEPT !.cipherCount = own.cipherCount] = own
             /\ row.cipherCount = 0 /\ row.ciphers = p.ciphers
             /\ row.extensions = p.extensions
             /\ row.raw = r.raw
             /\ row.grease = GreaseSpans(p.perExtension)
             /\ own.cipherCount = Len(r.tls.ciphers) /\ own.ciphers = p.ciphers
  BY DEF p, l
<1> HIDE DEF row, own
<1>4. [row EXCEPT !.cipherCount = own.cipherCount] = own
  BY <1>2, <1>3, SMTT(30)
<1> QED
  BY <1>2, <1>3, <1>4

(* Only the capped hello and the reports made of it matter to a row. *)
RowShows(s, r, written, i) ==
  LET row == ParseFrame(written)
      own == FromReport(r, i)
      each == written.provenance.perExtension
      number(at) == U16(row.raw, at)
  IN  /\ [row EXCEPT !.cipherCount = own.cipherCount] = own
      /\ CiphersLen(row) = CiphersLen(own)
      /\ Len(row.raw) = Len(s) =>
           /\ U16s(BytesAt(row.raw, row.ciphers)) = r.tls.ciphers
           /\ \A n \in DOMAIN row.grease : IsGrease(number(row.grease[n].start))
           /\ \A n \in DOMAIN each :
                /\ number(each[n].span.start) = r.tls.extensions[n]
                /\ each[n].span.start =
                     IF n = 1 THEN row.extensions.start
                     ELSE each[n - 1].span.start + each[n - 1].span.len
           /\ each # <<>> => Last(each).span.start + Last(each).span.len =
                               row.extensions.start + row.extensions.len

(* The extensions fill their block, in what a client says. *)
Filled(h) == h.extensions # <<>> =>
  Last(h.extensions).span.start + Last(h.extensions).span.len =
    h.extensionsSpan.start + h.extensionsSpan.len

(* A row shows the hello it was made of. *)
LEMMA RowShowsHello ==
  ASSUME NEW s \in Seq(Octet), NEW h \in ParseHello(s), Filled(h),
         NEW r, r.tls = TlsOf(h), r.raw = Retain(s), NEW i
  PROVE  RowShows(s, r, Line(RecordOf(r, i)), i)
<1> DEFINE written == Line(RecordOf(r, i))
           row == ParseFrame(written)
           own == FromReport(r, i)
           each == written.provenance.perExtension
           exts == h.extensions
           number(at) == U16(row.raw, at)
<1>1. Marked(h, s)
  BY HelloMarked
<1>2. r.raw \in Seq(Octet) /\ (Len(r.raw) = Len(s) => r.raw = s)
  BY CapsAssumption, AtMostFacts DEF Retain
<1>3. /\ r.tls.ciphers = h.ciphers /\ r.tls.extensions = Ids(exts)
      /\ r.tls.provenance.ciphers = h.cipherSpan
      /\ r.tls.provenance.extensions = h.extensionsSpan
      /\ r.tls.provenance.perExtension =
           [n \in DOMAIN exts |-> [id |-> exts[n].id, span |-> exts[n].span]]
  BY ONLY r.tls = TlsOf(h), TlsOfSays DEF exts
<1>4. each = r.tls.provenance.perExtension
  <2>1. Line(RecordOf(r, i)).provenance = r.tls.provenance
    BY ONLY ProvenanceTravels
  <2> QED
    BY ONLY <2>1 DEF each, written
<1>5. exts \in Seq(ExtensionType) /\ Len(exts) \in Nat /\ DOMAIN exts = 1 .. Len(exts)
  BY <1>1 DEF Marked
<1> HIDE DEF exts
<1>6. r.tls.extensions = [n \in 1 .. Len(exts) |-> exts[n].id]
  BY <1>3, <1>5 DEF Ids
<1>7. /\ each = [n \in 1 .. Len(exts) |-> [id |-> exts[n].id, span |-> exts[n].span]]
      /\ Len(each) = Len(exts) /\ Len(r.tls.extensions) = Len(exts)
  BY <1>3, <1>4, <1>5, <1>6
<1>8. DecodeBase64(Base64(r.raw)) = r.raw
  BY <1>2, RoundTrip
<1>9. /\ [row EXCEPT !.cipherCount = own.cipherCount] = own
      /\ row.cipherCount = 0 /\ row.ciphers = h.cipherSpan
      /\ row.extensions = h.extensionsSpan
      /\ row.raw = r.raw
      /\ row.grease = GreaseSpans(each)
      /\ own.cipherCount = Len(h.ciphers) /\ own.ciphers = h.cipherSpan
  <2>1. Len(r.tls.provenance.perExtension) = Len(r.tls.extensions)
    BY <1>4, <1>7, SMTT(30)
  <2> HIDE DEF each
  <2> QED
    BY <1>3, <1>4, <1>8, <2>1, RowTravels
<1> SUFFICES /\ CiphersLen(row) = CiphersLen(own)
             /\ Len(row.raw) = Len(s) =>
                  /\ U16s(BytesAt(row.raw, row.ciphers)) = r.tls.ciphers
                  /\ \A n \in DOMAIN row.grease : IsGrease(number(row.grease[n].start))
                  /\ \A n \in DOMAIN each :
                       /\ number(each[n].span.start) = r.tls.extensions[n]
                       /\ each[n].span.start =
                            IF n = 1 THEN row.extensions.start
                            ELSE each[n - 1].span.start + each[n - 1].span.len
                  /\ each # <<>> => Last(each).span.start + Last(each).span.len =
                                      row.extensions.start + row.extensions.len
  BY <1>9 DEF RowShows
<1> HIDE DEF each, row, own, written
<1>10. CiphersLen(row) = CiphersLen(own)
  <2> DEFINE len == h.cipherSpan.len
             n == Len(h.ciphers)
  <2>1. len \in Nat /\ n = len \div 2
    BY <1>1 DEF Marked
  <2>2. CiphersLen(row) = len \div 2 /\ CiphersLen(own) = IF n > 0 THEN n ELSE len \div 2
    BY <1>9 DEF CiphersLen
  <2> QED
    BY <2>1, <2>2
<1>11. ASSUME Len(row.raw) = Len(s)
       PROVE  /\ U16s(BytesAt(row.raw, row.ciphers)) = r.tls.ciphers
              /\ \A n \in DOMAIN row.grease : IsGrease(number(row.grease[n].start))
              /\ \A n \in DOMAIN each :
                   /\ number(each[n].span.start) = r.tls.extensions[n]
                   /\ each[n].span.start =
                        IF n = 1 THEN row.extensions.start
                        ELSE each[n - 1].span.start + each[n - 1].span.len
              /\ each # <<>> => Last(each).span.start + Last(each).span.len =
                                  row.extensions.start + row.extensions.len
  <2>1. row.raw = s
    BY <1>2, <1>9, <1>11
  <2>2. U16s(BytesAt(row.raw, row.ciphers)) = r.tls.ciphers
    BY <1>1, <1>3, <1>9, <2>1 DEF Marked
  <2>3. \A n \in 1 .. Len(exts) :
           /\ U16(s, exts[n].span.start) = exts[n].id
           /\ exts[n].span.start =
                IF n = 1 THEN h.extensionsSpan.start
                ELSE exts[n - 1].span.start + exts[n - 1].span.len
    BY <1>1, <1>5 DEF Marked, exts
  <2>4. \A n \in 1 .. Len(exts) : each[n].id = exts[n].id /\ each[n].span = exts[n].span
    BY <1>7
  <2>5. DOMAIN each = 1 .. Len(exts)
    BY <1>7
  <2>6. \A n \in DOMAIN row.grease : IsGrease(number(row.grease[n].start))
    <3>1. each \in Seq({each[k] : k \in 1 .. Len(exts)})
      BY <1>5, <1>7
    <3>2. \A n \in DOMAIN GreaseSpans(each) :
             \E k \in DOMAIN each : IsGrease(each[k].id) /\ GreaseSpans(each)[n] = each[k].span
      BY <1>5, <2>5, <3>1, GreaseSpansMark
    <3>3. \A k \in DOMAIN each : U16(s, each[k].span.start) = each[k].id
      BY <2>3, <2>4, <2>5
    <3> QED
      BY <1>9, <2>1, <3>2, <3>3
  <2>7. ASSUME NEW n \in DOMAIN each
        PROVE  /\ number(each[n].span.start) = r.tls.extensions[n]
               /\ each[n].span.start =
                    IF n = 1 THEN row.extensions.start
                    ELSE each[n - 1].span.start + each[n - 1].span.len
    <3>1. n \in 1 .. Len(exts)
      BY <2>5
    <3>2. number(each[n].span.start) = r.tls.extensions[n]
      BY <1>6, <2>1, <2>3, <2>4, <3>1
    <3>3. CASE n = 1
      BY <1>9, <2>3, <2>4, <3>1, <3>2, <3>3
    <3>4. CASE n # 1
      <4>1. n - 1 \in 1 .. Len(exts)
        BY <1>5, <3>1, <3>4
      <4> QED
        BY <2>3, <2>4, <3>1, <3>2, <3>4, <4>1
    <3> QED
      BY <3>3, <3>4
  <2>8. each # <<>> => Last(each).span.start + Last(each).span.len =
                         row.extensions.start + row.extensions.len
    <3> SUFFICES ASSUME each # <<>>
                 PROVE  Last(each).span.start + Last(each).span.len =
                          row.extensions.start + row.extensions.len
      OBVIOUS
    <3>1. Len(exts) # 0
      <4>1. Len(exts) = 0 => each = <<>>
        BY <1>7
      <4> QED
        BY <4>1
    <3>2. Len(exts) \in 1 .. Len(exts)
      BY <1>5, <3>1
    <3>3. Last(each).span = Last(exts).span
      BY <1>7, <2>4, <3>2 DEF Last
    <3>4. exts # <<>>
      BY <3>1
    <3>5. Last(exts).span.start + Last(exts).span.len = h.extensionsSpan.start + h.extensionsSpan.len
      BY <3>4 DEF Filled, exts
    <3> QED
      BY <1>9, <3>3, <3>5
  <2> QED
    BY <2>2, <2>6, <2>7, <2>8
<1> QED
  BY <1>10, <1>11

-----------------------------------------------------------------------------
(* What of a hello changes from one visit to the next *)

(* A list of numbers is read as it was written. *)
NumbersAre(s, values) == s \in Seq(Octet) /\ Len(s) = 2 * Len(values) /\ U16s(s) = values

(* A list of numbers is read as it was written. *)
LEMMA NumbersRead ==
  ASSUME NEW values \in Seq(Number16)
  PROVE  NumbersAre(Numbers(values), values)
<1> DEFINE parts == [n \in DOMAIN values |-> Octets16(values[n])]
           N == Len(values)
           s == Numbers(values)
<1>1. values \in Seq(Nat) /\ N \in Nat /\ DOMAIN values = 1 .. N
      /\ \A n \in 1 .. N : values[n] \in Nat /\ values[n] < 65536
  <2>1. N \in Nat /\ DOMAIN values = 1 .. N /\ \A n \in 1 .. N : values[n] \in Number16
    OBVIOUS
  <2>2. \A n \in 1 .. N : values[n] \in Nat /\ values[n] < 65536
    BY ONLY <2>1 DEF Number16
  <2> QED
    BY ONLY <2>1, <2>2, values \in Seq(Number16), Wider
<1>2. \A n \in 1 .. N : /\ Octets16(values[n]) \in Seq(Octet) /\ Len(Octets16(values[n])) = 2
                        /\ U16(Octets16(values[n]), 0) = values[n]
  BY ONLY <1>1, OctetsType, OctetsLength, LengthsRead, SMTT(30)
<1>3. s = FlattenSeq(parts)
  BY DEF Numbers
<1>4. /\ parts \in Seq(Seq(Octet)) /\ Len(parts) = N
      /\ \A n \in 1 .. N : parts[n] = Octets16(values[n])
  <2>1. \A n \in 1 .. N : parts[n] = Octets16(values[n])
    BY <1>1
  <2>2. parts \in [1 .. N -> Seq(Octet)]
    BY <1>1, <1>2
  <2>3. Len(parts) = N
    BY <1>1
  <2> HIDE DEF parts, N
  <2> QED
    BY ONLY <1>1, <2>1, <2>2, <2>3
<1> HIDE DEF parts, s, N
<1>5. PICK g : Joined(g, parts, Octet)
  BY <1>4, FlattenJoins
<1>6. /\ \A k \in 1 .. N : Within(parts[k], s, Len(g[k - 1])) /\ Len(g[k]) = Len(g[k - 1]) + Len(parts[k])
      /\ Len(g[0]) = 0 /\ Len(g[N]) = Len(s)
  BY ONLY <1>3, <1>4, <1>5, FlattenLies, ZenonT(40)
<1>7. s \in Seq(Octet)
  BY ONLY <1>3, <1>4, FlattenType
<1>8. \A k \in Nat : k <= N => Len(g[k]) = 2 * k
  <2> DEFINE G == {k \in Nat : k <= N => Len(g[k]) = 2 * k}
  <2>1. 0 \in G
    BY <1>6
  <2>2. ASSUME NEW k \in Nat, k \in G PROVE k + 1 \in G
    <3> SUFFICES ASSUME k + 1 <= N PROVE Len(g[k + 1]) = 2 * (k + 1)
      OBVIOUS
    <3>1. k + 1 \in 1 .. N /\ (k + 1) - 1 = k /\ k <= N
      BY <1>1
    <3>2. Len(g[k + 1]) = Len(g[k]) + 2
      BY <1>2, <1>4, <1>6, <3>1
    <3> QED
      BY <2>2, <3>1, <3>2
  <2> HIDE DEF G
  <2>3. \A k \in Nat : k \in G
    BY ONLY <2>1, <2>2, SetInduction
  <2> QED
    BY <2>3 DEF G
<1>9. ASSUME NEW k \in 1 .. N PROVE U16(s, 2 * (k - 1)) = values[k]
  <2>1. k - 1 \in Nat /\ k - 1 <= N /\ 2 * (k - 1) \in Nat
    BY <1>1
  <2> DEFINE o == 2 * (k - 1)
             p == parts[k]
  <2>2. Within(p, s, o) /\ o \in Nat
    <3>1. Len(g[k - 1]) = o
      BY ONLY <1>8, <2>1 DEF o
    <3>2. Within(parts[k], s, Len(g[k - 1]))
      BY <1>6
    <3> QED
      BY ONLY <2>1, <3>1, <3>2 DEF o, p
  <2>3. p \in Seq(Octet) /\ Len(p) >= 2 /\ U16(p, 0) = values[k]
    <3>1. parts[k] = Octets16(values[k])
      BY ONLY <1>4, k \in 1 .. N
    <3>2. p \in Seq(Octet) /\ Len(p) = 2 /\ U16(p, 0) = values[k]
      BY ONLY <1>2, <3>1, k \in 1 .. N DEF p
    <3> QED
      BY ONLY <3>2
  <2> HIDE DEF o, p
  <2>4. U16(s, o) = U16(p, 0)
    BY ONLY <1>7, <2>2, <2>3, FirstU16
  <2> QED
    BY <2>3, <2>4 DEF o
<1>10. Len(s) = 2 * N /\ Len(s) \div 2 = N
  <2>1. N \in Nat /\ N <= N
    BY <1>1
  <2>2. Len(g[N]) = 2 * N
    BY ONLY <1>8, <2>1
  <2>3. (2 * N) \div 2 = N
    BY ONLY <2>1
  <2> QED
    BY ONLY <1>6, <2>2, <2>3
<1>11. U16s(s) = [k \in 1 .. N |-> U16(s, 2 * (k - 1))]
  BY <1>10 DEF U16s
<1>12. U16s(s) = values
  <2>1. values = [k \in 1 .. N |-> values[k]]
    BY <1>1 DEF N
  <2> QED
    BY ONLY <1>9, <1>11, <2>1
<1> QED
  BY <1>7, <1>10, <1>12 DEF NumbersAre, N, s

(* What a part of a block holds: an extension and its body. *)
PartIs(part, x, body) ==
  /\ part \in Seq(Octet) /\ Len(part) = Len(body) + 4
  /\ U16(part, 0) = x /\ U16(part, 2) = Len(body)
  /\ Within(body, part, 4)

(* An extension as it is written. *)
LEMMA PartHolds ==
  ASSUME NEW x \in Number16, NEW body \in Seq(Octet), NEW part,
         part = Octets16(x) \o List16(body), Len(part) \in Number16
  PROVE  PartIs(part, x, body)
<1> DEFINE a == Octets16(x)
           b == List16(body)
<1>0. x \in Nat /\ x < 65536 /\ Len(part) < 65536
  BY DEF Number16
<1>1. a \in Seq(Octet) /\ Len(a) = 2 /\ U16(a, 0) = x
  BY <1>0, OctetsType, OctetsLength, LengthsRead
<1>2. part \in Seq(Octet) /\ Len(body) \in Nat /\ Len(part) = Len(body) + 4 /\ U16(part, 2) = Len(body)
  BY <1>0, PartLength
<1>3. Len(body) < 65536
  BY <1>0, <1>2
<1>4. b \in Seq(Octet) /\ Within(body, b, 2)
  BY <1>3, ListLies, ListLength
<1>5. part = a \o b
  OBVIOUS
<1> HIDE DEF a, b
<1>6. JoinIs(a, b, part)
  BY ONLY <1>1, <1>4, <1>5, BytesJoined
<1>7. Within(a, part, 0) /\ Within(b, part, 2)
  BY ONLY <1>1, <1>6 DEF JoinIs
<1>8. U16(part, 0) = x
  <2>1. Len(a) >= 2 /\ 0 \in Nat
    BY ONLY <1>1
  <2>2. U16(part, 0) = U16(a, 0)
    BY ONLY <1>1, <1>2, <1>7, <2>1, FirstU16
  <2> QED
    BY ONLY <1>1, <2>2
<1>9. Within(body, part, 4)
  <2>1. 2 \in Nat /\ 4 = 2 + 2
    OBVIOUS
  <2> QED
    BY ONLY body \in Seq(Octet), <1>2, <1>4, <1>7, <2>1, BytesWithin
<1> QED
  BY ONLY <1>2, <1>8, <1>9 DEF PartIs

(* An extension is read as it was written. *)
LEMMA PartRead ==
  ASSUME NEW e \in Seq(Octet), NEW o \in Nat, NEW x, NEW body \in Seq(Octet), NEW part,
         PartIs(part, x, body), Within(part, e, o), NEW base
  PROVE  Extension(e, o, base).id = x /\ Extension(e, o, base).body = body
<1>1. /\ part \in Seq(Octet) /\ Len(part) = Len(body) + 4 /\ Len(body) \in Nat
      /\ U16(part, 0) = x /\ U16(part, 2) = Len(body) /\ Within(body, part, 4)
  BY DEF PartIs
<1>2. Len(part) >= 2 /\ 2 + 2 <= Len(part) /\ 2 \in Nat /\ 4 \in Nat
  BY ONLY <1>1
<1>3. U16(e, o) = x
  <2>1. U16(e, o) = U16(part, 0)
    BY ONLY e \in Seq(Octet), o \in Nat, Within(part, e, o), <1>1, <1>2, FirstU16
  <2> QED
    BY ONLY <1>1, <2>1
<1>4. U16(e, o + 2) = Len(body)
  <2>1. U16(e, o + 2) = U16(part, 2)
    BY ONLY e \in Seq(Octet), o \in Nat, Within(part, e, o), <1>1, <1>2, U16Within
  <2> QED
    BY ONLY <1>1, <2>1
<1> DEFINE o4 == o + 4
<1>5. o4 \in Nat /\ o4 = o + 4
  OBVIOUS
<1> HIDE DEF o4
<1>6. Within(body, e, o4)
  BY ONLY e \in Seq(Octet), body \in Seq(Octet), o \in Nat, Within(part, e, o), <1>1, <1>2, <1>5,
          BytesWithin
<1>7. Take(e, o4, Len(body)) = body
  BY ONLY e \in Seq(Octet), body \in Seq(Octet), <1>5, <1>6, TakeIs
<1>8. Take(e, o + 4, U16(e, o + 2)) = body
  BY ONLY <1>4, <1>5, <1>7
<1> QED
  BY ONLY <1>3, <1>8 DEF Extension

(* The extensions read are the client's. *)
ExtensionsAre(exts, client, v) ==
  LET ids == ExtensionIds(client, v)
  IN  /\ exts \in Seq(ExtensionType) /\ Len(exts) = Len(ids)
      /\ \A n \in 1 .. Len(ids) : /\ exts[n].id = ids[n]
                                  /\ exts[n].body = ExtensionBody(client, v.grease, ids[n])

(* The ids a client sends. *)
LEMMA IdsFit ==
  ASSUME NEW client \in ClientType, NEW v \in VisitType
  PROVE  ExtensionIds(client, v) \in Seq(Number16)
<1> DEFINE a == IF client.permutes /\ v.flipped THEN Reverse(client.extensions)
                ELSE client.extensions
           b == IF v.resumed THEN <<PreSharedKey>> ELSE <<>>
           c == IF client.grease THEN <<v.grease>> ELSE <<>>
<1>1. client.extensions \in Seq(Number16) /\ v.grease \in Number16
  BY ClientFacts, VisitFacts
<1>2. Reverse(client.extensions) \in Seq(Number16)
  BY ONLY <1>1, ReverseType
<1>3. a \in Seq(Number16)
  BY ONLY <1>1, <1>2
<1>4. PreSharedKey \in Number16
  BY DEF PreSharedKey, Number16
<1>5. b \in Seq(Number16) /\ c \in Seq(Number16) /\ <<>> \in Seq(Number16)
  BY <1>1, <1>4
<1>6. ExtensionIds(client, v) = ((c \o a) \o (c \o <<>>)) \o b
  BY DEF ExtensionIds, Greased
<1> HIDE DEF a, b, c
<1>7. c \o a \in Seq(Number16) /\ c \o <<>> \in Seq(Number16)
  BY ONLY <1>3, <1>5, ConcatType
<1>8. (c \o a) \o (c \o <<>>) \in Seq(Number16)
  BY ONLY <1>7, ConcatType
<1> QED
  BY ONLY <1>5, <1>6, <1>8, ConcatType

(* Each part of a block is an extension as it is written. *)
LEMMA PartsAre ==
  ASSUME NEW client \in ClientType, NEW v \in VisitType,
         NEW n \in 1 .. Len(ExtensionIds(client, v)), Len(BlockParts(client, v)[n]) \in Number16
  PROVE  /\ ExtensionBody(client, v.grease, ExtensionIds(client, v)[n]) \in Seq(Octet)
         /\ PartIs(BlockParts(client, v)[n], ExtensionIds(client, v)[n],
                   ExtensionBody(client, v.grease, ExtensionIds(client, v)[n]))
<1> DEFINE ids == ExtensionIds(client, v)
           x == ids[n]
           body == ExtensionBody(client, v.grease, x)
           part == BlockParts(client, v)[n]
<1>1. ids \in Seq(Number16)
  BY IdsFit
<1>2. x \in Number16
  BY <1>1
<1>3. DOMAIN ids = 1 .. Len(ids)
  BY <1>1
<1>4. part = Octets16(x) \o List16(body)
  BY <1>3 DEF BlockParts
<1>5. body \in Seq(Octet)
  BY ClientFacts, VisitFacts, ExtensionBodyIsBytes
<1>6. Len(part) \in Number16
  OBVIOUS
<1> HIDE DEF x, body, part
<1>7. PartIs(part, x, body)
  BY ONLY <1>2, <1>4, <1>5, <1>6, PartHolds
<1> QED
  BY ONLY <1>5, <1>7 DEF part, x, body, ids

(* The extensions of a block are read as the client wrote them. *)
LEMMA ExtensionsRead ==
  ASSUME NEW client \in ClientType, NEW v \in VisitType, Len(ExtensionBlock(client, v)) < 65536,
         NEW exts \in Seq(ExtensionType), NEW base, NEW p,
         Places(p, exts, ExtensionBlock(client, v), base)
  PROVE  ExtensionsAre(exts, client, v)
<1> DEFINE e == ExtensionBlock(client, v)
           ids == ExtensionIds(client, v)
           parts == BlockParts(client, v)
           N == Len(ids)
<1>1. SaysHello(client) /\ v.grease \in Nat
  BY ClientFacts, VisitFacts
<1>2. ids \in Seq(Number16) /\ Len(parts) = N /\ N \in Nat
  <2>1. ids \in Seq(Number16)
    BY IdsFit
  <2>2. N \in Nat /\ DOMAIN ids = 1 .. N
    BY <2>1
  <2>3. parts = [n \in 1 .. N |-> parts[n]]
    BY <2>2 DEF BlockParts
  <2> HIDE DEF parts, ids, N
  <2>4. Len(parts) = N
    BY ONLY <2>2, <2>3
  <2> QED
    BY ONLY <2>1, <2>2, <2>4
<1>3. Len(exts) = Len(parts) /\ Boundaries(p, parts, e)
  BY ONLY <1>1, Len(ExtensionBlock(client, v)) < 65536, exts \in Seq(ExtensionType),
          Places(p, exts, ExtensionBlock(client, v), base), WalkReads DEF e, parts
<1>4. Places(p, exts, e, base) /\ e \in Seq(Octet) /\ Len(e) < 65536 /\ Len(e) \in Nat
  BY <1>1, ExtensionBlockIsBytes
<1> SUFFICES ASSUME NEW n \in 1 .. N
             PROVE  /\ exts[n].id = ids[n]
                    /\ exts[n].body = ExtensionBody(client, v.grease, ids[n])
  BY <1>2, <1>3 DEF ExtensionsAre
<1> DEFINE part == parts[n]
           o == p[n - 1]
           x == ids[n]
           body == ExtensionBody(client, v.grease, x)
<1> HIDE DEF e, parts, N
<1>5. Within(part, e, o) /\ o \in Nat /\ exts[n] = Extension(e, o, base)
  <2>1. n \in 1 .. Len(parts) /\ n \in 1 .. Len(exts) /\ n - 1 \in 0 .. Len(parts)
    BY ONLY <1>2, <1>3, n \in 1 .. N
  <2>2. Within(part, e, o) /\ o \in Nat
    BY ONLY <1>3, <2>1 DEF Boundaries
  <2> QED
    BY ONLY <1>4, <2>1, <2>2 DEF Places
<1>6. Len(part) \in Number16
  <2>1. \A i \in 1 .. N : parts[i] \in Seq(Octet)
    <3>1. \A i \in 1 .. Len(parts) : IsPart(parts[i])
      BY ONLY <1>1, BlockIsOfParts DEF parts
    <3>2. parts \in Seq(Seq(Octet))
      BY ONLY <1>1, BlockIsOfParts DEF parts
    <3> QED
      BY ONLY <1>2, <3>2
  <2>2. Len(part) \in Nat
    BY ONLY <2>1, n \in 1 .. N
  <2>3. o + Len(part) <= Len(e)
    BY ONLY <1>5 DEF Within
  <2>4. Len(part) < 65536
    BY ONLY <1>4, <1>5, <2>2, <2>3
  <2> QED
    BY ONLY <2>2, <2>4 DEF Number16
<1>7. body \in Seq(Octet) /\ PartIs(part, x, body)
  BY ONLY client \in ClientType, v \in VisitType, n \in 1 .. N, <1>6, PartsAre
     DEF part, x, body, N, parts, ids
<1> HIDE DEF part, o, x, body
<1>8. Extension(e, o, base).id = x /\ Extension(e, o, base).body = body
  BY ONLY <1>4, <1>5, <1>7, PartRead
<1> QED
  BY ONLY <1>5, <1>8 DEF x, body

(* What is read of a client's hello, when it is read. *)
HelloIs(h, client, v) ==
  /\ h.version = 771
  /\ h.ciphers = Greased(client, v.grease, client.ciphers)
  /\ IF client.extensions = <<>> THEN h.extensions = <<>>
     ELSE ExtensionsAre(h.extensions, client, v)

(* The fields before the extensions. *)
LEMMA FieldsRead ==
  ASSUME NEW client \in ClientType, NEW v \in VisitType, FitsInRecord(client, v)
  PROVE  LET m == Message(client, v)
         IN  /\ U16(m, 0) = 771
             /\ U16s(Take(m, CiphersAt(m) + 2, CipherLen(m))) = Greased(client, v.grease, client.ciphers)
             /\ Fits(m, ExtensionsAt(m), 2) <=> client.extensions # <<>>
<1> DEFINE m == Message(client, v)
           values == Greased(client, v.grease, client.ciphers)
           c == Numbers(values)
           b == ExtensionBlock(client, v)
           a == Octets16(771)
<1>1. SaysHello(client) /\ v.grease \in Nat /\ Len(m) + 4 < 65536
  BY ClientFacts, VisitFacts DEF FitsInRecord
<1>2. m \in Seq(Octet) /\ b \in Seq(Octet)
  BY <1>1, MessageIsBytes, ExtensionBlockIsBytes
<1>3. PICK ciphers \in Seq(Octet), rest \in Seq(Octet) :
         /\ MessageParts(m, ciphers, rest)
         /\ ciphers = c
         /\ rest = IF client.extensions = <<>> THEN <<>> ELSE List16(b)
  BY <1>1, MessageHolds
<1>4. values \in Seq(Number16)
  <2>1. client.ciphers \in Seq(Number16) /\ v.grease \in Number16
    BY ClientFacts, VisitFacts
  <2>2. (IF client.grease THEN <<v.grease>> ELSE <<>>) \in Seq(Number16)
    BY <2>1
  <2> QED
    BY <2>1, <2>2, ConcatType DEF Greased
<1> HIDE DEF m, values, b
<1>5. ciphers \in Seq(Octet) /\ U16s(ciphers) = values
  BY ONLY <1>3, <1>4, NumbersRead DEF NumbersAre
<1> HIDE DEF c
<1>6. /\ Within(a, m, 0) /\ Len(ciphers) < 65536
  <2>1. Len(m) = 2 + RandomLen + 6 + Len(ciphers) + Len(rest) /\ Within(a, m, 0)
    BY ONLY <1>3 DEF MessageParts, a
  <2>2. RandomLen \in Nat /\ Len(ciphers) \in Nat /\ Len(rest) \in Nat
    BY RandomLenAssumption
  <2> QED
    BY ONLY <1>1, <2>1, <2>2
<1>7. U16(m, 0) = 771
  <2>1. 771 \in Nat /\ 771 < 65536 /\ 0 \in Nat
    OBVIOUS
  <2>2. a \in Seq(Octet) /\ Len(a) = 2 /\ U16(a, 0) = 771
    BY ONLY <2>1, OctetsType, OctetsLength, LengthsRead
  <2> HIDE DEF a
  <2>3. Len(a) >= 2 /\ a \in Seq(Octet)
    BY ONLY <2>2
  <2>4. m \in Seq(Octet) /\ Within(a, m, 0) /\ 0 \in Nat
    BY ONLY <1>2, <1>6
  <2>5. U16(m, 0) = U16(a, 0)
    BY ONLY <2>3, <2>4, FirstU16
  <2> QED
    BY ONLY <2>2, <2>5
<1>8. /\ ExtensionsAt(m) + Len(rest) = Len(m) /\ ExtensionsAt(m) \in Nat
      /\ CipherLen(m) = Len(ciphers) /\ CiphersAt(m) \in Nat
      /\ Within(List16(ciphers), m, CiphersAt(m))
  <2>1. m \in Seq(Octet) /\ MessageParts(m, ciphers, rest) /\ Len(ciphers) < 65536
    BY ONLY <1>2, <1>3, <1>6
  <2> QED
    BY ONLY <2>1, ciphers \in Seq(Octet), rest \in Seq(Octet), ExtensionsFound
<1>9. Take(m, CiphersAt(m) + 2, CipherLen(m)) = ciphers
  <2> DEFINE l == List16(ciphers)
             at == CiphersAt(m)
             o == at + 2
  <2>1. l \in Seq(Octet) /\ Within(ciphers, l, 2)
    BY ONLY <1>5, <1>6, ListLength, ListLies
  <2>2. o \in Nat /\ o = at + 2 /\ at \in Nat /\ 2 \in Nat /\ Within(l, m, at)
    BY <1>8
  <2> HIDE DEF l, at, o
  <2>3. Within(ciphers, m, o)
    BY ONLY <1>2, <1>5, <2>1, <2>2, BytesWithin
  <2>4. Take(m, o, Len(ciphers)) = ciphers
    BY ONLY <1>2, <1>5, <2>2, <2>3, TakeIs
  <2> QED
    BY ONLY <1>8, <2>2, <2>4 DEF at
<1>10. Fits(m, ExtensionsAt(m), 2) <=> client.extensions # <<>>
  <2>1. CASE client.extensions = <<>>
    <3>1. Len(rest) = 0
      BY ONLY <1>3, <2>1
    <3>2. ~(ExtensionsAt(m) + 2 <= Len(m))
      BY ONLY <1>8, <3>1
    <3> QED
      BY ONLY <2>1, <3>2 DEF Fits
  <2>2. CASE client.extensions # <<>>
    <3>1. rest = List16(b)
      BY ONLY <1>3, <2>2
    <3>2. Len(rest) = Len(b) + 2 /\ Len(b) \in Nat
      BY <1>2, <3>1, ListLength
    <3>3. ExtensionsAt(m) + 2 <= Len(m)
      BY ONLY <1>8, <3>2, SMTT(30)
    <3> QED
      BY ONLY <2>2, <3>3 DEF Fits
  <2> QED
    BY ONLY <2>1, <2>2
<1> QED
  BY ONLY <1>5, <1>7, <1>9, <1>10 DEF m, values

(* A hello is read as the client wrote it. *)
LEMMA HelloIsRead ==
  ASSUME NEW client \in ClientType, NEW v \in VisitType, FitsInRecord(client, v),
         NEW h \in ParseHello(Recorded(WriteHello(client, v)))
  PROVE  HelloIs(h, client, v)
<1> DEFINE m == Message(client, v)
           b == ExtensionBlock(client, v)
           hs == Handshake(m)
           s == Recorded(WriteHello(client, v))
           at == ExtensionsAt(m)
           exts == h.extensions
<1>1. /\ SaysHello(client) /\ v.grease \in Nat /\ v.hello \in {"whole", "split", "cut"}
      /\ Len(m) + 4 < 65536
  BY ClientFacts, VisitFacts DEF FitsInRecord
<1>2. m \in Seq(Octet) /\ b \in Seq(Octet)
  BY <1>1, MessageIsBytes, ExtensionBlockIsBytes
<1>3. s \in Seq(Octet) /\ Starts(s, hs)
  <2>1. WriteHello(client, v) \in Seq(Octet)
    BY <1>1, HelloIsBytes
  <2>2. Starts(WriteHello(client, v), hs)
    BY <1>1, HelloStarts
  <2>3. hs \in Seq(Octet)
    BY <1>1, <1>2, HandshakeLies
  <2> HIDE DEF hs
  <2> QED
    BY ONLY <2>1, <2>2, <2>3, RecordedStarts DEF s
<1>4. h \in ParseHello(s)
  OBVIOUS
<1>5. /\ U16(m, 0) = 771
      /\ U16s(Take(m, CiphersAt(m) + 2, CipherLen(m))) = Greased(client, v.grease, client.ciphers)
      /\ Fits(m, at, 2) <=> client.extensions # <<>>
  BY FieldsRead
<1> HIDE DEF s, m, b
<1>6. RecordFits(s) /\ HandshakeFits(RecordBody(s)) /\ h \in ParseFields(HandshakeBody(RecordBody(s)))
  BY ONLY <1>4 DEF ParseHello, None
<1>7. HandshakeBody(RecordBody(s)) = m
  BY ONLY <1>1, <1>2, <1>3, <1>6, MessageRead
<1>8. h \in ParseFields(m) /\ FieldsFit(m)
  <2>1. h \in ParseFields(m)
    BY ONLY <1>6, <1>7
  <2> QED
    BY ONLY <2>1 DEF ParseFields, None
<1>9. CASE ~Fits(m, at, 2)
  <2>1. h = Hello(m, <<>>, Span(HandshakeBase + at, 0))
    BY ONLY <1>8, <1>9 DEF ParseFields, Some
  <2>2. /\ h.version = U16(m, 0) /\ h.extensions = <<>>
        /\ h.ciphers = U16s(Take(m, CiphersAt(m) + 2, CipherLen(m)))
    BY ONLY <2>1 DEF Hello
  <2> QED
    BY ONLY <1>5, <1>9, <2>2 DEF HelloIs
<1>10. CASE Fits(m, at, 2)
  <2>1. Fits(m, at + 2, U16(m, at))
    BY ONLY <1>8, <1>10 DEF ParseFields, None
  <2>2. PICK found \in ExtensionsIn(Block(m), BlockBase(m)) :
          h = Hello(m, found, Span(BlockBase(m), U16(m, at)))
    BY ONLY <1>8, <1>10, <2>1 DEF ParseFields, Block, BlockBase
  <2>3. /\ h.version = U16(m, 0) /\ exts = found
        /\ h.ciphers = U16s(Take(m, CiphersAt(m) + 2, CipherLen(m)))
    BY ONLY <2>2 DEF Hello
  <2>4. Block(m) = b /\ Len(b) < 65536
    BY ONLY <1>1, <1>10, BlockRead DEF m, b
  <2> DEFINE base == BlockBase(m)
  <2>5. base \in Nat
    <3>1. at \in Nat
      BY ONLY <1>2, <1>8, RandomLenAssumption, FieldsLie
    <3> QED
      BY <3>1 DEF BlockBase, HandshakeBase, RecordBase
  <2>6. exts \in ExtensionsIn(b, base)
    BY ONLY <2>2, <2>3, <2>4
  <2> HIDE DEF base, exts
  <2>7. exts \in Seq(ExtensionType) /\ \E p : Places(p, exts, b, base)
    BY ONLY <1>2, <2>5, <2>6, ExtensionsLie
  <2>8. PICK p : Places(p, exts, b, base)
    BY ONLY <2>7
  <2>9. ExtensionsAre(exts, client, v)
    BY ONLY client \in ClientType, v \in VisitType, <2>4, <2>7, <2>8, ExtensionsRead DEF b
  <2> QED
    BY ONLY <1>5, <1>10, <2>3, <2>9 DEF HelloIs, exts
<1> QED
  BY ONLY <1>9, <1>10

-----------------------------------------------------------------------------
(* What does not change when a sequence is turned around *)

(* A sequence turned around, by the element. *)
LEMMA ReverseFacts ==
  ASSUME NEW T, NEW s \in Seq(T)
  PROVE  /\ Reverse(s) \in Seq(T) /\ Len(Reverse(s)) = Len(s)
         /\ \A i \in 1 .. Len(s) : Reverse(s)[i] = s[(Len(s) - i) + 1]
<1>1. Len(s) \in Nat
  OBVIOUS
<1> QED
  BY <1>1, ReverseType DEF Reverse

(* What came last comes first. *)
LEMMA ReverseAppend ==
  ASSUME NEW T, NEW s \in Seq(T), NEW x \in T
  PROVE  Reverse(Append(s, x)) = <<x>> \o Reverse(s)
<1> DEFINE N == Len(s)
           t == Append(s, x)
           a == <<x>>
           r == Reverse(s)
           p == Reverse(t)
           q == a \o r
<1>1. /\ N \in Nat /\ t \in Seq(T) /\ Len(t) = N + 1
      /\ \A i \in 1 .. N : t[i] = s[i]
      /\ t[N + 1] = x
  BY AppendFacts
<1>2. r \in Seq(T) /\ Len(r) = N /\ \A i \in 1 .. N : r[i] = s[(N - i) + 1]
  BY ReverseFacts
<1>3. p \in Seq(T) /\ Len(p) = N + 1 /\ \A i \in 1 .. N + 1 : p[i] = t[((N + 1) - i) + 1]
  <2> HIDE DEF t, N
  <2>1. p \in Seq(T) /\ Len(p) = Len(t) /\ \A i \in 1 .. Len(t) : p[i] = t[(Len(t) - i) + 1]
    BY ONLY <1>1, ReverseFacts DEF p
  <2> QED
    BY ONLY <1>1, <2>1
<1>4. a \in Seq(T) /\ Len(a) = 1 /\ a[1] = x
  OBVIOUS
<1> HIDE DEF N, t, a, r, p
<1>5. /\ q \in Seq(T) /\ Len(q) = Len(a) + Len(r)
      /\ Within(a, q, 0) /\ Within(r, q, Len(a))
  BY ONLY <1>2, <1>4, PartsOfConcat
<1> HIDE DEF q
<1>6. Len(q) = N + 1 /\ q[1] = x /\ \A i \in 1 .. N : q[1 + i] = r[i]
  <2>1. Len(q) = N + 1
    BY ONLY <1>1, <1>2, <1>4, <1>5
  <2>2. a[1] = q[0 + 1]
    <3>1. 1 \in 1 .. Len(a)
      BY ONLY <1>4
    <3> QED
      BY ONLY <1>5, <3>1 DEF Within
  <2>3. \A i \in 1 .. N : q[1 + i] = r[i]
    BY ONLY <1>2, <1>4, <1>5 DEF Within
  <2> QED
    BY ONLY <1>4, <2>1, <2>2, <2>3, 0 + 1 = 1
<1>7. ASSUME NEW i \in 1 .. N + 1 PROVE p[i] = q[i]
  <2>1. CASE i = 1
    <3>1. ((N + 1) - i) + 1 = N + 1
      BY <1>1, <2>1
    <3> QED
      BY ONLY <1>1, <1>3, <1>6, <2>1, <3>1, i \in 1 .. N + 1
  <2>2. CASE i # 1
    <3> DEFINE j == i - 1
    <3>1. j \in 1 .. N /\ 1 + j = i /\ (N - j) + 1 = ((N + 1) - i) + 1 /\ (N - j) + 1 \in 1 .. N
      BY <1>1, <2>2
    <3>2. q[i] = r[j] /\ r[j] = s[(N - j) + 1]
      BY ONLY <1>2, <1>6, <3>1
    <3>3. p[i] = t[(N - j) + 1] /\ t[(N - j) + 1] = s[(N - j) + 1]
      BY ONLY <1>1, <1>3, <3>1, i \in 1 .. N + 1
    <3> QED
      BY ONLY <3>2, <3>3
  <2> QED
    BY <2>1, <2>2
<1>8. p = q
  <2>1. Len(p) = Len(q) /\ \A i \in 1 .. Len(p) : p[i] = q[i]
    BY ONLY <1>3, <1>6, <1>7
  <2> QED
    BY ONLY <1>3, <1>5, <2>1, SeqEqual, ZenonT(40)
<1> QED
  BY ONLY <1>8 DEF p, q, a, r, t

(* Picking and turning around can be swapped. *)
LEMMA KeepingReverse ==
  ASSUME NEW T, NEW s \in Seq(T), NEW S
  PROVE  Keeping(Reverse(s), S) = Reverse(Keeping(s, S))
<1> DEFINE K(u) == Keeping(u, S)
           G == {u \in Seq(T) : K(Reverse(u)) = Reverse(K(u))}
<1>1. \A u \in Seq(T) : K(u) \in Seq(T)
  BY KeepingType
<1>2. \A u \in Seq(T), x \in T : K(Append(u, x)) = IF x \in S THEN Append(K(u), x) ELSE K(u)
  BY KeepingAppend
<1>3. K(<<>>) = <<>> /\ Reverse(<<>>) = <<>>
  BY KeepingEmpty DEF Reverse
<1>4. \A u, w \in Seq(T) : K(u \o w) = K(u) \o K(w)
  BY KeepingConcat
<1>5. \A x \in T : K(<<x>>) = IF x \in S THEN <<x>> ELSE <<>>
  <2> SUFFICES ASSUME NEW x \in T PROVE K(<<x>>) = IF x \in S THEN <<x>> ELSE <<>>
    OBVIOUS
  <2>1. <<x>> = Append(<<>>, x) /\ <<>> \in Seq(T)
    OBVIOUS
  <2>2. K(Append(<<>>, x)) = IF x \in S THEN Append(K(<<>>), x) ELSE K(<<>>)
    BY ONLY <1>2, <2>1, x \in T
  <2> QED
    BY ONLY <1>3, <2>1, <2>2
<1> HIDE DEF K
<1>6. <<>> \in G
  <2>1. <<>> \in Seq(T)
    OBVIOUS
  <2> QED
    BY <1>3, <2>1
<1>7. ASSUME NEW u \in Seq(T), NEW x \in T, u \in G PROVE Append(u, x) \in G
  <2>1. K(Reverse(u)) = Reverse(K(u)) /\ Append(u, x) \in Seq(T) /\ <<x>> \in Seq(T)
    BY <1>7, AppendFacts
  <2>2. Reverse(u) \in Seq(T) /\ Reverse(K(u)) \in Seq(T)
    BY <1>1, ReverseType
  <2>3. K(Reverse(Append(u, x))) = K(<<x>>) \o Reverse(K(u))
    <3>1. Reverse(Append(u, x)) = <<x>> \o Reverse(u)
      BY ReverseAppend
    <3> QED
      BY ONLY <1>4, <2>1, <2>2, <3>1, ZenonT(40)
  <2>4. CASE x \in S
    <3>1. K(<<x>>) = <<x>> /\ K(Append(u, x)) = Append(K(u), x)
      BY <1>2, <1>5, <2>4
    <3>2. Reverse(Append(K(u), x)) = <<x>> \o Reverse(K(u))
      <4>1. K(u) \in Seq(T)
        BY ONLY <1>1, u \in Seq(T)
      <4> QED
        BY ONLY <4>1, x \in T, ReverseAppend
    <3>3. K(Reverse(Append(u, x))) = Reverse(K(Append(u, x)))
      BY ONLY <2>3, <3>1, <3>2
    <3> QED
      BY ONLY <2>1, <3>3 DEF G
  <2>5. CASE x \notin S
    <3>1. K(<<x>>) = <<>> /\ K(Append(u, x)) = K(u)
      BY <1>2, <1>5, <2>5
    <3>2. <<>> \o Reverse(K(u)) = Reverse(K(u))
      BY <2>2
    <3>3. K(Reverse(Append(u, x))) = Reverse(K(Append(u, x)))
      BY ONLY <2>3, <3>1, <3>2
    <3> QED
      BY ONLY <2>1, <3>3 DEF G
  <2> QED
    BY <2>4, <2>5
<1>8. Seq(T) \subseteq G
  <2> HIDE DEF G
  <2> QED
    BY <1>6, <1>7, SequenceInduction
<1> QED
  BY <1>8 DEF K

-----------------------------------------------------------------------------
(* Sorted *)

(* A sequence whose first k elements stand the other way round. *)
TurnedAt(k, n) == IF n <= k THEN (k - n) + 1 ELSE n

(* Sorted, it does not matter which way a first part stood. *)
LEMMA SortedTurned ==
  ASSUME NEW s \in Seq(Nat), NEW t \in Seq(Nat), NEW k \in 0 .. Len(s), Len(t) = Len(s),
         \A n \in 1 .. Len(s) : t[n] = s[TurnedAt(k, n)]
  PROVE  Sorted(t) = Sorted(s)
<1> DEFINE D == 1 .. Len(s)
           f == [n \in D |-> TurnedAt(k, n)]
           A(v) == {n \in D : s[n] <= v}
           B(v) == {n \in D : t[n] <= v}
<1>1. Len(s) \in Nat /\ DOMAIN s = D /\ DOMAIN t = D
  OBVIOUS
<1>2. \A n \in D : f[n] \in D /\ f[f[n]] = n
  <2> SUFFICES ASSUME NEW n \in D PROVE TurnedAt(k, n) \in D /\ TurnedAt(k, TurnedAt(k, n)) = n
    OBVIOUS
  <2> DEFINE N == Len(s)
  <2>1. N \in Nat /\ n \in 1 .. N /\ k \in 0 .. N
    BY <1>1
  <2> HIDE DEF N
  <2>2. TurnedAt(k, n) \in 1 .. N /\ TurnedAt(k, TurnedAt(k, n)) = n
    BY ONLY <2>1 DEF TurnedAt
  <2> QED
    BY ONLY <2>2 DEF N, D
<1>3. \A n \in D : t[n] = s[f[n]]
  OBVIOUS
<1>4. \A n \in D : s[n] = t[f[n]]
  <2> HIDE DEF f, D
  <2> QED
    BY ONLY <1>2, <1>3
<1>5. IsFiniteSet(D)
  <2>1. 1 \in Int /\ Len(s) \in Int
    BY ONLY <1>1
  <2> QED
    BY ONLY <2>1, FS_Interval DEF D
<1> HIDE DEF D, f
<1>6. \A v : Cardinality(A(v)) = Cardinality(B(v))
  <2> SUFFICES ASSUME NEW v PROVE Cardinality(A(v)) = Cardinality(B(v))
    OBVIOUS
  <2> DEFINE S == A(v)
             U == B(v)
             g == [n \in S |-> f[n]]
  <2>1. IsFiniteSet(S)
    <3>1. S \in SUBSET D
      OBVIOUS
    <3> QED
      BY ONLY <1>5, <3>1, FS_Subset
  <2>2. \A n \in S : n \in D /\ s[n] <= v
    OBVIOUS
  <2>3. \A n \in U : n \in D /\ t[n] <= v
    OBVIOUS
  <2>4. \A n \in D : (s[n] <= v => n \in S) /\ (t[n] <= v => n \in U)
    OBVIOUS
  <2> HIDE DEF S, U
  <2>5. \A n \in S : f[n] \in U /\ f[f[n]] = n
    BY ONLY <1>2, <1>4, <2>2, <2>4
  <2>6. \A n \in U : f[n] \in S /\ f[f[n]] = n
    BY ONLY <1>2, <1>3, <2>3, <2>4
  <2>7. /\ g \in [S -> U] /\ \A a, b \in S : g[a] = g[b] => a = b
        /\ \A b \in U : \E a \in S : g[a] = b
    <3>1. g \in [S -> U] /\ \A n \in S : g[n] = f[n]
      BY <2>5
    <3> HIDE DEF g
    <3>2. \A a, b \in S : g[a] = g[b] => a = b
      BY ONLY <2>5, <3>1
    <3>3. \A b \in U : \E a \in S : g[a] = b
      BY ONLY <2>6, <3>1
    <3> QED
      BY ONLY <3>1, <3>2, <3>3
  <2> HIDE DEF g
  <2>8. g \in Bijection(S, U)
    BY ONLY <2>7 DEF Bijection, Injection, Surjection, IsInjective
  <2>9. ExistsBijection(S, U)
    BY ONLY <2>8 DEF ExistsBijection
  <2>10. Cardinality(U) = Cardinality(S)
    BY ONLY <2>1, <2>9, FS_Bijection
  <2> QED
    BY ONLY <2>10 DEF S, U
<1>7. ToSet(s) = ToSet(t)
  <2>1. \A x : x \in ToSet(s) <=> \E n \in D : s[n] = x
    BY <1>1 DEF ToSet
  <2>2. \A x : x \in ToSet(t) <=> \E n \in D : t[n] = x
    BY <1>1 DEF ToSet
  <2>3. \A x : x \in ToSet(s) => x \in ToSet(t)
    BY ONLY <1>2, <1>4, <2>1, <2>2
  <2>4. \A x : x \in ToSet(t) => x \in ToSet(s)
    BY ONLY <1>2, <1>3, <2>1, <2>2
  <2> QED
    BY ONLY <2>3, <2>4
<1> QED
  <2> DEFINE V == ToSet(s)
             up == [v \in V |-> Cardinality(A(v))]
             down == [v \in V |-> Cardinality(B(v))]
  <2>1. up = down
    BY ONLY <1>6
  <2>2. Sorted(s) = [n \in D |-> Min({v \in V : up[v] >= n})]
    BY ONLY <1>1 DEF Sorted, V, up, A
  <2>3. Sorted(t) = [n \in D |-> Min({v \in V : down[v] >= n})]
    BY ONLY <1>1, <1>7 DEF Sorted, V, down, B
  <2> QED
    BY ONLY <2>1, <2>2, <2>3

-----------------------------------------------------------------------------
(* What JA4 is made of stays the same from one visit to the next *)

NotGrease == {x \in Nat : ~IsGrease(x)}
Others == {x \in Nat : x \notin {SNI, ALPN}}
NotCounted == {x \in NotGrease : x \notin {SNI, ALPN}}

(* What is left without GREASE, and without what (a) counts. *)
LEMMA StripIs ==
  ASSUME NEW values \in Seq(Nat)
  PROVE  /\ Strip(values) = Keeping(values, NotGrease)
         /\ Keep(Strip(values), LAMBDA x : x \notin {SNI, ALPN}) = Keeping(values, NotCounted)
<1>1. \A s \in Seq(Nat) : DOMAIN s = 1 .. Len(s) /\ \A n \in DOMAIN s : s[n] \in Nat
  OBVIOUS
<1>2. Strip(values) = Keeping(values, NotGrease)
  <2>1. {n \in DOMAIN values : ~IsGrease(values[n])} = {n \in DOMAIN values : values[n] \in NotGrease}
    BY <1>1 DEF NotGrease
  <2> QED
    BY <2>1 DEF Strip, Keep, Keeping
<1> DEFINE s == Strip(values)
<1>3. s \in Seq(Nat)
  BY StripType
<1> HIDE DEF s
<1>4. Keep(s, LAMBDA x : x \notin {SNI, ALPN}) = Keeping(s, Others)
  <2>1. {n \in DOMAIN s : s[n] \notin {SNI, ALPN}} = {n \in DOMAIN s : s[n] \in Others}
    BY <1>1, <1>3 DEF Others
  <2> QED
    BY <2>1 DEF Keep, Keeping
<1>5. \A x \in Nat : x \in NotCounted <=> x \in NotGrease /\ x \in Others
  BY DEF NotCounted, Others, NotGrease
<1>6. Keeping(Keeping(values, NotGrease), Others) = Keeping(values, NotCounted)
  BY <1>5, KeepingTwice
<1> QED
  BY <1>2, <1>4, <1>6 DEF s

(* What is kept are the elements that pass. *)
LEMMA KeepingElements ==
  ASSUME NEW T, NEW s \in Seq(T), NEW S
  PROVE  \A x : x \in ToSet(Keeping(s, S)) <=> x \in ToSet(s) /\ x \in S
<1> DEFINE W == {x \in T : x \in ToSet(s) /\ x \in S}
           k == Keeping(s, S)
           U == {x \in T : x \in ToSet(s)}
<1>1. Len(s) \in Nat /\ DOMAIN s = 1 .. Len(s) /\ \A n \in 1 .. Len(s) : s[n] \in T
  OBVIOUS
<1>2. \A x : x \in ToSet(s) <=> \E n \in 1 .. Len(s) : s[n] = x
  BY <1>1 DEF ToSet
<1>3. s \in Seq(U)
  <2>1. \A n \in 1 .. Len(s) : s[n] \in U
    BY <1>1, <1>2
  <2>2. s = [n \in 1 .. Len(s) |-> s[n]]
    BY <1>1
  <2> HIDE DEF U
  <2>3. s \in [1 .. Len(s) -> U]
    BY ONLY <2>1, <2>2
  <2> QED
    BY ONLY <1>1, <2>3, SeqDef
<1>4. k \in Seq(W)
  <2>1. \A x \in U : x \in S => x \in W
    OBVIOUS
  <2> HIDE DEF U, W
  <2> QED
    BY ONLY <1>3, <2>1, KeepingType
<1>5. DOMAIN k = 1 .. Len(k) /\ \A n \in DOMAIN k : k[n] \in W
  BY ONLY <1>4
<1>6. \A n \in 1 .. Len(s) : s[n] \in S => \E i \in DOMAIN k : k[i] = s[n]
  BY KeepingHas
<1> HIDE DEF k
<1>7. \A x : x \in ToSet(k) <=> \E n \in DOMAIN k : k[n] = x
  BY DEF ToSet
<1>8. \A x : x \in ToSet(k) => x \in ToSet(s) /\ x \in S
  BY ONLY <1>5, <1>7 DEF W
<1>9. \A x : x \in ToSet(s) /\ x \in S => x \in ToSet(k)
  BY ONLY <1>2, <1>6, <1>7
<1> QED
  BY ONLY <1>8, <1>9 DEF k

(* The extensions that are not GREASE, in the client's own order. *)
Resumption(resumed) == IF resumed THEN <<PreSharedKey>> ELSE <<>>
Lasting(client, resumed, S) ==
  Keeping(client.extensions, S) \o Keeping(Resumption(resumed), S)

(* The same, of a first part and a rest. *)
LEMMA SortedEitherWay ==
  ASSUME NEW x \in Seq(Nat), NEW p \in Seq(Nat)
  PROVE  /\ Len(Reverse(x) \o p) = Len(x \o p)
         /\ Sorted(Reverse(x) \o p) = Sorted(x \o p)
<1> DEFINE k == Len(x)
           r == Reverse(x)
           s == x \o p
           t == r \o p
<1>1. r \in Seq(Nat) /\ Len(r) = k /\ k \in Nat /\ \A i \in 1 .. k : r[i] = x[(k - i) + 1]
  BY ReverseFacts
<1> HIDE DEF r
<1>2. s \in Seq(Nat) /\ Len(s) = k + Len(p) /\ Within(x, s, 0) /\ Within(p, s, k)
  BY ONLY x \in Seq(Nat), p \in Seq(Nat), PartsOfConcat DEF s, k
<1>3. t \in Seq(Nat) /\ Len(t) = k + Len(p) /\ Within(r, t, 0) /\ Within(p, t, k)
  <2>1. t \in Seq(Nat) /\ Len(t) = Len(r) + Len(p) /\ Within(r, t, 0) /\ Within(p, t, Len(r))
    BY ONLY <1>1, p \in Seq(Nat), PartsOfConcat DEF t
  <2> QED
    BY ONLY <1>1, <2>1
<1>4. Len(p) \in Nat
  OBVIOUS
<1> HIDE DEF s, t
<1>5. /\ \A i \in 1 .. k : s[i] = x[i] /\ t[i] = x[(k - i) + 1]
      /\ \A i \in 1 .. Len(p) : s[k + i] = p[i] /\ t[k + i] = p[i]
  <2>1. \A i \in 1 .. k : s[0 + i] = x[i] /\ t[0 + i] = r[i] /\ 0 + i = i
    BY ONLY <1>1, <1>2, <1>3 DEF Within, k
  <2>2. \A i \in 1 .. k : s[i] = x[i] /\ t[i] = r[i]
    BY ONLY <2>1
  <2>3. \A i \in 1 .. Len(p) : s[k + i] = p[i] /\ t[k + i] = p[i]
    BY ONLY <1>2, <1>3 DEF Within
  <2> QED
    BY ONLY <1>1, <2>2, <2>3
<1> HIDE DEF k
<1>6. ASSUME NEW n \in 1 .. Len(s) PROVE t[n] = s[TurnedAt(k, n)]
  <2>1. CASE n <= k
    <3>1. n \in 1 .. k /\ (k - n) + 1 \in 1 .. k
      BY <1>1, <1>2, <1>4, <2>1
    <3>2. TurnedAt(k, n) = (k - n) + 1
      BY ONLY <2>1 DEF TurnedAt
    <3> QED
      BY ONLY <1>5, <3>1, <3>2
  <2>2. CASE ~(n <= k)
    <3> DEFINE i == n - k
    <3>1. i \in 1 .. Len(p) /\ k + i = n
      BY <1>1, <1>2, <1>4, <2>2
    <3>2. TurnedAt(k, n) = n
      BY ONLY <2>2 DEF TurnedAt
    <3> HIDE DEF i
    <3> QED
      BY ONLY <1>5, <3>1, <3>2
  <2> QED
    BY ONLY <2>1, <2>2
<1>7. k \in 0 .. Len(s) /\ Len(t) = Len(s)
  BY ONLY <1>1, <1>2, <1>3, <1>4
<1>8. Sorted(t) = Sorted(s)
  BY ONLY <1>2, <1>3, <1>6, <1>7, SortedTurned
<1> QED
  BY ONLY <1>7, <1>8 DEF s, t, r

(* Picking from two parts, for every two. *)
LEMMA KeepingJoined ==
  ASSUME NEW T, NEW S
  PROVE  \A s, t \in Seq(T) : Keeping(s \o t, S) = Keeping(s, S) \o Keeping(t, S)
BY ONLY KeepingConcat, SMT

(* Two parts, for every two. *)
LEMMA Joins ==
  ASSUME NEW T
  PROVE  \A s, t \in Seq(T) : s \o t \in Seq(T)
BY ONLY ConcatType, SMT

(* Picking from four parts. *)
LEMMA KeepingFour ==
  ASSUME NEW S
  PROVE  \A p, q, r, t \in Seq(Nat) :
           Keeping(((p \o q) \o r) \o t, S) =
             ((Keeping(p, S) \o Keeping(q, S)) \o Keeping(r, S)) \o Keeping(t, S)
<1> DEFINE K(u) == Keeping(u, S)
<1>1. \A u, w \in Seq(Nat) : K(u \o w) = K(u) \o K(w)
  BY ONLY KeepingJoined DEF K
<1> HIDE DEF K
<1>2. \A u, w \in Seq(Nat) : u \o w \in Seq(Nat)
  BY ONLY Joins
<1>3. ASSUME NEW p \in Seq(Nat), NEW q \in Seq(Nat), NEW r \in Seq(Nat), NEW t \in Seq(Nat)
      PROVE  K(((p \o q) \o r) \o t) = ((K(p) \o K(q)) \o K(r)) \o K(t)
  <2> DEFINE x == p \o q
             y == x \o r
  <2>1. x \in Seq(Nat) /\ K(x) = K(p) \o K(q)
    BY ONLY p \in Seq(Nat), q \in Seq(Nat), <1>1, <1>2 DEF x
  <2> HIDE DEF x
  <2>2. y \in Seq(Nat) /\ K(y) = K(x) \o K(r)
    BY ONLY r \in Seq(Nat), <1>1, <1>2, <2>1 DEF y
  <2> HIDE DEF y
  <2>3. K(y \o t) = K(y) \o K(t)
    BY ONLY t \in Seq(Nat), <1>1, <2>2
  <2> QED
    BY ONLY <2>1, <2>2, <2>3 DEF x, y
<1> QED
  BY ONLY <1>3 DEF K

(* Without the visit's GREASE, the extensions are the client's, sorted. *)
LEMMA LastingKept ==
  ASSUME NEW client \in ClientType, NEW v \in VisitType, NEW S, v.grease \notin S
  PROVE  /\ Len(Keeping(ExtensionIds(client, v), S)) = Len(Lasting(client, v.resumed, S))
         /\ Sorted(Keeping(ExtensionIds(client, v), S)) = Sorted(Lasting(client, v.resumed, S))
<1> DEFINE e == client.extensions
           a == IF client.permutes /\ v.flipped THEN Reverse(e) ELSE e
           b == Resumption(v.resumed)
           c == IF client.grease THEN <<v.grease>> ELSE <<>>
           K(s) == Keeping(s, S)
           ids == ExtensionIds(client, v)
<1>1. e \in Seq(Nat) /\ v.grease \in Nat
  <2>1. SaysHello(client)
    BY ClientFacts
  <2> QED
    BY <2>1, VisitFacts DEF SaysHello
<1>2. a \in Seq(Nat)
  <2>1. Reverse(e) \in Seq(Nat)
    BY ONLY <1>1, ReverseType
  <2> QED
    BY ONLY <1>1, <2>1
<1>3. b \in Seq(Nat)
  <2>1. PreSharedKey \in Nat
    BY DEF PreSharedKey
  <2> QED
    BY <2>1 DEF Resumption
<1>4. c \in Seq(Nat) /\ c \in Seq({v.grease}) /\ c \o <<>> = c
  <2>1. <<v.grease>> \in Seq(Nat) /\ <<v.grease>> \in Seq({v.grease})
    BY <1>1
  <2>2. <<>> \in Seq(Nat) /\ <<>> \in Seq({v.grease})
    OBVIOUS
  <2>3. c \in Seq(Nat) /\ c \in Seq({v.grease})
    BY ONLY <2>1, <2>2
  <2> HIDE DEF c
  <2> QED
    BY <2>3
<1>5. ids = ((c \o a) \o c) \o b
  <2>1. ids = ((c \o a) \o (c \o <<>>)) \o b
    BY DEF ExtensionIds, Greased, Resumption
  <2> HIDE DEF a, b, c, ids
  <2> QED
    BY ONLY <1>4, <2>1
<1>6. K(c) = <<>>
  <2>1. {v.grease} \cap S = {}
    OBVIOUS
  <2> HIDE DEF c
  <2> QED
    BY ONLY <1>4, <2>1, KeepingNone
<1> HIDE DEF a, b, c, e
<1>7. K(((c \o a) \o c) \o b) = ((K(c) \o K(a)) \o K(c)) \o K(b)
  <2>1. c \in Seq(Nat) /\ a \in Seq(Nat) /\ b \in Seq(Nat)
    BY ONLY <1>2, <1>3, <1>4
  <2> DEFINE J(p, q, r, t) == K(((p \o q) \o r) \o t) = ((K(p) \o K(q)) \o K(r)) \o K(t)
  <2>2. \A p, q, r, t \in Seq(Nat) : J(p, q, r, t)
    BY ONLY KeepingFour DEF J, K
  <2> HIDE DEF J
  <2>3. J(c, a, c, b)
    BY ONLY <2>1, <2>2
  <2> QED
    BY ONLY <2>3 DEF J
<1>8. K(a) \in Seq(Nat) /\ K(b) \in Seq(Nat) /\ K(e) \in Seq(Nat)
  BY ONLY <1>1, <1>2, <1>3, KeepingType
<1>9. K(ids) = K(a) \o K(b)
  <2>1. (<<>> \o K(a)) \o <<>> = K(a)
    <3> HIDE DEF K
    <3> QED
      BY ONLY <1>8
  <2> HIDE DEF K, ids
  <2> QED
    BY ONLY <1>5, <1>6, <1>7, <2>1
<1>10. K(a) = K(e) \/ K(a) = Reverse(K(e))
  <2>1. K(Reverse(e)) = Reverse(K(e))
    BY ONLY <1>1, KeepingReverse
  <2>2. a = e \/ a = Reverse(e)
    BY DEF a
  <2> QED
    BY ONLY <2>1, <2>2
<1>11. Lasting(client, v.resumed, S) = K(e) \o K(b)
  BY DEF Lasting, e, b
<1> HIDE DEF K, ids
<1>12. /\ Len(Reverse(K(e)) \o K(b)) = Len(K(e) \o K(b))
       /\ Sorted(Reverse(K(e)) \o K(b)) = Sorted(K(e) \o K(b))
  BY ONLY <1>8, SortedEitherWay
<1>13. Len(K(ids)) = Len(K(e) \o K(b)) /\ Sorted(K(ids)) = Sorted(K(e) \o K(b))
  BY ONLY <1>9, <1>10, <1>12
<1> QED
  BY ONLY <1>11, <1>13 DEF K, ids

(* The ids of what is read. *)
LEMMA IdsRead ==
  ASSUME NEW client \in ClientType, NEW v \in VisitType, NEW exts, ExtensionsAre(exts, client, v)
  PROVE  Ids(exts) = ExtensionIds(client, v)
<1> DEFINE ids == ExtensionIds(client, v)
<1>1. /\ exts \in Seq(ExtensionType) /\ Len(exts) = Len(ids)
      /\ \A n \in 1 .. Len(ids) : exts[n].id = ids[n]
  BY DEF ExtensionsAre
<1>2. ids \in Seq(Number16)
  BY IdsFit
<1> HIDE DEF ids
<1>3. DOMAIN exts = 1 .. Len(ids) /\ ids = [n \in 1 .. Len(ids) |-> ids[n]]
  BY <1>1, <1>2
<1>4. Ids(exts) = [n \in 1 .. Len(ids) |-> exts[n].id]
  BY ONLY <1>3 DEF Ids
<1> QED
  BY ONLY <1>1, <1>3, <1>4 DEF ids

(* What a sequence holds, joined or turned around. *)
LEMMA HeldByConcat ==
  ASSUME NEW T, NEW s \in Seq(T), NEW t \in Seq(T)
  PROVE  \A x : x \in ToSet(s \o t) <=> x \in ToSet(s) \/ x \in ToSet(t)
<1> DEFINE u == s \o t
           M == Len(s)
           N == Len(t)
<1>1. M \in Nat /\ N \in Nat /\ DOMAIN s = 1 .. M /\ DOMAIN t = 1 .. N
  OBVIOUS
<1>2. u \in Seq(T) /\ Len(u) = M + N /\ Within(s, u, 0) /\ Within(t, u, M)
  BY PartsOfConcat
<1>3. DOMAIN u = 1 .. Len(u)
  BY <1>2
<1>4. /\ \A x : x \in ToSet(s) <=> \E i \in 1 .. M : s[i] = x
      /\ \A x : x \in ToSet(t) <=> \E i \in 1 .. N : t[i] = x
      /\ \A x : x \in ToSet(u) <=> \E i \in 1 .. (M + N) : u[i] = x
  <2> HIDE DEF u, M, N
  <2> QED
    BY ONLY <1>1, <1>2, <1>3 DEF ToSet
<1>5. /\ \A i \in 1 .. M : u[i] = s[i]
      /\ \A i \in 1 .. N : u[M + i] = t[i]
  <2>1. \A i \in 1 .. M : u[0 + i] = s[i] /\ 0 + i = i
    BY ONLY <1>1, <1>2 DEF Within, M
  <2>2. \A i \in 1 .. M : u[i] = s[i]
    BY ONLY <2>1
  <2> QED
    BY ONLY <1>2, <2>2 DEF Within, N
<1> HIDE DEF u, M, N
<1>6. \A i \in 1 .. (M + N) : i \in 1 .. M \/ \E j \in 1 .. N : i = M + j
  <2> SUFFICES ASSUME NEW i \in 1 .. (M + N), i \notin 1 .. M PROVE \E j \in 1 .. N : i = M + j
    OBVIOUS
  <2>1. i - M \in 1 .. N /\ i = M + (i - M)
    BY <1>1
  <2> QED
    BY ONLY <2>1
<1>7. \A i \in 1 .. M : i \in 1 .. (M + N)
  BY ONLY <1>1
<1>8. \A j \in 1 .. N : M + j \in 1 .. (M + N)
  BY ONLY <1>1
<1>9. \A x : x \in ToSet(u) <=> x \in ToSet(s) \/ x \in ToSet(t)
  BY ONLY <1>4, <1>5, <1>6, <1>7, <1>8
<1> QED
  BY ONLY <1>9 DEF u

(* The same, for every two. *)
LEMMA HeldByJoined ==
  ASSUME NEW T
  PROVE  \A s, t \in Seq(T) : \A x : x \in ToSet(s \o t) <=> x \in ToSet(s) \/ x \in ToSet(t)
BY ONLY HeldByConcat, SMT

(* What four parts hold. *)
LEMMA HeldByFour ==
  \A p, q, r, t \in Seq(Number16) : \A x :
           x \in ToSet(((p \o q) \o r) \o t) <=>
             x \in ToSet(p) \/ x \in ToSet(q) \/ x \in ToSet(r) \/ x \in ToSet(t)
<1> DEFINE K(u, z) == z \in ToSet(u)
<1>1. \A u, w \in Seq(Number16) : \A z : K(u \o w, z) <=> K(u, z) \/ K(w, z)
  BY ONLY HeldByJoined DEF K
<1> HIDE DEF K
<1>2. \A u, w \in Seq(Number16) : u \o w \in Seq(Number16)
  BY ONLY Joins
<1>3. ASSUME NEW p \in Seq(Number16), NEW q \in Seq(Number16), NEW r \in Seq(Number16), NEW t \in Seq(Number16), NEW z
      PROVE  K(((p \o q) \o r) \o t, z) <=> K(p, z) \/ K(q, z) \/ K(r, z) \/ K(t, z)
  <2> DEFINE x == p \o q
             y == x \o r
  <2>1. x \in Seq(Number16) /\ (K(x, z) <=> K(p, z) \/ K(q, z))
    BY ONLY p \in Seq(Number16), q \in Seq(Number16), <1>1, <1>2 DEF x
  <2> HIDE DEF x
  <2>2. y \in Seq(Number16) /\ (K(y, z) <=> K(x, z) \/ K(r, z))
    BY ONLY r \in Seq(Number16), <1>1, <1>2, <2>1 DEF y
  <2> HIDE DEF y
  <2>3. K(y \o t, z) <=> K(y, z) \/ K(t, z)
    BY ONLY t \in Seq(Number16), <1>1, <2>2
  <2> QED
    BY ONLY <2>1, <2>2, <2>3 DEF x, y
<1> QED
  BY ONLY <1>3 DEF K

(* Turned around, a sequence holds the same. *)
LEMMA HeldByReverse ==
  ASSUME NEW T, NEW s \in Seq(T)
  PROVE  \A x : x \in ToSet(Reverse(s)) <=> x \in ToSet(s)
<1> DEFINE N == Len(s)
           r == Reverse(s)
           at(i) == (N - i) + 1
<1>1. N \in Nat /\ r \in Seq(T) /\ Len(r) = N /\ \A i \in 1 .. N : r[i] = s[at(i)]
  BY ReverseFacts
<1>2. DOMAIN s = 1 .. N
  OBVIOUS
<1> HIDE DEF r, N
<1>3. DOMAIN r = 1 .. N
  BY <1>1
<1>4. \A i \in 1 .. N : at(i) \in 1 .. N /\ at(at(i)) = i
  BY ONLY <1>1 DEF at
<1> HIDE DEF at
<1>5. \A i \in 1 .. N : r[at(i)] = s[i]
  BY ONLY <1>1, <1>4
<1>6. /\ \A x : x \in ToSet(s) <=> \E i \in 1 .. N : s[i] = x
      /\ \A x : x \in ToSet(r) <=> \E i \in 1 .. N : r[i] = x
  BY ONLY <1>2, <1>3 DEF ToSet
<1>7. \A x : x \in ToSet(r) <=> x \in ToSet(s)
  BY ONLY <1>1, <1>4, <1>5, <1>6
<1> QED
  BY ONLY <1>7 DEF r

(* The extensions JA4 looks into are neither GREASE nor what resumes. *)
LookedInto == {SNI, SigAlgs, ALPN, SupportedVersions}

(* They are in every hello of a client or in none. *)
LEMMA LookedIntoLasts ==
  ASSUME NEW client \in ClientType, NEW v \in VisitType, NEW x \in LookedInto
  PROVE  x \in ToSet(ExtensionIds(client, v)) <=> x \in ToSet(client.extensions)
<1> DEFINE e == client.extensions
           a == IF client.permutes /\ v.flipped THEN Reverse(e) ELSE e
           b == IF v.resumed THEN <<PreSharedKey>> ELSE <<>>
           c == IF client.grease THEN <<v.grease>> ELSE <<>>
           d == c \o <<>>
           ids == ExtensionIds(client, v)
<1>1. x # v.grease /\ x # PreSharedKey
  <2>1. ~IsGrease(x) /\ x # PreSharedKey
    <3>1. ~IsGrease(0) /\ ~IsGrease(13) /\ ~IsGrease(16) /\ ~IsGrease(43)
      BY SMT DEF IsGrease
    <3> QED
      BY <3>1 DEF LookedInto, SNI, SigAlgs, ALPN, SupportedVersions, PreSharedKey
  <2>2. IsGrease(v.grease)
    BY VisitFacts
  <2> QED
    BY ONLY <2>1, <2>2
<1>2. e \in Seq(Number16) /\ v.grease \in Number16 /\ PreSharedKey \in Number16
  BY ClientFacts, VisitFacts DEF PreSharedKey, Number16
<1>3. a \in Seq(Number16) /\ (x \in ToSet(a) <=> x \in ToSet(e))
  <2>1. Reverse(e) \in Seq(Number16)
    BY ONLY <1>2, ReverseType
  <2>2. x \in ToSet(Reverse(e)) <=> x \in ToSet(e)
    BY ONLY <1>2, HeldByReverse
  <2> QED
    BY ONLY <1>2, <2>1, <2>2 DEF a
<1>4. b \in Seq(Number16) /\ x \notin ToSet(b)
  <2>1. <<PreSharedKey>> \in Seq(Number16) /\ <<>> \in Seq(Number16)
    BY ONLY <1>2
  <2>2. x \notin ToSet(<<PreSharedKey>>) /\ x \notin ToSet(<<>>)
    BY ONLY <1>1 DEF ToSet
  <2> QED
    BY ONLY <2>1, <2>2
<1>5. c \in Seq(Number16) /\ d \in Seq(Number16) /\ x \notin ToSet(c) /\ x \notin ToSet(d)
  <2>1. <<v.grease>> \in Seq(Number16) /\ <<>> \in Seq(Number16)
    BY ONLY <1>2
  <2>2. x \notin ToSet(<<v.grease>>) /\ x \notin ToSet(<<>>)
    BY ONLY <1>1 DEF ToSet
  <2>3. c \in Seq(Number16) /\ x \notin ToSet(c)
    BY ONLY <2>1, <2>2
  <2> HIDE DEF c
  <2>4. d = c
    BY <2>3
  <2> QED
    BY ONLY <2>3, <2>4
<1>6. ids = ((c \o a) \o d) \o b
  BY DEF ExtensionIds, Greased
<1> HIDE DEF a, b, c, d, e
<1>7. x \in ToSet(((c \o a) \o d) \o b) <=> x \in ToSet(e)
  <2>1. c \in Seq(Number16) /\ a \in Seq(Number16) /\ d \in Seq(Number16) /\ b \in Seq(Number16)
    BY ONLY <1>3, <1>4, <1>5
  <2> DEFINE K(u, z) == z \in ToSet(u)
  <2>2. \A p, q, r, t \in Seq(Number16) : \A z :
          K(((p \o q) \o r) \o t, z) <=> K(p, z) \/ K(q, z) \/ K(r, z) \/ K(t, z)
    BY ONLY HeldByFour DEF K
  <2>3. ~K(c, x) /\ ~K(d, x) /\ ~K(b, x) /\ (K(a, x) <=> K(e, x))
    BY ONLY <1>3, <1>4, <1>5 DEF K
  <2> HIDE DEF K
  <2>4. K(((c \o a) \o d) \o b, x) <=> K(e, x)
    BY ONLY <2>1, <2>2, <2>3
  <2> QED
    BY ONLY <2>4 DEF K
<1>8. x \in ToSet(ids) <=> x \in ToSet(e)
  BY ONLY <1>6, <1>7
<1> QED
  BY ONLY <1>8 DEF ids, e

(* What is read of them is what the client wrote. *)
LEMMA HasOfClient ==
  ASSUME NEW client \in ClientType, NEW v \in VisitType, NEW exts, ExtensionsAre(exts, client, v),
         NEW x \in LookedInto
  PROVE  /\ HasExtension(exts, x) <=> x \in ToSet(client.extensions)
         /\ HasExtension(exts, x) => BodyOf(exts, x) = ExtensionBody(client, v.grease, x)
<1> DEFINE ids == ExtensionIds(client, v)
           body(y) == ExtensionBody(client, v.grease, y)
           E == {e \in ExtensionType : e.body = body(e.id)}
           S == {e \in E : e.id = x}
           k == Keep(exts, LAMBDA e : e.id = x)
<1>1. /\ exts \in Seq(ExtensionType) /\ Len(exts) = Len(ids)
      /\ \A n \in 1 .. Len(ids) : exts[n].id = ids[n] /\ exts[n].body = body(ids[n])
  BY DEF ExtensionsAre
<1>2. Ids(exts) = ids
  BY IdsRead
<1>3. HasExtension(exts, x) <=> x \in ToSet(client.extensions)
  BY <1>2, LookedIntoLasts DEF HasExtension
<1> HIDE DEF ids, body
<1>4. /\ Len(exts) \in Nat /\ DOMAIN exts = 1 .. Len(exts) /\ exts = [n \in 1 .. Len(exts) |-> exts[n]]
      /\ \A n \in 1 .. Len(exts) : exts[n] \in ExtensionType
  BY <1>1
<1>5. \A n \in 1 .. Len(exts) : exts[n] \in E
  BY ONLY <1>1, <1>4 DEF E
<1>6. exts \in Seq(E)
  <2> HIDE DEF E
  <2>1. exts \in [1 .. Len(exts) -> E]
    BY ONLY <1>4, <1>5
  <2> QED
    BY ONLY <1>4, <2>1, SeqDef
<1>7. k = Keeping(exts, S)
  <2>1. {n \in DOMAIN exts : exts[n].id = x} = {n \in DOMAIN exts : exts[n] \in S}
    <3> HIDE DEF E
    <3> QED
      BY ONLY <1>4, <1>5 DEF S
  <2> QED
    BY ONLY <2>1 DEF Keep, Keeping, k
<1>8. k \in Seq(S)
  <2> HIDE DEF S, E, k
  <2>1. \A e \in E : e \in S => e \in S
    OBVIOUS
  <2> QED
    BY ONLY <1>6, <1>7, <2>1, KeepingType
<1>9. HasExtension(exts, x) => BodyOf(exts, x) = body(x)
  <2> SUFFICES ASSUME HasExtension(exts, x) PROVE BodyOf(exts, x) = body(x)
    OBVIOUS
  <2>1. PICK n \in 1 .. Len(exts) : exts[n].id = x
    BY <1>4 DEF HasExtension, ToSet, Ids
  <2>2. exts[n] \in S
    <3> HIDE DEF E
    <3> QED
      BY ONLY <1>5, <2>1, n \in 1 .. Len(exts) DEF S
  <2> HIDE DEF k, S
  <2>3. \E i \in DOMAIN k : k[i] = exts[n]
    <3> HIDE DEF E
    <3> QED
      BY ONLY <1>6, <1>7, <2>2, n \in 1 .. Len(exts), KeepingHas
  <2>4. 1 \in DOMAIN k
    BY ONLY <1>8, <2>3
  <2>5. k[1] \in S
    BY ONLY <1>8, <2>4
  <2>6. k[1].body = body(x)
    BY ONLY <2>5 DEF S, E
  <2> QED
    BY ONLY <2>6 DEF BodyOf, k
<1> QED
  BY ONLY <1>3, <1>9 DEF body

-----------------------------------------------------------------------------
(* The list of an extension that holds one, as the client writes it. *)
Listed(client, grease, x, width) ==
  IF x \in ToSet(client.extensions) THEN ListBehind(width, ExtensionBody(client, grease, x)) ELSE None

(* So is the list in one. *)
LEMMA ListedRead ==
  ASSUME NEW client \in ClientType, NEW v \in VisitType, NEW h, HelloIs(h, client, v),
         NEW x \in LookedInto, NEW width
  PROVE  /\ HasExtension(h.extensions, x) <=> x \in ToSet(client.extensions)
         /\ ListIn(h.extensions, x, width) = Listed(client, v.grease, x, width)
<1>1. CASE client.extensions = <<>>
  <2>1. h.extensions = <<>>
    BY <1>1 DEF HelloIs
  <2>2. ~HasExtension(h.extensions, x) /\ x \notin ToSet(client.extensions)
    BY ONLY <1>1, <2>1 DEF HasExtension, Ids, ToSet
  <2> QED
    BY ONLY <2>2 DEF ListIn, Listed
<1>2. CASE client.extensions # <<>>
  <2>1. ExtensionsAre(h.extensions, client, v)
    BY <1>2 DEF HelloIs
  <2> DEFINE exts == h.extensions
             has == x \in ToSet(client.extensions)
             body == ExtensionBody(client, v.grease, x)
  <2>2. (HasExtension(exts, x) <=> has) /\ (HasExtension(exts, x) => BodyOf(exts, x) = body)
    BY <2>1, HasOfClient
  <2>3. ListIn(exts, x, width) = IF HasExtension(exts, x) THEN ListBehind(width, BodyOf(exts, x)) ELSE None
    BY ONLY DEF ListIn
  <2>4. Listed(client, v.grease, x, width) = IF has THEN ListBehind(width, body) ELSE None
    BY ONLY DEF Listed, has, body
  <2> HIDE DEF exts, has, body
  <2>5. ListIn(exts, x, width) = Listed(client, v.grease, x, width)
    BY ONLY <2>2, <2>3, <2>4
  <2> QED
    BY ONLY <2>2, <2>5 DEF exts, has
<1> QED
  BY ONLY <1>1, <1>2

(* What it writes there without GREASE is the same whatever the GREASE. *)
LEMMA ListedWithoutGrease ==
  ASSUME NEW client, NEW grease, NEW x \in {SigAlgs, ALPN}, NEW width
  PROVE  Listed(client, grease, x, width) = Listed(client, 0, x, width)
<1>1. ExtensionBody(client, grease, SigAlgs) = ExtensionBody(client, 0, SigAlgs)
  BY DEF ExtensionBody, SigAlgs, ALPN, SupportedVersions
<1>2. ExtensionBody(client, grease, ALPN) = ExtensionBody(client, 0, ALPN)
  BY DEF ExtensionBody, ALPN
<1>3. ExtensionBody(client, grease, x) = ExtensionBody(client, 0, x)
  BY ONLY <1>1, <1>2, x \in {SigAlgs, ALPN}
<1> QED
  BY ONLY <1>3 DEF Listed

(* The list of versions. *)
LEMMA VersionsListed ==
  ASSUME NEW client, NEW grease \in Number16
  PROVE  ListBehind(1, ExtensionBody(client, grease, SupportedVersions)) =
           Some(Numbers(<<grease, 772, 771>>))
<1> DEFINE s == Numbers(<<grease, 772, 771>>)
           b == ExtensionBody(client, grease, SupportedVersions)
           a == << 6 >>
<1>1. b = List8(s)
  BY DEF ExtensionBody, ALPN, SupportedVersions, SigAlgs, Groups, PointFormats
<1>2. s \in Seq(Octet) /\ Len(s) = 6
  <2> DEFINE values == <<grease, 772, 771>>
  <2>1. 772 \in Number16 /\ 771 \in Number16
    BY DEF Number16
  <2>2. values \in Seq(Number16) /\ Len(values) = 3
    BY <2>1
  <2> HIDE DEF values
  <2>3. NumbersAre(Numbers(values), values)
    BY ONLY <2>2, NumbersRead
  <2> QED
    BY ONLY <2>2, <2>3, 2 * 3 = 6 DEF NumbersAre, s, values
<1> HIDE DEF s, b
<1>3. 6 % 256 = 6 /\ 6 \in Octet
  <2>1. 6 % 256 = 6 /\ 6 \in 0 .. 255
    BY ONLY SMT
  <2> QED
    BY ONLY <2>1 DEF Octet
<1>4. b = a \o s
  BY ONLY <1>1, <1>2, <1>3 DEF List8, a
<1>5. a \in Seq(Octet) /\ Len(a) = 1 /\ a[1] = 6
  BY <1>3
<1> HIDE DEF a
<1>6. b \in Seq(Octet) /\ Len(b) = Len(a) + Len(s) /\ Within(a, b, 0) /\ Within(s, b, Len(a))
  BY ONLY <1>2, <1>4, <1>5, PartsOfConcat
<1>7. Len(b) = 7 /\ Within(s, b, 1)
  BY ONLY <1>2, <1>5, <1>6
<1>8. U8(b, 0) = 6
  <2>1. 1 \in 1 .. Len(a)
    BY ONLY <1>5
  <2>2. a[1] = b[0 + 1] /\ 0 + 1 = 1
    BY ONLY <1>6, <2>1, 0 + 1 = 1 DEF Within
  <2> QED
    BY ONLY <1>5, <2>2 DEF U8
<1>9. Take(b, 1, 6) = s
  <2>1. 1 \in Nat
    OBVIOUS
  <2>2. Take(b, 1, Len(s)) = s
    BY ONLY <1>2, <1>6, <1>7, <2>1, TakeIs
  <2> QED
    BY ONLY <1>2, <2>2
<1>10. Fits(b, 0, 1) /\ Fits(b, 1, 6)
  BY ONLY <1>7 DEF Fits
<1>11. ListBehind(1, b) = Some(s)
  BY ONLY <1>8, <1>9, <1>10 DEF ListBehind
<1> QED
  BY ONLY <1>11 DEF b, s

(* The version JA4 shows: the later of the client's two, or the old field. *)
LEMMA VersionRead ==
  ASSUME NEW client \in ClientType, NEW v \in VisitType, NEW h, HelloIs(h, client, v)
  PROVE  NegotiatedVersion(h) = IF SupportedVersions \in ToSet(client.extensions) THEN 772 ELSE 771
<1> DEFINE list == ListIn(h.extensions, SupportedVersions, 1)
           has == SupportedVersions \in ToSet(client.extensions)
           values == <<v.grease, 772, 771>>
           offered(l) == ToSet(Strip(U16s(OrEmpty(l))))
<1>1. list = Listed(client, v.grease, SupportedVersions, 1)
  BY ListedRead DEF LookedInto
<1>2. NegotiatedVersion(h) = IF offered(list) = {} THEN h.version ELSE Max(offered(list))
  BY DEF NegotiatedVersion, ListOf
<1>3. h.version = 771
  BY DEF HelloIs
<1>4. v.grease \in Number16 /\ IsGrease(v.grease)
  BY VisitFacts
<1>5. CASE ~has
  <2>1. list = None
    BY ONLY <1>1, <1>5 DEF Listed, has
  <2>2. U16s(OrEmpty(None)) = <<>>
    <3>1. OrEmpty(None) = <<>>
      BY ONLY DEF OrEmpty
    <3>2. U16s(<<>>) = <<>>
      BY DEF U16s
    <3> QED
      BY ONLY <3>1, <3>2
  <2>3. Strip(<<>>) = <<>>
    <3>1. <<>> \in Seq(Nat)
      OBVIOUS
    <3> QED
      BY ONLY <3>1, StripIs, KeepingEmpty
  <2>4. offered(list) = {}
    BY <2>1, <2>2, <2>3 DEF ToSet
  <2> HIDE DEF offered, list, has
  <2> QED
    BY ONLY <1>2, <1>3, <1>5, <2>4 DEF has
<1>6. CASE has
  <2>1. list = Some(Numbers(values))
    BY ONLY <1>1, <1>4, <1>6, VersionsListed DEF Listed, has, values
  <2>2. values \in Seq(Number16) /\ values \in Seq(Nat)
    <3>1. 772 \in Number16 /\ 771 \in Number16
      BY DEF Number16
    <3>2. values \in Seq(Number16)
      BY ONLY <1>4, <3>1 DEF values
    <3> HIDE DEF values
    <3>3. \A n \in Number16 : n \in Nat
      BY DEF Number16
    <3> QED
      BY <3>2, <3>3, Wider
  <2>3. \A x : x \in ToSet(values) <=> x \in {v.grease, 772, 771}
    BY DEF ToSet
  <2> HIDE DEF values, list
  <2>4. U16s(OrEmpty(list)) = values
    <3>1. NumbersAre(Numbers(values), values)
      BY ONLY <2>2, NumbersRead
    <3>2. OrEmpty(Some(Numbers(values))) = Numbers(values)
      BY ONLY DEF OrEmpty, Some, None, The
    <3> QED
      BY ONLY <2>1, <3>1, <3>2 DEF NumbersAre
  <2>5. \A x : x \in offered(list) <=> x \in ToSet(values) /\ x \in NotGrease
    <3>1. offered(list) = ToSet(Keeping(values, NotGrease))
      BY ONLY <2>2, <2>4, StripIs DEF offered
    <3>2. \A x : x \in ToSet(Keeping(values, NotGrease)) <=> x \in ToSet(values) /\ x \in NotGrease
      BY ONLY <2>2, KeepingElements
    <3> QED
      BY ONLY <3>1, <3>2
  <2>6. 772 \in NotGrease /\ 771 \in NotGrease /\ v.grease \notin NotGrease
    <3>1. ~IsGrease(772) /\ ~IsGrease(771)
      BY ONLY SMT DEF IsGrease
    <3> QED
      BY <1>4, <3>1 DEF NotGrease
  <2> HIDE DEF offered, has
  <2>7. offered(list) = {772, 771}
    BY ONLY <2>3, <2>5, <2>6
  <2>8. Max({772, 771}) = 772
    <3>1. \A x \in {772, 771} : (\A y \in {772, 771} : x >= y) <=> x = 772
      OBVIOUS
    <3> QED
      BY ONLY <3>1 DEF Max
  <2>9. {772, 771} # {}
    OBVIOUS
  <2> QED
    BY ONLY <1>2, <1>6, <2>7, <2>8, <2>9 DEF has
<1> QED
  BY ONLY <1>5, <1>6

(* The JA4 of a client: neither GREASE nor the order it picks is in it. *)
Ja4Of(client, resumed) ==
  LET offers(x) == x \in ToSet(client.extensions)
      lasting(S) == IF client.extensions = <<>> THEN <<>> ELSE Lasting(client, resumed, S)
      ciphers == Keeping(client.ciphers, NotGrease)
  IN  << [version |-> VersionLabel(IF offers(SupportedVersions) THEN 772 ELSE 771),
          sni |-> offers(SNI),
          ciphers |-> Count2(Len(ciphers)),
          extensions |-> Count2(Len(lasting(NotGrease))),
          alpn |-> AlpnChars({p \in UNION {ListBehind(1, l) : l \in Listed(client, 0, ALPN, 2)} :
                                IsText(p)})],
         Sorted(ciphers),
         << Sorted(lasting(NotCounted)), U16s(OrEmpty(Listed(client, 0, SigAlgs, 2))) >> >>

(* The ciphers, and the extensions but for the order they came in. *)
LEMMA CiphersStripped ==
  ASSUME NEW client \in ClientType, NEW v \in VisitType
  PROVE  Strip(Greased(client, v.grease, client.ciphers)) = Keeping(client.ciphers, NotGrease)
<1> DEFINE c == IF client.grease THEN <<v.grease>> ELSE <<>>
           e == client.ciphers
           K(s) == Keeping(s, NotGrease)
<1>1. e \in Seq(Nat) /\ v.grease \in Nat /\ v.grease \notin NotGrease
  BY ClientFacts, VisitFacts DEF SaysHello, NotGrease
<1>2. c \in Seq(Nat) /\ c \in Seq({v.grease})
  <2>1. <<v.grease>> \in Seq(Nat) /\ <<v.grease>> \in Seq({v.grease})
    BY ONLY <1>1
  <2>2. <<>> \in Seq(Nat) /\ <<>> \in Seq({v.grease})
    OBVIOUS
  <2> QED
    BY ONLY <2>1, <2>2
<1>3. Greased(client, v.grease, e) = c \o e
  BY DEF Greased
<1> HIDE DEF c, e
<1>4. K(c) = <<>>
  <2>1. {v.grease} \cap NotGrease = {}
    BY ONLY <1>1
  <2> QED
    BY ONLY <1>2, <2>1, KeepingNone
<1>5. K(c \o e) = K(c) \o K(e)
  BY ONLY <1>1, <1>2, KeepingJoined
<1>6. c \o e \in Seq(Nat) /\ K(e) \in Seq(Nat)
  BY ONLY <1>1, <1>2, ConcatType, KeepingType
<1>7. Strip(c \o e) = K(c \o e)
  BY ONLY <1>6, StripIs
<1>8. <<>> \o K(e) = K(e)
  <2> HIDE DEF K
  <2> QED
    BY ONLY <1>6
<1>9. Strip(c \o e) = K(e)
  BY ONLY <1>4, <1>5, <1>7, <1>8
<1> QED
  BY ONLY <1>3, <1>9 DEF e

(* What JA4 takes of the extensions. *)
LEMMA ExtensionsStripped ==
  ASSUME NEW client \in ClientType, NEW v \in VisitType, NEW h, HelloIs(h, client, v)
  PROVE  LET ids == Ids(h.extensions)
             lasting(S) == IF client.extensions = <<>> THEN <<>> ELSE Lasting(client, v.resumed, S)
         IN  /\ Len(Strip(ids)) = Len(lasting(NotGrease))
             /\ Sorted(Keep(Strip(ids), LAMBDA x : x \notin {SNI, ALPN})) = Sorted(lasting(NotCounted))
<1> DEFINE ids == Ids(h.extensions)
           counted == Keep(Strip(ids), LAMBDA x : x \notin {SNI, ALPN})
           lasting(S) == Lasting(client, v.resumed, S)
<1>1. CASE client.extensions = <<>>
  <2>1. h.extensions = <<>>
    BY <1>1 DEF HelloIs
  <2>2. ids = <<>> /\ ids \in Seq(Nat)
    BY ONLY <2>1 DEF Ids
  <2>3. Strip(ids) = <<>> /\ counted = <<>>
    <3>1. Strip(ids) = Keeping(ids, NotGrease) /\ counted = Keeping(ids, NotCounted)
      BY ONLY <2>2, StripIs
    <3> HIDE DEF counted
    <3> QED
      BY ONLY <2>2, <3>1, KeepingEmpty
  <2>4. Len(<<>>) = 0
    OBVIOUS
  <2> QED
    BY ONLY <1>1, <2>3, <2>4
<1>2. CASE client.extensions # <<>>
  <2>1. ExtensionsAre(h.extensions, client, v)
    BY <1>2 DEF HelloIs
  <2>2. ids = ExtensionIds(client, v) /\ ids \in Seq(Nat)
    <3>1. ids = ExtensionIds(client, v) /\ ids \in Seq(Number16)
      BY <2>1, IdsRead, IdsFit
    <3>2. \A n \in Number16 : n \in Nat
      BY DEF Number16
    <3> HIDE DEF ids
    <3> QED
      BY ONLY <3>1, <3>2, Wider
  <2>3. Strip(ids) = Keeping(ids, NotGrease) /\ counted = Keeping(ids, NotCounted)
    BY ONLY <2>2, StripIs
  <2>4. v.grease \notin NotGrease /\ v.grease \notin NotCounted
    BY VisitFacts DEF NotGrease, NotCounted
  <2> HIDE DEF ids, counted, lasting
  <2>5. Len(Keeping(ids, NotGrease)) = Len(lasting(NotGrease))
    BY ONLY client \in ClientType, v \in VisitType, <2>2, <2>4, LastingKept DEF lasting
  <2>6. Sorted(Keeping(ids, NotCounted)) = Sorted(lasting(NotCounted))
    BY ONLY client \in ClientType, v \in VisitType, <2>2, <2>4, LastingKept DEF lasting
  <2>7. Len(Strip(ids)) = Len(lasting(NotGrease)) /\ Sorted(counted) = Sorted(lasting(NotCounted))
    BY ONLY <2>3, <2>5, <2>6
  <2> QED
    BY ONLY <1>2, <2>7 DEF ids, counted, lasting
<1> QED
  BY ONLY <1>1, <1>2

(* What JA4 makes of a hello is the JA4 of the client. *)
LEMMA Ja4Read ==
  ASSUME NEW client \in ClientType, NEW v \in VisitType, NEW h, HelloIs(h, client, v)
  PROVE  Ja4(h) = Ja4Of(client, v.resumed)
<1> DEFINE exts == h.extensions
           offers(x) == x \in ToSet(client.extensions)
           lasting(S) == IF client.extensions = <<>> THEN <<>> ELSE Lasting(client, v.resumed, S)
           ciphers == Keeping(client.ciphers, NotGrease)
           text(found) == {p \in UNION {ListBehind(1, l) : l \in found} : IsText(p)}
<1>1. NegotiatedVersion(h) = IF offers(SupportedVersions) THEN 772 ELSE 771
  BY VersionRead
<1>2. HasExtension(exts, SNI) <=> offers(SNI)
  BY ListedRead DEF LookedInto
<1>3. ListIn(exts, SigAlgs, 2) = Listed(client, 0, SigAlgs, 2)
  <2>1. ListIn(exts, SigAlgs, 2) = Listed(client, v.grease, SigAlgs, 2)
    BY ListedRead DEF LookedInto
  <2> QED
    BY ONLY <2>1, ListedWithoutGrease
<1>4. ListIn(exts, ALPN, 2) = Listed(client, 0, ALPN, 2)
  <2>1. ListIn(exts, ALPN, 2) = Listed(client, v.grease, ALPN, 2)
    BY ListedRead DEF LookedInto
  <2> QED
    BY ONLY <2>1, ListedWithoutGrease
<1>5. Strip(h.ciphers) = ciphers
  <2>1. h.ciphers = Greased(client, v.grease, client.ciphers)
    BY DEF HelloIs
  <2> QED
    BY ONLY client \in ClientType, v \in VisitType, <2>1, CiphersStripped
<1>6. /\ Len(Strip(Ids(exts))) = Len(lasting(NotGrease))
      /\ Sorted(Keep(Strip(Ids(exts)), LAMBDA x : x \notin {SNI, ALPN})) = Sorted(lasting(NotCounted))
  BY ExtensionsStripped
<1> HIDE DEF exts, offers, lasting, ciphers
<1>7. Ja4A(h) = [version |-> VersionLabel(IF offers(SupportedVersions) THEN 772 ELSE 771),
                 sni |-> offers(SNI),
                 ciphers |-> Count2(Len(ciphers)),
                 extensions |-> Count2(Len(lasting(NotGrease))),
                 alpn |-> AlpnChars(text(Listed(client, 0, ALPN, 2)))]
  <2>1. Ja4A(h) = [version |-> VersionLabel(NegotiatedVersion(h)),
                   sni |-> HasExtension(exts, SNI),
                   ciphers |-> Count2(Len(Strip(h.ciphers))),
                   extensions |-> Count2(Len(Strip(Ids(exts)))),
                   alpn |-> AlpnChars(text(ListIn(exts, ALPN, 2)))]
    BY ONLY DEF Ja4A, FirstAlpn, text, exts
  <2>2. HasExtension(exts, SNI) = offers(SNI)
    <3>1. HasExtension(exts, SNI) \in BOOLEAN /\ offers(SNI) \in BOOLEAN
      BY ONLY DEF HasExtension, offers
    <3> QED
      BY ONLY <1>2, <3>1
  <2> HIDE DEF text
  <2> QED
    BY ONLY <1>1, <1>4, <1>5, <1>6, <2>1, <2>2
<1>8. Ja4B(h.ciphers) = Sorted(ciphers)
  BY ONLY <1>5 DEF Ja4B
<1>9. Ja4C(exts) = << Sorted(lasting(NotCounted)), U16s(OrEmpty(Listed(client, 0, SigAlgs, 2))) >>
  BY ONLY <1>3, <1>6 DEF Ja4C, SigAlgsOf, ListOf
<1>10. Ja4(h) = << Ja4A(h), Ja4B(h.ciphers), Ja4C(exts) >>
  BY ONLY DEF Ja4, exts
<1> QED
  BY ONLY <1>7, <1>8, <1>9, <1>10 DEF Ja4Of, offers, lasting, ciphers, text

(* So it is of whatever a report says of what was recorded of a hello. *)
LEMMA Ja4Reported ==
  ASSUME NEW client \in ClientType, NEW v \in VisitType, FitsInRecord(client, v),
         NEW tls \in FingerprintTls(Recorded(WriteHello(client, v)))
  PROVE  tls.ja4 = Ja4Of(client, v.resumed)
<1>1. PICK h \in ParseHello(Recorded(WriteHello(client, v))) : tls = TlsOf(h)
  BY DEF FingerprintTls
<1>2. HelloIs(h, client, v)
  BY <1>1, HelloIsRead
<1>3. Ja4(h) = Ja4Of(client, v.resumed)
  BY <1>2, Ja4Read
<1>4. tls.ja4 = Ja4(h)
  BY ONLY <1>1 DEF TlsOf
<1> QED
  BY ONLY <1>3, <1>4

-----------------------------------------------------------------------------
(* The inductive invariant *)

Users == {"capture", "check", "serve", "tower", "emulate"}
Stages == {"connect", "decode", "done"} \cup Users

(* What is being done, to whom, and with which profiles. *)
SceneInv ==
  /\ scene \in Scenes
  /\ stage \in Stages
  /\ stage \in Users => User = stage
  /\ IsSequence(samples) /\ Len(samples) <= scene.samples
  /\ db \in Seq(ProfileType)
  /\ \A n \in DOMAIN db : db[n].label # "unparsed"
  /\ User = "emulate" => db # <<>>

(* What came. *)
ConnectionInv ==
  /\ \A v \in visit : v \in VisitType
  /\ AtMostOne(visit)
  /\ stage \in Users \cup {"decode"} => visit # None
  /\ raw \in Seq(Octet) /\ Len(raw) <= MaxRecorded
  /\ flight \in Seq(Octet)

(* Whose hello it is that is being looked at. *)
HelloInv ==
  stage \in Users \cup {"decode"} =>
    \E v \in Visits : visit = Some(v) /\ raw = Recorded(WriteHello(Speaker, v))

(* What it was reduced to. *)
MadeOf(r, s) == r.tls \in FingerprintTls(s) /\ r.raw = Retain(s)
ReportInv ==
  /\ AtMostOne(report)
  /\ \A r \in report : Reported(r)
  /\ stage \in Users =>
       /\ report = None <=> ParseHello(raw) = None
       /\ \A r \in report : MadeOf(r, raw)

(* What was said of it. *)
ResultInv ==
  /\ AtMostOne(id) /\ AtMostOne(line)
  /\ \A i \in id : AtMostOne(i.best) /\ AtMostOne(i.mismatch)

(* What is written of it: of the report of a hello of the scene's client. *)
LineInv ==
  /\ stage # "done" => line = None
  /\ line # None =>
       /\ \E v \in scene.visits : raw = Recorded(WriteHello(scene.client, v))
       /\ \A r \in report : MadeOf(r, raw)
       /\ \A written \in line, r \in report, i \in id : written = Line(RecordOf(r, i))

(* What a sample says is what was said on the visit it names. *)
SampleOf(s) ==
  /\ s.visit \in scene.sampled
  /\ s.report.tls \in FingerprintTls(Recorded(WriteHello(scene.client, s.visit)))
SamplesInv == \A n \in DOMAIN samples : SampleOf(samples[n])

FpHeadersNow == IF report = None THEN UnparsedHeaders
                ELSE FpHeaders(The(report), Identify(The(report), db))

(* What the application behind serve is given. *)
AttachedInv ==
  /\ stage # "done" => attached = <<>>
  /\ stage = "done" /\ User = "serve" /\ attached # <<>> =>
       /\ visit # None
       /\ report = None <=> ParseHello(raw) = None
       /\ attached = UpstreamHeaders(Request, FpHeadersNow)

Inv == /\ SceneInv /\ ConnectionInv /\ DecoderInv /\ HelloInv
       /\ ReportInv /\ ResultInv /\ LineInv /\ AttachedInv /\ SamplesInv

(* A scene names its client, its visits and its profiles. *)
LEMMA SceneFacts ==
  ASSUME NEW s \in Scenes
  PROVE  /\ s.client \in ClientType /\ s.sampled \subseteq VisitType /\ s.samples \in Nat
         /\ s.visits \subseteq VisitType /\ s.db \in Seq(ProfileType)
         /\ s.use \in {"check", "serve", "tower", "emulate"}
         /\ \A n \in DOMAIN s.db : s.db[n].label # "unparsed"
         /\ s.use = "emulate" => s.samples > 0 \/ s.db # <<>>
         /\ \A v \in s.sampled \cup s.visits : FitsInRecord(s.client, v)
<1>1. s \in SceneType
  BY ScenesAssumption
<1>2. /\ s.client \in ClientType /\ s.sampled \in SUBSET VisitType /\ s.samples \in Nat
      /\ s.visits \in SUBSET VisitType /\ s.db \in Seq(ProfileType)
      /\ s.use \in {"check", "serve", "tower", "emulate"}
  BY <1>1 DEF SceneType
<1>3. /\ \A n \in DOMAIN s.db : s.db[n].label # "unparsed"
      /\ s.use = "emulate" => s.samples > 0 \/ s.db # <<>>
      /\ \A v \in s.sampled \cup s.visits : FitsInRecord(s.client, v)
  BY ScenesAssumption
<1> QED
  BY <1>2, <1>3

(* Init *)
LEMMA InitInv == Init => Inv
<1> SUFFICES ASSUME Init PROVE Inv
  OBVIOUS
<1>1. /\ scene \in Scenes /\ stage = "connect" /\ visit = {} /\ raw = <<>> /\ flight = <<>>
      /\ report = {} /\ samples = <<>> /\ db = scene.db
      /\ id = {} /\ attached = <<>> /\ line = {} /\ compared = <<>>
  BY DEF Init, None
<1>2. SceneInv
  <2>1. Len(samples) = 0 /\ IsSequence(samples)
    <3>1. <<>> \in Seq(Nat)
      OBVIOUS
    <3> QED
      BY <1>1, <3>1 DEF IsSequence
  <2>2. /\ scene.samples \in Nat /\ scene.db \in Seq(ProfileType)
        /\ \A n \in DOMAIN scene.db : scene.db[n].label # "unparsed"
        /\ scene.use = "emulate" => scene.samples > 0 \/ scene.db # <<>>
    BY <1>1, SceneFacts
  <2>3. User = "emulate" => db # <<>>
    BY <1>1, <2>1, <2>2 DEF User
  <2> QED
    BY <1>1, <2>1, <2>2, <2>3 DEF SceneInv, Stages, Users
<1>3. ConnectionInv
  <2>1. raw \in Seq(Octet) /\ flight \in Seq(Octet) /\ Len(raw) = 0
    BY <1>1
  <2> QED
    BY <1>1, <2>1, CapsAssumption DEF ConnectionInv, Users, AtMostOne
<1>4. DecoderInv
  BY DecoderStarts DEF Init
<1>5. ReportInv
  BY <1>1 DEF ReportInv, AtMostOne, Users
<1>6. ResultInv
  BY <1>1 DEF ResultInv, AtMostOne
<1>7. AttachedInv
  BY <1>1 DEF AttachedInv
<1>8. HelloInv /\ LineInv
  BY <1>1 DEF HelloInv, LineInv, Users, None
<1>9. SamplesInv
  BY <1>1 DEF SamplesInv
<1> QED
  BY <1>2, <1>3, <1>4, <1>5, <1>6, <1>7, <1>8, <1>9 DEF Inv

-----------------------------------------------------------------------------
(* Steps *)

(* The one element of a set is in it. *)
LEMMA TheOne ==
  ASSUME NEW S, S # None
  PROVE  The(S) \in S
BY DEF The, None

(* Who connects says hello. *)
LEMMA SpeakerSaysHello ==
  ASSUME SceneInv
  PROVE  SaysHello(Speaker)
<1>1. CASE User = "emulate"
  <2>1. Head(db) \in ProfileType
    <3>1. db \in Seq(ProfileType) /\ db # <<>>
      BY <1>1 DEF SceneInv
    <3> QED
      BY <3>1
  <2> QED
    BY <1>1, <2>1, BuildSaysHello DEF Speaker, Original
<1>2. CASE User # "emulate"
  <2>1. scene.client \in ClientType
    BY SceneFacts DEF SceneInv
  <2>2. SaysHello(scene.client)
    BY <2>1, ClientFacts
  <2> QED
    BY <1>2, <2>2 DEF Speaker
<1> QED
  BY <1>1, <1>2

(* What came is bytes. *)
LEMMA FlightIsBytes ==
  ASSUME SceneInv, NEW v \in VisitType
  PROVE  FlightOf(v) \in Seq(Octet)
<1>1. <<>> \in Seq(Octet)
  OBVIOUS
<1>2. User = "emulate" => EmulatedPreamble(Original) \in Seq(Octet)
  <2> SUFFICES ASSUME User = "emulate" PROVE EmulatedPreamble(Original) \in Seq(Octet)
    OBVIOUS
  <2>1. db \in Seq(ProfileType) /\ db # <<>>
    BY DEF SceneInv
  <2>2. Head(db) \in ProfileType
    BY <2>1
  <2> QED
    BY <2>2, EmulatedPreambleType DEF Original
<1>3. WriteFlight(scene.client, v) \in Seq(Octet)
  <2>1. scene.client \in ClientType
    BY SceneFacts DEF SceneInv
  <2> QED
    BY <2>1, WriteFlightType
<1> QED
  BY <1>1, <1>2, <1>3 DEF FlightOf

(* A visit of a scene is a visit. *)
LEMMA VisitsType ==
  ASSUME SceneInv
  PROVE  Visits \subseteq VisitType
BY SceneFacts DEF SceneInv, Visits

(* A recorded hello is bytes. *)
LEMMA RecordedType ==
  ASSUME NEW client, SaysHello(client), NEW v \in VisitType
  PROVE  /\ Recorded(WriteHello(client, v)) \in Seq(Octet)
         /\ Len(Recorded(WriteHello(client, v))) <= MaxRecorded
<1>1. v.grease \in Nat /\ v.hello \in {"whole", "split", "cut"}
  BY VisitFacts
<1>2. WriteHello(client, v) \in Seq(Octet)
  BY <1>1, HelloIsBytes
<1> QED
  BY <1>2, CapsAssumption, AtMostFacts DEF Recorded

(* Who speaks is settled by the scene, the samples taken and the profiles. *)
LEMMA WhoStays ==
  scene' = scene /\ samples' = samples /\ db' = db =>
    Visits' = Visits /\ Speaker' = Speaker /\ User' = User
BY DEF Visits, Speaker, User, Original

(* Before the end nothing is written. *)
LEMMA LineStays ==
  ASSUME LineInv, stage # "done", line' = line
  PROVE  LineInv'
BY DEF LineInv

(* Nor is anything sampled, before a report is. *)
LEMMA SamplesStay ==
  ASSUME SamplesInv, scene' = scene, samples' = samples
  PROVE  SamplesInv'
BY DEF SamplesInv, SampleOf

(* A connection leaves the decoder unused and nothing said. *)
LEMMA ConnectKeeps ==
  ASSUME Inv, Connect
  PROVE  Inv'
<1>0. /\ SceneInv /\ ConnectionInv /\ DecoderInv /\ HelloInv
      /\ ReportInv /\ ResultInv /\ LineInv /\ AttachedInv /\ SamplesInv
  BY DEF Inv
<1>1. /\ stage = "connect" /\ stage' = "decode" /\ scene' = scene /\ report' = report
      /\ samples' = samples /\ db' = db
      /\ id' = id /\ attached' = attached /\ line' = line /\ compared' = compared
  BY DEF Connect, resultVars
<1>2. PICK v \in Visits :
        /\ visit' = Some(v)
        /\ raw' = Recorded(WriteHello(Speaker, v))
        /\ flight' = FlightOf(v)
        /\ OpenBlock(OrEmpty({BlockOf(f) : f \in ParsePreamble(FlightOf(v))}))
  BY DEF Connect
<1>3. v \in VisitType
  BY <1>0, <1>2, VisitsType
<1>4. SceneInv'
  BY <1>0, <1>1 DEF SceneInv, User, Stages, Users
<1>5. ConnectionInv'
  <2>1. raw' \in Seq(Octet) /\ Len(raw') <= MaxRecorded
    BY <1>0, <1>2, <1>3, SpeakerSaysHello, RecordedType
  <2>2. flight' \in Seq(Octet)
    BY <1>0, <1>2, <1>3, FlightIsBytes
  <2>3. /\ \A w \in visit' : w \in VisitType
        /\ \A p, q \in visit' : p = q
        /\ visit' # {}
    BY <1>2, <1>3 DEF Some
  <2> QED
    BY <2>1, <2>2, <2>3 DEF ConnectionInv, AtMostOne, None
<1>6. DecoderInv'
  <2>1. FlightOf(v) \in Seq(Octet)
    BY <1>0, <1>3, FlightIsBytes
  <2>2. OrEmpty({BlockOf(f) : f \in ParsePreamble(FlightOf(v))}) \in Seq(Octet)
    BY <2>1, BlockIsBytes
  <2> QED
    BY <1>2, <2>2, BlockOpens
<1>7. ReportInv'
  BY <1>0, <1>1 DEF ReportInv, Users
<1>8. ResultInv'
  BY <1>0, <1>1 DEF ResultInv
<1>9. AttachedInv'
  BY <1>0, <1>1 DEF AttachedInv
<1>10. HelloInv'
  <2>1. Visits' = Visits /\ Speaker' = Speaker
    BY <1>1, WhoStays
  <2> QED
    BY <1>2, <2>1 DEF HelloInv
<1>11. LineInv'
  BY <1>0, <1>1, LineStays
<1>12. SamplesInv'
  BY <1>0, <1>1, SamplesStay
<1> QED
  BY <1>4, <1>5, <1>6, <1>7, <1>8, <1>9, <1>10, <1>11, <1>12 DEF Inv

(* The last step of a decoding leads on to what reports are used for. *)
LEMMA StageEnds ==
  ASSUME Inv, stage \in Stages \ {"done"}, stage' = "done",
         UNCHANGED <<scene, connectionVars, decoderVars, report, samples, db, resultVars>>
  PROVE  Inv'
<1>0. /\ SceneInv /\ ConnectionInv /\ DecoderInv /\ HelloInv
      /\ ReportInv /\ ResultInv /\ LineInv /\ AttachedInv /\ SamplesInv
  BY DEF Inv
<1>1. /\ stage # "done" /\ stage' = "done" /\ scene' = scene /\ visit' = visit /\ raw' = raw
      /\ flight' = flight /\ report' = report /\ samples' = samples /\ db' = db
      /\ id' = id /\ attached' = attached /\ line' = line /\ compared' = compared
  BY DEF connectionVars, resultVars
<1>2. SceneInv'
  BY <1>0, <1>1 DEF SceneInv, User, Stages, Users
<1>3. ConnectionInv'
  BY <1>0, <1>1 DEF ConnectionInv, Users
<1>4. DecoderInv'
  BY <1>0, DecoderStutters
<1>5. ReportInv'
  BY <1>0, <1>1 DEF ReportInv, Users
<1>6. ResultInv'
  BY <1>0, <1>1 DEF ResultInv
<1>7. AttachedInv'
  BY <1>0, <1>1 DEF AttachedInv
<1>8. HelloInv'
  BY <1>1 DEF HelloInv, Users
<1>9. LineInv'
  BY <1>0, <1>1, LineStays
<1>10. SamplesInv'
  BY <1>0, <1>1, SamplesStay
<1> QED
  BY <1>2, <1>3, <1>4, <1>5, <1>6, <1>7, <1>8, <1>9, <1>10 DEF Inv

(* A step of the decoder leaves everything else. *)
LEMMA DecodeStepKeeps ==
  ASSUME Inv, DecodeStep
  PROVE  Inv'
<1>0. /\ SceneInv /\ ConnectionInv /\ DecoderInv /\ HelloInv
      /\ ReportInv /\ ResultInv /\ LineInv /\ AttachedInv /\ SamplesInv
  BY DEF Inv
<1>1. /\ stage = "decode" /\ stage' = "decode" /\ scene' = scene /\ visit' = visit /\ raw' = raw
      /\ flight' = flight /\ report' = report /\ samples' = samples /\ db' = db
      /\ id' = id /\ attached' = attached /\ line' = line /\ compared' = compared
  BY DEF DecodeStep, connectionVars, resultVars
<1>2. SceneInv'
  BY <1>0, <1>1 DEF SceneInv, User, Stages, Users
<1>3. ConnectionInv'
  BY <1>0, <1>1 DEF ConnectionInv
<1>4. DecoderInv'
  BY <1>0, DecodeKeeps DEF DecodeStep
<1>5. ReportInv'
  BY <1>0, <1>1 DEF ReportInv, Users
<1>6. ResultInv'
  BY <1>0, <1>1 DEF ResultInv
<1>7. AttachedInv'
  BY <1>0, <1>1 DEF AttachedInv
<1>8. HelloInv'
  BY <1>0, <1>1, WhoStays DEF HelloInv
<1>9. LineInv'
  BY <1>0, <1>1, LineStays
<1>10. SamplesInv'
  BY <1>0, <1>1, SamplesStay
<1> QED
  BY <1>2, <1>3, <1>4, <1>5, <1>6, <1>7, <1>8, <1>9, <1>10 DEF Inv

(* A report is of what came. *)
LEMMA BuildReportKeeps ==
  ASSUME Inv, BuildReport
  PROVE  Inv'
<1>0. /\ SceneInv /\ ConnectionInv /\ DecoderInv /\ HelloInv
      /\ ReportInv /\ ResultInv /\ LineInv /\ AttachedInv /\ SamplesInv
  BY DEF Inv
<1> DEFINE h2 == {H2Of(frames, fields) : frames \in ParsePreamble(flight)}
           made(tls) == [tls |-> tls, raw |-> Retain(raw), h2 |-> h2, alpn |-> AlpnOf(The(visit))]
<1>1. /\ stage = "decode" /\ stage' = User /\ scene' = scene /\ visit' = visit /\ raw' = raw
      /\ flight' = flight /\ samples' = samples /\ db' = db
      /\ id' = id /\ attached' = attached /\ line' = line /\ compared' = compared
  BY DEF BuildReport, connectionVars, resultVars
<1>2. report' = {made(tls) : tls \in FingerprintTls(raw)}
  BY DEF BuildReport
<1>3. User \in Users
  <2>1. scene.use \in {"check", "serve", "tower", "emulate"}
    BY <1>0, SceneFacts DEF SceneInv
  <2> QED
    BY <2>1 DEF User, Users
<1>4. SceneInv'
  BY <1>0, <1>1, <1>3 DEF SceneInv, User, Stages, Users
<1>5. ConnectionInv'
  BY <1>0, <1>1 DEF ConnectionInv
<1>6. DecoderInv'
  <2>1. UNCHANGED decoderVars
    BY DEF BuildReport
  <2> QED
    BY <1>0, <2>1, DecoderStutters
<1>7. ReportInv'
  <2>1. /\ \A tls \in FingerprintTls(raw) : TlsTyped(tls)
        /\ AtMostOne(FingerprintTls(raw))
        /\ FingerprintTls(raw) = None <=> ParseHello(raw) = None
    BY <1>0, FingerprintTlsOne DEF ConnectionInv
  <2>2. ParsePreamble(flight) \subseteq Seq(FrameRecord) /\ AtMostOne(ParsePreamble(flight))
    BY <1>0, ParsePreambleOne DEF ConnectionInv
  <2>3. fields \in Seq(Entry)
    BY <1>0 DEF DecoderInv, DecoderTypeOK
  <2>4. \A h \in h2 : H2Typed(h)
    BY <2>2, <2>3, H2OfTyped
  <2>5. AtMostOne(h2)
    BY <2>2 DEF AtMostOne
  <2>6. \A tls \in FingerprintTls(raw) : Reported(made(tls)) /\ MadeOf(made(tls), raw)
    <3> HIDE DEF h2
    <3> SUFFICES ASSUME NEW tls \in FingerprintTls(raw) PROVE Reported(made(tls)) /\ MadeOf(made(tls), raw)
      OBVIOUS
    <3>1. made(tls).tls = tls /\ made(tls).h2 = h2 /\ made(tls).raw = Retain(raw)
      OBVIOUS
    <3> QED
      BY <2>1, <2>4, <2>5, <3>1 DEF Reported, MadeOf
  <2> HIDE DEF made
  <2>7. AtMostOne(report') /\ (report' = {} <=> FingerprintTls(raw) = {})
    BY <1>2, <2>1 DEF AtMostOne
  <2>8. \A r \in report' : Reported(r) /\ MadeOf(r, raw)
    BY <1>2, <2>6
  <2>9. AtMostOne(report)'
    BY <2>7 DEF AtMostOne
  <2> QED
    BY <1>1, <2>1, <2>7, <2>8, <2>9 DEF ReportInv, None
<1>8. ResultInv'
  BY <1>0, <1>1 DEF ResultInv
<1>9. AttachedInv'
  BY <1>0, <1>1, <1>3 DEF AttachedInv, Users
<1>10. HelloInv'
  BY <1>0, <1>1, WhoStays DEF HelloInv
<1>11. LineInv'
  BY <1>0, <1>1, LineStays
<1>12. SamplesInv'
  BY <1>0, <1>1, SamplesStay
<1> QED
  BY <1>4, <1>5, <1>6, <1>7, <1>8, <1>9, <1>10, <1>11, <1>12 DEF Inv

(* A capture adds a report to its samples and, with the last, a profile. *)
LEMMA SampleKeeps ==
  ASSUME Inv, Sample
  PROVE  Inv'
<1>0. /\ SceneInv /\ ConnectionInv /\ DecoderInv /\ HelloInv
      /\ ReportInv /\ ResultInv /\ LineInv /\ AttachedInv /\ SamplesInv
  BY DEF Inv
<1> DEFINE sample == [report |-> The(report), visit |-> The(visit)]
           reports == [n \in DOMAIN samples' |-> samples'[n].report]
           p == ProfileFrom(reports, Captured)
<1>1. /\ stage = "capture" /\ stage' = "connect" /\ scene' = scene /\ visit' = visit /\ raw' = raw
      /\ flight' = flight /\ report' = report
      /\ id' = id /\ attached' = attached /\ line' = line /\ compared' = compared
      /\ report # None
      /\ samples' = Append(samples, sample)
      /\ db' = IF Len(samples') < scene.samples THEN db ELSE Append(db, p)
  BY DEF Sample, connectionVars, resultVars
<1>2. /\ IsSequence(samples') /\ Len(samples') = Len(samples) + 1 /\ Len(samples) \in Nat
      /\ samples'[Len(samples')] = sample
  <2>1. IsSequence(samples)
    BY <1>0 DEF SceneInv
  <2> HIDE DEF sample
  <2>2. /\ IsSequence(Append(samples, sample)) /\ Len(Append(samples, sample)) = Len(samples) + 1
        /\ Append(samples, sample)[Len(samples) + 1] = sample
    BY <2>1, SequenceAppend
  <2> QED
    BY <1>1, <2>1, <2>2, SequenceLength
<1>3. Last(reports) = The(report)
  <2>1. DOMAIN samples' = 1 .. Len(samples')
    BY <1>2, SequenceLength
  <2>2. reports = [n \in 1 .. Len(samples') |-> samples'[n].report]
    BY <2>1
  <2>3. Len(samples') \in Nat /\ Len(samples') \in 1 .. Len(samples')
    BY <1>2
  <2> HIDE DEF reports
  <2>4. Len(reports) = Len(samples') /\ reports[Len(samples')] = samples'[Len(samples')].report
    BY <2>2, <2>3
  <2> QED
    BY <1>2, <2>4 DEF Last
<1>4. p \in ProfileType /\ p.label = "captured"
  <2>1. Reported(The(report))
    BY <1>0, <1>1, TheOne DEF ReportInv
  <2> HIDE DEF reports
  <2>2. Reported(Last(reports)) /\ Captured \in {"captured"}
    BY <1>3, <2>1 DEF Captured
  <2>3. ProfileFrom(reports, Captured) \in ProfileType /\ ProfileFrom(reports, Captured).label = Captured
    BY <2>2, ProfileFromType
  <2> QED
    BY <2>3 DEF Captured
<1> HIDE DEF p, reports, sample
<1>5. /\ Append(db, p) \in Seq(ProfileType) /\ Append(db, p) # <<>>
      /\ \A n \in DOMAIN Append(db, p) : Append(db, p)[n].label # "unparsed"
  <2>1. db \in Seq(ProfileType) /\ \A n \in DOMAIN db : db[n].label # "unparsed"
    BY <1>0 DEF SceneInv
  <2> DEFINE T == ProfileType
  <2>2. db \in Seq(T) /\ p \in T
    BY <1>4, <2>1
  <2> HIDE DEF T
  <2>3. Append(db, p) \in Seq(T) /\ Append(db, p) # <<>>
    <3>1. Append(db, p) \in Seq(T)
      BY <2>2
    <3>2. Len(Append(db, p)) = Len(db) + 1 /\ Len(db) \in Nat
      BY <2>2
    <3>3. Len(<<>>) = 0
      OBVIOUS
    <3> DEFINE a == Append(db, p)
    <3> HIDE DEF a
    <3>4. Len(a) # 0
      BY <3>2 DEF a
    <3>5. a # <<>>
      BY <3>3, <3>4
    <3> QED
      BY <3>1, <3>5 DEF a
  <2>4. Append(db, p) \in Seq(ProfileType) /\ Append(db, p) # <<>>
    BY <2>3 DEF T
  <2>5. \A n \in DOMAIN Append(db, p) : (n \in DOMAIN db /\ Append(db, p)[n] = db[n]) \/ Append(db, p)[n] = p
    BY <2>2
  <2> QED
    BY <1>4, <2>1, <2>4, <2>5
<1>6. Len(samples) < scene.samples /\ scene.samples \in Nat
  <2>1. User = "capture" /\ scene \in Scenes
    BY <1>0, <1>1 DEF SceneInv, Users
  <2>2. scene.use # "capture" /\ scene.samples \in Nat
    BY <2>1, SceneFacts
  <2> QED
    BY <2>1, <2>2 DEF User
<1>7. SceneInv'
  <2>1. IsSequence(samples)'
    BY <1>2 DEF IsSequence
  <2>2. Len(samples') <= scene.samples
    BY <1>2, <1>6
  <2>3. db' \in Seq(ProfileType) /\ \A n \in DOMAIN db' : db'[n].label # "unparsed"
    BY <1>0, <1>1, <1>5 DEF SceneInv
  <2>4. User' = "emulate" => db' # <<>>
    <3>1. scene.use = "emulate" /\ ~(Len(samples') < scene.samples) => db' # <<>>
      BY <1>1, <1>5
    <3> QED
      BY <1>1, <3>1 DEF User
  <2>5. scene' \in Scenes /\ stage' \in Stages /\ stage' \notin Users
    BY <1>0, <1>1 DEF SceneInv, Stages, Users
  <2> QED
    BY <1>1, <2>1, <2>2, <2>3, <2>4, <2>5 DEF SceneInv
<1>8. ConnectionInv'
  BY <1>0, <1>1 DEF ConnectionInv, Users
<1>9. DecoderInv'
  <2>1. UNCHANGED decoderVars
    BY DEF Sample
  <2> QED
    BY <1>0, <2>1, DecoderStutters
<1>10. ReportInv'
  BY <1>0, <1>1 DEF ReportInv, Users
<1>11. ResultInv'
  BY <1>0, <1>1 DEF ResultInv
<1>12. AttachedInv'
  BY <1>0, <1>1 DEF AttachedInv
<1>13. HelloInv'
  BY <1>1 DEF HelloInv, Users
<1>14. LineInv'
  BY <1>0, <1>1, LineStays
<1>15. SamplesInv'
  <2>1. User = "capture"
    BY <1>0, <1>1 DEF SceneInv, Users
  <2>2. User # "emulate"
    BY ONLY <2>1
  <2>3. Visits = scene.sampled /\ Speaker = scene.client
    BY ONLY <2>1, <2>2 DEF Visits, Speaker
  <2>4. PICK v \in scene.sampled : visit = Some(v) /\ raw = Recorded(WriteHello(scene.client, v))
    BY ONLY <1>0, <1>1, <2>3 DEF HelloInv, Users
  <2>5. The(visit) = v
    BY ONLY <2>4 DEF The, Some
  <2>6. The(report).tls \in FingerprintTls(raw)
    BY ONLY <1>0, <1>1, TheOne DEF ReportInv, Users, MadeOf
  <2>7. SampleOf(sample)
    BY ONLY <2>4, <2>5, <2>6 DEF SampleOf, sample
  <2>8. \A n \in DOMAIN samples : SampleOf(samples[n])
    BY ONLY <1>0 DEF SamplesInv
  <2>9. \A n \in DOMAIN samples' : samples'[n] = sample \/ (n \in DOMAIN samples /\ samples'[n] = samples[n])
    <3> DEFINE s == Append(samples, sample)
    <3>1. IsSequence(samples)
      BY ONLY <1>0 DEF SceneInv
    <3>2. \A n \in DOMAIN s : s[n] = sample \/ (n \in DOMAIN samples /\ s[n] = samples[n])
      BY ONLY <3>1, SequenceAppend DEF s
    <3>3. samples' = s
      BY ONLY <1>1 DEF s
    <3> HIDE DEF sample, s
    <3> QED
      BY ONLY <3>2, <3>3
  <2> HIDE DEF sample
  <2>10. \A n \in DOMAIN samples' : SampleOf(samples'[n])
    BY ONLY <2>7, <2>8, <2>9
  <2> QED
    BY ONLY <1>1, <2>10 DEF SamplesInv, SampleOf
<1> QED
  BY <1>7, <1>8, <1>9, <1>10, <1>11, <1>12, <1>13, <1>14, <1>15 DEF Inv

(* What ends a connection with something said of it. *)
LEMMA SayingKeeps ==
  ASSUME Inv, stage \in Users, stage' = "done",
         UNCHANGED <<scene, connectionVars, decoderVars, report, samples, db>>,
         ResultInv', LineInv', AttachedInv'
  PROVE  Inv'
<1>0. SceneInv /\ ConnectionInv /\ DecoderInv /\ ReportInv /\ SamplesInv
  BY DEF Inv
<1>1. /\ stage' = "done" /\ scene' = scene /\ visit' = visit /\ raw' = raw
      /\ flight' = flight /\ report' = report /\ samples' = samples /\ db' = db
  BY DEF connectionVars
<1>2. SceneInv'
  BY <1>0, <1>1 DEF SceneInv, User, Stages, Users
<1>3. ConnectionInv'
  BY <1>0, <1>1 DEF ConnectionInv, Users
<1>4. DecoderInv'
  BY <1>0, DecoderStutters
<1>5. ReportInv'
  BY <1>0, <1>1 DEF ReportInv, Users
<1>6. HelloInv'
  BY <1>1 DEF HelloInv, Users
<1>7. SamplesInv'
  BY <1>0, <1>1, SamplesStay
<1> QED
  BY <1>2, <1>3, <1>4, <1>5, <1>6, <1>7 DEF Inv

(* A verdict is reached, and is one. *)
LEMMA IdentifiedOne ==
  ASSUME Inv, NEW r \in report
  PROVE  AtMostOne(Identify(r, db).best) /\ AtMostOne(Identify(r, db).mismatch)
<1>1. AtMostOne(r.h2)
  BY DEF Inv, ReportInv, Reported
<1>2. DOMAIN db \subseteq Nat
  <2>1. db \in Seq(ProfileType)
    BY DEF Inv, SceneInv
  <2> QED
    BY <2>1
<1> QED
  BY <1>1, <1>2, IdentifyOne

(* A check ends with what it said. *)
LEMMA CheckKeeps ==
  ASSUME Inv, Check
  PROVE  Inv'
<1>1. /\ stage = "check" /\ report # None /\ stage' = "done" /\ id' = Some(Identify(The(report), db))
      /\ attached' = attached /\ line' = line
      /\ UNCHANGED <<scene, connectionVars, decoderVars, report, samples, db>>
  BY DEF Check
<1>2. ResultInv'
  <2>1. AtMostOne(line)
    BY DEF Inv, ResultInv
  <2> DEFINE i == Identify(The(report), db)
  <2>2. AtMostOne(i.best) /\ AtMostOne(i.mismatch)
    BY <1>1, TheOne, IdentifiedOne
  <2>3. id' = {i} /\ line' = line
    BY <1>1 DEF Some
  <2> HIDE DEF i
  <2> QED
    BY <2>1, <2>2, <2>3 DEF ResultInv, AtMostOne
<1>3. AttachedInv'
  <2>1. stage \in Users /\ SceneInv /\ attached = <<>>
    BY <1>1 DEF Inv, AttachedInv, Users
  <2> QED
    BY <1>1, <2>1 DEF AttachedInv
<1>4. LineInv'
  BY <1>1, LineStays DEF Inv
<1> QED
  BY <1>1, <1>2, <1>3, <1>4, SayingKeeps DEF Users

(* An emulation ends with what it found. *)
LEMMA VerifyKeeps ==
  ASSUME Inv, Verify
  PROVE  Inv'
<1>1. /\ stage = "emulate" /\ stage' = "done" /\ id' = id /\ attached' = attached /\ line' = line
      /\ UNCHANGED <<scene, connectionVars, decoderVars, report, samples, db>>
  BY DEF Verify
<1>2. ResultInv'
  BY <1>1 DEF Inv, ResultInv
<1>3. AttachedInv'
  <2>1. attached = <<>>
    BY <1>1 DEF Inv, AttachedInv
  <2> QED
    BY <1>1, <2>1 DEF AttachedInv
<1>4. LineInv'
  BY <1>1, LineStays DEF Inv
<1> QED
  BY <1>1, <1>2, <1>3, <1>4, SayingKeeps DEF Users

(* A connection of the acceptor ends with the headers that it forwards. *)
LEMMA AcceptKeeps ==
  ASSUME Inv, Accept
  PROVE  Inv'
<1>1. /\ stage = "tower" /\ report # None /\ stage' = "done" /\ id' = Some(Identify(The(report), db))
      /\ line' = line
      /\ UNCHANGED <<scene, connectionVars, decoderVars, report, samples, db>>
  BY DEF Accept
<1>2. ResultInv'
  <2>1. AtMostOne(line)
    BY DEF Inv, ResultInv
  <2> DEFINE i == Identify(The(report), db)
  <2>2. AtMostOne(i.best) /\ AtMostOne(i.mismatch)
    BY <1>1, TheOne, IdentifiedOne
  <2>3. id' = {i} /\ line' = line
    BY <1>1 DEF Some
  <2> HIDE DEF i
  <2> QED
    BY <2>1, <2>2, <2>3 DEF ResultInv, AtMostOne
<1>3. AttachedInv'
  <2>1. User = "tower"
    BY <1>1 DEF Inv, SceneInv, Users
  <2>2. User' # "serve"
    BY <1>1, <2>1 DEF User
  <2> QED
    BY <1>1, <2>2 DEF AttachedInv
<1>4. LineInv'
  BY <1>1, LineStays DEF Inv
<1> QED
  BY <1>1, <1>2, <1>3, <1>4, SayingKeeps DEF Users

(* A request is a visit's. *)
LEMMA RequestStays == visit' = visit => Request' = Request
BY DEF Request, Keep

(* A connection of the proxy ends with its line and the headers that it forwards. *)
LEMMA ServeKeeps ==
  ASSUME Inv, Serve
  PROVE  Inv'
<1>1. /\ stage = "serve" /\ stage' = "done"
      /\ id' = {Identify(r, db) : r \in report}
      /\ attached' = UpstreamHeaders(Request, IF report = None THEN UnparsedHeaders
                                              ELSE FpHeaders(The(report), The(id')))
      /\ line' = {Line(RecordOf(r, The(id'))) : r \in report}
      /\ UNCHANGED <<scene, connectionVars, decoderVars, report, samples, db>>
  BY DEF Serve
<1>2. AtMostOne(report) /\ ReportInv /\ ConnectionInv
  BY DEF Inv, ReportInv
<1>3. ResultInv'
  <2>1. AtMostOne(id')
    BY <1>1, <1>2 DEF AtMostOne
  <2>2. AtMostOne(line')
    <3> DEFINE l(r) == Line(RecordOf(r, The(id')))
    <3>1. line' = {l(r) : r \in report}
      BY <1>1
    <3> HIDE DEF l
    <3> QED
      BY <1>2, <3>1 DEF AtMostOne
  <2>3. \A i \in id' : AtMostOne(i.best) /\ AtMostOne(i.mismatch)
    BY <1>1, IdentifiedOne
  <2> QED
    BY <2>1, <2>2, <2>3 DEF ResultInv, AtMostOne
<1>4. AttachedInv'
  <2>1. report # None => The(id') = Identify(The(report), db)
    <3> SUFFICES ASSUME report # None PROVE The(id') = Identify(The(report), db)
      OBVIOUS
    <3>1. The(report) \in report
      BY TheOne
    <3>2. report = {The(report)}
      BY <1>2, <3>1 DEF AtMostOne
    <3>3. id' = {Identify(The(report), db)}
      BY <1>1, <3>2
    <3> QED
      BY <3>3 DEF The
  <2>2. visit' = visit /\ raw' = raw /\ report' = report /\ db' = db
    BY <1>1 DEF connectionVars
  <2>3. Request' = Request
    BY <2>2, RequestStays
  <2>4. attached' = UpstreamHeaders(Request', FpHeadersNow')
    BY <1>1, <2>1, <2>2, <2>3 DEF FpHeadersNow
  <2>5. visit # None /\ (report = None <=> ParseHello(raw) = None)
    BY <1>1, <1>2 DEF ReportInv, ConnectionInv, Users
  <2> QED
    BY <1>1, <2>2, <2>4, <2>5 DEF AttachedInv
<1>5. LineInv'
  <2>1. scene' = scene /\ raw' = raw /\ report' = report /\ stage' = "done"
    BY <1>1 DEF connectionVars
  <2>2. \A r \in report : MadeOf(r, raw)
    BY <1>1, <1>2 DEF ReportInv, Users
  <2>3. User = "serve" /\ scene \in Scenes
    BY <1>1 DEF Inv, SceneInv, Users
  <2>4. Visits = scene.visits /\ Speaker = scene.client
    BY <2>3 DEF Visits, Speaker
  <2>5. \E v \in scene.visits : raw = Recorded(WriteHello(scene.client, v))
    BY <1>1, <2>4 DEF Inv, HelloInv, Users
  <2>6. \A written \in line', r \in report, i \in id' : written = Line(RecordOf(r, i))
    <3> SUFFICES ASSUME NEW written \in line', NEW r \in report, NEW i \in id'
                 PROVE  written = Line(RecordOf(r, i))
      OBVIOUS
    <3>1. report = {r}
      BY <1>2 DEF AtMostOne
    <3>2. id' = {Identify(r, db)}
      BY <1>1, <3>1
    <3>3. The(id') = i
      BY <3>2 DEF The
    <3> QED
      BY <1>1, <3>1, <3>3
  <2> QED
    BY <2>1, <2>2, <2>5, <2>6 DEF LineInv
<1> QED
  BY <1>1, <1>3, <1>4, <1>5, SayingKeeps DEF Users

(* No step breaks the invariant. *)
LEMMA NextInv == Inv /\ [Next]_vars => Inv'
<1> SUFFICES ASSUME Inv, [Next]_vars PROVE Inv'
  OBVIOUS
<1>1. CASE Connect
  BY <1>1, ConnectKeeps
<1>2. CASE CannotBuild
  BY <1>2, StageEnds DEF CannotBuild, Stages
<1>3. CASE DecodeStep
  BY <1>3, DecodeStepKeeps
<1>4. CASE BuildReport
  BY <1>4, BuildReportKeeps
<1>5. CASE Sample
  BY <1>5, SampleKeeps
<1>6. CASE NothingToSay
  BY <1>6, StageEnds DEF NothingToSay, Stages, Users
<1>7. CASE Check
  BY <1>7, CheckKeeps
<1>8. CASE Serve
  BY <1>8, ServeKeeps
<1>9. CASE Accept
  BY <1>9, AcceptKeeps
<1>10. CASE Verify
  BY <1>10, VerifyKeeps
<1>11. CASE UNCHANGED vars
  <2>1. /\ scene' = scene /\ stage' = stage /\ visit' = visit /\ raw' = raw /\ flight' = flight
        /\ report' = report /\ samples' = samples /\ db' = db /\ id' = id
        /\ attached' = attached /\ line' = line /\ UNCHANGED decoderVars
    BY <1>11 DEF vars, connectionVars, resultVars
  <2>2. SceneInv'
    BY <2>1 DEF Inv, SceneInv, User
  <2>3. ConnectionInv'
    BY <2>1 DEF Inv, ConnectionInv
  <2>4. DecoderInv'
    BY <2>1, DecoderStutters DEF Inv
  <2>5. ReportInv'
    BY <2>1 DEF Inv, ReportInv
  <2>6. ResultInv'
    BY <2>1 DEF Inv, ResultInv
  <2>7. AttachedInv'
    <3>1. User' = User /\ Request' = Request /\ FpHeadersNow' = FpHeadersNow
      BY <2>1, RequestStays DEF User, FpHeadersNow
    <3> QED
      BY <2>1, <3>1 DEF Inv, AttachedInv
  <2>8. HelloInv'
    BY <2>1, WhoStays DEF Inv, HelloInv
  <2>9. LineInv'
    BY <2>1 DEF Inv, LineInv
  <2>10. SamplesInv'
    BY <2>1, SamplesStay DEF Inv
  <2> QED
    BY <2>2, <2>3, <2>4, <2>5, <2>6, <2>7, <2>8, <2>9, <2>10 DEF Inv
<1> QED
  BY <1>1, <1>2, <1>3, <1>4, <1>5, <1>6, <1>7, <1>8, <1>9, <1>10, <1>11 DEF Next

(* The pipeline's inductive invariant holds throughout: the stages of        *)
(* `fpd capture`, `fpd check`, the proxy, the acceptor and the emulator work *)
(* on bytes that came, on at most one report, of those bytes, on profiles    *)
(* that can be saved, and leave one verdict, one line, one set of headers.   *)
THEOREM Invariance == Spec => []Inv
BY InitInv, NextInv, PTL DEF Spec

(* TypeOK: no connection has two reports, two verdicts or two lines, no more *)
(* is recorded of it than `MaxRecorded` bytes, and no capture takes more     *)
(* samples than it was asked for.                                            *)
THEOREM TypesAreCorrect == Spec => []TypeOK
<1>1. Inv => TypeOK
  <2> SUFFICES ASSUME Inv PROVE TypeOK
    OBVIOUS
  <2>1. AtMostOne(visit) /\ AtMostOne(report) /\ AtMostOne(id) /\ AtMostOne(line)
    BY DEF Inv, ConnectionInv, ReportInv, ResultInv
  <2>2. /\ Cardinality(visit) <= 1 /\ Cardinality(report) <= 1
        /\ Cardinality(id) <= 1 /\ Cardinality(line) <= 1
    BY <2>1, FewOfOne
  <2>3. \A i \in id : Cardinality(i.best) <= 1 /\ Cardinality(i.mismatch) <= 1
    BY FewOfOne DEF Inv, ResultInv
  <2>4. /\ stage \in {"connect", "decode", "capture", "check", "serve", "tower", "emulate", "done"}
        /\ Len(samples) <= scene.samples
    BY DEF Inv, SceneInv, Stages, Users
  <2>5. raw \in Seq(Octet) /\ Len(raw) <= MaxRecorded /\ flight \in Seq(Octet)
    BY DEF Inv, ConnectionInv
  <2>6. DecoderTypeOK
    BY DEF Inv, DecoderInv
  <2> QED
    BY <2>2, <2>3, <2>4, <2>5, <2>6 DEF TypeOK
<1> QED
  BY <1>1, Invariance, PTL

(* What the UI shows of a connection is what was found of it: the row that a *)
(* line of the feed is read back as is the row of the report, and its spans  *)
(* mark the ciphers, GREASE values and extensions of the recorded hello.     *)
THEOREM RowsAreTheClients == Spec => []RowsShowTheClient
<1>1. Inv => RowsShowTheClient
  <2> SUFFICES ASSUME Inv, NEW written \in line, NEW r \in report, NEW i \in id
               PROVE  RowShows(raw, r, written, i)
    BY DEF RowsShowTheClient, RowShows
  <2>1. line # None
    BY DEF None
  <2>2. written = Line(RecordOf(r, i)) /\ MadeOf(r, raw)
    BY <2>1 DEF Inv, LineInv
  <2>3. PICK v \in scene.visits : raw = Recorded(WriteHello(scene.client, v))
    BY <2>1 DEF Inv, LineInv
  <2>4. PICK h \in ParseHello(raw) : r.tls = TlsOf(h)
    BY <2>2 DEF MadeOf, FingerprintTls
  <2>5. /\ scene.client \in ClientType /\ v \in VisitType /\ FitsInRecord(scene.client, v)
    <3>1. scene \in Scenes
      BY DEF Inv, SceneInv
    <3> QED
      BY <3>1, SceneFacts
  <2>6. SaysHello(scene.client)
    BY <2>5, ClientFacts
  <2>7. Filled(h)
    BY <2>3, <2>4, <2>5, <2>6, HelloEnds DEF Filled, FitsInRecord
  <2>8. raw \in Seq(Octet)
    BY DEF Inv, ConnectionInv
  <2> QED
    BY <2>2, <2>4, <2>7, <2>8, RowShowsHello DEF MadeOf
<1> QED
  BY <1>1, Invariance, PTL

(* However a client permutes its extensions and whichever GREASE it picks,   *)
(* all its connections have one JA4, and all that resume a session another:  *)
(* it is made of what the client always sends, in an order of its own.       *)
THEOREM Ja4SurvivesRotation == Spec => []RotationKeepsJa4
<1>1. Inv => RotationKeepsJa4
  <2> SUFFICES ASSUME Inv PROVE RotationKeepsJa4
    OBVIOUS
  <2>1. /\ scene.client \in ClientType /\ scene.sampled \subseteq VisitType
        /\ \A v \in scene.sampled : FitsInRecord(scene.client, v)
    BY SceneFacts DEF Inv, SceneInv
  <2>2. \A n \in DOMAIN samples :
          samples[n].report.tls.ja4 = Ja4Of(scene.client, samples[n].visit.resumed)
    <3> SUFFICES ASSUME NEW n \in DOMAIN samples
                 PROVE  samples[n].report.tls.ja4 = Ja4Of(scene.client, samples[n].visit.resumed)
      OBVIOUS
    <3> DEFINE v == samples[n].visit
               tls == samples[n].report.tls
    <3>1. v \in scene.sampled /\ tls \in FingerprintTls(Recorded(WriteHello(scene.client, v)))
      BY DEF Inv, SamplesInv, SampleOf
    <3> HIDE DEF v, tls
    <3>2. tls.ja4 = Ja4Of(scene.client, v.resumed)
      BY ONLY <2>1, <3>1, Ja4Reported
    <3> QED
      BY ONLY <3>2 DEF v, tls
  <2> QED
    BY ONLY <2>2 DEF RotationKeepsJa4
<1> QED
  BY <1>1, Invariance, PTL

(* The decoder's running size is the cost of the entries in its table        *)
(* whatever a peer sends: insertions, evictions and size updates, over       *)
(* several blocks, never let the count and the table disagree.               *)
THEOREM TableAccountsAlways == Spec => []TableAccounts
<1>1. Inv => TableAccounts
  BY DEF Inv, DecoderInv
<1> QED
  BY <1>1, Invariance, PTL

-----------------------------------------------------------------------------
(* The headers upstream *)

ClientHeader == [name : Seq(Octet), from : {"client"}, value : Seq(Octet)]

(* Headers ordered by their names are headers still. *)
LEMMA ByNameType ==
  ASSUME NEW T, NEW headers \in Seq(T)
  PROVE  ByName(headers) \in Seq(T)
<1> DEFINE these(n) == Keep(headers, LAMBDA h : h.name = headers[n].name)
           part(n) == IF \E m \in 1 .. n - 1 : headers[m].name = headers[n].name THEN <<>>
                      ELSE these(n)
           e == [n \in DOMAIN headers |-> part(n)]
<1>1. Len(headers) \in Nat /\ DOMAIN headers = 1 .. Len(headers)
  OBVIOUS
<1>2. \A n \in 1 .. Len(headers) : these(n) \in Seq(T)
  BY ElementsAtType DEF Keep
<1> HIDE DEF these
<1>3. \A n \in 1 .. Len(headers) : part(n) \in Seq(T)
  <2>1. <<>> \in Seq(T)
    OBVIOUS
  <2> QED
    BY <1>2, <2>1, Zenon
<1> HIDE DEF part
<1>4. e \in [1 .. Len(headers) -> Seq(T)]
  BY <1>1, <1>3
<1> HIDE DEF e
<1>5. FlattenSeq(e) \in Seq(T)
  BY <1>1, <1>4, FlattenEach
<1> QED
  BY <1>5 DEF ByName, e, part, these

(* What is kept of a request's headers is headers. *)
LEMMA KeptRequestType ==
  ASSUME ConnectionInv, visit # None
  PROVE  Request \in Seq(ClientHeader)
<1> DEFINE plan == The(visit).plan
           meant == Peer(plan).meant
           kept == Keep(meant, LAMBDA f : ~IsPseudo(f.name))
           headers == ByName(kept)
<1>1. plan \in Seq(WriteType)
  <2>1. The(visit) \in VisitType
    BY TheOne DEF ConnectionInv
  <2> QED
    BY <2>1 DEF VisitType
<1>2. meant \in Seq(Entry)
  BY <1>1, PeerIs DEF PeerType
<1>3. kept \in Seq(Entry)
  BY <1>2, ElementsAtType DEF Keep
<1>4. Request = [n \in DOMAIN headers |->
                   [name |-> headers[n].name, from |-> "client", value |-> headers[n].value]]
  BY DEF Request
<1> HIDE DEF kept
<1>5. headers \in Seq(Entry)
  BY <1>3, ByNameType
<1> HIDE DEF headers
<1>6. /\ \A n \in DOMAIN headers : headers[n].name \in Seq(Octet) /\ headers[n].value \in Seq(Octet)
      /\ Len(headers) \in Nat /\ DOMAIN headers = 1 .. Len(headers)
  <2>1. /\ \A n \in DOMAIN headers : headers[n] \in Entry
        /\ Len(headers) \in Nat /\ DOMAIN headers = 1 .. Len(headers)
    BY <1>5
  <2>2. \A e \in Entry : e.name \in Seq(Octet) /\ e.value \in Seq(Octet)
    BY DEF Entry
  <2> QED
    BY <2>1, <2>2
<1> DEFINE h(n) == [name |-> headers[n].name, from |-> "client", value |-> headers[n].value]
<1>7. \A n \in 1 .. Len(headers) : h(n) \in ClientHeader
  BY <1>6 DEF ClientHeader
<1>8. Request = [n \in 1 .. Len(headers) |-> h(n)]
  BY <1>4, <1>6
<1> HIDE DEF h
<1> QED
  BY <1>6, <1>7, <1>8

(* A value that reads as text stays a value. *)
LEMMA AsTextType ==
  ASSUME NEW h \in ClientHeader
  PROVE  /\ AsText(h) \in ClientHeader
         /\ AsText(h).name = h.name /\ AsText(h).value = Lossy(h.value)
<1>1. h.value \in Seq(Octet)
  BY DEF ClientHeader
<1>2. Lossy(h.value) \in Seq(Octet)
  BY <1>1, LossyType
<1> QED
  BY <1>2 DEF AsText, ClientHeader

(* Elements at some positions, and the same after each became another.      *)
Mapped(s, g) == [n \in 1 .. Len(s) |-> g[s[n]]]

LEMMA MappedAppend ==
  ASSUME NEW T, NEW U, NEW g \in [T -> U], NEW s \in Seq(T), NEW x \in T
  PROVE  Mapped(Append(s, x), g) = Append(Mapped(s, g), g[x])
<1> DEFINE t == Append(s, x)
           m == Mapped(s, g)
           p == Mapped(t, g)
           q == Append(m, g[x])
<1>1. /\ t \in Seq(T) /\ Len(t) = Len(s) + 1 /\ Len(s) \in Nat /\ t[Len(s) + 1] = x
      /\ \A n \in 1 .. Len(s) : t[n] = s[n]
  OBVIOUS
<1> HIDE DEF t
<1>2. /\ m \in Seq(U) /\ Len(m) = Len(s)
      /\ \A n \in 1 .. Len(s) : m[n] = g[s[n]]
  BY DEF Mapped
<1>3. /\ p \in Seq(U) /\ Len(p) = Len(s) + 1
      /\ \A n \in 1 .. Len(s) + 1 : p[n] = g[t[n]]
  BY <1>1 DEF Mapped
<1> HIDE DEF m, p
<1>4. /\ q \in Seq(U) /\ Len(q) = Len(s) + 1 /\ q[Len(s) + 1] = g[x]
      /\ \A n \in 1 .. Len(s) : q[n] = m[n]
  BY <1>2
<1> HIDE DEF q
<1>5. \A n \in 1 .. Len(s) + 1 : p[n] = q[n]
  BY <1>1, <1>2, <1>3, <1>4
<1>6. p = q
  BY <1>1, <1>3, <1>4, <1>5
<1> QED
  BY <1>6 DEF p, q, m, t

LEMMA ElementsOfMapped ==
  ASSUME NEW T, NEW U, NEW g \in [T -> U], NEW s \in Seq(T), NEW at
  PROVE  ElementsAt(Mapped(s, g), at) = Mapped(ElementsAt(s, at), g)
<1> DEFINE M(u) == Mapped(u, g)
           K(u) == ElementsAt(u, at)
           G == {u \in Seq(T) : K(M(u)) = M(K(u))}
<1>1. M(<<>>) = <<>> /\ K(<<>>) = <<>>
  BY ElementsOfEmpty DEF Mapped
<1>2. \A u \in Seq(T) : M(u) \in Seq(U) /\ Len(M(u)) = Len(u) /\ K(u) \in Seq(T)
  <2> TAKE u \in Seq(T)
  <2>1. M(u) \in Seq(U) /\ Len(M(u)) = Len(u)
    BY DEF Mapped
  <2>2. K(u) \in Seq(T)
    BY ONLY u \in Seq(T), ElementsAtType
  <2> QED
    BY <2>1, <2>2
<1>3. \A u \in Seq(T), x \in T : M(Append(u, x)) = Append(M(u), g[x])
  BY MappedAppend
<1>4. \A u \in Seq(T), x \in T :
        K(Append(u, x)) = IF Len(u) + 1 \in at THEN Append(K(u), x) ELSE K(u)
  BY ElementsOfAppend
<1>5. \A u \in Seq(U), x \in U :
        K(Append(u, x)) = IF Len(u) + 1 \in at THEN Append(K(u), x) ELSE K(u)
  BY ElementsOfAppend
<1> HIDE DEF M, K
<1>6. <<>> \in G
  BY <1>1
<1>7. ASSUME NEW u \in Seq(T), NEW x \in T, u \in G PROVE Append(u, x) \in G
  <2>1. /\ K(M(u)) = M(K(u)) /\ g[x] \in U /\ Append(u, x) \in Seq(T)
        /\ M(u) \in Seq(U) /\ Len(M(u)) = Len(u) /\ K(u) \in Seq(T)
    BY <1>2, <1>7, AppendFacts
  <2>2. K(M(Append(u, x))) = IF Len(u) + 1 \in at THEN Append(K(M(u)), g[x]) ELSE K(M(u))
    BY <1>3, <1>5, <2>1
  <2>3. M(Append(K(u), x)) = Append(M(K(u)), g[x])
    BY <1>3, <2>1
  <2>4. K(M(Append(u, x))) = M(K(Append(u, x)))
    <3>1. CASE Len(u) + 1 \in at
      BY <1>4, <2>1, <2>2, <2>3, <3>1
    <3>2. CASE Len(u) + 1 \notin at
      BY <1>4, <2>1, <2>2, <3>2
    <3> QED
      BY <3>1, <3>2
  <2> QED
    BY <2>1, <2>4
<1>8. Seq(T) \subseteq G
  <2> HIDE DEF G
  <2> QED
    BY <1>6, <1>7, SequenceInduction
<1> QED
  BY <1>8 DEF M, K

(* Of the client's headers those are left that are not under the prefix,    *)
(* each read as text.                                                       *)
LEMMA StrippedHeaders ==
  ASSUME NEW request \in Seq(ClientHeader)
  PROVE  LET names == [n \in DOMAIN request |-> AsText(request[n])]
             left == StripInbound(names)
             sent == Keep(request, LAMBDA h : ~IsOurs(h.name))
         IN  /\ left \in Seq({h \in ClientHeader : ~IsOurs(h.name)})
             /\ Len(left) = Len(sent)
             /\ \A n \in DOMAIN sent :
                  /\ left[n].name = sent[n].name
                  /\ IsText(sent[n].value) => left[n].value = sent[n].value
<1> DEFINE T == ClientHeader
           g == [h \in T |-> AsText(h)]
           names == [n \in DOMAIN request |-> AsText(request[n])]
           left == StripInbound(names)
           sent == Keep(request, LAMBDA h : ~IsOurs(h.name))
           at == {n \in DOMAIN request : ~IsOurs(request[n].name)}
           B == {h \in T : ~IsOurs(h.name)}
<1>1. \A h \in T : AsText(h) \in T /\ AsText(h).name = h.name /\ AsText(h).value = Lossy(h.value)
  BY AsTextType
<1>2. g \in [T -> T] /\ \A h \in T : g[h] = AsText(h)
  BY <1>1
<1>3. /\ Len(request) \in Nat /\ DOMAIN request = 1 .. Len(request)
      /\ \A n \in DOMAIN request : request[n] \in T
  OBVIOUS
<1>4. names = Mapped(request, g)
  <2> HIDE DEF T
  <2> QED
    BY <1>3 DEF Mapped
<1> HIDE DEF T, g
<1>5. sent = ElementsAt(request, at)
  BY DEF Keep
<1>6. left = ElementsAt(names, at)
  <2>1. /\ names \in Seq(T) /\ DOMAIN names = DOMAIN request
        /\ \A n \in DOMAIN request : names[n].name = request[n].name
    BY <1>1, <1>3
  <2> HIDE DEF names
  <2>2. {n \in DOMAIN names : ~IsOurs(names[n].name)} = at
    BY <2>1
  <2> QED
    BY <2>2 DEF StripInbound, Keep
<1>7. left = Mapped(sent, g)
  <2> HIDE DEF names, left, sent, at
  <2>1. request \in Seq(T)
    BY DEF T
  <2> QED
    BY ONLY <1>2, <1>4, <1>5, <1>6, <2>1, ElementsOfMapped
<1>8. sent \in Seq(B)
  <2>1. sent = Keeping(request, B)
    <3>1. at = {n \in DOMAIN request : request[n] \in B}
      BY <1>3
    <3> QED
      BY <1>5, <3>1 DEF Keeping
  <2>2. request \in Seq(T) /\ \A x \in T : x \in B => x \in B
    BY DEF T
  <2> HIDE DEF B, sent
  <2> QED
    BY ONLY <2>1, <2>2, KeepingType
<1> HIDE DEF names, left, sent, at
<1>9. \A h \in B : h \in T /\ g[h] \in B /\ g[h].name = h.name /\ g[h].value = Lossy(h.value)
  BY <1>1, <1>2
<1>10. /\ Len(sent) \in Nat /\ DOMAIN sent = 1 .. Len(sent)
       /\ \A n \in DOMAIN sent : sent[n] \in B
  BY <1>8
<1>11. /\ Len(left) = Len(sent) /\ \A n \in DOMAIN sent : left[n] = g[sent[n]]
       /\ left = [n \in 1 .. Len(sent) |-> g[sent[n]]]
  BY <1>7, <1>10 DEF Mapped
<1>12. left \in Seq(B)
  <2> HIDE DEF B
  <2> QED
    BY <1>9, <1>10, <1>11
<1>13. ASSUME NEW n \in DOMAIN sent
       PROVE  /\ left[n].name = sent[n].name
              /\ IsText(sent[n].value) => left[n].value = sent[n].value
  <2>1. left[n].name = sent[n].name /\ left[n].value = Lossy(sent[n].value)
    BY <1>9, <1>10, <1>11
  <2>2. sent[n].value \in Seq(Octet)
    BY <1>10 DEF T, ClientHeader
  <2> QED
    BY <2>1, <2>2, TextIsKept
<1> QED
  BY <1>11, <1>12, <1>13 DEF B, T, left, names, sent

(* What fpd writes comes through whole, and nothing else does under its     *)
(* prefix.                                                                  *)
LEMMA TwoKindsOfHeader ==
  ASSUME NEW request \in Seq(ClientHeader),
         NEW D, NEW ours \in Seq(D), \A x \in D : x.from = "fpd" /\ IsOurs(x.name)
  PROVE  LET all == UpstreamHeaders(request, ours)
             theirs == Keep(all, LAMBDA h : ~IsOurs(h.name))
             sent == Keep(request, LAMBDA h : ~IsOurs(h.name))
         IN  /\ Keep(all, LAMBDA h : IsOurs(h.name)) = ours
             /\ Len(theirs) = Len(sent)
             /\ \A n \in DOMAIN sent :
                  /\ theirs[n].name = sent[n].name
                  /\ IsText(sent[n].value) => theirs[n].value = sent[n].value
<1> DEFINE B == {h \in ClientHeader : ~IsOurs(h.name)}
           T == B \cup D
           S1 == {x \in T : ~IsOurs(x.name)}
           S3 == {x \in T : IsOurs(x.name)}
           A == StripInbound([n \in DOMAIN request |-> AsText(request[n])])
           all == A \o ours
           sent == Keep(request, LAMBDA h : ~IsOurs(h.name))
<1>1. /\ A \in Seq(B) /\ Len(A) = Len(sent)
      /\ \A n \in DOMAIN sent :
           /\ A[n].name = sent[n].name
           /\ IsText(sent[n].value) => A[n].value = sent[n].value
  BY StrippedHeaders
<1>2. UpstreamHeaders(request, ours) = all
  BY DEF UpstreamHeaders
<1>3. /\ B \subseteq S1 /\ B \cap S3 = {} /\ D \subseteq S3 /\ D \cap S1 = {}
      /\ (\A x \in B : x \in T) /\ (\A x \in D : x \in T)
  OBVIOUS
<1> HIDE DEF A, B, sent
<1>4. /\ Keep(all, LAMBDA h : ~IsOurs(h.name)) = Keeping(all, S1)
      /\ Keep(all, LAMBDA h : IsOurs(h.name)) = Keeping(all, S3)
  <2>1. A \in Seq(T) /\ ours \in Seq(T)
    BY <1>1, <1>3
  <2>2. all \in Seq(T)
    BY <2>1, ConcatType
  <2> HIDE DEF all
  <2>3. \A n \in DOMAIN all : all[n] \in T
    BY <2>2
  <2>4. /\ {n \in DOMAIN all : ~IsOurs(all[n].name)} = {n \in DOMAIN all : all[n] \in S1}
        /\ {n \in DOMAIN all : IsOurs(all[n].name)} = {n \in DOMAIN all : all[n] \in S3}
    <3> HIDE DEF T
    <3> QED
      BY <2>3
  <2> QED
    BY <2>4 DEF Keep, Keeping
<1>5. A \in Seq(T) /\ ours \in Seq(T)
  BY <1>1, <1>3
<1> HIDE DEF T, S1, S3
<1>6. Keeping(all, S3) = ours
  <2>1. Keeping(all, S3) = Keeping(A, S3) \o Keeping(ours, S3)
    BY <1>5, KeepingConcat, SMTT(30)
  <2>2. Keeping(A, S3) = <<>>
    BY <1>1, <1>3, KeepingNone
  <2>3. Keeping(ours, S3) = ours
    BY <1>3, KeepingAll
  <2> QED
    BY <2>1, <2>2, <2>3
<1>7. Keeping(all, S1) = A
  <2>1. Keeping(all, S1) = Keeping(A, S1) \o Keeping(ours, S1)
    BY <1>5, KeepingConcat, SMTT(30)
  <2>2. Keeping(A, S1) = A
    BY <1>1, <1>3, KeepingAll
  <2>3. Keeping(ours, S1) = <<>>
    BY <1>3, KeepingNone
  <2> QED
    BY <2>1, <2>2, <2>3, <1>1
<1> QED
  BY <1>1, <1>2, <1>4, <1>6, <1>7, Zenon DEF sent

(* The names fpd writes are numbered: those of a list of its headers begin  *)
(* at the first or, without a report, at the verdict's.                     *)
Numbered(headers, o) ==
  /\ IsSequence(headers)
  /\ \A n \in DOMAIN headers : headers[n].from = "fpd" /\ headers[n].name = FpName(n + o)

(* The headers about a fingerprint have names of their own. *)
LEMMA FpNameFacts ==
  ASSUME NEW k \in Nat
  PROVE  IsOurs(FpName(k)) /\ \A m \in Nat : FpName(m) = FpName(k) => m = k
<1>1. \A m \in Nat : FpName(m) \in Seq(Nat) /\ FpName(m)[1] = 120 /\ FpName(m)[2] = m /\ Len(FpName(m)) = 2
  <2>1. << 120 >> \in Seq(Nat) /\ Len(<< 120 >>) = 1 /\ << 120 >>[1] = 120
    OBVIOUS
  <2> QED
    BY <2>1, AppendFacts DEF FpName, FpPrefix
<1>2. IsOurs(FpName(k))
  <2> DEFINE p == << 120 >>
             q == FpName(k)
  <2>1. p \in Seq(Nat) /\ Len(p) = 1 /\ p[1] = 120
    OBVIOUS
  <2>2. q \in Seq(Nat) /\ Len(q) = 2 /\ q[1] = 120
    BY <1>1
  <2> HIDE DEF p, q
  <2>3. SubSeq(p, 1, 1) = SubSeq(q, 1, 1)
    BY <2>1, <2>2
  <2> QED
    BY <2>1, <2>2, <2>3 DEF IsOurs, IsPrefix, FpPrefix, p, q
<1> QED
  BY <1>1, <1>2

(* The values under a name. *)
ValuesIn(headers, name) == {headers[n].value : n \in {n \in DOMAIN headers : headers[n].name = name}}

(* The values that have a number are as many as there are numbers. *)
LEMMA NumberedFacts ==
  ASSUME NEW F, NEW o \in Nat, Numbered(F, o)
  PROVE  /\ \A m, n \in DOMAIN F : F[m].name = F[n].name => m = n
         /\ \A k \in Nat : ValuesIn(F, FpName(k)) =
                            IF k - o \in DOMAIN F THEN {F[k - o].value} ELSE {}
         /\ \A n \in DOMAIN F : F[n].from = "fpd" /\ IsOurs(F[n].name)
<1>1. /\ DOMAIN F \subseteq Nat
      /\ \A n \in DOMAIN F : F[n].from = "fpd" /\ F[n].name = FpName(n + o)
  <2>1. IsSequence(F) /\ \A n \in DOMAIN F : F[n].from = "fpd" /\ F[n].name = FpName(n + o)
    BY DEF Numbered
  <2> QED
    BY <2>1, SequenceLength
<1>2. \A m, k \in Nat : FpName(m) = FpName(k) => m = k
  BY FpNameFacts
<1>3. \A m, n \in DOMAIN F : F[m].name = F[n].name => m = n
  <2> SUFFICES ASSUME NEW m \in DOMAIN F, NEW n \in DOMAIN F, F[m].name = F[n].name PROVE m = n
    OBVIOUS
  <2>1. m \in Nat /\ n \in Nat /\ m + o \in Nat /\ n + o \in Nat /\ FpName(m + o) = FpName(n + o)
    BY <1>1
  <2>2. m + o = n + o
    BY <1>2, <2>1
  <2> QED
    BY <2>1, <2>2
<1>4. ASSUME NEW k \in Nat
      PROVE  ValuesIn(F, FpName(k)) = IF k - o \in DOMAIN F THEN {F[k - o].value} ELSE {}
  <2>1. \A n \in DOMAIN F : F[n].name = FpName(k) <=> n = k - o
    <3> SUFFICES ASSUME NEW n \in DOMAIN F PROVE F[n].name = FpName(k) <=> n = k - o
      OBVIOUS
    <3>1. n \in Nat /\ n + o \in Nat /\ F[n].name = FpName(n + o)
      BY <1>1
    <3>2. F[n].name = FpName(k) <=> n + o = k
      BY <1>2, <3>1
    <3> QED
      BY <3>1, <3>2
  <2> DEFINE at == {n \in DOMAIN F : F[n].name = FpName(k)}
  <2>2. at = {n \in DOMAIN F : n = k - o}
    BY <2>1
  <2>3. ValuesIn(F, FpName(k)) = {F[n].value : n \in at}
    BY DEF ValuesIn
  <2> HIDE DEF at
  <2> QED
    BY <2>2, <2>3
<1>5. \A n \in DOMAIN F : IsOurs(F[n].name)
  <2> SUFFICES ASSUME NEW n \in DOMAIN F PROVE IsOurs(F[n].name)
    OBVIOUS
  <2>1. n + o \in Nat /\ F[n].name = FpName(n + o)
    BY <1>1
  <2> QED
    BY <2>1, FpNameFacts
<1> QED
  BY <1>1, <1>3, <1>4, <1>5

(* What is said upstream of a hello that does not parse. *)
LEMMA UnparsedHeadersFacts ==
  /\ Numbered(UnparsedHeaders, 4) /\ DOMAIN UnparsedHeaders = 1 .. 3
  /\ UnparsedHeaders[1].value = "unparsed" /\ UnparsedHeaders[3].value = FALSE
<1> DEFINE a == Ours(VerdictHeader, "unparsed")
           b == Ours(ConfidenceHeader, <<0, 1>>)
           c == Ours(MismatchHeader, FALSE)
           F == <<a, b, c>>
<1>1. /\ a.name = FpName(5) /\ b.name = FpName(6) /\ c.name = FpName(7)
      /\ a.from = "fpd" /\ b.from = "fpd" /\ c.from = "fpd"
      /\ a.value = "unparsed" /\ c.value = FALSE
  BY DEF Ours, VerdictHeader, ConfidenceHeader, MismatchHeader
<1>2. UnparsedHeaders = F
  BY DEF UnparsedHeaders
<1> HIDE DEF a, b, c
<1>3. F \in Seq({a, b, c}) /\ DOMAIN F = 1 .. 3 /\ F[1] = a /\ F[2] = b /\ F[3] = c
  OBVIOUS
<1> HIDE DEF F
<1>4. IsSequence(F)
  BY <1>3 DEF IsSequence
<1>5. \A n \in 1 .. 3 : F[n].from = "fpd" /\ F[n].name = FpName(n + 4)
  <2>1. \A n \in 1 .. 3 : n = 1 \/ n = 2 \/ n = 3
    OBVIOUS
  <2>2. 1 + 4 = 5 /\ 2 + 4 = 6 /\ 3 + 4 = 7
    OBVIOUS
  <2> QED
    BY <1>1, <1>3, <2>1, <2>2
<1> QED
  BY <1>1, <1>2, <1>3, <1>4, <1>5 DEF Numbered

(* What two lists together hold, and where. *)
LEMMA JoinedFacts ==
  ASSUME NEW A, NEW p \in Seq(A), NEW q \in Seq(A)
  PROVE  /\ p \o q \in Seq(A) /\ Len(p \o q) = Len(p) + Len(q)
         /\ \A n \in 1 .. Len(p) : (p \o q)[n] = p[n]
         /\ \A n \in 1 .. Len(q) : (p \o q)[Len(p) + n] = q[n]
OBVIOUS

(* What is said upstream of a hello. *)
LEMMA FpHeadersFacts ==
  ASSUME NEW r, NEW i, AtMostOne(i.mismatch)
  PROVE  LET F == FpHeaders(r, i)
         IN  /\ Numbered(F, 0)
             /\ DOMAIN F = IF i.mismatch = None THEN 1 .. 7 ELSE 1 .. 8
             /\ F[5].value = VerdictOf(i) /\ F[7].value = (i.mismatch # None)
<1> DEFINE a1 == Ours(Ja4Header, r.tls.ja4)
           a2 == Ours(Ja3Header, r.tls.ja3)
           a3 == Ours(H2Header, AkamaiOf(r))
           a4 == Ours(HttpHeader, {Comparable(h.http.names) : h \in r.h2})
           a5 == Ours(VerdictHeader, VerdictOf(i))
           a6 == Ours(ConfidenceHeader, ScoreOf(i))
           a7 == Ours(MismatchHeader, i.mismatch # None)
           a8 == Ours(ClaimedHeader, The(i.mismatch).claimed)
           c == Cardinality(i.mismatch)
           p == <<a1, a2, a3, a4, a5, a6, a7>>
           q == [n \in 1 .. c |-> a8]
           F == FpHeaders(r, i)
           A == {a1, a2, a3, a4, a5, a6, a7, a8}
<1>1. /\ a1.name = FpName(1) /\ a2.name = FpName(2) /\ a3.name = FpName(3) /\ a4.name = FpName(4)
      /\ a5.name = FpName(5) /\ a6.name = FpName(6) /\ a7.name = FpName(7) /\ a8.name = FpName(8)
  BY DEF Ours, Ja4Header, Ja3Header, H2Header, HttpHeader, VerdictHeader, ConfidenceHeader,
         MismatchHeader, ClaimedHeader
<1>2. /\ \A x \in A : x.from = "fpd"
      /\ a5.value = VerdictOf(i) /\ a7.value = (i.mismatch # None)
  BY DEF Ours
<1>3. F = p \o q
  BY DEF FpHeaders
<1>4. c = IF i.mismatch = None THEN 0 ELSE 1
  <2>1. CASE i.mismatch = {}
    BY <2>1, FS_EmptySet DEF None
  <2>2. CASE i.mismatch # {}
    <3>1. PICK x : x \in i.mismatch
      BY <2>2
    <3>2. i.mismatch = {x}
      BY <3>1 DEF AtMostOne
    <3>3. Cardinality({x}) = 1
      BY FS_Singleton
    <3> QED
      BY <2>2, <3>2, <3>3 DEF None
  <2> QED
    BY <2>1, <2>2
<1> HIDE DEF a1, a2, a3, a4, a5, a6, a7, a8, c, F
<1>5. /\ p \in Seq(A) /\ Len(p) = 7 /\ p[1] = a1 /\ p[2] = a2 /\ p[3] = a3 /\ p[4] = a4 /\ p[5] = a5
      /\ p[6] = a6 /\ p[7] = a7
  OBVIOUS
<1> HIDE DEF p
<1>6. q \in Seq(A) /\ Len(q) = c /\ \A n \in 1 .. c : q[n] = a8
  BY <1>4
<1> HIDE DEF q, A
<1>7. /\ F \in Seq(A) /\ Len(F) = 7 + c
      /\ \A n \in 1 .. 7 : F[n] = p[n]
      /\ \A n \in 1 .. c : F[7 + n] = q[n]
  <2>0. p \in Seq(A) /\ q \in Seq(A)
    BY <1>5, <1>6
  <2>1. /\ p \o q \in Seq(A) /\ Len(p \o q) = Len(p) + Len(q)
        /\ \A n \in 1 .. Len(p) : (p \o q)[n] = p[n]
        /\ \A n \in 1 .. Len(q) : (p \o q)[Len(p) + n] = q[n]
    BY ONLY <2>0, JoinedFacts
  <2> QED
    BY ONLY <2>1, <1>3, <1>5, <1>6
<1>8. DOMAIN F = 1 .. 7 + c
  BY <1>7
<1>9. \A n \in DOMAIN F : F[n] \in A /\ F[n].name = FpName(n)
  <2> SUFFICES ASSUME NEW n \in 1 .. 7 + c PROVE F[n] \in A /\ F[n].name = FpName(n)
    BY <1>8
  <2>1. F[n] \in A
    BY <1>7, <1>8
  <2>2. CASE n \in 1 .. 7
    <3>1. n = 1 \/ n = 2 \/ n = 3 \/ n = 4 \/ n = 5 \/ n = 6 \/ n = 7
      BY <2>2
    <3> QED
      BY <1>1, <1>5, <1>7, <2>1, <2>2, <3>1
  <2>3. CASE n \notin 1 .. 7
    <3>1. n = 8 /\ 1 \in 1 .. c /\ 7 + 1 = 8
      BY <1>4, <2>3
    <3>2. F[8] = a8
      BY <1>6, <1>7, <3>1
    <3> QED
      BY <1>1, <2>1, <3>1, <3>2
  <2> QED
    BY <2>2, <2>3
<1>10. Numbered(F, 0)
  <2>1. \A n \in DOMAIN F : n + 0 = n
    BY <1>4, <1>8
  <2> QED
    BY <1>2, <1>7, <1>9, <2>1 DEF Numbered, IsSequence
<1>11. F[5] = a5 /\ F[7] = a7
  BY <1>5, <1>7
<1>12. DOMAIN F = IF i.mismatch = None THEN 1 .. 7 ELSE 1 .. 8
  <2>1. 7 + 0 = 7 /\ 7 + 1 = 8
    OBVIOUS
  <2> QED
    BY ONLY <1>4, <1>8, <2>1
<1>13. F[5].value = VerdictOf(i) /\ F[7].value = (i.mismatch # None)
  BY ONLY <1>2, <1>11
<1> QED
  BY ONLY <1>10, <1>12, <1>13 DEF F

(* A verdict is never what stands for the lack of one. *)
LEMMA VerdictIsNotUnparsed ==
  ASSUME SceneInv, NEW r
  PROVE  VerdictOf(Identify(r, db)) # "unparsed"
<1> DEFINE i == Identify(r, db)
<1>1. i.best = Best(r, db)
  BY DEF Identify
<1>2. DOMAIN db \subseteq Nat /\ \A n \in DOMAIN db : db[n].label # "unparsed"
  <2>1. db \in Seq(ProfileType) /\ \A n \in DOMAIN db : db[n].label # "unparsed"
    BY DEF SceneInv
  <2> QED
    BY <2>1
<1>3. \A c \in Best(r, db) : \E n \in DOMAIN db : c.label = db[n].label
  BY <1>2, BestOne
<1> HIDE DEF i
<1>4. CASE i.best = None
  BY <1>4 DEF VerdictOf, Unknown, i
<1>5. CASE i.best # None
  <2>1. The(i.best) \in Best(r, db)
    BY <1>1, <1>5, TheOne
  <2>2. The(i.best).label # "unparsed"
    BY <1>2, <1>3, <2>1
  <2> QED
    BY <1>5, <2>2 DEF VerdictOf, i
<1> QED
  BY <1>4, <1>5

(* What is attached in either case. *)
Attaches(F, o) ==
  /\ Numbered(F, o)
  /\ 5 - o \in DOMAIN F /\ 6 - o \in DOMAIN F /\ 7 - o \in DOMAIN F
  /\ F[5 - o].value = "unparsed" <=> ParseHello(raw) = None
  /\ F[7 - o].value = TRUE <=> 8 - o \in DOMAIN F

(* What is said upstream is said once, and by the proxy alone. *)
LEMMA FpHeadersAttach ==
  ASSUME Inv, report = None <=> ParseHello(raw) = None
  PROVE  \E o \in {0, 4} : Attaches(FpHeadersNow, o)
<1>1. CASE report = None
  <2>1. FpHeadersNow = UnparsedHeaders
    BY <1>1 DEF FpHeadersNow
  <2>2. 5 - 4 = 1 /\ 6 - 4 = 2 /\ 7 - 4 = 3 /\ 8 - 4 = 4 /\ 4 \notin 1 .. 3 /\ 1 \in 1 .. 3 /\ 2 \in 1 .. 3 /\ 3 \in 1 .. 3
    OBVIOUS
  <2>3. Attaches(UnparsedHeaders, 4)
    BY <1>1, <2>2, UnparsedHeadersFacts DEF Attaches
  <2> QED
    BY <2>1, <2>3
<1>2. CASE report # None
  <2> DEFINE r == The(report)
             i == Identify(r, db)
             F == FpHeaders(r, i)
  <2>1. FpHeadersNow = F
    BY <1>2 DEF FpHeadersNow
  <2>2. r \in report /\ AtMostOne(i.mismatch)
    BY <1>2, TheOne, IdentifiedOne
  <2>3. /\ Numbered(F, 0)
        /\ DOMAIN F = IF i.mismatch = None THEN 1 .. 7 ELSE 1 .. 8
        /\ F[5].value = VerdictOf(i) /\ F[7].value = (i.mismatch # None)
    BY <2>2, FpHeadersFacts
  <2>4. VerdictOf(i) # "unparsed"
    BY VerdictIsNotUnparsed DEF Inv
  <2> HIDE DEF r, i, F
  <2>5. 5 - 0 = 5 /\ 6 - 0 = 6 /\ 7 - 0 = 7 /\ 8 - 0 = 8
    OBVIOUS
  <2>6. 5 \in DOMAIN F /\ 6 \in DOMAIN F /\ 7 \in DOMAIN F /\ (8 \in DOMAIN F <=> i.mismatch # None)
    BY <2>3
  <2>7. Attaches(F, 0)
    BY <1>2, <2>3, <2>4, <2>5, <2>6 DEF Attaches
  <2> QED
    BY <2>1, <2>7
<1> QED
  BY <1>1, <1>2

(* Whatever a client sends, what reaches the upstream under a name of the    *)
(* proxy's own is what the proxy found, said once, and a claim is named      *)
(* exactly when there is a mismatch; the client's other headers are kept.    *)
THEOREM HeadersUpstreamAreOurs == Spec => []UpstreamHeadersAreOurs
<1>1. Inv => UpstreamHeadersAreOurs
  <2> SUFFICES ASSUME Inv, stage = "done", User = "serve", attached # <<>>
               PROVE  UpstreamHeadersAreOurs
    BY DEF UpstreamHeadersAreOurs
  <2> DEFINE F == FpHeadersNow
             ours == Keep(attached, LAMBDA h : IsOurs(h.name))
             theirs == Keep(attached, LAMBDA h : ~IsOurs(h.name))
             sent == Keep(Request, LAMBDA h : ~IsOurs(h.name))
  <2>1. /\ visit # None /\ (report = None <=> ParseHello(raw) = None)
        /\ attached = UpstreamHeaders(Request, F)
    BY DEF Inv, AttachedInv
  <2>2. PICK o \in {0, 4} : Attaches(F, o)
    BY <2>1, FpHeadersAttach
  <2>3. o \in Nat /\ Numbered(F, o)
    BY <2>2 DEF Attaches
  <2>4. /\ \A m, n \in DOMAIN F : F[m].name = F[n].name => m = n
        /\ \A k \in Nat : ValuesIn(F, FpName(k)) =
                           IF k - o \in DOMAIN F THEN {F[k - o].value} ELSE {}
        /\ \A n \in DOMAIN F : F[n].from = "fpd" /\ IsOurs(F[n].name)
    BY <2>3, NumberedFacts
  <2>5. /\ ours = F
        /\ Len(theirs) = Len(sent)
        /\ \A n \in DOMAIN sent :
             /\ theirs[n].name = sent[n].name
             /\ IsText(sent[n].value) => theirs[n].value = sent[n].value
    <3> DEFINE D == {F[n] : n \in DOMAIN F}
    <3>1. Request \in Seq(ClientHeader)
      BY <2>1, KeptRequestType DEF Inv
    <3>2. \A n \in DOMAIN F : F[n] \in D
      OBVIOUS
    <3>3. \A x \in D : x.from = "fpd" /\ IsOurs(x.name)
      BY <2>4
    <3> HIDE DEF D, F
    <3>4. F \in Seq(D)
      <4>1. IsSequence(F)
        BY <2>3 DEF Numbered
      <4> QED
        BY <4>1, <3>2, SequenceIn
    <3> QED
      BY <2>1, <3>1, <3>3, <3>4, TwoKindsOfHeader DEF theirs, sent
  <2> HIDE DEF F, ours, theirs, sent
  <2>6. /\ ValuesIn(ours, VerdictHeader) = {F[5 - o].value}
        /\ ValuesIn(ours, ConfidenceHeader) = {F[6 - o].value}
        /\ ValuesIn(ours, MismatchHeader) = {F[7 - o].value}
        /\ ValuesIn(ours, ClaimedHeader) # {} <=> 8 - o \in DOMAIN F
    <3>1. 5 - o \in DOMAIN F /\ 6 - o \in DOMAIN F /\ 7 - o \in DOMAIN F
      BY <2>2 DEF Attaches
    <3>2. \A k \in {5, 6, 7, 8} : ValuesIn(ours, FpName(k)) =
                                 IF k - o \in DOMAIN F THEN {F[k - o].value} ELSE {}
      BY <2>4, <2>5
    <3> QED
      BY ONLY <3>1, <3>2 DEF VerdictHeader, ConfidenceHeader, MismatchHeader, ClaimedHeader
  <2>7. /\ ValuesIn(ours, VerdictHeader) # {} /\ ValuesIn(ours, ConfidenceHeader) # {}
        /\ ValuesIn(ours, VerdictHeader) = {"unparsed"} <=> ParseHello(raw) = None
        /\ ValuesIn(ours, MismatchHeader) = {TRUE} <=> ValuesIn(ours, ClaimedHeader) # {}
    BY <2>2, <2>6 DEF Attaches
  <2> QED
    BY <2>4, <2>5, <2>7 DEF UpstreamHeadersAreOurs, ValuesIn, ours, theirs, sent
<1> QED
  BY <1>1, Invariance, PTL

-----------------------------------------------------------------------------
(* The request is read from the frames it was written in *)

(* Two parts of bytes that lie somewhere. *)
LEMMA BytesApart ==
  ASSUME NEW p \in Seq(Octet), NEW q \in Seq(Octet), NEW r, r = p \o q,
         NEW buf \in Seq(Octet), NEW at \in Nat, Within(r, buf, at)
  PROVE  /\ Within(p, buf, at) /\ Within(q, buf, at + Len(p))
         /\ Len(r) = Len(p) + Len(q) /\ Len(p) \in Nat /\ Len(q) \in Nat
<1> DEFINE T == Octet
<1>1. p \in Seq(T) /\ q \in Seq(T) /\ buf \in Seq(T) /\ Within(p \o q, buf, at)
  OBVIOUS
<1> HIDE DEF T
<1> QED
  BY <1>1, PartsWithin

(* A frame's length, of three bytes. *)
LEMMA FrameLengthRead ==
  ASSUME NEW v \in Nat, v < 2^24
  PROVE  U24(Octets24(v), 0) = v
<1> DEFINE top == (v \div 65536) % 256
           hi == (v \div 256) % 256
           lo == v % 256
           w == <<hi, lo>>
           y == <<top>>
           z == Octets24(v)
<1>1. v < 16777216
  BY ONLY v < 2^24, SMT
<1>2. top \in 0 .. 255 /\ hi \in 0 .. 255 /\ lo \in 0 .. 255
  BY ONLY v \in Nat, SMT
<1>3. v \div 65536 = top
  BY ONLY v \in Nat, <1>1, SMT
<1>4. v = 65536 * (v \div 65536) + (256 * hi + lo)
  BY ONLY v \in Nat, SMT
<1>5. v = 65536 * top + (256 * hi + lo)
  BY ONLY <1>3, <1>4
<1>6. z = y \o w
  BY DEF Octets24, Octets16
<1>7. top \in Octet /\ hi \in Octet /\ lo \in Octet
  BY ONLY <1>2 DEF Octet
<1> HIDE DEF top, hi, lo, z
<1>8. /\ Len(w) = 2 /\ w[1] = hi /\ w[2] = lo /\ w \in Seq(Octet)
      /\ Len(y) = 1 /\ y[1] = top /\ y \in Seq(Octet)
  BY ONLY <1>7
<1> HIDE DEF w, y
<1>9. JoinIs(y, w, z)
  BY ONLY <1>6, <1>8, BytesJoined
<1>10. z[1] = top /\ z[2] = hi /\ z[3] = lo
  <2>1. /\ \A i \in 1 .. 1 : y[i] = z[0 + i]
        /\ \A i \in 1 .. 2 : w[i] = z[1 + i]
    BY ONLY <1>8, <1>9 DEF JoinIs, Within
  <2>2. 0 + 1 = 1 /\ 1 + 1 = 2 /\ 1 + 2 = 3 /\ 1 \in 1 .. 1 /\ 1 \in 1 .. 2 /\ 2 \in 1 .. 2
    OBVIOUS
  <2> QED
    BY ONLY <1>8, <2>1, <2>2
<1>11. U24(z, 0) = 65536 * z[1] + (256 * z[2] + z[3])
  <2>1. 0 + 1 = 1 /\ 1 + 1 = 2 /\ 1 + 2 = 3
    OBVIOUS
  <2> QED
    BY ONLY <2>1 DEF U24, U16
<1>12. U24(z, 0) = 65536 * top + (256 * hi + lo)
  BY ONLY <1>10, <1>11
<1> QED
  BY ONLY <1>5, <1>12 DEF z

(* A frame that lies somewhere in the bytes is read there as it was         *)
(* written: its length, its kind, its flags and its payload.                *)
FrameLies(kind, flags, stream, payload, buf, at) ==
  /\ kind \in Octet /\ flags \in Octet /\ stream \in Nat
  /\ payload \in Seq(Octet) /\ Len(payload) < 2^24
  /\ buf \in Seq(Octet) /\ at \in Nat /\ Within(Frame(kind, flags, stream, payload), buf, at)
FrameIs(kind, flags, payload, buf, at) ==
  /\ at \in 0 .. Len(buf) /\ Len(payload) \in Nat
  /\ Fits(buf, at, FrameHeader) /\ U24(buf, at) = Len(payload)
  /\ Fits(buf, at + FrameHeader, Len(payload))
  /\ FrameAt(buf, at) \in FrameRecord /\ FrameAt(buf, at).kind = kind
  /\ FrameAt(buf, at).flags = flags /\ FrameAt(buf, at).payload = payload

LEMMA FrameIsRead ==
  ASSUME NEW kind, NEW flags, NEW stream, NEW payload, NEW buf, NEW at,
         FrameLies(kind, flags, stream, payload, buf, at)
  PROVE  FrameIs(kind, flags, payload, buf, at)
<1> DEFINE a == Octets24(Len(payload))
           b == <<kind, flags>>
           c == Octets32(stream)
           ab == a \o b
           abc == ab \o c
           r == abc \o payload
<1>1. /\ kind \in Octet /\ flags \in Octet /\ stream \in Nat
      /\ payload \in Seq(Octet) /\ Len(payload) < 2^24
      /\ buf \in Seq(Octet) /\ at \in Nat /\ Within(r, buf, at)
  BY DEF FrameLies, Frame
<1>2. Len(payload) \in Nat /\ Len(buf) \in Nat
  BY ONLY <1>1
<1>0. buf \in Seq(Octet) /\ at \in Nat
  BY ONLY <1>1
<1>3. /\ a \in Seq(Octet) /\ Len(a) = 3 /\ U24(a, 0) = Len(payload)
      /\ c \in Seq(Octet) /\ Len(c) = 4
  BY ONLY <1>1, <1>2, OctetsType, OctetsLength, FrameLengthRead
<1>4. b \in Seq(Octet) /\ Len(b) = 2 /\ b[1] = kind /\ b[2] = flags
  BY ONLY <1>1
<1> HIDE DEF a, b, c
<1>5. ab \in Seq(Octet) /\ ab = a \o b
  BY ONLY <1>3, <1>4, ConcatType
<1> HIDE DEF ab
<1>6. abc \in Seq(Octet) /\ abc = ab \o c
  BY ONLY <1>3, <1>5, ConcatType
<1> HIDE DEF abc
<1>7. /\ Within(abc, buf, at) /\ Within(payload, buf, at + Len(abc))
      /\ Len(r) = Len(abc) + Len(payload)
  <2>1. r = abc \o payload
    OBVIOUS
  <2> HIDE DEF r
  <2> QED
    BY ONLY <1>1, <1>6, <2>1, BytesApart
<1>8. Within(ab, buf, at) /\ Within(c, buf, at + Len(ab)) /\ Len(abc) = Len(ab) + Len(c)
  <2>1. ab \in Seq(Octet) /\ c \in Seq(Octet) /\ abc = ab \o c /\ Within(abc, buf, at)
    BY ONLY <1>3, <1>5, <1>6, <1>7
  <2> QED
    BY ONLY <1>0, <2>1, BytesApart
<1>9. Within(a, buf, at) /\ Within(b, buf, at + Len(a)) /\ Len(ab) = Len(a) + Len(b)
  <2>1. a \in Seq(Octet) /\ b \in Seq(Octet) /\ ab = a \o b /\ Within(ab, buf, at)
    BY ONLY <1>3, <1>4, <1>5, <1>8
  <2> QED
    BY ONLY <1>0, <2>1, BytesApart
<1>10. Len(abc) = 9 /\ Len(a) = 3
  BY ONLY <1>3, <1>4, <1>8, <1>9
<1>11. Within(payload, buf, at + 9) /\ Within(b, buf, at + 3)
  BY ONLY <1>7, <1>9, <1>10
<1>12. U24(buf, at) = Len(payload)
  <2>0. Len(a) >= 3
    BY ONLY <1>3
  <2>1. U24(buf, at) = U24(a, 0)
    BY ONLY <1>0, <1>3, <1>9, <2>0, FirstU24
  <2> QED
    BY ONLY <1>3, <2>1
<1>13. buf[at + 4] = kind /\ buf[at + 5] = flags
  <2>1. \A i \in 1 .. 2 : b[i] = buf[(at + 3) + i]
    BY ONLY <1>4, <1>11 DEF Within
  <2>2. (at + 3) + 1 = at + 4 /\ (at + 3) + 2 = at + 5 /\ 1 \in 1 .. 2 /\ 2 \in 1 .. 2
    BY ONLY <1>1
  <2> QED
    BY ONLY <1>4, <2>1, <2>2
<1>14. Fits(buf, at + 9, Len(payload)) /\ Take(buf, at + 9, Len(payload)) = payload
  <2>1. at + 9 \in Nat
    BY ONLY <1>1
  <2> QED
    BY ONLY <1>1, <1>11, <2>1, TakeOfWithin
<1>15. Fits(buf, at, 9) /\ at \in 0 .. Len(buf)
  BY ONLY <1>1, <1>2, <1>14 DEF Fits
<1>16. FrameAt(buf, at) \in FrameRecord
  <2>1. Fits(buf, at, FrameHeader) /\ Fits(buf, at + FrameHeader, U24(buf, at))
    BY ONLY <1>12, <1>14, <1>15 DEF FrameHeader
  <2> QED
    BY ONLY <1>1, <2>1, FrameAtType
<1>17. /\ FrameAt(buf, at).kind = kind /\ FrameAt(buf, at).flags = flags
       /\ FrameAt(buf, at).payload = payload
  <2>1. (at + 3) + 1 = at + 4 /\ (at + 4) + 1 = at + 5
    BY ONLY <1>1
  <2> QED
    BY ONLY <1>12, <1>13, <1>14, <2>1 DEF FrameAt, U8, FrameHeader
<1> QED
  BY ONLY <1>2, <1>12, <1>14, <1>15, <1>16, <1>17 DEF FrameIs, FrameHeader

(* From an offset on, the frames of a kind that are read are the given ones. *)
ReadsOn(f, buf, at, kind, found) ==
  /\ at \in 0 .. Len(buf)
  /\ f[at] # {}
  /\ \A p \in f[at] : p \in Seq(FrameRecord) /\ OfKind(p, kind) = found

Those(kind) == {x \in FrameRecord : x.kind = kind}

LEMMA OfKindIsKeeping ==
  ASSUME NEW p \in Seq(FrameRecord), NEW kind
  PROVE  OfKind(p, kind) = Keeping(p, Those(kind))
<1>1. {n \in DOMAIN p : p[n].kind = kind} = {n \in DOMAIN p : p[n] \in Those(kind)}
  <2>1. \A n \in DOMAIN p : p[n] \in FrameRecord
    OBVIOUS
  <2> QED
    BY ONLY <2>1 DEF Those
<1> QED
  BY ONLY <1>1 DEF OfKind, Keep, Keeping

(* One frame is kept when it is of the kind. *)
LEMMA OneOfKind ==
  ASSUME NEW x \in FrameRecord, NEW kind
  PROVE  /\ <<x>> \in Seq(FrameRecord)
         /\ Keeping(<<x>>, Those(kind)) = IF x.kind = kind THEN <<x>> ELSE <<>>
<1>1. <<>> \in Seq(FrameRecord) /\ Append(<<>>, x) = <<x>> /\ <<x>> \in Seq(FrameRecord)
  OBVIOUS
<1>2. x \in Those(kind) <=> x.kind = kind
  BY ONLY x \in FrameRecord DEF Those
<1>3. Keeping(<<>>, Those(kind)) = <<>>
  BY ONLY KeepingEmpty
<1>4. Keeping(Append(<<>>, x), Those(kind)) =
        IF x \in Those(kind) THEN Append(Keeping(<<>>, Those(kind)), x) ELSE Keeping(<<>>, Those(kind))
  BY ONLY x \in FrameRecord, <1>1, KeepingAppend
<1> QED
  BY ONLY <1>1, <1>2, <1>3, <1>4

(* At a request the reading ends. *)
LEMMA RequestReads ==
  ASSUME NEW f, NEW flags, NEW payload, NEW buf, NEW at, NEW kind, Preambles(buf, f),
         FrameIs(HEADERS, flags, payload, buf, at)
  PROVE  ReadsOn(f, buf, at, kind, IF kind = HEADERS THEN <<FrameAt(buf, at)>> ELSE <<>>)
<1> DEFINE x == FrameAt(buf, at)
<1>1. /\ at \in 0 .. Len(buf) /\ x \in FrameRecord /\ x.kind = HEADERS
      /\ Fits(buf, at, FrameHeader) /\ Fits(buf, at + FrameHeader, U24(buf, at))
  BY ONLY FrameIs(HEADERS, flags, payload, buf, at) DEF FrameIs
<1>2. f[at] = FramesFrom(buf, f, at)
  BY ONLY <1>1, Preambles(buf, f) DEF Preambles
<1>3. f[at] = Some(<<x>>)
  BY ONLY <1>1, <1>2 DEF FramesFrom
<1> HIDE DEF x
<1>4. /\ <<x>> \in Seq(FrameRecord)
      /\ Keeping(<<x>>, Those(kind)) = IF kind = HEADERS THEN <<x>> ELSE <<>>
  BY ONLY <1>1, OneOfKind
<1>5. OfKind(<<x>>, kind) = IF kind = HEADERS THEN <<x>> ELSE <<>>
  BY ONLY <1>4, OfKindIsKeeping
<1>6. ReadsOn(f, buf, at, kind, IF kind = HEADERS THEN <<x>> ELSE <<>>)
  BY ONLY <1>1, <1>3, <1>4, <1>5 DEF ReadsOn, Some
<1> QED
  BY ONLY <1>6 DEF x

(* Over any other frame it goes on. *)
LEMMA OtherReads ==
  ASSUME NEW f, NEW k, NEW flags, NEW payload, NEW buf, NEW at, NEW kind, NEW found,
         Preambles(buf, f), FrameIs(k, flags, payload, buf, at), k # HEADERS,
         ReadsOn(f, buf, at + (9 + Len(payload)), kind, found)
  PROVE  ReadsOn(f, buf, at, kind, IF k = kind THEN <<FrameAt(buf, at)>> \o found ELSE found)
<1> DEFINE x == FrameAt(buf, at)
           next == at + (9 + Len(payload))
           more == IF k = kind THEN <<x>> \o found ELSE found
<1>1. /\ at \in 0 .. Len(buf) /\ x \in FrameRecord /\ x.kind = k /\ x.kind # HEADERS
      /\ Fits(buf, at, FrameHeader) /\ Fits(buf, at + FrameHeader, U24(buf, at))
      /\ U24(buf, at) = Len(payload) /\ Len(payload) \in Nat
  BY ONLY FrameIs(k, flags, payload, buf, at), k # HEADERS DEF FrameIs
<1>2. f[at] = FramesFrom(buf, f, at)
  BY ONLY <1>1, Preambles(buf, f) DEF Preambles
<1>3. at + FrameHeader + U24(buf, at) = next
  BY ONLY <1>1 DEF FrameHeader
<1>4. f[at] = {<<x>> \o rest : rest \in f[next]}
  BY ONLY <1>1, <1>2, <1>3 DEF FramesFrom
<1> HIDE DEF x, next
<1>5. /\ f[next] # {}
      /\ \A p \in f[next] : p \in Seq(FrameRecord) /\ OfKind(p, kind) = found
  BY ONLY ReadsOn(f, buf, at + (9 + Len(payload)), kind, found) DEF ReadsOn, next
<1>6. <<x>> \in Seq(FrameRecord) /\ Keeping(<<x>>, Those(kind)) = IF k = kind THEN <<x>> ELSE <<>>
  BY ONLY <1>1, OneOfKind
<1>7. ASSUME NEW p \in f[next]
      PROVE  <<x>> \o p \in Seq(FrameRecord) /\ OfKind(<<x>> \o p, kind) = more
  <2> DEFINE y == <<x>>
  <2> HIDE DEF y
  <2>1. y \in Seq(FrameRecord) /\ Keeping(y, Those(kind)) = IF k = kind THEN y ELSE <<>>
    BY ONLY <1>6 DEF y
  <2>2. p \in Seq(FrameRecord) /\ OfKind(p, kind) = found
    BY ONLY <1>5, p \in f[next]
  <2>3. y \o p \in Seq(FrameRecord)
    BY ONLY <2>1, <2>2, ConcatType
  <2>4. OfKind(y \o p, kind) = Keeping(y \o p, Those(kind)) /\ Keeping(p, Those(kind)) = found
    BY ONLY <2>2, <2>3, OfKindIsKeeping
  <2>5. Keeping(y \o p, Those(kind)) = Keeping(y, Those(kind)) \o Keeping(p, Those(kind))
    <3> DEFINE T == FrameRecord
               S == Those(kind)
    <3>1. y \in Seq(T) /\ p \in Seq(T)
      BY ONLY <2>1, <2>2
    <3>2. \A s, t \in Seq(T) : Keeping(s \o t, S) = Keeping(s, S) \o Keeping(t, S)
      <4> HIDE DEF T, S
      <4> QED
        BY ONLY KeepingJoined
    <3> QED
      BY ONLY <3>1, <3>2
  <2>6. found \in Seq(FrameRecord)
    BY ONLY <2>2, <2>4, ElementsAtType DEF Keeping
  <2>7. <<>> \o found = found
    BY ONLY <2>6
  <2>8. more = IF k = kind THEN y \o found ELSE found
    BY ONLY DEF y
  <2> HIDE DEF more
  <2>9. OfKind(y \o p, kind) = more
    BY ONLY <2>1, <2>4, <2>5, <2>7, <2>8
  <2> QED
    BY ONLY <2>3, <2>9 DEF y
<1> HIDE DEF more
<1>8. ReadsOn(f, buf, at, kind, more)
  BY ONLY <1>1, <1>4, <1>5, <1>7 DEF ReadsOn
<1> QED
  BY ONLY <1>8 DEF more, x

(* Over the priorities the reading goes on to what is not one. *)
PrioritiesLie(ps, e, buf, off) ==
  /\ ps \in Seq(Seq(Octet)) /\ \A n \in 1 .. Len(ps) : Len(ps[n]) < 2^24
  /\ e = [n \in DOMAIN ps |-> Frame(PRIORITY, 0, 2 * n + 1, ps[n])]
  /\ buf \in Seq(Octet) /\ off \in Nat /\ Within(FlattenSeq(e), buf, off)

LEMMA PrioritiesRead ==
  ASSUME NEW ps, NEW e, NEW buf, NEW off, PrioritiesLie(ps, e, buf, off),
         NEW f, Preambles(buf, f), NEW kind, NEW found,
         kind # PRIORITY, ReadsOn(f, buf, off + Len(FlattenSeq(e)), kind, found)
  PROVE  ReadsOn(f, buf, off, kind, found)
<1> DEFINE m == Len(ps)
           b == FlattenSeq(e)
<1>1. /\ m \in Nat /\ DOMAIN ps = 1 .. m
      /\ \A n \in 1 .. m : ps[n] \in Seq(Octet) /\ Len(ps[n]) < 2^24 /\ Len(ps[n]) \in Nat
      /\ \A n \in 1 .. m : 2 * n + 1 \in Nat
  BY ONLY PrioritiesLie(ps, e, buf, off) DEF PrioritiesLie
<1>2. /\ DOMAIN e = 1 .. m /\ e = [n \in 1 .. m |-> e[n]]
      /\ \A n \in 1 .. m : e[n] = Frame(PRIORITY, 0, 2 * n + 1, ps[n])
  BY ONLY <1>1, PrioritiesLie(ps, e, buf, off) DEF PrioritiesLie
<1>3. buf \in Seq(Octet) /\ off \in Nat /\ Within(b, buf, off)
  BY ONLY PrioritiesLie(ps, e, buf, off) DEF PrioritiesLie
<1>4. ASSUME NEW n \in 1 .. m PROVE e[n] \in Seq(Octet) /\ Len(e[n]) = 9 + Len(ps[n])
  <2>1. PRIORITY \in Octet /\ 0 \in Octet /\ ps[n] \in Seq(Octet) /\ 2 * n + 1 \in Nat
    BY ONLY <1>1, SmallOctets, n \in 1 .. m
  <2> QED
    BY ONLY <1>2, <2>1, n \in 1 .. m, FrameType, FrameLength
<1>5. e \in Seq(Seq(Octet)) /\ Len(e) = m
  <2>1. e \in [1 .. m -> Seq(Octet)]
    BY ONLY <1>2, <1>4
  <2> QED
    BY ONLY <1>1, <2>1
<1> HIDE DEF m, b
<1>6. PICK g : Joined(g, e, Octet)
  BY ONLY <1>5, FlattenJoins
<1>7. /\ \A k \in 1 .. m : Within(e[k], b, Len(g[k - 1])) /\ Len(g[k]) = Len(g[k - 1]) + Len(e[k])
      /\ Len(g[0]) = 0 /\ Len(g[m]) = Len(b)
  BY ONLY <1>5, <1>6, FlattenLies DEF b
<1>8. \A k \in 0 .. m : g[k] \in Seq(Octet) /\ Len(g[k]) \in Nat
  <2>1. \A k \in 0 .. m : g[k] \in Seq(Octet)
    BY ONLY <1>5, <1>6 DEF Joined
  <2> QED
    BY ONLY <2>1
<1>9. b \in Seq(Octet)
  BY ONLY <1>5, FlattenType DEF b
<1> DEFINE S == {j \in Nat : j <= m => ReadsOn(f, buf, off + Len(g[m - j]), kind, found)}
<1>10. 0 \in S
  <2>1. m - 0 = m /\ 0 \in Nat
    BY ONLY <1>1
  <2> QED
    BY ONLY <1>7, <2>1, ReadsOn(f, buf, off + Len(FlattenSeq(e)), kind, found) DEF b
<1>11. ASSUME NEW j \in Nat, j \in S PROVE j + 1 \in S
  <2> SUFFICES ASSUME j + 1 <= m PROVE ReadsOn(f, buf, off + Len(g[m - (j + 1)]), kind, found)
    OBVIOUS
  <2> DEFINE k == m - j
             at == off + Len(g[k - 1])
  <2>1. k \in 1 .. m /\ k - 1 = m - (j + 1) /\ k - 1 \in 0 .. m /\ k \in 0 .. m
    BY ONLY <1>1, j \in Nat, j + 1 <= m
  <2>2. ReadsOn(f, buf, off + Len(g[k]), kind, found)
    <3>1. j <= m
      BY ONLY <1>1, j \in Nat, j + 1 <= m
    <3> QED
      BY ONLY <3>1, j \in S
  <2> HIDE DEF k
  <2>3. /\ Within(e[k], b, Len(g[k - 1])) /\ Len(g[k]) = Len(g[k - 1]) + Len(e[k])
        /\ Len(g[k - 1]) \in Nat
    BY ONLY <1>7, <1>8, <2>1
  <2>4. e[k] \in Seq(Octet) /\ Len(e[k]) = 9 + Len(ps[k]) /\ Len(ps[k]) \in Nat
    BY ONLY <1>1, <1>4, <2>1
  <2>5. at \in Nat /\ off + Len(g[k]) = at + (9 + Len(ps[k]))
    <3> DEFINE u == Len(g[k - 1])
               l == Len(ps[k])
    <3>1. off \in Nat /\ u \in Nat /\ l \in Nat /\ Len(g[k]) = u + (9 + l)
      BY ONLY <1>3, <2>3, <2>4
    <3> HIDE DEF u, l
    <3>2. off + u \in Nat /\ off + Len(g[k]) = (off + u) + (9 + l)
      BY ONLY <3>1
    <3> QED
      BY ONLY <3>2 DEF u, l
  <2>6. Within(e[k], buf, at)
    <3> DEFINE c == e[k]
               o == Len(g[k - 1])
    <3>1. /\ c \in Seq(Octet) /\ b \in Seq(Octet) /\ buf \in Seq(Octet) /\ o \in Nat /\ off \in Nat
          /\ Within(c, b, o) /\ Within(b, buf, off)
      BY ONLY <1>3, <1>9, <2>3, <2>4
    <3>2. at = o + off
      BY ONLY <1>3, <2>3
    <3> HIDE DEF c, o, at
    <3> QED
      BY ONLY <3>1, <3>2, BytesWithin DEF c
  <2> HIDE DEF at
  <2>7. FrameLies(PRIORITY, 0, 2 * k + 1, ps[k], buf, at)
    BY ONLY <1>1, <1>2, <1>3, <2>1, <2>5, <2>6, SmallOctets DEF FrameLies
  <2>8. FrameIs(PRIORITY, 0, ps[k], buf, at)
    BY ONLY <2>7, FrameIsRead
  <2>9. PRIORITY # HEADERS
    BY ONLY DEF PRIORITY, HEADERS
  <2>10. ReadsOn(f, buf, at + (9 + Len(ps[k])), kind, found)
    BY ONLY <2>2, <2>5
  <2>11. ReadsOn(f, buf, at, kind, found)
    BY ONLY Preambles(buf, f), <2>8, <2>9, <2>10, kind # PRIORITY, OtherReads
  <2> QED
    BY ONLY <2>1, <2>11 DEF at
<1>12. m \in S
  <2> HIDE DEF S
  <2>1. Nat \subseteq S
    BY ONLY <1>10, <1>11, SetInduction
  <2> QED
    BY ONLY <1>1, <2>1
<1>13. ReadsOn(f, buf, off + Len(g[m - m]), kind, found)
  BY ONLY <1>1, <1>12
<1>14. m - m = 0 /\ off + 0 = off
  BY ONLY <1>1, <1>3
<1> QED
  BY ONLY <1>7, <1>13, <1>14

(* What a request's frame carries, and what of it is the header block: what *)
(* stands before and behind it goes by the flags on both sides.             *)
PadLength(flags) == IF (flags \div Padded) % 2 = 1 THEN <<2>> ELSE <<>>
Dependency(flags) == IF (flags \div HasPriority) % 2 = 1 THEN <<128, 0, 0, 0, 255>> ELSE <<>>
Padding(flags) == IF (flags \div Padded) % 2 = 1 THEN <<0, 0>> ELSE <<>>
Carried(flags, bytes) == ((PadLength(flags) \o Dependency(flags)) \o bytes) \o Padding(flags)

LEMMA FragmentIsBlock ==
  ASSUME NEW flags, NEW bytes \in Seq(Octet), NEW x \in FrameRecord,
         x.flags = flags, x.payload = Carried(flags, bytes)
  PROVE  HeaderBlockFragment(x) = bytes
<1> DEFINE padded == (flags \div Padded) % 2 = 1
           a == PadLength(flags)
           d == Dependency(flags)
           z == Padding(flags)
           ad == a \o d
           adb == ad \o bytes
           p == adb \o z
           from == (IF Flag(x, Padded) THEN 1 ELSE 0) + (IF Flag(x, HasPriority) THEN 5 ELSE 0)
           pad == IF Flag(x, Padded) THEN U8(p, 0) ELSE 0
<1>1. 0 \in Octet /\ 2 \in Octet /\ 128 \in Octet /\ 255 \in Octet
  BY DEF Octet
<1>2. /\ Flag(x, Padded) <=> padded
      /\ Flag(x, HasPriority) <=> (flags \div HasPriority) % 2 = 1
  BY ONLY x.flags = flags DEF Flag
<1>3. /\ a \in Seq(Octet) /\ d \in Seq(Octet) /\ z \in Seq(Octet)
      /\ Len(a) = (IF padded THEN 1 ELSE 0) /\ (padded => a[1] = 2)
      /\ Len(z) = (IF padded THEN 2 ELSE 0)
  BY ONLY <1>1 DEF PadLength, Dependency, Padding
<1>4. Len(d) = IF Flag(x, HasPriority) THEN 5 ELSE 0
  BY ONLY <1>2 DEF Dependency
<1>5. HeaderBlockFragment(x) = IF ~Fits(p, 0, 1) \/ ~Fits(p, from, pad) THEN <<>>
                               ELSE Take(p, from, Len(p) - from - pad)
  BY ONLY x.payload = Carried(flags, bytes) DEF HeaderBlockFragment, Carried
<1>6. from = Len(a) + Len(d)
  BY ONLY <1>2, <1>3, <1>4
<1> HIDE DEF a, d, z, from, padded
<1>7. ad \in Seq(Octet) /\ ad = a \o d
  BY ONLY <1>3, ConcatType
<1> HIDE DEF ad
<1>8. adb \in Seq(Octet) /\ adb = ad \o bytes
  BY ONLY <1>7, bytes \in Seq(Octet), ConcatType
<1> HIDE DEF adb
<1>9. p \in Seq(Octet) /\ p = adb \o z
  BY ONLY <1>3, <1>8, ConcatType
<1> HIDE DEF p
<1>10. Within(p, p, 0)
  BY ONLY <1>9, StartsItself
<1>11. Within(adb, p, 0) /\ Len(p) = Len(adb) + Len(z) /\ Len(adb) \in Nat /\ Len(z) \in Nat
  <2>1. adb \in Seq(Octet) /\ z \in Seq(Octet) /\ p = adb \o z /\ p \in Seq(Octet) /\ 0 \in Nat
    BY ONLY <1>3, <1>8, <1>9
  <2> QED
    BY ONLY <1>10, <2>1, BytesApart
<1>12. /\ Within(ad, p, 0) /\ Within(bytes, p, 0 + Len(ad))
       /\ Len(adb) = Len(ad) + Len(bytes) /\ Len(ad) \in Nat /\ Len(bytes) \in Nat
  <2>1. /\ ad \in Seq(Octet) /\ adb = ad \o bytes /\ p \in Seq(Octet) /\ 0 \in Nat
        /\ bytes \in Seq(Octet) /\ Within(adb, p, 0)
    BY ONLY <1>7, <1>8, <1>9, <1>11, bytes \in Seq(Octet)
  <2> QED
    BY ONLY <2>1, BytesApart
<1>13. Within(a, p, 0) /\ Len(ad) = Len(a) + Len(d)
  <2>1. /\ a \in Seq(Octet) /\ d \in Seq(Octet) /\ ad = a \o d /\ p \in Seq(Octet) /\ 0 \in Nat
        /\ Within(ad, p, 0)
    BY ONLY <1>3, <1>7, <1>9, <1>12
  <2> QED
    BY ONLY <2>1, BytesApart
<1>14. from = Len(ad) /\ from \in Nat /\ 0 + Len(ad) = from
  BY ONLY <1>6, <1>12, <1>13
<1>15. pad = Len(z)
  <2>1. CASE padded
    <3>1. 1 \in 1 .. Len(a) /\ a[1] = 2 /\ 0 + 1 = 1 /\ Len(z) = 2
      BY ONLY <1>3, <2>1
    <3>2. p[1] = 2
      BY ONLY <1>13, <3>1 DEF Within
    <3> QED
      BY ONLY <1>2, <2>1, <3>1, <3>2 DEF U8, pad
  <2>2. CASE ~padded
    BY ONLY <1>2, <1>3, <2>2 DEF pad
  <2> QED
    BY ONLY <2>1, <2>2
<1> HIDE DEF pad
<1>16. Fits(p, from, pad) /\ Len(p) - from - pad = Len(bytes)
  BY ONLY <1>11, <1>12, <1>14, <1>15 DEF Fits
<1>17. Take(p, from, Len(bytes)) = bytes
  BY ONLY <1>9, <1>12, <1>14, bytes \in Seq(Octet), TakeIs
<1>18. ~Fits(p, 0, 1) => bytes = <<>>
  <2>1. ~Fits(p, 0, 1) => Len(bytes) = 0
    BY ONLY <1>11, <1>12 DEF Fits
  <2> QED
    BY ONLY <2>1, bytes \in Seq(Octet)
<1> QED
  BY ONLY <1>5, <1>16, <1>17, <1>18

(* The header block of frames with one whole request is that request's. *)
LEMMA BlockOfOne ==
  ASSUME NEW p \in Seq(FrameRecord), NEW x \in FrameRecord, OfKind(p, HEADERS) = <<x>>,
         Flag(x, EndHeaders)
  PROVE  BlockOf(p) = HeaderBlockFragment(x)
<1> DEFINE y == <<x>>
           k == Keep(OfKind(p, HEADERS), LAMBDA f : Flag(f, EndHeaders))
           s == HeaderBlockFragment(x)
           e == [n \in DOMAIN k |-> HeaderBlockFragment(k[n])]
<1>1. y \in Seq(FrameRecord) /\ DOMAIN y = 1 .. 1 /\ y[1] = x /\ Len(y) = 1
  OBVIOUS
<1>2. k = ElementsAt(y, {n \in DOMAIN y : Flag(y[n], EndHeaders)})
  BY ONLY OfKind(p, HEADERS) = <<x>> DEF Keep
<1>3. {n \in DOMAIN y : Flag(y[n], EndHeaders)} = {n \in DOMAIN y : y[n] \in FrameRecord}
  <2> HIDE DEF y
  <2>1. \A n \in DOMAIN y : y[n] = x
    BY ONLY <1>1
  <2> QED
    BY ONLY <2>1, Flag(x, EndHeaders), x \in FrameRecord
<1>4. k = y
  <2> HIDE DEF y, k
  <2>1. Keeping(y, FrameRecord) = y
    BY ONLY <1>1, KeepingAll
  <2> QED
    BY ONLY <1>2, <1>3, <2>1 DEF Keeping
<1>5. s \in Seq(Octet)
  BY FragmentType
<1>6. BlockOf(p) = FlattenSeq(e)
  BY DEF BlockOf
<1> HIDE DEF k, s
<1>7. e = <<s>>
  <2>1. DOMAIN k = 1 .. 1 /\ k[1] = x
    BY ONLY <1>1, <1>4
  <2>2. e = [n \in 1 .. 1 |-> s]
    BY ONLY <2>1 DEF s
  <2> QED
    BY ONLY <2>2
<1> HIDE DEF e
<1> DEFINE ss == <<s>>
<1>8. ss \in Seq(Seq(Octet)) /\ Len(ss) = 1 /\ ss[1] = s
  BY ONLY <1>5
<1> HIDE DEF ss
<1>9. PICK g : Joined(g, ss, Octet)
  BY ONLY <1>8, FlattenJoins
<1>10. g[0] = <<>> /\ g[1] = FlattenSeq(ss) /\ g[1] = g[0] \o s
  <2>1. 1 \in 1 .. 1 /\ 1 - 1 = 0
    OBVIOUS
  <2>2. g[1] = g[1 - 1] \o ss[1]
    BY ONLY <1>8, <1>9, <2>1 DEF Joined
  <2> QED
    BY ONLY <1>8, <1>9, <2>1, <2>2 DEF Joined
<1>11. <<>> \o s = s
  BY ONLY <1>5
<1> QED
  BY ONLY <1>6, <1>7, <1>10, <1>11 DEF ss, s

(* Nothing follows nothing. *)
LEMMA FlattenNothing == FlattenSeq(<<>>) = <<>>
<1>1. <<>> \in Seq(Seq(Octet)) /\ Len(<<>>) = 0
  OBVIOUS
<1>2. PICK g : Joined(g, <<>>, Octet)
  BY ONLY <1>1, FlattenJoins
<1> QED
  BY ONLY <1>1, <1>2 DEF Joined

LEMMA NoBlock == WriteBlock(<<>>) = <<>>
<1>1. [n \in DOMAIN <<>> |-> WriteRepresentation(<<>>[n])] = <<>>
  OBVIOUS
<1> QED
  BY ONLY <1>1, FlattenNothing DEF WriteBlock

(* Of a request that goes on in another frame there is no block. *)
LEMMA BlockOfNone ==
  ASSUME NEW p \in Seq(FrameRecord), NEW x \in FrameRecord, OfKind(p, HEADERS) = <<x>>,
         ~Flag(x, EndHeaders)
  PROVE  BlockOf(p) = <<>>
<1> DEFINE y == <<x>>
           k == Keep(OfKind(p, HEADERS), LAMBDA f : Flag(f, EndHeaders))
           e == [n \in DOMAIN k |-> HeaderBlockFragment(k[n])]
<1>1. y \in Seq(FrameRecord) /\ \A n \in DOMAIN y : y[n] = x
  OBVIOUS
<1>2. k = ElementsAt(y, {n \in DOMAIN y : Flag(y[n], EndHeaders)})
  BY ONLY OfKind(p, HEADERS) = <<x>> DEF Keep
<1> HIDE DEF y, k
<1>3. {n \in DOMAIN y : Flag(y[n], EndHeaders)} = {n \in DOMAIN y : y[n] \in {}}
  BY ONLY <1>1, ~Flag(x, EndHeaders)
<1>4. k = <<>>
  <2>1. FrameRecord \cap {} = {}
    OBVIOUS
  <2>2. Keeping(y, {}) = <<>>
    BY ONLY <1>1, <2>1, KeepingNone
  <2> QED
    BY ONLY <1>2, <1>3, <2>2 DEF Keeping
<1>5. e = <<>>
  BY ONLY <1>4
<1>6. BlockOf(p) = FlattenSeq(e)
  BY ONLY DEF BlockOf, k
<1> QED
  BY ONLY <1>5, <1>6, FlattenNothing

(* What is there, or one of what is. *)
LEMMA OrEmptyIs ==
  ASSUME NEW found
  PROVE  OrEmpty(found) = <<>> \/ OrEmpty(found) \in found
<1>1. CASE found = {}
  BY ONLY <1>1 DEF OrEmpty, None
<1>2. CASE found # {}
  <2>1. OrEmpty(found) = The(found)
    BY ONLY <1>2 DEF OrEmpty, None
  <2>2. PICK x : x \in found
    BY ONLY <1>2
  <2>3. The(found) \in found
    BY ONLY <2>2 DEF The
  <2> QED
    BY ONLY <2>1, <2>3
<1> QED
  BY ONLY <1>1, <1>2

(* The request's frame as a frame. *)
LEMMA RequestFrame ==
  ASSUME NEW flags \in Octet, NEW bytes \in Seq(Octet)
  PROVE  /\ WriteRequest(flags, 1, bytes) = Frame(HEADERS, flags, 1, Carried(flags, bytes))
         /\ Carried(flags, bytes) \in Seq(Octet) /\ HEADERS \in Octet /\ 1 \in Nat
<1> DEFINE a == PadLength(flags)
           d == Dependency(flags)
           z == Padding(flags)
<1>1. 0 \in Octet /\ 2 \in Octet /\ 128 \in Octet /\ 255 \in Octet
  BY DEF Octet
<1>2. a \in Seq(Octet) /\ d \in Seq(Octet) /\ z \in Seq(Octet)
  BY ONLY <1>1 DEF PadLength, Dependency, Padding
<1>3. WriteRequest(flags, 1, bytes) = Frame(HEADERS, flags, 1, Carried(flags, bytes))
  BY ONLY DEF WriteRequest, Carried, PadLength, Dependency, Padding
<1> HIDE DEF a, d, z
<1>4. a \o d \in Seq(Octet)
  BY ONLY <1>2, ConcatType
<1>5. (a \o d) \o bytes \in Seq(Octet)
  BY ONLY <1>4, bytes \in Seq(Octet), ConcatType
<1>6. ((a \o d) \o bytes) \o z \in Seq(Octet)
  BY ONLY <1>2, <1>5, ConcatType
<1>7. Carried(flags, bytes) \in Seq(Octet)
  BY ONLY <1>6 DEF Carried, a, d, z
<1> QED
  BY ONLY <1>3, <1>7, SmallOctets

(* The parts of a whole flight lie one behind the other. *)
SettingsOf(client) == Frame(SETTINGS, 0, 0, SettingsPayload(client.settings))
WindowOf(client) == OrEmpty({Frame(WINDOWUPDATE, 0, 0, Octets32(w)) : w \in client.window})
PrioritiesOf(client) == [n \in DOMAIN client.priorities |->
                           Frame(PRIORITY, 0, 2 * n + 1, client.priorities[n])]
FlightIs(client, v, buf) ==
  LET s == SettingsOf(client)
      w == WindowOf(client)
      p == FlattenSeq(PrioritiesOf(client))
      r == WriteRequest(client.flags, 1, WriteBlock(v.plan))
      at == 24 + Len(s)
  IN  /\ buf \in Seq(Octet) /\ IsPrefix(Preface, buf)
      /\ Len(s) \in Nat /\ Len(w) \in Nat /\ Len(p) \in Nat
      /\ Within(s, buf, 24) /\ Within(w, buf, at) /\ Within(p, buf, at + Len(w))
      /\ Within(r, buf, at + Len(w) + Len(p))

LEMMA FlightLies ==
  ASSUME NEW client \in ClientType, NEW v \in VisitType, v.flight = "whole"
  PROVE  FlightIs(client, v, WriteFlight(client, v))
<1> DEFINE buf == WriteFlight(client, v)
           s == SettingsOf(client)
           w == WindowOf(client)
           e == PrioritiesOf(client)
           p == FlattenSeq(e)
           r == WriteRequest(client.flags, 1, WriteBlock(v.plan))
           fs == Preface \o s
           fsw == fs \o w
           fswp == fsw \o p
<1>1. buf = fswp \o r
  BY ONLY v.flight = "whole" DEF WriteFlight, Opening, SettingsOf, WindowOf, PrioritiesOf
<1>2. buf \in Seq(Octet)
  BY ONLY client \in ClientType, v \in VisitType, WriteFlightType
<1>3. /\ client.flags \in Octet /\ v.plan \in Seq(WriteType) /\ client.settings \in Seq(Nat \X Nat)
      /\ client.window \subseteq Nat /\ client.priorities \in Seq(Seq(Octet))
  BY ONLY client \in ClientType, v \in VisitType DEF ClientType, VisitType
<1>4. s \in Seq(Octet)
  BY ONLY <1>3, SettingsFrameType DEF SettingsOf
<1>5. w \in Seq(Octet)
  BY ONLY <1>3, WindowFrameType DEF WindowOf
<1>6. r \in Seq(Octet)
  <2>1. WriteBlock(v.plan) \in Seq(Octet)
    BY ONLY <1>3, WriteBlockType
  <2> QED
    BY ONLY <1>3, <2>1, WriteRequestType
<1>7. p \in Seq(Octet)
  <2> DEFINE ps == client.priorities
  <2>1. /\ Len(ps) \in Nat /\ DOMAIN ps = 1 .. Len(ps)
        /\ \A n \in 1 .. Len(ps) : ps[n] \in Seq(Octet) /\ 2 * n + 1 \in Nat
    BY ONLY <1>3
  <2>2. \A n \in 1 .. Len(ps) : Frame(PRIORITY, 0, 2 * n + 1, ps[n]) \in Seq(Octet)
    BY ONLY <2>1, SmallOctets, FrameType
  <2>3. e \in [1 .. Len(ps) -> Seq(Octet)]
    BY ONLY <2>1, <2>2 DEF PrioritiesOf
  <2> HIDE DEF e, ps
  <2> QED
    BY ONLY <2>1, <2>3, FlattenEach
<1> HIDE DEF buf, s, w, p, r
<1>8. fs \in Seq(Octet) /\ fs = Preface \o s
  BY ONLY <1>4, PrefaceType, ConcatType
<1> HIDE DEF fs
<1>9. fsw \in Seq(Octet) /\ fsw = fs \o w
  BY ONLY <1>5, <1>8, ConcatType
<1> HIDE DEF fsw
<1>10. fswp \in Seq(Octet) /\ fswp = fsw \o p
  BY ONLY <1>7, <1>9, ConcatType
<1> HIDE DEF fswp
<1>11. Within(buf, buf, 0) /\ 0 \in Nat
  BY ONLY <1>2, StartsItself
<1>12. Within(fswp, buf, 0) /\ Within(r, buf, 0 + Len(fswp))
  BY ONLY <1>1, <1>2, <1>6, <1>10, <1>11, BytesApart
<1>13. /\ Within(fsw, buf, 0) /\ Within(p, buf, 0 + Len(fsw)) /\ Len(fswp) = Len(fsw) + Len(p)
       /\ Len(p) \in Nat
  <2>1. /\ fsw \in Seq(Octet) /\ p \in Seq(Octet) /\ fswp = fsw \o p
        /\ Within(fswp, buf, 0) /\ buf \in Seq(Octet) /\ 0 \in Nat
    BY ONLY <1>2, <1>7, <1>9, <1>10, <1>12
  <2> QED
    BY ONLY <2>1, BytesApart
<1>14. /\ Within(fs, buf, 0) /\ Within(w, buf, 0 + Len(fs)) /\ Len(fsw) = Len(fs) + Len(w)
       /\ Len(w) \in Nat
  <2>1. /\ fs \in Seq(Octet) /\ w \in Seq(Octet) /\ fsw = fs \o w
        /\ Within(fsw, buf, 0) /\ buf \in Seq(Octet) /\ 0 \in Nat
    BY ONLY <1>2, <1>5, <1>8, <1>9, <1>13
  <2> QED
    BY ONLY <2>1, BytesApart
<1>15. /\ Within(Preface, buf, 0) /\ Within(s, buf, 0 + Len(Preface))
       /\ Len(fs) = Len(Preface) + Len(s) /\ Len(s) \in Nat
  <2>1. /\ Preface \in Seq(Octet) /\ s \in Seq(Octet) /\ fs = Preface \o s
        /\ Within(fs, buf, 0) /\ buf \in Seq(Octet) /\ 0 \in Nat
    BY ONLY <1>2, <1>4, <1>8, <1>14, PrefaceType
  <2> QED
    BY ONLY <2>1, BytesApart
<1>16. /\ 0 + Len(Preface) = 24 /\ 0 + Len(fs) = 24 + Len(s)
       /\ 0 + Len(fsw) = 24 + Len(s) + Len(w) /\ 0 + Len(fswp) = 24 + Len(s) + Len(w) + Len(p)
  BY ONLY <1>13, <1>14, <1>15, PrefaceType
<1>17. IsPrefix(Preface, buf)
  <2>1. Preface = SubSeq(buf, 1, Len(Preface)) /\ Len(Preface) <= Len(buf)
    <3> DEFINE q == Preface
               n == Len(q)
               t == SubSeq(buf, 1, n)
    <3> HIDE DEF q
    <3>1. q \in Seq(Octet) /\ n \in Nat /\ DOMAIN q = 1 .. n
      BY ONLY PrefaceType DEF q
    <3>2. 0 + n <= Len(buf) /\ \A i \in 1 .. n : q[i] = buf[0 + i]
      BY ONLY <1>15 DEF Within, q
    <3>3. Len(buf) \in Nat /\ n <= Len(buf)
      BY ONLY <1>2, <3>1, <3>2
    <3>4. t \in Seq(Octet) /\ Len(t) = n /\ \A i \in 1 .. n : t[i] = buf[i]
      BY ONLY <1>2, <3>1, <3>3
    <3> HIDE DEF t, n
    <3>5. \A i \in 1 .. n : q[i] = t[i]
      BY ONLY <3>1, <3>2, <3>4
    <3>6. q = t
      BY ONLY <3>1, <3>4, <3>5 DEF n
    <3> QED
      BY ONLY <3>3, <3>6 DEF q, n, t
  <2> QED
    BY ONLY <2>1 DEF IsPrefix
<1>18. FlightIs(client, v, buf)
  BY ONLY <1>2, <1>12, <1>13, <1>14, <1>15, <1>16, <1>17 DEF FlightIs, s, w, p, r
<1> QED
  BY ONLY <1>18 DEF buf

(* The window that a client announces, if it does. *)
WindowSaid(client) ==
  CHOOSE n \in client.window : WindowOf(client) = Frame(WINDOWUPDATE, 0, 0, Octets32(n))

(* What is read of a whole flight: one request, one frame of settings, and   *)
(* the window when there is one.                                             *)
CarriesRequest(q, client, v) ==
  \E x \in FrameRecord :
    /\ OfKind(q, HEADERS) = <<x>>
    /\ x.flags = client.flags /\ x.payload = Carried(client.flags, WriteBlock(v.plan))
CarriesSettings(q, client) ==
  \E y \in FrameRecord : OfKind(q, SETTINGS) = <<y>> /\ y.payload = SettingsPayload(client.settings)
CarriesWindow(q, client) ==
  IF WindowOf(client) = <<>> THEN OfKind(q, WINDOWUPDATE) = <<>>
  ELSE \E z \in FrameRecord :
         OfKind(q, WINDOWUPDATE) = <<z>> /\ z.payload = Octets32(WindowSaid(client))

LEMMA FlightIsRead ==
  ASSUME NEW client \in ClientType, NEW v \in VisitType, FitsInFrames(client, v),
         v.flight = "whole"
  PROVE  /\ ParsePreamble(WriteFlight(client, v)) # {}
         /\ \A q \in ParsePreamble(WriteFlight(client, v)) :
              /\ q \in Seq(FrameRecord)
              /\ CarriesRequest(q, client, v) /\ CarriesSettings(q, client)
              /\ CarriesWindow(q, client)
<1> DEFINE buf == WriteFlight(client, v)
           flags == client.flags
           bytes == WriteBlock(v.plan)
           ps == client.priorities
           s == SettingsOf(client)
           w == WindowOf(client)
           e == PrioritiesOf(client)
           p == FlattenSeq(e)
           body == SettingsPayload(client.settings)
           at == 24 + Len(s)
           atP == at + Len(w)
           atR == atP + Len(p)
<1>1. /\ flags \in Octet /\ v.plan \in Seq(WriteType) /\ client.settings \in Seq(Nat \X Nat)
      /\ client.window \subseteq Nat /\ ps \in Seq(Seq(Octet))
  BY ONLY client \in ClientType, v \in VisitType DEF ClientType, VisitType
<1>2. bytes \in Seq(Octet)
  BY ONLY <1>1, WriteBlockType
<1>3. /\ Len(body) < 2^24 /\ \A n \in DOMAIN ps : Len(ps[n]) < 2^24
      /\ Len(WriteRequest(flags, 1, bytes)) < 2^24
  BY ONLY FitsInFrames(client, v) DEF FitsInFrames
<1>4. body \in Seq(Octet)
  BY ONLY <1>1, SettingsPayloadType
<1>5. /\ WriteRequest(flags, 1, bytes) = Frame(HEADERS, flags, 1, Carried(flags, bytes))
      /\ Carried(flags, bytes) \in Seq(Octet) /\ HEADERS \in Octet /\ 1 \in Nat
  BY ONLY <1>1, <1>2, RequestFrame
<1>6. FlightIs(client, v, buf)
  BY ONLY client \in ClientType, v \in VisitType, v.flight = "whole", FlightLies
<1>7. /\ buf \in Seq(Octet) /\ IsPrefix(Preface, buf)
      /\ Len(s) \in Nat /\ Len(w) \in Nat /\ Len(p) \in Nat
      /\ Within(s, buf, 24) /\ Within(w, buf, at) /\ Within(p, buf, atP)
      /\ Within(Frame(HEADERS, flags, 1, Carried(flags, bytes)), buf, atR)
  BY ONLY <1>5, <1>6 DEF FlightIs
<1>8. s = Frame(SETTINGS, 0, 0, body) /\ Len(s) = 9 + Len(body) /\ Len(body) \in Nat
  <2>1. s = Frame(SETTINGS, 0, 0, body)
    BY ONLY DEF SettingsOf
  <2>2. Len(Frame(SETTINGS, 0, 0, body)) = 9 + Len(body)
    BY ONLY <1>4, SmallOctets, FrameLength
  <2>3. Len(body) \in Nat
    BY ONLY <1>4
  <2> QED
    BY ONLY <2>1, <2>2, <2>3
<1> DEFINE m == WindowSaid(client)
           o == Octets32(m)
<1>9. w # <<>> => m \in Nat /\ w = Frame(WINDOWUPDATE, 0, 0, o)
  <2>1. w = <<>> \/ \E n \in client.window : w = Frame(WINDOWUPDATE, 0, 0, Octets32(n))
    BY ONLY OrEmptyIs DEF WindowOf
  <2>2. w # <<>> => m \in client.window /\ w = Frame(WINDOWUPDATE, 0, 0, Octets32(m))
    BY ONLY <2>1 DEF WindowSaid
  <2> QED
    BY ONLY <1>1, <2>2
<1>10. e = [n \in DOMAIN ps |-> Frame(PRIORITY, 0, 2 * n + 1, ps[n])]
  BY ONLY DEF PrioritiesOf
<1> HIDE DEF buf, flags, bytes, ps, s, w, e, body, m
<1>11. at \in Nat /\ atP \in Nat /\ atR \in Nat /\ 24 \in Nat
  BY ONLY <1>7
<1>12. PICK f : Preambles(buf, f)
  BY ONLY <1>7, PreambleUnfolds
<1> DEFINE x == FrameAt(buf, atR)
           z == FrameAt(buf, at)
           y == FrameAt(buf, 24)
<1>13. FrameIs(HEADERS, flags, Carried(flags, bytes), buf, atR)
  <2>1. Len(Carried(flags, bytes)) < 2^24
    <3> DEFINE c == Carried(flags, bytes)
               l == 2^24
    <3>1. Len(Frame(HEADERS, flags, 1, c)) = 9 + Len(c)
      BY ONLY <1>1, <1>5, FrameLength DEF flags
    <3>2. Len(Frame(HEADERS, flags, 1, c)) < l /\ Len(c) \in Nat
      BY ONLY <1>3, <1>5
    <3>3. l \in Nat
      BY ONLY SMT
    <3> HIDE DEF c, l
    <3> QED
      BY ONLY <3>1, <3>2, <3>3 DEF c, l
  <2>2. FrameLies(HEADERS, flags, 1, Carried(flags, bytes), buf, atR)
    BY ONLY <1>1, <1>5, <1>7, <1>11, <2>1 DEF FrameLies, flags
  <2> QED
    BY ONLY <2>2, FrameIsRead
<1>14. w # <<>> => FrameIs(WINDOWUPDATE, 0, o, buf, at) /\ Len(w) = 9 + Len(o)
  <2> SUFFICES ASSUME w # <<>> PROVE FrameIs(WINDOWUPDATE, 0, o, buf, at) /\ Len(w) = 9 + Len(o)
    OBVIOUS
  <2>1. o \in Seq(Octet) /\ Len(o) = 4
    BY ONLY <1>9, w # <<>>, OctetsType, OctetsLength
  <2> HIDE DEF o
  <2>2. Len(w) = 9 + Len(o)
    <3>1. Len(Frame(WINDOWUPDATE, 0, 0, o)) = 9 + Len(o)
      BY ONLY <2>1, SmallOctets, FrameLength
    <3>2. w = Frame(WINDOWUPDATE, 0, 0, o)
      BY ONLY <1>9, w # <<>>
    <3> QED
      BY ONLY <3>1, <3>2
  <2>3. Len(o) < 2^24
    <3>1. 4 < 2^24
      BY ONLY SMT
    <3> QED
      BY ONLY <2>1, <3>1
  <2>4. FrameLies(WINDOWUPDATE, 0, 0, o, buf, at)
    BY ONLY <1>7, <1>9, <1>11, w # <<>>, <2>1, <2>3, SmallOctets DEF FrameLies
  <2>5. FrameIs(WINDOWUPDATE, 0, o, buf, at)
    BY ONLY <2>4, FrameIsRead
  <2> QED
    BY ONLY <2>2, <2>5
<1> HIDE DEF o
<1>15. FrameIs(SETTINGS, 0, body, buf, 24)
  <2>1. FrameLies(SETTINGS, 0, 0, body, buf, 24)
    BY ONLY <1>3, <1>4, <1>7, <1>8, <1>11, SmallOctets DEF FrameLies
  <2> QED
    BY ONLY <2>1, FrameIsRead
<1>16. /\ x \in FrameRecord /\ x.flags = flags /\ x.payload = Carried(flags, bytes)
       /\ y \in FrameRecord /\ y.payload = body
       /\ w # <<>> => z \in FrameRecord /\ z.payload = o
  BY ONLY <1>13, <1>14, <1>15 DEF FrameIs
<1> DEFINE R(kind) == IF kind = HEADERS THEN <<x>> ELSE <<>>
           W(kind) == IF w # <<>> /\ WINDOWUPDATE = kind THEN <<z>> \o R(kind) ELSE R(kind)
           S(kind) == IF SETTINGS = kind THEN <<y>> \o W(kind) ELSE W(kind)
<1>17. ASSUME NEW kind, kind # PRIORITY
       PROVE  ReadsOn(f, buf, 24, kind, S(kind))
  <2>1. ReadsOn(f, buf, atR, kind, R(kind))
    BY ONLY <1>12, <1>13, RequestReads
  <2> HIDE DEF atR, x, R
  <2>2. ReadsOn(f, buf, atP, kind, R(kind))
    <3>1. PrioritiesLie(ps, e, buf, atP)
      <4>1. \A n \in 1 .. Len(ps) : Len(ps[n]) < 2^24
        BY ONLY <1>1, <1>3 DEF ps
      <4> QED
        BY ONLY <1>1, <1>7, <1>10, <1>11, <4>1 DEF PrioritiesLie, ps
    <3>2. ReadsOn(f, buf, atP + Len(FlattenSeq(e)), kind, R(kind))
      BY ONLY <2>1 DEF atR
    <3> HIDE DEF atP
    <3> QED
      BY ONLY <1>12, <1>17, <3>1, <3>2, PrioritiesRead
  <2>3. ReadsOn(f, buf, at, kind, W(kind))
    <3>1. CASE w = <<>>
      <4>1. atP = at
        <5>1. Len(w) = 0 /\ at \in Nat
          BY ONLY <1>11, <3>1
        <5> HIDE DEF at
        <5> QED
          BY ONLY <5>1
      <4> QED
        BY ONLY <2>2, <3>1, <4>1
    <3>2. CASE w # <<>>
      <4>1. FrameIs(WINDOWUPDATE, 0, o, buf, at) /\ Len(w) = 9 + Len(o)
        BY ONLY <1>14, <3>2
      <4>2. ReadsOn(f, buf, at + (9 + Len(o)), kind, R(kind))
        BY ONLY <2>2, <4>1
      <4>3. WINDOWUPDATE # HEADERS
        BY ONLY DEF WINDOWUPDATE, HEADERS
      <4>4. ReadsOn(f, buf, at, kind, IF WINDOWUPDATE = kind THEN <<z>> \o R(kind) ELSE R(kind))
        <5> HIDE DEF at
        <5> QED
          BY ONLY <1>12, <4>1, <4>2, <4>3, OtherReads
      <4> HIDE DEF z, at
      <4> QED
        BY ONLY <3>2, <4>4
    <3> QED
      BY ONLY <3>1, <3>2
  <2> HIDE DEF W
  <2>4. ReadsOn(f, buf, 24 + (9 + Len(body)), kind, W(kind))
    BY ONLY <1>8, <2>3
  <2>5. SETTINGS # HEADERS
    BY ONLY DEF SETTINGS, HEADERS
  <2> QED
    BY ONLY <1>12, <1>15, <2>4, <2>5, OtherReads
<1>18. ParsePreamble(buf) = f[24]
  BY ONLY <1>7, <1>12, PrefaceType DEF Preambles
<1> HIDE DEF x, y, z, at, atP, atR
<1>19. /\ S(HEADERS) = <<x>> /\ S(SETTINGS) = <<y>>
       /\ S(WINDOWUPDATE) = IF w = <<>> THEN <<>> ELSE <<z>>
  <2>1. <<y>> \o <<>> = <<y>> /\ <<z>> \o <<>> = <<z>>
    OBVIOUS
  <2>2. /\ HEADERS # SETTINGS /\ HEADERS # WINDOWUPDATE /\ SETTINGS # WINDOWUPDATE
    BY ONLY DEF HEADERS, SETTINGS, WINDOWUPDATE
  <2> QED
    BY ONLY <2>1, <2>2
<1>20. /\ ReadsOn(f, buf, 24, HEADERS, S(HEADERS)) /\ ReadsOn(f, buf, 24, SETTINGS, S(SETTINGS))
       /\ ReadsOn(f, buf, 24, WINDOWUPDATE, S(WINDOWUPDATE))
  <2>1. HEADERS # PRIORITY /\ SETTINGS # PRIORITY /\ WINDOWUPDATE # PRIORITY
    BY ONLY DEF HEADERS, SETTINGS, WINDOWUPDATE, PRIORITY
  <2> HIDE DEF S
  <2> QED
    BY ONLY <1>17, <2>1
<1> HIDE DEF S
<1>21. /\ f[24] # {}
       /\ \A q \in f[24] :
            /\ q \in Seq(FrameRecord)
            /\ OfKind(q, HEADERS) = <<x>> /\ OfKind(q, SETTINGS) = <<y>>
            /\ OfKind(q, WINDOWUPDATE) = IF w = <<>> THEN <<>> ELSE <<z>>
  BY ONLY <1>19, <1>20 DEF ReadsOn
<1>22. ASSUME NEW q \in f[24]
       PROVE  /\ q \in Seq(FrameRecord)
              /\ CarriesRequest(q, client, v) /\ CarriesSettings(q, client)
              /\ CarriesWindow(q, client)
  <2>1. CarriesRequest(q, client, v)
    BY ONLY <1>16, <1>21, q \in f[24] DEF CarriesRequest, flags, bytes
  <2>2. CarriesSettings(q, client)
    BY ONLY <1>16, <1>21, q \in f[24] DEF CarriesSettings, body
  <2>3. CarriesWindow(q, client)
    BY ONLY <1>16, <1>21, q \in f[24] DEF CarriesWindow, w, o, m
  <2> QED
    BY ONLY <1>21, <2>1, <2>2, <2>3
<1> QED
  BY ONLY <1>18, <1>21, <1>22 DEF buf

(* The block of a whole request comes out of the flight as it was written   *)
(* into it, and none does of a request that goes on in another frame.       *)
Announced(client, plan) == IF (client.flags \div EndHeaders) % 2 = 1 THEN plan ELSE <<>>

LEMMA RequestIsRead ==
  ASSUME NEW client \in ClientType, NEW v \in VisitType, FitsInFrames(client, v),
         v.flight = "whole"
  PROVE  OrEmpty({BlockOf(f) : f \in ParsePreamble(WriteFlight(client, v))}) =
           WriteBlock(Announced(client, v.plan))
<1> DEFINE frames == ParsePreamble(WriteFlight(client, v))
           bytes == WriteBlock(Announced(client, v.plan))
           ends == (client.flags \div EndHeaders) % 2 = 1
<1>1. frames # {} /\ \A q \in frames : q \in Seq(FrameRecord) /\ CarriesRequest(q, client, v)
  BY ONLY client \in ClientType, v \in VisitType, FitsInFrames(client, v), v.flight = "whole",
          FlightIsRead
<1>2. WriteBlock(v.plan) \in Seq(Octet)
  <2>1. v.plan \in Seq(WriteType)
    BY ONLY v \in VisitType DEF VisitType
  <2> QED
    BY ONLY <2>1, WriteBlockType
<1> HIDE DEF frames
<1>3. ASSUME NEW q \in frames PROVE BlockOf(q) = bytes
  <2>1. PICK x \in FrameRecord :
          /\ OfKind(q, HEADERS) = <<x>>
          /\ x.flags = client.flags /\ x.payload = Carried(client.flags, WriteBlock(v.plan))
    BY ONLY <1>1, q \in frames DEF CarriesRequest
  <2>2. q \in Seq(FrameRecord)
    BY ONLY <1>1, q \in frames
  <2>3. Flag(x, EndHeaders) <=> ends
    BY ONLY <2>1 DEF Flag
  <2>4. CASE ends
    <3>1. HeaderBlockFragment(x) = WriteBlock(v.plan)
      BY ONLY <1>2, <2>1, FragmentIsBlock
    <3>2. BlockOf(q) = HeaderBlockFragment(x)
      BY ONLY <2>1, <2>2, <2>3, <2>4, BlockOfOne
    <3> QED
      BY ONLY <2>4, <3>1, <3>2 DEF Announced
  <2>5. CASE ~ends
    <3>1. BlockOf(q) = <<>>
      BY ONLY <2>1, <2>2, <2>3, <2>5, BlockOfNone
    <3>2. WriteBlock(<<>>) = <<>>
      BY ONLY NoBlock
    <3> QED
      BY ONLY <2>5, <3>1, <3>2 DEF Announced
  <2> QED
    BY ONLY <2>4, <2>5
<1> HIDE DEF bytes
<1>4. {BlockOf(q) : q \in frames} = {bytes}
  BY ONLY <1>1, <1>3
<1>5. OrEmpty({bytes}) = bytes
  BY ONLY DEF OrEmpty, None, The
<1> QED
  BY ONLY <1>4, <1>5 DEF frames, bytes

-----------------------------------------------------------------------------
(* The decoder follows the client *)

(* While the request of a visit is decoded, the decoder is where its plan   *)
(* has it.                                                                  *)
ReadsWhole ==
  /\ stage = "decode" /\ User # "emulate"
  /\ AlpnOf(The(visit)) = Some(Http2)
  /\ The(visit).flight = "whole"
PlanInv ==
  \A plan : ReadsWhole /\ plan = Announced(scene.client, The(visit).plan) /\ WithinLimits(plan)
               => FollowsPlan(plan)

LEMMA AnnouncedType ==
  ASSUME NEW client, NEW v \in VisitType
  PROVE  Announced(client, v.plan) \in Seq(WriteType)
<1>1. v.plan \in Seq(WriteType) /\ <<>> \in Seq(WriteType)
  BY DEF VisitType
<1> QED
  BY ONLY <1>1 DEF Announced

LEMMA PlanIsPlan ==
  ASSUME ConnectionInv, visit # None
  PROVE  The(visit) \in VisitType /\ Announced(scene.client, The(visit).plan) \in Seq(WriteType)
<1>1. The(visit) \in VisitType
  BY TheOne DEF ConnectionInv
<1> QED
  BY ONLY <1>1, AnnouncedType

(* The captured request is what is decoded.                                 *)
LEMMA PlanStarts ==
  ASSUME Inv, Connect
  PROVE  PlanInv'
<1>1. SceneInv /\ ConnectionInv
  BY DEF Inv
<1>2. stage' = "decode" /\ scene' = scene /\ samples' = samples /\ db' = db
  BY DEF Connect
<1>3. PICK v \in Visits :
        /\ visit' = Some(v)
        /\ OpenBlock(OrEmpty({BlockOf(f) : f \in ParsePreamble(FlightOf(v))}))
  BY DEF Connect
<1>4. v \in VisitType
  BY ONLY <1>1, <1>3, VisitsType
<1>5. The(visit') = v
  BY ONLY <1>3 DEF The, Some
<1>6. User' = User /\ Speaker' = Speaker
  BY ONLY <1>2, WhoStays
<1> SUFFICES ASSUME NEW plan, ReadsWhole', plan = Announced(scene'.client, The(visit').plan),
                    WithinLimits(plan)
             PROVE  FollowsPlan(plan)'
  BY Zenon DEF PlanInv, The, Announced
<1>15. plan = Announced(scene.client, v.plan)
  BY ONLY <1>2, <1>5, plan = Announced(scene'.client, The(visit').plan)
<1>7. /\ User # "emulate" /\ v.flight = "whole"
  BY ONLY <1>2, <1>5, <1>6, ReadsWhole' DEF ReadsWhole
<1>8. AlpnOf(v) = Some(Http2)
  BY ONLY <1>5, <1>6, ReadsWhole' DEF ReadsWhole, AlpnOf, Completes
<1>9. FlightOf(v) = WriteFlight(scene.client, v)
  BY ONLY <1>7, <1>8 DEF FlightOf
<1>10. scene.client \in ClientType /\ FitsInFrames(scene.client, v)
  <2>1. scene \in Scenes
    BY ONLY <1>1 DEF SceneInv
  <2>2. scene.client \in ClientType
    BY ONLY <2>1, SceneFacts
  <2>3. v \in scene.sampled \cup scene.visits
    BY ONLY <1>3 DEF Visits
  <2>4. FitsInFrames(scene.client, v)
    BY ONLY <2>1, <2>3, ScenesAssumption
  <2> QED
    BY ONLY <2>2, <2>4
<1>11. OrEmpty({BlockOf(f) : f \in ParsePreamble(FlightOf(v))}) = WriteBlock(plan)
  BY ONLY <1>4, <1>7, <1>9, <1>10, <1>15, RequestIsRead
<1>12. OpenBlock(WriteBlock(plan))
  BY ONLY <1>3, <1>11
<1>13. plan \in Seq(WriteType)
  BY ONLY <1>4, <1>15, AnnouncedType
<1>14. Sendable(plan)
  BY ONLY <1>13, WithinLimits(plan) DEF Sendable
<1> QED
  BY ONLY <1>12, <1>14, PlanOpens

(* Each of the decoder's steps keeps to the plan. *)
LEMMA PlanGoesOn ==
  ASSUME Inv, PlanInv, DecodeStep
  PROVE  PlanInv'
<1>1. /\ stage = "decode" /\ stage' = "decode" /\ scene' = scene /\ visit' = visit
      /\ samples' = samples /\ db' = db /\ Decode
  BY DEF DecodeStep, connectionVars
<1>2. User' = User /\ Speaker' = Speaker
  BY ONLY <1>1, WhoStays
<1>3. ReadsWhole' => ReadsWhole
  BY ONLY <1>1, <1>2 DEF ReadsWhole, AlpnOf, Completes
<1>4. visit # None
  BY ONLY Inv, <1>1 DEF Inv, ConnectionInv
<1>5. Announced(scene.client, The(visit).plan) \in Seq(WriteType) /\ DecoderInv
  BY ONLY Inv, <1>4, PlanIsPlan DEF Inv
<1> SUFFICES ASSUME NEW plan, ReadsWhole', plan = Announced(scene'.client, The(visit').plan),
                    WithinLimits(plan)
             PROVE  FollowsPlan(plan)'
  BY Zenon DEF PlanInv, The, Announced
<1>6. plan = Announced(scene.client, The(visit).plan)
  BY ONLY <1>1, plan = Announced(scene'.client, The(visit').plan)
<1>8. FollowsPlan(plan)
  BY ONLY <1>3, <1>6, PlanInv, ReadsWhole', WithinLimits(plan) DEF PlanInv
<1>9. Sendable(plan)
  BY ONLY <1>5, <1>6, WithinLimits(plan) DEF Sendable
<1> QED
  BY ONLY <1>1, <1>5, <1>8, <1>9, DecodeFollows

(* What else happens leaves the decoder, or ends the decoding. *)
LEMMA PlanStays ==
  ASSUME PlanInv, scene' = scene, stage' = stage, visit' = visit, samples' = samples, db' = db,
         UNCHANGED decoderVars
  PROVE  PlanInv'
<1>1. User' = User /\ Speaker' = Speaker
  BY ONLY scene' = scene, samples' = samples, db' = db, WhoStays
<1>2. ReadsWhole' => ReadsWhole
  BY ONLY <1>1, scene' = scene, stage' = stage, visit' = visit DEF ReadsWhole, AlpnOf, Completes
<1>3. ASSUME NEW plan, FollowsPlan(plan) PROVE FollowsPlan(plan)'
  BY ONLY UNCHANGED decoderVars, FollowsPlan(plan)
     DEF decoderVars, tableVars, FollowsPlan, GivesUp, InStep
<1> QED
  BY ONLY PlanInv, visit' = visit, scene' = scene, <1>2, <1>3 DEF PlanInv

LEMMA InitPlanInv == Init => PlanInv
BY DEF Init, PlanInv, ReadsWhole

LEMMA NextPlanInv == Inv /\ PlanInv /\ [Next]_vars => PlanInv'
<1> SUFFICES ASSUME Inv, PlanInv, [Next]_vars PROVE PlanInv'
  OBVIOUS
<1>1. CASE Connect
  BY <1>1, PlanStarts
<1>2. CASE DecodeStep
  BY <1>2, PlanGoesOn
<1>3. CASE UNCHANGED vars
  BY ONLY <1>3, PlanInv, PlanStays DEF vars, connectionVars
<1>4. CASE CannotBuild \/ BuildReport \/ Sample \/ NothingToSay \/ Check \/ Serve \/ Accept \/ Verify
  <2>1. stage' # "decode"
    <3>1. scene \in Scenes
      BY ONLY Inv DEF Inv, SceneInv
    <3>2. User # "decode"
      BY ONLY <3>1, SceneFacts DEF User
    <3> QED
      BY ONLY <1>4, <3>2 DEF CannotBuild, BuildReport, Sample, NothingToSay, Check, Serve, Accept,
                             Verify
  <2> QED
    BY ONLY <2>1 DEF PlanInv, ReadsWhole
<1> QED
  BY ONLY <1>1, <1>2, <1>3, <1>4, [Next]_vars DEF Next

(* At the end of the decoding the plan has been followed to its own end.    *)
LEMMA HeardToTheEnd ==
  ASSUME Inv, PlanInv, ReadsWhole, decoding \in {"done", "failed"},
         NEW plan, plan = Announced(scene.client, The(visit).plan), WithinLimits(plan)
  PROVE  IF IsLegal(Peer(plan))
         THEN decoding = "done" /\ fields = Peer(plan).meant /\ entries = Peer(plan).entries
         ELSE decoding = "failed" /\ fields = <<>>
<1>1. DecoderInv /\ ConnectionInv
  BY ONLY Inv DEF Inv
<1>2. visit # None
  BY ONLY <1>1, ReadsWhole DEF ReadsWhole, ConnectionInv
<1>3. plan \in Seq(WriteType)
  BY ONLY <1>1, <1>2, PlanIsPlan, plan = Announced(scene.client, The(visit).plan)
<1>4. FollowsPlan(plan)
  BY ONLY PlanInv, ReadsWhole, plan = Announced(scene.client, The(visit).plan), WithinLimits(plan)
     DEF PlanInv
<1>5. Sendable(plan)
  BY ONLY <1>3, WithinLimits(plan) DEF Sendable
<1> QED
  BY ONLY <1>1, <1>4, <1>5, decoding \in {"done", "failed"}, FollowedToTheEnd

(* The decoder gives the fields that the client meant, and keeps the dynamic *)
(* table that the client counts on, whatever is inserted, evicted, resized   *)
(* and referred to, in strings with and without Huffman coding; a block that *)
(* refers to what there is not gives none.                                   *)
THEOREM DecoderFollowsAlways == Spec => []DecoderFollowsTheClient
<1>1. Inv /\ PlanInv => DecoderFollowsTheClient
  <2> SUFFICES ASSUME Inv, PlanInv PROVE DecoderFollowsTheClient
    OBVIOUS
  <2>1. DecoderInv /\ ConnectionInv
    BY ONLY Inv DEF Inv
  <2>2. PICK plan : plan = The(visit).plan
    OBVIOUS
  <2>3. ASSUME ReadsPlan, decoding \in {"done", "failed"}, WithinLimits(plan)
        PROVE  IF IsLegal(Peer(plan))
               THEN decoding = "done" /\ fields = Peer(plan).meant /\ entries = Peer(plan).entries
               ELSE decoding = "failed" /\ fields = <<>>
    <3>1. ReadsWhole /\ plan = Announced(scene.client, The(visit).plan)
      BY ONLY <2>2, <2>3 DEF ReadsPlan, ReadsWhole, AsksInOneFrame, Announced
    <3> QED
      BY ONLY Inv, PlanInv, <2>3, <3>1, HeardToTheEnd
  <2>4. TableAccounts
    BY ONLY <2>1 DEF DecoderInv
  <2> QED
    BY ONLY <2>2, <2>3, <2>4, Zenon DEF DecoderFollowsTheClient, IsLegal
<1>2. Spec => []PlanInv
  BY InitPlanInv, NextPlanInv, Invariance, PTL DEF Spec
<1> QED
  BY <1>1, <1>2, Invariance, PTL

-----------------------------------------------------------------------------
(* What a profile keeps of a hello is the same on every visit *)

NotPsk == {x \in NotGrease : x # PreSharedKey}

(* Lengths of what is joined, for every two. *)
LEMMA JoinsAreLong ==
  /\ \A p, q \in Seq(Nat) : p \o q \in Seq(Nat) /\ Len(p \o q) = Len(p) + Len(q)
  /\ \A p \in Seq(Nat) : Len(p) \in Nat /\ p \o <<>> = p /\ <<>> \o p = p
OBVIOUS

(* What the comparison takes of the extensions, of all and of what a profile *)
(* keeps of them.                                                            *)
LEMMA WithoutPskIs ==
  ASSUME NEW values \in Seq(Nat)
  PROVE  /\ WithoutPsk(values) = Keeping(values, NotPsk)
         /\ WithoutPsk(Strip(values)) = Keeping(values, NotPsk)
<1> DEFINE Rest == {x \in Nat : x # PreSharedKey}
           s == Strip(values)
<1>1. \A q \in Seq(Nat) : DOMAIN q = 1 .. Len(q) /\ \A n \in DOMAIN q : q[n] \in Nat
  OBVIOUS
<1>2. s \in Seq(Nat) /\ s = Keeping(values, NotGrease)
  BY StripType, StripIs
<1> HIDE DEF s
<1>3. Strip(s) = s
  <2>1. Strip(s) = Keeping(s, NotGrease)
    BY ONLY <1>2, StripIs
  <2>2. s \in Seq(NotGrease)
    <3>1. \A x \in Nat : x \in NotGrease => x \in NotGrease
      OBVIOUS
    <3> QED
      BY ONLY <1>2, <3>1, values \in Seq(Nat), KeepingType
  <2>3. Keeping(s, NotGrease) = s
    BY ONLY <2>2, KeepingAll
  <2> QED
    BY ONLY <2>1, <2>3
<1>4. Keep(s, LAMBDA x : x # PreSharedKey) = Keeping(s, Rest)
  <2>1. {n \in DOMAIN s : s[n] # PreSharedKey} = {n \in DOMAIN s : s[n] \in Rest}
    BY ONLY <1>1, <1>2
  <2> QED
    BY ONLY <2>1 DEF Keep, Keeping
<1>5. \A x \in Nat : x \in NotPsk <=> x \in NotGrease /\ x \in Rest
  BY DEF NotPsk, NotGrease
<1> HIDE DEF Rest
<1>6. Keeping(Keeping(values, NotGrease), Rest) = Keeping(values, NotPsk)
  BY ONLY <1>5, values \in Seq(Nat), KeepingTwice
<1>7. WithoutPsk(values) = Keeping(values, NotPsk)
  BY ONLY <1>2, <1>4, <1>6 DEF WithoutPsk, s
<1>8. WithoutPsk(s) = Keeping(values, NotPsk)
  BY ONLY <1>2, <1>3, <1>4, <1>6 DEF WithoutPsk
<1> QED
  BY ONLY <1>7, <1>8 DEF s

(* The extensions of a client that does not permute them are kept in its   *)
(* order.                                                                  *)
LEMMA LastingInOrder ==
  ASSUME NEW client \in ClientType, NEW v \in VisitType, NEW S, v.grease \notin S
  PROVE  /\ ~client.permutes =>
              Keeping(ExtensionIds(client, v), S) = Lasting(client, v.resumed, S)
         /\ Len(ExtensionIds(client, v)) =
              (IF client.grease THEN 2 ELSE 0) + Len(client.extensions) + (IF v.resumed THEN 1 ELSE 0)
<1> DEFINE e == client.extensions
           a == IF client.permutes /\ v.flipped THEN Reverse(e) ELSE e
           b == Resumption(v.resumed)
           c == IF client.grease THEN <<v.grease>> ELSE <<>>
           K(s) == Keeping(s, S)
           ids == ExtensionIds(client, v)
<1>1. e \in Seq(Nat) /\ v.grease \in Nat
  <2>1. SaysHello(client)
    BY ClientFacts
  <2> QED
    BY <2>1, VisitFacts DEF SaysHello
<1>2. a \in Seq(Nat) /\ Len(a) = Len(e) /\ (~client.permutes => a = e)
  <2>1. Reverse(e) \in Seq(Nat) /\ Len(Reverse(e)) = Len(e)
    <3>1. Reverse(e) \in Seq(Nat)
      BY ONLY <1>1, ReverseType
    <3>2. Reverse(e) = [i \in 1 .. Len(e) |-> e[(Len(e) - i) + 1]] /\ Len(e) \in Nat
      BY ONLY <1>1 DEF Reverse
    <3>3. DOMAIN Reverse(e) = 1 .. Len(e)
      BY ONLY <3>2
    <3> QED
      BY ONLY <3>1, <3>2, <3>3
  <2> QED
    BY ONLY <1>1, <2>1
<1>3. b \in Seq(Nat) /\ Len(b) = (IF v.resumed THEN 1 ELSE 0)
  <2>1. PreSharedKey \in Nat
    BY DEF PreSharedKey
  <2> QED
    BY <2>1 DEF Resumption
<1>4. /\ c \in Seq(Nat) /\ c \in Seq({v.grease}) /\ c \o <<>> = c
      /\ Len(c) = IF client.grease THEN 1 ELSE 0
  <2>1. <<v.grease>> \in Seq(Nat) /\ <<v.grease>> \in Seq({v.grease}) /\ Len(<<v.grease>>) = 1
    BY <1>1
  <2>2. <<>> \in Seq(Nat) /\ <<>> \in Seq({v.grease}) /\ Len(<<>>) = 0
    OBVIOUS
  <2>3. c \in Seq(Nat) /\ c \in Seq({v.grease}) /\ Len(c) = IF client.grease THEN 1 ELSE 0
    <3>1. CASE client.grease
      <4>1. c = <<v.grease>>
        BY ONLY <3>1
      <4> HIDE DEF c
      <4> QED
        BY ONLY <2>1, <3>1, <4>1
    <3>2. CASE ~client.grease
      <4>1. c = <<>>
        BY ONLY <3>2
      <4> HIDE DEF c
      <4> QED
        BY ONLY <2>2, <3>2, <4>1
    <3> QED
      BY ONLY <3>1, <3>2
  <2> HIDE DEF c
  <2> QED
    BY <2>3
<1>5. ids = ((c \o a) \o c) \o b
  <2>1. ids = ((c \o a) \o (c \o <<>>)) \o b
    BY DEF ExtensionIds, Greased, Resumption
  <2> HIDE DEF a, b, c, ids
  <2> QED
    BY ONLY <1>4, <2>1
<1>6. K(c) = <<>>
  <2>1. {v.grease} \cap S = {}
    OBVIOUS
  <2> HIDE DEF c
  <2> QED
    BY ONLY <1>4, <2>1, KeepingNone
<1> HIDE DEF a, b, c, e
<1>7. K(((c \o a) \o c) \o b) = ((K(c) \o K(a)) \o K(c)) \o K(b)
  <2>1. c \in Seq(Nat) /\ a \in Seq(Nat) /\ b \in Seq(Nat)
    BY ONLY <1>2, <1>3, <1>4
  <2> DEFINE J(p, q, r, t) == K(((p \o q) \o r) \o t) = ((K(p) \o K(q)) \o K(r)) \o K(t)
  <2>2. \A p, q, r, t \in Seq(Nat) : J(p, q, r, t)
    BY ONLY KeepingFour DEF J, K
  <2> HIDE DEF J
  <2>3. J(c, a, c, b)
    BY ONLY <2>1, <2>2
  <2> QED
    BY ONLY <2>3 DEF J
<1>8. K(a) \in Seq(Nat) /\ K(b) \in Seq(Nat)
  BY ONLY <1>2, <1>3, KeepingType
<1>9. K(ids) = K(a) \o K(b)
  <2>1. (<<>> \o K(a)) \o <<>> = K(a)
    <3> HIDE DEF K
    <3> QED
      BY ONLY <1>8
  <2> HIDE DEF K, ids
  <2> QED
    BY ONLY <1>5, <1>6, <1>7, <2>1
<1>10. Lasting(client, v.resumed, S) = K(e) \o K(b)
  BY DEF Lasting, e, b
<1>11. ~client.permutes => K(ids) = Lasting(client, v.resumed, S)
  BY ONLY <1>2, <1>9, <1>10
<1>12. Len(ids) = ((Len(c) + Len(a)) + Len(c)) + Len(b)
  <2> DEFINE x == c \o a
             y == x \o c
  <2>0. \A p, q \in Seq(Nat) : p \o q \in Seq(Nat) /\ Len(p \o q) = Len(p) + Len(q)
    OBVIOUS
  <2>4. c \in Seq(Nat) /\ a \in Seq(Nat) /\ b \in Seq(Nat)
    BY ONLY <1>2, <1>3, <1>4
  <2>1. x \in Seq(Nat) /\ Len(x) = Len(c) + Len(a)
    BY ONLY <2>0, <2>4
  <2> HIDE DEF x
  <2>2. y \in Seq(Nat) /\ Len(y) = Len(x) + Len(c)
    BY ONLY <2>0, <2>4, <2>1
  <2> HIDE DEF y
  <2>3. Len(y \o b) = Len(y) + Len(b)
    BY ONLY <2>0, <2>4, <2>2
  <2> QED
    BY ONLY <1>5, <2>1, <2>2, <2>3 DEF x, y
<1> DEFINE l == Len(e)
<1>13. l \in Nat /\ Len(a) = l
  BY ONLY <1>1, <1>2
<1> HIDE DEF l, ids
<1>14. Len(ids) = (IF client.grease THEN 2 ELSE 0) + l + (IF v.resumed THEN 1 ELSE 0)
  BY ONLY <1>3, <1>4, <1>12, <1>13
<1> QED
  BY ONLY <1>11, <1>14 DEF K, ids, e, l


(* How much GREASE there is in a list. *)
LEMMA GreaseCounted ==
  ASSUME NEW values \in Seq(Nat)
  PROVE  /\ Cardinality(GreasePositions(values)) \in Nat /\ Len(Keeping(values, NotGrease)) \in Nat
         /\ Cardinality(GreasePositions(values)) + Len(Keeping(values, NotGrease)) = Len(values)
<1>1. \A n \in DOMAIN values : values[n] \in Nat
  OBVIOUS
<1>2. GreasePositions(values) = {n \in DOMAIN values : values[n] \notin NotGrease}
  BY ONLY <1>1 DEF GreasePositions, NotGrease
<1>3. Len(Keeping(values, NotGrease)) \in Nat
  <2>1. Keeping(values, NotGrease) \in Seq(Nat)
    <3>1. \A x \in Nat : x \in NotGrease => x \in Nat
      OBVIOUS
    <3> QED
      BY ONLY <3>1, values \in Seq(Nat), KeepingType
  <2> QED
    BY ONLY <2>1
<1> QED
  BY ONLY <1>2, <1>3, values \in Seq(Nat), KeepingCounts

(* What a report says of a client's hello that the comparison looks at.      *)
GreaseCiphersOf(client) ==
  (IF client.grease THEN 1 ELSE 0) + Len(client.ciphers) - Len(Keeping(client.ciphers, NotGrease))
GreaseExtsOf(client) ==
  IF client.extensions = <<>> THEN 0
  ELSE (IF client.grease THEN 2 ELSE 0) + Len(client.extensions)
         - Len(Keeping(client.extensions, NotGrease))
AlpnSaid(client) ==
  {p \in UNION {ListBehind(1, l) : l \in Listed(client, 0, ALPN, 2)} : IsText(p)}

CiphersSaid(tls, client) ==
  /\ Strip(tls.ciphers) = Keeping(client.ciphers, NotGrease)
  /\ Cardinality(tls.greaseCiphers) = GreaseCiphersOf(client)
OffersSaid(tls, client) ==
  /\ tls.alpn = AlpnSaid(client)
  /\ tls.hasSni = (SNI \in ToSet(client.extensions))
ExtensionsSaid(ids, positions, client) ==
  LET own == Keeping(client.extensions, NotPsk)
  IN  /\ WithoutPsk(Strip(ids)) = WithoutPsk(ids)
      /\ Sorted(WithoutPsk(ids)) = Sorted(own)
      /\ ~client.permutes => WithoutPsk(ids) = own
      /\ Cardinality(positions) = GreaseExtsOf(client)

LEMMA CiphersAreSaid ==
  ASSUME NEW client \in ClientType, NEW v \in VisitType, NEW h, HelloIs(h, client, v)
  PROVE  CiphersSaid(TlsOf(h), client)
<1> DEFINE values == Greased(client, v.grease, client.ciphers)
           own == Keeping(client.ciphers, NotGrease)
<1>1. h.ciphers = values
  BY DEF HelloIs
<1>2. client.ciphers \in Seq(Nat) /\ v.grease \in Nat
  BY ClientFacts, VisitFacts DEF SaysHello
<1>3. values \in Seq(Nat) /\ Len(values) = (IF client.grease THEN 1 ELSE 0) + Len(client.ciphers)
  <2> DEFINE c == <<v.grease>>
             s == client.ciphers
  <2>1. c \in Seq(Nat) /\ Len(c) = 1 /\ s \in Seq(Nat) /\ <<>> \o s = s /\ Len(s) \in Nat
    BY ONLY <1>2
  <2> HIDE DEF c, s
  <2>5. c \o s \in Seq(Nat) /\ Len(c \o s) = Len(c) + Len(s)
    BY ONLY <2>1, JoinsAreLong
  <2>2. c \o s \in Seq(Nat) /\ Len(c \o s) = 1 + Len(s) /\ 0 + Len(s) = Len(s)
    <3> DEFINE n == Len(s)
    <3>1. n \in Nat /\ Len(c) = 1 /\ Len(c \o s) = Len(c) + n
      BY ONLY <2>1, <2>5
    <3> HIDE DEF n
    <3>2. Len(c \o s) = 1 + n /\ 0 + n = n
      BY ONLY <3>1
    <3> QED
      BY ONLY <2>5, <3>2 DEF n
  <2>3. values = IF client.grease THEN c \o s ELSE s
    BY ONLY <2>1 DEF Greased, c, s
  <2> HIDE DEF values
  <2>4. values \in Seq(Nat) /\ Len(values) = (IF client.grease THEN 1 ELSE 0) + Len(s)
    BY ONLY <2>1, <2>2, <2>3
  <2> QED
    BY ONLY <2>4 DEF s
<1>4. Strip(values) = own
  BY ONLY client \in ClientType, v \in VisitType, CiphersStripped
<1> HIDE DEF values, own
<1>5. Strip(values) = Keeping(values, NotGrease)
  BY ONLY <1>3, StripIs
<1>6. /\ Cardinality(GreasePositions(values)) \in Nat /\ Len(own) \in Nat
      /\ Cardinality(GreasePositions(values)) + Len(own) = Len(values)
  BY ONLY <1>3, <1>4, <1>5, GreaseCounted
<1>7. Cardinality(GreasePositions(values)) = GreaseCiphersOf(client)
  <2> DEFINE n == Len(client.ciphers)
             g == IF client.grease THEN 1 ELSE 0
  <2>1. n \in Nat /\ g \in Nat /\ Len(values) = g + n
    BY ONLY <1>2, <1>3
  <2>2. GreaseCiphersOf(client) = g + n - Len(own)
    BY ONLY DEF GreaseCiphersOf, own
  <2> HIDE DEF n, g
  <2> QED
    BY ONLY <1>6, <2>1, <2>2
<1>8. TlsOf(h).ciphers = values /\ TlsOf(h).greaseCiphers = GreasePositions(values)
  BY ONLY <1>1 DEF TlsOf
<1> QED
  BY ONLY <1>4, <1>7, <1>8 DEF CiphersSaid, own

LEMMA OffersAreSaid ==
  ASSUME NEW client \in ClientType, NEW v \in VisitType, NEW h, HelloIs(h, client, v)
  PROVE  OffersSaid(TlsOf(h), client)
<1> DEFINE exts == h.extensions
<1>1. HasExtension(exts, SNI) <=> SNI \in ToSet(client.extensions)
  BY ListedRead DEF LookedInto
<1>2. ListIn(exts, ALPN, 2) = Listed(client, 0, ALPN, 2)
  <2>1. ListIn(exts, ALPN, 2) = Listed(client, v.grease, ALPN, 2)
    BY ListedRead DEF LookedInto
  <2> QED
    BY ONLY <2>1, ListedWithoutGrease
<1>3. TlsOf(h).alpn = FirstAlpn(exts) /\ TlsOf(h).hasSni = HasExtension(exts, SNI)
  BY ONLY DEF TlsOf
<1> HIDE DEF exts
<1>4. HasExtension(exts, SNI) = (SNI \in ToSet(client.extensions))
  <2>1. HasExtension(exts, SNI) \in BOOLEAN
    BY ONLY DEF HasExtension
  <2> QED
    BY ONLY <1>1, <2>1
<1>5. FirstAlpn(exts) = AlpnSaid(client)
  BY ONLY <1>2 DEF FirstAlpn, AlpnSaid
<1> QED
  BY ONLY <1>3, <1>4, <1>5 DEF OffersSaid

LEMMA ExtensionsAreSaid ==
  ASSUME NEW client \in ClientType, NEW v \in VisitType, NEW h, HelloIs(h, client, v)
  PROVE  ExtensionsSaid(Ids(h.extensions), GreasePositions(Ids(h.extensions)), client)
<1> DEFINE ids == Ids(h.extensions)
           e == client.extensions
           own == Keeping(e, NotPsk)
           K(s) == Keeping(s, NotGrease)
<1>1. e \in Seq(Nat) /\ v.grease \in Nat /\ v.grease \notin NotGrease /\ v.grease \notin NotPsk
  BY ClientFacts, VisitFacts DEF SaysHello, NotGrease, NotPsk
<1>2. PreSharedKey \in Nat /\ PreSharedKey \in NotGrease /\ PreSharedKey \notin NotPsk
  <2>1. 41 \div 256 = 0 /\ 41 % 256 = 41
    OBVIOUS
  <2> QED
    BY ONLY <2>1 DEF PreSharedKey, NotGrease, NotPsk, IsGrease
<1>3. CASE e = <<>>
  <2>1. ids = <<>> /\ <<>> \in Seq(Nat) /\ Len(<<>>) = 0
    BY ONLY <1>3, HelloIs(h, client, v) DEF HelloIs, Ids
  <2>2. own = <<>> /\ Keeping(ids, NotPsk) = <<>> /\ K(ids) = <<>>
    BY ONLY <1>3, <2>1, KeepingEmpty
  <2>3. WithoutPsk(ids) = <<>> /\ WithoutPsk(Strip(ids)) = <<>>
    BY ONLY <2>1, <2>2, WithoutPskIs
  <2>4. Cardinality(GreasePositions(ids)) = 0
    <3>1. /\ Cardinality(GreasePositions(ids)) \in Nat
          /\ Cardinality(GreasePositions(ids)) + Len(<<>>) = Len(<<>>)
      BY ONLY <2>1, <2>2, GreaseCounted
    <3> HIDE DEF ids
    <3> QED
      BY ONLY <2>1, <3>1
  <2>5. GreaseExtsOf(client) = 0
    BY ONLY <1>3 DEF GreaseExtsOf
  <2> QED
    BY ONLY <2>2, <2>3, <2>4, <2>5 DEF ExtensionsSaid
<1>4. CASE e # <<>>
  <2> DEFINE p == Resumption(v.resumed)
             l(S) == Lasting(client, v.resumed, S)
  <2>1. ExtensionsAre(h.extensions, client, v)
    BY ONLY <1>4, HelloIs(h, client, v) DEF HelloIs
  <2>2. ids = ExtensionIds(client, v) /\ ids \in Seq(Nat)
    <3>1. ids = ExtensionIds(client, v) /\ ids \in Seq(Number16)
      BY <2>1, IdsRead, IdsFit
    <3>2. \A n \in Number16 : n \in Nat
      BY DEF Number16
    <3> HIDE DEF ids
    <3> QED
      BY ONLY <3>1, <3>2, Wider
  <2> HIDE DEF ids
  <2>3. /\ WithoutPsk(ids) = Keeping(ids, NotPsk) /\ WithoutPsk(Strip(ids)) = Keeping(ids, NotPsk)
    BY ONLY <2>2, WithoutPskIs
  <2>4. /\ Sorted(Keeping(ids, NotPsk)) = Sorted(l(NotPsk))
        /\ ~client.permutes => Keeping(ids, NotPsk) = l(NotPsk)
        /\ Len(K(ids)) = Len(l(NotGrease))
        /\ Len(ids) = (IF client.grease THEN 2 ELSE 0) + Len(e) + (IF v.resumed THEN 1 ELSE 0)
    <3> HIDE DEF l
    <3> QED
      BY ONLY client \in ClientType, v \in VisitType, <1>1, <2>2, LastingKept, LastingInOrder DEF l
  <2>5. p \in Seq(Nat) /\ p \in Seq({PreSharedKey}) /\ Len(p) = IF v.resumed THEN 1 ELSE 0
    <3> DEFINE one == <<PreSharedKey>>
    <3>1. one \in Seq(Nat) /\ one \in Seq({PreSharedKey}) /\ Len(one) = 1
      BY ONLY <1>2
    <3>2. <<>> \in Seq(Nat) /\ <<>> \in Seq({PreSharedKey}) /\ Len(<<>>) = 0
      OBVIOUS
    <3>3. p = IF v.resumed THEN one ELSE <<>>
      BY ONLY DEF Resumption
    <3> HIDE DEF p, one
    <3>4. CASE v.resumed
      <4>1. p = one
        BY ONLY <3>3, <3>4
      <4> QED
        BY ONLY <3>1, <3>4, <4>1
    <3>5. CASE ~v.resumed
      <4>1. p = <<>>
        BY ONLY <3>3, <3>5
      <4> QED
        BY ONLY <3>2, <3>5, <4>1
    <3> QED
      BY ONLY <3>4, <3>5
  <2>6. Keeping(p, NotPsk) = <<>> /\ K(p) = p
    <3>1. {PreSharedKey} \cap NotPsk = {} /\ {PreSharedKey} \subseteq NotGrease
      BY ONLY <1>2
    <3> HIDE DEF p
    <3> QED
      BY ONLY <2>5, <3>1, KeepingNone, KeepingAll
  <2>7. own \in Seq(Nat) /\ K(e) \in Seq(Nat)
    BY ONLY <1>1, KeepingType
  <2>8. l(NotPsk) = own \o <<>> /\ l(NotGrease) = K(e) \o p
    BY ONLY <2>6 DEF Lasting
  <2> HIDE DEF own, p, K, l, e
  <2>9. l(NotPsk) = own /\ Len(l(NotGrease)) = Len(K(e)) + Len(p) /\ Len(K(e)) \in Nat
    BY ONLY <2>5, <2>7, <2>8, JoinsAreLong
  <2>10. /\ Cardinality(GreasePositions(ids)) \in Nat
         /\ Cardinality(GreasePositions(ids)) + Len(K(ids)) = Len(ids)
    BY ONLY <2>2, GreaseCounted DEF K
  <2>11. Cardinality(GreasePositions(ids)) = GreaseExtsOf(client)
    <3> DEFINE g == IF client.grease THEN 2 ELSE 0
               r == IF v.resumed THEN 1 ELSE 0
    <3>1. g \in Nat /\ r \in Nat /\ Len(ids) = g + Len(e) + r /\ Len(p) = r /\ Len(e) \in Nat
      BY ONLY <1>1, <2>4, <2>5
    <3>2. GreaseExtsOf(client) = g + Len(e) - Len(K(e))
      BY ONLY <1>4 DEF GreaseExtsOf, e, K
    <3> DEFINE c == Cardinality(GreasePositions(ids))
               k == Len(K(e))
               n == Len(e)
    <3>3. /\ c \in Nat /\ k \in Nat /\ n \in Nat /\ c + Len(K(ids)) = Len(ids)
          /\ Len(K(ids)) = k + Len(p) /\ Len(ids) = g + n + r /\ Len(p) = r
          /\ GreaseExtsOf(client) = g + n - k
      BY ONLY <2>4, <2>9, <2>10, <3>1, <3>2
    <3> HIDE DEF g, r, c, k, n
    <3>4. c = GreaseExtsOf(client)
      BY ONLY <3>1, <3>3
    <3> QED
      BY ONLY <3>4 DEF c
  <2>12. /\ WithoutPsk(Strip(ids)) = WithoutPsk(ids)
         /\ Sorted(WithoutPsk(ids)) = Sorted(own)
         /\ ~client.permutes => WithoutPsk(ids) = own
    BY ONLY <2>3, <2>4, <2>9
  <2> QED
    BY ONLY <2>11, <2>12 DEF ExtensionsSaid, ids, own, e
<1> QED
  BY ONLY <1>3, <1>4

(* All of it together. *)
Says(tls, client) ==
  /\ CiphersSaid(tls, client) /\ OffersSaid(tls, client)
  /\ ExtensionsSaid(tls.extensions, tls.greaseExts, client)

LEMMA HelloSays ==
  ASSUME NEW client \in ClientType, NEW v \in VisitType, FitsInRecord(client, v),
         NEW tls \in FingerprintTls(Recorded(WriteHello(client, v)))
  PROVE  Says(tls, client)
<1>1. PICK h \in ParseHello(Recorded(WriteHello(client, v))) : tls = TlsOf(h)
  BY DEF FingerprintTls
<1>2. HelloIs(h, client, v)
  BY <1>1, HelloIsRead
<1>3. /\ CiphersSaid(TlsOf(h), client) /\ OffersSaid(TlsOf(h), client)
      /\ ExtensionsSaid(Ids(h.extensions), GreasePositions(Ids(h.extensions)), client)
  BY ONLY client \in ClientType, v \in VisitType, <1>2, CiphersAreSaid, OffersAreSaid, ExtensionsAreSaid
<1>4. tls.extensions = Ids(h.extensions) /\ tls.greaseExts = GreasePositions(Ids(h.extensions))
  BY ONLY <1>1 DEF TlsOf
<1> QED
  BY ONLY <1>1, <1>3, <1>4 DEF Says

(* Two of a client's reports agree in what TLS says, the one of them as a   *)
(* profile: in the very order when the client keeps to one, and otherwise   *)
(* but for the order.                                                       *)
KeepsTls(p, tls) ==
  /\ p.ciphers = Strip(tls.ciphers) /\ p.extensions = Strip(tls.extensions)
  /\ p.greaseCiphers = tls.greaseCiphers /\ p.greaseExts = tls.greaseExts
  /\ p.alpn = tls.alpn /\ p.hasSni = tls.hasSni

LEMMA SaysAgree ==
  ASSUME NEW client, NEW r, NEW p, NEW tls, Says(r.tls, client), Says(tls, client), KeepsTls(p, tls),
         client.permutes => p.extensionOrder # "fixed"
  PROVE  TlsAgrees(r, p)
<1> DEFINE t == r.tls
           own == Keeping(client.extensions, NotPsk)
<1>1. /\ Strip(t.ciphers) = p.ciphers
      /\ Cardinality(t.greaseCiphers) = Cardinality(p.greaseCiphers)
  BY ONLY Says(r.tls, client), Says(tls, client), KeepsTls(p, tls) DEF Says, CiphersSaid, KeepsTls
<1>2. t.alpn = p.alpn /\ t.hasSni = p.hasSni
  BY ONLY Says(r.tls, client), Says(tls, client), KeepsTls(p, tls) DEF Says, OffersSaid, KeepsTls
<1>3. /\ Sorted(WithoutPsk(t.extensions)) = Sorted(own)
      /\ ~client.permutes => WithoutPsk(t.extensions) = own
      /\ Cardinality(t.greaseExts) = GreaseExtsOf(client)
  BY ONLY Says(r.tls, client) DEF Says, ExtensionsSaid
<1>4. /\ Sorted(WithoutPsk(p.extensions)) = Sorted(own)
      /\ ~client.permutes => WithoutPsk(p.extensions) = own
      /\ Cardinality(p.greaseExts) = GreaseExtsOf(client)
  BY ONLY Says(tls, client), KeepsTls(p, tls) DEF Says, ExtensionsSaid, KeepsTls
<1> HIDE DEF own
<1>5. SameOrdered(WithoutPsk(t.extensions), WithoutPsk(p.extensions), p.extensionOrder)
  BY ONLY <1>3, <1>4, client.permutes => p.extensionOrder # "fixed" DEF SameOrdered
<1>6. SameOrdered(Strip(t.ciphers), p.ciphers, p.cipherOrder)
  BY ONLY <1>1 DEF SameOrdered
<1> QED
  BY ONLY <1>1, <1>2, <1>3, <1>4, <1>5, <1>6 DEF TlsAgrees

-----------------------------------------------------------------------------
(* What a report says of a request that was captured whole *)

(* A plan of nothing means nothing. *)
LEMMA NothingMeant ==
  /\ Peer(<<>>).meant = <<>> /\ IsLegal(Peer(<<>>))
  /\ \A plan \in Seq(WriteType) : Len(Peer(plan).meant) \in Nat /\ Peer(plan).meant \in Seq(Entry)
<1>1. <<>> \in Seq(WriteType) /\ Len(<<>>) = 0
  OBVIOUS
<1>2. PICK f : PeerRun(f, <<>>)
  BY ONLY <1>1, PeerRuns
<1>3. Peer(<<>>) = NewPeer
  BY ONLY <1>1, <1>2 DEF PeerRun
<1>4. ASSUME NEW plan \in Seq(WriteType)
      PROVE  Len(Peer(plan).meant) \in Nat /\ Peer(plan).meant \in Seq(Entry)
  <2>1. Peer(plan) \in PeerType
    BY PeerIs
  <2> DEFINE m == Peer(plan).meant
  <2>2. m \in Seq(Entry)
    BY ONLY <2>1 DEF PeerType
  <2> HIDE DEF m
  <2>3. Len(m) \in Nat
    BY ONLY <2>2
  <2> QED
    BY ONLY <2>2, <2>3 DEF m
<1> QED
  BY ONLY <1>3, <1>4 DEF NewPeer, IsLegal

(* What is announced of a good plan is good. *)
LEMMA AnnouncedIsGood ==
  ASSUME NEW client, NEW v \in VisitType, WithinLimits(v.plan), IsLegal(Peer(v.plan))
  PROVE  /\ WithinLimits(Announced(client, v.plan)) /\ IsLegal(Peer(Announced(client, v.plan)))
         /\ Peer(Announced(client, v.plan)).meant \in Seq(Entry)
<1>1. Announced(client, v.plan) \in {v.plan, <<>>}
  BY DEF Announced
<1>2. v.plan \in Seq(WriteType) /\ <<>> \in Seq(WriteType)
  BY DEF VisitType
<1>3. WithinLimits(<<>>)
  <2> DEFINE n == Len(Peer(v.plan).meant)
  <2>1. n \in Nat /\ n < MaxHeaders
    BY ONLY <1>2, WithinLimits(v.plan), NothingMeant DEF WithinLimits
  <2>2. MaxHeaders \in Nat
    BY ONLY TableAssumption
  <2>3. Len(<<>>) = 0 /\ DOMAIN <<>> = {}
    OBVIOUS
  <2> HIDE DEF n
  <2>4. 0 < MaxHeaders
    BY ONLY <2>1, <2>2
  <2>5. Len(Peer(<<>>).meant) < MaxHeaders
    BY ONLY <2>3, <2>4, NothingMeant
  <2> QED
    BY ONLY <2>3, <2>5 DEF WithinLimits
<1> QED
  BY ONLY <1>1, <1>2, <1>3, WithinLimits(v.plan), IsLegal(Peer(v.plan)), NothingMeant

(* The settings and the window of a client, as they are read of its frames. *)
SettingsSeen(client) ==
  FlattenSeq([n \in 1 .. 1 |-> PairsOf(SettingsPayload(client.settings))])
WindowSeen(client) ==
  IF WindowOf(client) = <<>> \/ ~Fits(Octets32(WindowSaid(client)), 0, 4) THEN None
  ELSE Some(U31(Octets32(WindowSaid(client)), 0))
IsSeen(h, client, headers) ==
  /\ h.settings = SettingsSeen(client) /\ h.window = WindowSeen(client)
  /\ h.pseudo = PseudoOrder(headers) /\ h.headers = headers
  /\ h.http.names = RegularNames(headers)
  /\ h.http.language = (Language \in ToSet(RegularNames(headers)))

LEMMA FramesAreSeen ==
  ASSUME NEW q, NEW client, NEW headers, CarriesSettings(q, client), CarriesWindow(q, client)
  PROVE  IsSeen(H2Of(q, headers), client, headers)
<1> DEFINE h == H2Of(q, headers)
<1>1. SettingsPairs(q) = SettingsSeen(client)
  <2>1. PICK y \in FrameRecord :
          OfKind(q, SETTINGS) = <<y>> /\ y.payload = SettingsPayload(client.settings)
    BY DEF CarriesSettings
  <2> DEFINE s == OfKind(q, SETTINGS)
             pairs == PairsOf(SettingsPayload(client.settings))
  <2>2. DOMAIN s = 1 .. 1 /\ s[1] = y
    BY ONLY <2>1
  <2>3. \A n \in 1 .. 1 : n = 1
    OBVIOUS
  <2>4. \A n \in 1 .. 1 : PairsOf(s[n].payload) = pairs
    BY ONLY <2>1, <2>2, <2>3
  <2> HIDE DEF s, pairs
  <2>5. [n \in DOMAIN s |-> PairsOf(s[n].payload)] = [n \in 1 .. 1 |-> pairs]
    BY ONLY <2>2, <2>4
  <2> QED
    BY ONLY <2>5 DEF SettingsPairs, SettingsSeen, s, pairs
<1>2. WindowUpdate(q) = WindowSeen(client)
  <2>1. CASE WindowOf(client) = <<>>
    <3>1. OfKind(q, WINDOWUPDATE) = <<>>
      BY <2>1 DEF CarriesWindow
    <3> QED
      BY ONLY <2>1, <3>1 DEF WindowUpdate, WindowSeen
  <2>2. CASE WindowOf(client) # <<>>
    <3>1. PICK z \in FrameRecord :
            OfKind(q, WINDOWUPDATE) = <<z>> /\ z.payload = Octets32(WindowSaid(client))
      BY <2>2 DEF CarriesWindow
    <3> DEFINE u == OfKind(q, WINDOWUPDATE)
    <3>2. u # <<>> /\ Head(u) = z
      BY ONLY <3>1
    <3> HIDE DEF u
    <3>3. WindowUpdate(q) = IF u = <<>> \/ ~Fits(Head(u).payload, 0, 4) THEN None
                            ELSE Some(U31(Head(u).payload, 0))
      BY ONLY DEF WindowUpdate, u
    <3> QED
      BY ONLY <2>2, <3>1, <3>2, <3>3 DEF WindowSeen
  <2> QED
    BY ONLY <2>1, <2>2
<1>3. /\ h.settings = SettingsPairs(q) /\ h.window = WindowUpdate(q)
      /\ h.pseudo = PseudoOrder(headers) /\ h.headers = headers /\ h.http = HttpProfile(headers)
  BY ONLY DEF H2Of
<1>4. /\ HttpProfile(headers).names = RegularNames(headers)
      /\ HttpProfile(headers).language = (Language \in ToSet(RegularNames(headers)))
  BY ONLY DEF HttpProfile
<1> HIDE DEF h
<1>5. /\ h.http.names = RegularNames(headers)
      /\ h.http.language = (Language \in ToSet(RegularNames(headers)))
  BY ONLY <1>3, <1>4
<1> QED
  BY ONLY <1>1, <1>2, <1>3, <1>5 DEF IsSeen, h

(* Of a visit that went well, all that the client meant is reported.        *)
GoesWell(client, v) ==
  /\ v.completes /\ v.hello # "cut"
  /\ ALPN \in ToSet(client.extensions) => Negotiated(client) # None
  /\ v.flight = "whole" /\ IsLegal(Peer(v.plan)) /\ WithinLimits(v.plan)
Meant(client, v) == Peer(Announced(client, v.plan)).meant
IsHeard(r, client, v) ==
  IF Negotiated(client) # Some(Http2) THEN r.h2 = None
  ELSE r.h2 # None /\ \A h \in r.h2 : IsSeen(h, client, Meant(client, v))
Heard(r, client, v) == GoesWell(client, v) => IsHeard(r, client, v)

(* Language is comparable. *)
LEMMA LanguageCompared ==
  ASSUME NEW names \in Seq(Seq(Octet))
  PROVE  Language \in ToSet(names) <=> Language \in ToSet(Comparable(names))
<1> DEFINE S == {x \in Seq(Octet) : IsComparable(x)}
<1>1. Language \in S
  <2>1. 108 \in Octet
    BY ONLY DEF Octet
  <2>2. <<108>> \in Seq(Octet) /\ <<108>> # <<99>> /\ <<108>> # <<114>>
    BY ONLY <2>1
  <2> QED
    BY ONLY <2>2 DEF Language, Cookie, Referer, IsComparable
<1>2. Comparable(names) = Keeping(names, S)
  <2>1. \A n \in DOMAIN names : names[n] \in Seq(Octet)
    OBVIOUS
  <2>2. {n \in DOMAIN names : IsComparable(names[n])} = {n \in DOMAIN names : names[n] \in S}
    BY ONLY <2>1
  <2> QED
    BY ONLY <2>2 DEF Comparable, Keep, Keeping
<1> HIDE DEF S
<1> QED
  BY ONLY <1>1, <1>2, names \in Seq(Seq(Octet)), KeepingElements

(* Two requests of one shape are announced with one. *)
Alike(s, t) ==
  /\ PseudoOrder(s) = PseudoOrder(t)
  /\ Comparable(RegularNames(s)) = Comparable(RegularNames(t))

LEMMA MeantAlike ==
  ASSUME NEW client, NEW v, NEW w, RequestShape(v.plan) = RequestShape(w.plan)
  PROVE  Alike(Meant(client, v), Meant(client, w))
<1>1. Alike(Peer(v.plan).meant, Peer(w.plan).meant)
  BY ONLY RequestShape(v.plan) = RequestShape(w.plan) DEF RequestShape, Alike
<1>2. Alike(Peer(<<>>).meant, Peer(<<>>).meant)
  BY ONLY DEF Alike
<1> QED
  BY ONLY <1>1, <1>2 DEF Meant, Announced

(* A profile of one report keeps what its request was. *)
KeepsH2(p, s) ==
  /\ p.h2 = {[settings |-> h.settings, window |-> h.window, pseudo |-> h.pseudo] : h \in s.h2}
  /\ p.http = {[names |-> Comparable(h.http.names), count |-> h.http.count,
                language |-> h.http.language] : h \in s.h2}

LEMMA HeardAgree ==
  ASSUME NEW client, NEW v \in VisitType, NEW w \in VisitType, NEW r, NEW s, NEW p,
         GoesWell(client, v), IsHeard(r, client, v), IsHeard(s, client, w), KeepsH2(p, s),
         RequestShape(v.plan) = RequestShape(w.plan), GoesWell(client, w)
  PROVE  H2Agrees(r, p) /\ HttpAgrees(r, p)
<1> DEFINE mv == Meant(client, v)
           mw == Meant(client, w)
<1>1. Alike(mv, mw)
  BY MeantAlike
<1>2. mv \in Seq(Entry) /\ mw \in Seq(Entry)
  <2>1. WithinLimits(v.plan) /\ IsLegal(Peer(v.plan)) /\ WithinLimits(w.plan) /\ IsLegal(Peer(w.plan))
    BY ONLY GoesWell(client, v), GoesWell(client, w) DEF GoesWell
  <2> QED
    BY ONLY <2>1, v \in VisitType, w \in VisitType, AnnouncedIsGood DEF Meant
<1> HIDE DEF mv, mw
<1>3. /\ PseudoOrder(mv) = PseudoOrder(mw)
      /\ Comparable(RegularNames(mv)) = Comparable(RegularNames(mw))
      /\ Language \in ToSet(RegularNames(mv)) <=> Language \in ToSet(RegularNames(mw))
  <2>1. RegularNames(mv) \in Seq(Seq(Octet)) /\ RegularNames(mw) \in Seq(Seq(Octet))
    BY ONLY <1>2, RegularNamesType
  <2>2. /\ Language \in ToSet(RegularNames(mv)) <=> Language \in ToSet(Comparable(RegularNames(mv)))
        /\ Language \in ToSet(RegularNames(mw)) <=> Language \in ToSet(Comparable(RegularNames(mw)))
    BY ONLY <2>1, LanguageCompared
  <2> QED
    BY ONLY <1>1, <2>2 DEF Alike
<1>4. CASE Negotiated(client) # Some(Http2)
  <2>1. r.h2 = {} /\ s.h2 = {}
    BY ONLY <1>4, IsHeard(r, client, v), IsHeard(s, client, w) DEF IsHeard, None
  <2>2. p.h2 = {} /\ p.http = {}
    BY ONLY <2>1, KeepsH2(p, s) DEF KeepsH2
  <2> QED
    BY ONLY <2>2 DEF H2Agrees, HttpAgrees, None
<1>5. CASE Negotiated(client) = Some(Http2)
  <2>1. /\ r.h2 # {} /\ \A h \in r.h2 : IsSeen(h, client, mv)
        /\ s.h2 # {} /\ \A h \in s.h2 : IsSeen(h, client, mw)
    BY ONLY <1>5, IsHeard(r, client, v), IsHeard(s, client, w) DEF IsHeard, None, mv, mw
  <2> DEFINE got == The(r.h2)
             kept == The(p.h2)
             http == The(p.http)
  <2>2. got \in r.h2
    BY ONLY <2>1, TheOne DEF None
  <2>3. p.h2 # {} /\ p.http # {}
    <3> DEFINE a(h) == [settings |-> h.settings, window |-> h.window, pseudo |-> h.pseudo]
               b(h) == [names |-> Comparable(h.http.names), count |-> h.http.count,
                        language |-> h.http.language]
    <3>1. p.h2 = {a(h) : h \in s.h2} /\ p.http = {b(h) : h \in s.h2}
      BY ONLY KeepsH2(p, s) DEF KeepsH2
    <3>2. \E h : h \in s.h2
      BY ONLY <2>1
    <3> HIDE DEF a, b
    <3> QED
      BY ONLY <3>1, <3>2
  <2>4. kept \in p.h2 /\ http \in p.http
    BY ONLY <2>3, TheOne DEF None
  <2>5. /\ \E h \in s.h2 : kept = [settings |-> h.settings, window |-> h.window, pseudo |-> h.pseudo]
        /\ \E h \in s.h2 : http = [names |-> Comparable(h.http.names), count |-> h.http.count,
                                   language |-> h.http.language]
    <3> HIDE DEF kept, http
    <3> QED
      BY ONLY <2>4, KeepsH2(p, s) DEF KeepsH2
  <2> HIDE DEF got, kept, http
  <2>6. IsSeen(got, client, mv)
    BY ONLY <2>1, <2>2
  <2>7. /\ kept.settings = SettingsSeen(client) /\ kept.window = WindowSeen(client)
        /\ kept.pseudo = PseudoOrder(mw)
    <3>1. PICK h \in s.h2 : kept = [settings |-> h.settings, window |-> h.window, pseudo |-> h.pseudo]
      BY ONLY <2>5
    <3>2. IsSeen(h, client, mw)
      BY ONLY <2>1
    <3> QED
      BY ONLY <3>1, <3>2 DEF IsSeen
  <2>8. /\ http.names = Comparable(RegularNames(mw))
        /\ http.language = (Language \in ToSet(RegularNames(mw)))
    <3>1. PICK h \in s.h2 : http = [names |-> Comparable(h.http.names), count |-> h.http.count,
                                   language |-> h.http.language]
      BY ONLY <2>5
    <3>2. IsSeen(h, client, mw)
      BY ONLY <2>1
    <3>3. h.http.names = RegularNames(mw) /\ h.http.language = (Language \in ToSet(RegularNames(mw)))
      BY ONLY <3>2 DEF IsSeen
    <3> QED
      BY ONLY <3>1, <3>3
  <2>9. H2Agrees(r, p)
    BY ONLY <1>3, <2>1, <2>6, <2>7 DEF H2Agrees, None, IsSeen, got, kept
  <2>10. HttpAgrees(r, p)
    <3>1. got.http.names = RegularNames(mv) /\ got.http.language = (Language \in ToSet(RegularNames(mv)))
      BY ONLY <2>6 DEF IsSeen
    <3>2. Comparable(got.http.names) = http.names /\ got.http.language = http.language
      BY ONLY <1>3, <2>8, <3>1
    <3> QED
      BY ONLY <3>2 DEF HttpAgrees, got, http
  <2> QED
    BY ONLY <2>9, <2>10
<1> QED
  BY ONLY <1>4, <1>5

-----------------------------------------------------------------------------
(* What was reported, kept and said of a visit that went well *)

CapturedOf(client, v) ==
  IF Negotiated(client) # Some(Http2) THEN <<>> ELSE WriteFlight(client, v)
FlightInv ==
  stage = "decode" /\ User # "emulate" =>
    \A v \in visit : GoesWell(scene.client, v) => flight = CapturedOf(scene.client, v)
HeardInv ==
  stage \in Users /\ User # "emulate" => \A v \in visit, r \in report : Heard(r, scene.client, v)
SamplesHeard ==
  \A n \in DOMAIN samples : Heard(samples[n].report, scene.client, samples[n].visit)
DbInv ==
  samples # <<>> /\ ~(Len(samples) < scene.samples) =>
    /\ db # <<>>
    /\ Last(db) = ProfileFrom([n \in DOMAIN samples |-> samples[n].report], Captured)
SaidOf(v) ==
  /\ visit = Some(v)
  /\ \A r \in report : /\ r.tls \in FingerprintTls(Recorded(WriteHello(scene.client, v)))
                       /\ Heard(r, scene.client, v)
                       /\ id = Some(Identify(r, db))
SaidInv ==
  id # None =>
    /\ stage = "done" /\ User \in {"check", "serve", "tower"}
    /\ \E v \in scene.visits : SaidOf(v)
ToldInv == FlightInv /\ HeardInv /\ SamplesHeard /\ DbInv /\ SaidInv

(* Whose visit it is that a report is made of.                              *)
LEMMA WhoseVisit ==
  ASSUME Inv, stage \in Users \cup {"decode"}, User # "emulate", NEW v \in visit
  PROVE  /\ visit = Some(v) /\ The(visit) = v /\ v \in Visits /\ v \in VisitType
         /\ raw = Recorded(WriteHello(scene.client, v)) /\ Speaker = scene.client
         /\ scene.client \in ClientType
         /\ FitsInFrames(scene.client, v) /\ FitsInRecord(scene.client, v)
<1>1. SceneInv /\ ConnectionInv /\ HelloInv
  BY ONLY Inv DEF Inv
<1>2. Speaker = scene.client
  BY ONLY User # "emulate" DEF Speaker
<1>3. PICK w \in Visits : visit = Some(w) /\ raw = Recorded(WriteHello(Speaker, w))
  BY ONLY <1>1, stage \in Users \cup {"decode"} DEF HelloInv
<1>4. w = v
  BY ONLY <1>3, v \in visit DEF Some
<1>5. The(visit) = v
  BY ONLY <1>3, <1>4 DEF The, Some
<1>6. scene \in Scenes
  BY ONLY <1>1 DEF SceneInv
<1>7. v \in VisitType
  BY ONLY <1>1, <1>3, <1>4, VisitsType
<1>8. FitsInRecord(scene.client, v) /\ FitsInFrames(scene.client, v)
  <2>1. v \in scene.sampled \cup scene.visits
    BY ONLY <1>3, <1>4 DEF Visits
  <2> QED
    BY ONLY <1>6, <2>1, ScenesAssumption
<1>9. scene.client \in ClientType
  BY ONLY <1>6, SceneFacts
<1> QED
  BY ONLY <1>2, <1>3, <1>4, <1>5, <1>7, <1>8, <1>9

(* A handshake that went well has completed. *)
LEMMA WellIsComplete ==
  ASSUME NEW v, Speaker = scene.client, GoesWell(scene.client, v)
  PROVE  Completes(v) /\ AlpnOf(v) = Negotiated(scene.client)
<1>1. Completes(v)
  BY ONLY Speaker = scene.client, GoesWell(scene.client, v) DEF GoesWell, Completes
<1> QED
  BY ONLY <1>1, Speaker = scene.client DEF AlpnOf

(* What is not HTTP/2 is no preamble. *)
LEMMA NothingIsNoPreamble == ParsePreamble(<<>>) = None
<1>1. Len(<<>>) = 0 /\ Len(Preface) = 24
  BY ONLY PrefaceType
<1>2. ~IsPrefix(Preface, <<>>)
  BY ONLY <1>1 DEF IsPrefix
<1> QED
  BY ONLY <1>2 DEF ParsePreamble

(* The report says of a visit that went well what the client meant.         *)
LEMMA ReportIsHeard ==
  ASSUME Inv, PlanInv, FlightInv, BuildReport, User # "emulate", NEW v \in visit, NEW r \in report'
  PROVE  Heard(r, scene.client, v)
<1> DEFINE client == scene.client
           plan == Announced(client, v.plan)
<1>1. stage = "decode" /\ decoding \in {"done", "failed"}
  BY ONLY BuildReport DEF BuildReport
<1>2. r.h2 = {H2Of(frames, fields) : frames \in ParsePreamble(flight)}
  <2> DEFINE h2 == {H2Of(frames, fields) : frames \in ParsePreamble(flight)}
             made(tls) == [tls |-> tls, raw |-> Retain(raw), h2 |-> h2, alpn |-> AlpnOf(The(visit))]
  <2>1. report' = {made(tls) : tls \in FingerprintTls(raw)}
    BY ONLY BuildReport DEF BuildReport
  <2>2. \A tls : made(tls).h2 = h2
    <3> HIDE DEF h2
    <3> QED
      OBVIOUS
  <2> HIDE DEF h2, made
  <2>3. r.h2 = h2
    BY ONLY <2>1, <2>2, r \in report'
  <2> QED
    BY ONLY <2>3 DEF h2
<1>3. /\ The(visit) = v /\ v \in VisitType /\ Speaker = client /\ client \in ClientType
      /\ FitsInFrames(client, v)
  <2>1. stage \in Users \cup {"decode"}
    BY ONLY <1>1
  <2> QED
    BY ONLY Inv, User # "emulate", v \in visit, <2>1, WhoseVisit
<1> SUFFICES ASSUME GoesWell(client, v) PROVE IsHeard(r, client, v)
  BY DEF Heard
<1>4. flight = CapturedOf(client, v)
  BY ONLY FlightInv, <1>1, User # "emulate", v \in visit, GoesWell(client, v) DEF FlightInv
<1>5. CASE Negotiated(client) # Some(Http2)
  <2>1. ParsePreamble(flight) = {}
    BY ONLY <1>4, <1>5, NothingIsNoPreamble DEF CapturedOf, None
  <2>2. r.h2 = {}
    BY ONLY <1>2, <2>1
  <2> QED
    BY ONLY <1>5, <2>2 DEF IsHeard, None
<1>6. CASE Negotiated(client) = Some(Http2)
  <2>1. v.flight = "whole" /\ IsLegal(Peer(v.plan)) /\ WithinLimits(v.plan)
    BY ONLY GoesWell(client, v) DEF GoesWell
  <2>2. flight = WriteFlight(client, v)
    BY ONLY <1>4, <1>6 DEF CapturedOf
  <2>3. ReadsWhole
    <3>1. AlpnOf(v) = Some(Http2)
      BY ONLY <1>3, <1>6, GoesWell(client, v), WellIsComplete
    <3> QED
      BY ONLY <1>1, <1>3, <2>1, <3>1, User # "emulate" DEF ReadsWhole
  <2>4. WithinLimits(plan) /\ IsLegal(Peer(plan))
    BY ONLY <1>3, <2>1, AnnouncedIsGood
  <2>5. fields = Meant(client, v)
    <3>1. plan = Announced(scene.client, The(visit).plan)
      BY ONLY <1>3
    <3> HIDE DEF plan
    <3>2. fields = Peer(plan).meant
      BY ONLY Inv, PlanInv, <1>1, <2>3, <2>4, <3>1, HeardToTheEnd
    <3> QED
      BY ONLY <3>2 DEF Meant, plan
  <2>6. /\ ParsePreamble(flight) # {}
        /\ \A q \in ParsePreamble(flight) : CarriesSettings(q, client) /\ CarriesWindow(q, client)
    BY ONLY <1>3, <2>1, <2>2, FlightIsRead
  <2> HIDE DEF client
  <2>7. \A q \in ParsePreamble(flight) : IsSeen(H2Of(q, fields), client, Meant(client, v))
    BY ONLY <2>5, <2>6, FramesAreSeen
  <2>8. r.h2 # {} /\ \A h \in r.h2 : IsSeen(h, client, Meant(client, v))
    BY ONLY <1>2, <2>6, <2>7
  <2> QED
    BY ONLY <1>6, <2>8 DEF IsHeard, None
<1> QED
  BY ONLY <1>5, <1>6

(* Nothing was said before the end.                                         *)
LEMMA NotYetSaid ==
  ASSUME SaidInv, stage # "done", id' = id
  PROVE  SaidInv'
<1>1. id = None
  BY ONLY SaidInv, stage # "done" DEF SaidInv
<1>2. id' = None
  BY ONLY <1>1, id' = id
<1> QED
  BY ONLY <1>2 DEF SaidInv

(* Samples and profiles that stay are as they were. *)
LEMMA KeptStays ==
  ASSUME SamplesHeard, DbInv, scene' = scene, samples' = samples, db' = db
  PROVE  SamplesHeard' /\ DbInv'
BY DEF SamplesHeard, DbInv, Captured

(* So is the report of whoever is being served. *)
LEMMA HeardStays ==
  ASSUME HeardInv, stage' \notin Users \cup {"decode"}
  PROVE  HeardInv' /\ FlightInv'
BY DEF HeardInv, FlightInv

LEMMA InitTold == Init => ToldInv
<1> SUFFICES ASSUME Init PROVE ToldInv
  OBVIOUS
<1>1. stage = "connect" /\ samples = <<>> /\ id = None
  BY DEF Init
<1>2. SamplesHeard
  BY ONLY <1>1 DEF SamplesHeard
<1> QED
  BY ONLY <1>1, <1>2 DEF ToldInv, FlightInv, HeardInv, DbInv, SaidInv, Users


(* A connection begins with what its client sends.                          *)
LEMMA ToldConnect ==
  ASSUME Inv, ToldInv, Connect
  PROVE  ToldInv'
<1>1. SceneInv /\ SamplesHeard /\ DbInv /\ SaidInv
  BY ONLY Inv, ToldInv DEF Inv, ToldInv
<1>2. /\ stage = "connect" /\ stage' = "decode" /\ scene' = scene /\ samples' = samples /\ db' = db
      /\ id' = id /\ report' = report
  BY ONLY Connect DEF Connect, resultVars
<1>3. PICK v \in Visits : visit' = Some(v) /\ flight' = FlightOf(v)
  BY ONLY Connect DEF Connect
<1>4. User' = User
  BY ONLY <1>2, WhoStays
<1>5. FlightInv'
  <2> SUFFICES ASSUME User' # "emulate", NEW w \in visit', GoesWell(scene'.client, w)
               PROVE  flight' = CapturedOf(scene'.client, w)
    BY DEF FlightInv
  <2>1. w = v /\ GoesWell(scene.client, v)
    BY ONLY <1>2, <1>3, w \in visit', GoesWell(scene'.client, w) DEF Some
  <2>2. User # "emulate" /\ Speaker = scene.client
    BY ONLY <1>4, User' # "emulate" DEF Speaker
  <2>3. AlpnOf(v) = Negotiated(scene.client)
    BY ONLY <2>1, <2>2, WellIsComplete
  <2>4. v.flight = "whole"
    BY ONLY <2>1 DEF GoesWell
  <2>5. FlightOf(v) = CapturedOf(scene.client, v)
    BY ONLY <2>2, <2>3 DEF FlightOf, CapturedOf
  <2> QED
    BY ONLY <1>2, <1>3, <2>1, <2>5
<1>6. HeardInv'
  BY ONLY <1>2 DEF HeardInv, Users
<1>7. SamplesHeard' /\ DbInv'
  BY ONLY <1>1, <1>2, KeptStays
<1>8. SaidInv'
  BY ONLY <1>1, <1>2, NotYetSaid
<1> QED
  BY ONLY <1>5, <1>6, <1>7, <1>8 DEF ToldInv

LEMMA ToldDecode ==
  ASSUME ToldInv, DecodeStep
  PROVE  ToldInv'
<1>1. FlightInv /\ HeardInv /\ SamplesHeard /\ DbInv /\ SaidInv
  BY ONLY ToldInv DEF ToldInv
<1>2. /\ stage = "decode" /\ stage' = stage /\ scene' = scene /\ samples' = samples /\ db' = db
      /\ id' = id /\ report' = report /\ visit' = visit /\ flight' = flight
  BY ONLY DecodeStep DEF DecodeStep, resultVars, connectionVars
<1>3. User' = User
  BY ONLY <1>2, WhoStays
<1>4. FlightInv'
  BY ONLY <1>1, <1>2, <1>3 DEF FlightInv
<1>5. HeardInv'
  BY ONLY <1>2 DEF HeardInv, Users
<1>6. SamplesHeard' /\ DbInv'
  BY ONLY <1>1, <1>2, KeptStays
<1>7. SaidInv'
  BY ONLY <1>1, <1>2, NotYetSaid
<1> QED
  BY ONLY <1>4, <1>5, <1>6, <1>7 DEF ToldInv

LEMMA ToldReport ==
  ASSUME Inv, PlanInv, ToldInv, BuildReport
  PROVE  ToldInv'
<1>1. FlightInv /\ HeardInv /\ SamplesHeard /\ DbInv /\ SaidInv
  BY ONLY ToldInv DEF ToldInv
<1>2. /\ stage = "decode" /\ stage' = User /\ scene' = scene /\ samples' = samples /\ db' = db
      /\ id' = id /\ visit' = visit
  BY ONLY BuildReport DEF BuildReport, resultVars, connectionVars
<1>3. User' = User
  BY ONLY <1>2, WhoStays
<1>4. HeardInv'
  <2> SUFFICES ASSUME User' # "emulate", NEW v \in visit', NEW r \in report'
               PROVE  Heard(r, scene'.client, v)
    BY DEF HeardInv
  <2>1. User # "emulate" /\ v \in visit
    BY ONLY <1>2, <1>3, User' # "emulate", v \in visit'
  <2>2. Heard(r, scene.client, v)
    BY ONLY Inv, PlanInv, <1>1, BuildReport, <2>1, r \in report', ReportIsHeard
  <2> QED
    BY ONLY <1>2, <2>2
<1>5. FlightInv'
  <2>1. scene \in Scenes
    BY ONLY Inv DEF Inv, SceneInv
  <2>2. User # "decode"
    BY ONLY <2>1, SceneFacts DEF User
  <2> QED
    BY ONLY <1>2, <2>2 DEF FlightInv
<1>6. SamplesHeard' /\ DbInv'
  BY ONLY <1>1, <1>2, KeptStays
<1>7. SaidInv'
  BY ONLY <1>1, <1>2, NotYetSaid
<1> QED
  BY ONLY <1>4, <1>5, <1>6, <1>7 DEF ToldInv

(* A sample is of the visit that it names, and the profile of all of them.  *)
LEMMA ToldSample ==
  ASSUME Inv, ToldInv, Sample
  PROVE  ToldInv'
<1> DEFINE sample == [report |-> The(report), visit |-> The(visit)]
           p == ProfileFrom([n \in DOMAIN samples' |-> samples'[n].report], Captured)
<1>1. FlightInv /\ HeardInv /\ SamplesHeard /\ DbInv /\ SaidInv
  BY ONLY ToldInv DEF ToldInv
<1>2. SceneInv /\ ConnectionInv
  BY ONLY Inv DEF Inv
<1>3. /\ stage = "capture" /\ stage' = "connect" /\ scene' = scene /\ id' = id /\ visit' = visit
      /\ report' = report /\ report # None
      /\ samples' = Append(samples, sample)
      /\ db' = IF Len(samples') < scene.samples THEN db ELSE Append(db, p)
  BY ONLY Sample DEF Sample, connectionVars, resultVars
<1>4. User # "emulate"
  <2>1. User = "capture"
    BY ONLY <1>2, <1>3 DEF SceneInv, Users
  <2> QED
    BY ONLY <2>1
<1>5. Heard(sample.report, scene.client, sample.visit)
  <2>1. visit # None
    BY ONLY <1>2, <1>3 DEF ConnectionInv, Users
  <2>2. The(visit) \in visit /\ The(report) \in report
    BY ONLY <1>3, <2>1, TheOne
  <2>3. Heard(The(report), scene.client, The(visit))
    BY ONLY <1>1, <1>3, <1>4, <2>2 DEF HeardInv, Users
  <2> QED
    BY ONLY <2>3
<1> HIDE DEF sample, p
<1>6. \A n \in DOMAIN samples' : samples'[n] = sample \/ (n \in DOMAIN samples /\ samples'[n] = samples[n])
  <2>1. IsSequence(samples)
    BY ONLY <1>2 DEF SceneInv
  <2> QED
    BY ONLY <1>3, <2>1, SequenceAppend
<1>7. SamplesHeard'
  <2>1. \A n \in DOMAIN samples' : Heard(samples'[n].report, scene.client, samples'[n].visit)
    <3> SUFFICES ASSUME NEW n \in DOMAIN samples'
                 PROVE  Heard(samples'[n].report, scene.client, samples'[n].visit)
      OBVIOUS
    <3>1. CASE samples'[n] = sample
      BY ONLY <1>5, <3>1
    <3>2. CASE n \in DOMAIN samples /\ samples'[n] = samples[n]
      BY ONLY <1>1, <3>2 DEF SamplesHeard
    <3> QED
      BY ONLY <1>6, <3>1, <3>2, n \in DOMAIN samples'
  <2> QED
    BY ONLY <1>3, <2>1 DEF SamplesHeard
<1>8. DbInv'
  <2> SUFFICES ASSUME ~(Len(samples') < scene'.samples)
               PROVE  db' # <<>> /\ Last(db') = p
    <3>1. Captured' = Captured
      BY ONLY <1>3 DEF Captured
    <3> QED
      BY <3>1 DEF DbInv, p
  <2>1. db' = Append(db, p)
    BY ONLY <1>3, ~(Len(samples') < scene'.samples)
  <2>2. db \in Seq(ProfileType)
    BY ONLY <1>2 DEF SceneInv
  <2>3. IsSequence(db)
    BY ONLY <2>2 DEF IsSequence
  <2> DEFINE a == Append(db, p)
  <2>4. IsSequence(a) /\ Len(a) = Len(db) + 1 /\ a[Len(db) + 1] = p
    BY ONLY <2>3, SequenceAppend
  <2>5. Len(db) \in Nat /\ Len(a) # 0
    <3>1. Len(db) \in Nat
      BY ONLY <2>3, SequenceLength
    <3> HIDE DEF a
    <3> QED
      BY ONLY <2>4, <3>1
  <2> HIDE DEF a
  <2>6. a # <<>>
    <3>1. Len(<<>>) = 0
      OBVIOUS
    <3> QED
      BY ONLY <2>5, <3>1
  <2>7. Last(a) = p
    BY ONLY <2>4 DEF Last
  <2> QED
    BY ONLY <2>1, <2>6, <2>7 DEF a
<1>9. HeardInv' /\ FlightInv'
  BY ONLY <1>1, <1>3, HeardStays DEF Users
<1>10. SaidInv'
  BY ONLY <1>1, <1>3, NotYetSaid
<1> QED
  BY ONLY <1>7, <1>8, <1>9, <1>10 DEF ToldInv

(* What is said is said of the client that visits.                          *)
LEMMA ToldSaid ==
  ASSUME Inv, ToldInv, Check \/ Serve \/ Accept
  PROVE  ToldInv'
<1>1. FlightInv /\ HeardInv /\ SamplesHeard /\ DbInv /\ SaidInv
  BY ONLY ToldInv DEF ToldInv
<1>2. SceneInv /\ ConnectionInv /\ ReportInv
  BY ONLY Inv DEF Inv
<1>3. /\ stage \in {"check", "serve", "tower"} /\ stage' = "done" /\ scene' = scene
      /\ samples' = samples /\ db' = db /\ report' = report /\ visit' = visit
  BY ONLY Check \/ Serve \/ Accept DEF Check, Serve, Accept, connectionVars
<1>4. \A r \in report : id' = Some(Identify(r, db))
  <2> SUFFICES ASSUME NEW r \in report PROVE id' = Some(Identify(r, db))
    OBVIOUS
  <2>1. report = {r} /\ The(report) = r
    BY ONLY <1>2, r \in report DEF ReportInv, AtMostOne, The
  <2>2. CASE Check \/ Accept
    BY ONLY <2>1, <2>2 DEF Check, Accept
  <2>3. CASE Serve
    <3>1. id' = {Identify(s, db) : s \in report}
      BY ONLY <2>3 DEF Serve
    <3> QED
      BY ONLY <2>1, <3>1 DEF Some
  <2> QED
    BY ONLY Check \/ Serve \/ Accept, <2>2, <2>3
<1>5. User = stage /\ User' = User
  <2>1. User = stage
    BY ONLY <1>2, <1>3 DEF SceneInv, Users
  <2> QED
    BY ONLY <1>3, <2>1, WhoStays
<1>6. PICK v : v \in visit
  BY ONLY <1>2, <1>3 DEF ConnectionInv, Users, None
<1>7. /\ visit = Some(v) /\ v \in Visits /\ raw = Recorded(WriteHello(scene.client, v))
  <2>1. stage \in Users \cup {"decode"} /\ User # "emulate"
    BY ONLY <1>3, <1>5 DEF Users
  <2> QED
    BY ONLY Inv, <1>6, <2>1, WhoseVisit
<1>8. v \in scene.visits
  BY ONLY <1>3, <1>5, <1>7 DEF Visits
<1>9. \A r \in report : /\ r.tls \in FingerprintTls(Recorded(WriteHello(scene.client, v)))
                        /\ Heard(r, scene.client, v)
  <2>1. \A r \in report : r.tls \in FingerprintTls(raw)
    BY ONLY <1>2, <1>3 DEF ReportInv, Users, MadeOf
  <2>2. \A r \in report : Heard(r, scene.client, v)
    BY ONLY <1>1, <1>3, <1>5, <1>6 DEF HeardInv, Users
  <2> QED
    BY ONLY <1>7, <2>1, <2>2
<1>10. SaidOf(v)'
  BY ONLY <1>3, <1>4, <1>7, <1>9 DEF SaidOf
<1>11. SaidInv'
  BY ONLY <1>3, <1>5, <1>8, <1>10 DEF SaidInv
<1>12. SamplesHeard' /\ DbInv'
  BY ONLY <1>1, <1>3, KeptStays
<1>13. HeardInv' /\ FlightInv'
  BY ONLY <1>1, <1>3, HeardStays DEF Users
<1> QED
  BY ONLY <1>11, <1>12, <1>13 DEF ToldInv

LEMMA NextTold == Inv /\ PlanInv /\ ToldInv /\ [Next]_vars => ToldInv'
<1> SUFFICES ASSUME Inv, PlanInv, ToldInv, [Next]_vars PROVE ToldInv'
  OBVIOUS
<1>0. FlightInv /\ HeardInv /\ SamplesHeard /\ DbInv /\ SaidInv
  BY ONLY ToldInv DEF ToldInv
<1>1. CASE Connect
  BY ONLY Inv, ToldInv, <1>1, ToldConnect
<1>2. CASE DecodeStep
  BY ONLY ToldInv, <1>2, ToldDecode
<1>3. CASE BuildReport
  BY ONLY Inv, PlanInv, ToldInv, <1>3, ToldReport
<1>4. CASE Sample
  BY ONLY Inv, ToldInv, <1>4, ToldSample
<1>5. CASE Check \/ Serve \/ Accept
  BY ONLY Inv, ToldInv, <1>5, ToldSaid
<1>6. CASE CannotBuild \/ NothingToSay \/ Verify
  <2>1. /\ stage # "done" /\ stage' = "done" /\ scene' = scene /\ samples' = samples /\ db' = db
        /\ id' = id
    BY ONLY <1>6 DEF CannotBuild, NothingToSay, Verify, resultVars
  <2>2. SamplesHeard' /\ DbInv'
    BY ONLY <1>0, <2>1, KeptStays
  <2>3. HeardInv' /\ FlightInv'
    BY ONLY <1>0, <2>1, HeardStays DEF Users
  <2>4. SaidInv'
    BY ONLY <1>0, <2>1, NotYetSaid
  <2> QED
    BY ONLY <2>2, <2>3, <2>4 DEF ToldInv
<1>7. CASE UNCHANGED vars
  <2>1. /\ stage' = stage /\ scene' = scene /\ samples' = samples /\ db' = db /\ id' = id
        /\ visit' = visit /\ flight' = flight /\ report' = report
    BY ONLY <1>7 DEF vars, connectionVars, resultVars
  <2>2. User' = User
    BY ONLY <2>1, WhoStays
  <2>3. SamplesHeard' /\ DbInv'
    BY ONLY <1>0, <2>1, KeptStays
  <2>4. FlightInv'
    BY ONLY <1>0, <2>1, <2>2 DEF FlightInv
  <2>5. HeardInv'
    BY ONLY <1>0, <2>1, <2>2 DEF HeardInv
  <2>6. \A v : SaidOf(v) => SaidOf(v)'
    BY ONLY <2>1 DEF SaidOf
  <2>7. SaidInv'
    BY ONLY <1>0, <2>1, <2>2, <2>6 DEF SaidInv
  <2> QED
    BY ONLY <2>3, <2>4, <2>5, <2>7 DEF ToldInv
<1> QED
  BY ONLY <1>1, <1>2, <1>3, <1>4, <1>5, <1>6, <1>7, [Next]_vars DEF Next

LEMMA ToldAlways == Spec => [](Inv /\ ToldInv)
<1>1. Spec => []PlanInv
  BY InitPlanInv, NextPlanInv, Invariance, PTL DEF Spec
<1> QED
  BY <1>1, InitTold, NextTold, Invariance, PTL DEF Spec

-----------------------------------------------------------------------------
(* The verdict on a client that is known *)

LEMMA UndisturbedIsWell ==
  ASSUME NEW v, NEW shape, Speaker = scene.client, Undisturbed(v, shape)
  PROVE  GoesWell(scene.client, v) /\ RequestShape(v.plan) = shape
<1>1. /\ v.completes /\ v.hello # "cut"
      /\ ALPN \in ToSet(scene.client.extensions) => Negotiated(scene.client) # None
  BY ONLY Speaker = scene.client, Undisturbed(v, shape) DEF Undisturbed, Completes
<1>2. /\ v.flight = "whole" /\ IsLegal(Peer(v.plan)) /\ WithinLimits(v.plan)
      /\ RequestShape(v.plan) = shape
  BY ONLY Undisturbed(v, shape) DEF Undisturbed, IsLegal
<1> QED
  BY ONLY <1>1, <1>2 DEF GoesWell

(* Of whom it is that something is said. *)
LEMMA WhoIsSaid ==
  ASSUME Inv, ToldInv, id # None, report # None
  PROVE  /\ The(visit) \in scene.visits /\ The(visit) \in VisitType
         /\ FitsInRecord(scene.client, The(visit))
         /\ The(report).tls \in FingerprintTls(Recorded(WriteHello(scene.client, The(visit))))
         /\ Heard(The(report), scene.client, The(visit))
         /\ The(id) = Identify(The(report), db)
         /\ Speaker = scene.client /\ scene.client \in ClientType /\ scene \in Scenes
         /\ ~(Len(samples) < scene.samples)
<1>1. SceneInv /\ SaidInv
  BY ONLY Inv, ToldInv DEF Inv, ToldInv
<1>2. User \in {"check", "serve", "tower"}
  BY ONLY <1>1, id # None DEF SaidInv
<1>3. Speaker = scene.client
  <2>1. User # "emulate"
    BY ONLY <1>2
  <2> QED
    BY ONLY <2>1 DEF Speaker
<1>4. ~(Len(samples) < scene.samples)
  BY ONLY <1>2 DEF User
<1>5. scene \in Scenes /\ scene.client \in ClientType /\ scene.visits \subseteq VisitType
  BY ONLY <1>1, SceneFacts DEF SceneInv
<1>6. PICK v \in scene.visits : SaidOf(v)
  BY ONLY <1>1, id # None DEF SaidInv
<1>7. The(visit) = v
  BY ONLY <1>6 DEF SaidOf, The, Some
<1>8. The(report) \in report
  BY ONLY report # None, TheOne
<1>9. /\ The(report).tls \in FingerprintTls(Recorded(WriteHello(scene.client, v)))
      /\ Heard(The(report), scene.client, v)
      /\ id = Some(Identify(The(report), db))
  BY ONLY <1>6, <1>8 DEF SaidOf
<1>10. The(id) = Identify(The(report), db)
  BY ONLY <1>9 DEF The, Some
<1>11. FitsInRecord(scene.client, v)
  BY ONLY <1>5, <1>6, SceneFacts
<1> QED
  BY ONLY <1>3, <1>4, <1>5, <1>6, <1>7, <1>9, <1>10, <1>11

(* A profile keeps what the last report says. *)
LEMMA ProfileKeeps ==
  ASSUME NEW reports, NEW label
  PROVE  /\ KeepsTls(ProfileFrom(reports, label), Last(reports).tls)
         /\ KeepsH2(ProfileFrom(reports, label), Last(reports))
<1> DEFINE p == ProfileFrom(reports, label)
           r == Last(reports)
           q == ProfileOf(r, label)
<1>1. /\ q.ciphers = Strip(r.tls.ciphers) /\ q.extensions = Strip(r.tls.extensions)
      /\ q.greaseCiphers = r.tls.greaseCiphers /\ q.greaseExts = r.tls.greaseExts
      /\ q.alpn = r.tls.alpn /\ q.hasSni = r.tls.hasSni
      /\ q.h2 = {[settings |-> h.settings, window |-> h.window, pseudo |-> h.pseudo] : h \in r.h2}
      /\ q.http = {[names |-> Comparable(h.http.names), count |-> h.http.count,
                    language |-> h.http.language] : h \in r.h2}
  BY ONLY DEF ProfileOf
<1>2. /\ p.ciphers = q.ciphers /\ p.extensions = q.extensions
      /\ p.greaseCiphers = q.greaseCiphers /\ p.greaseExts = q.greaseExts
      /\ p.alpn = q.alpn /\ p.hasSni = q.hasSni /\ p.h2 = q.h2 /\ p.http = q.http
  BY ONLY DEF ProfileFrom, ProfileOf
<1> HIDE DEF p, q, r
<1>3. KeepsTls(p, r.tls)
  BY ONLY <1>1, <1>2 DEF KeepsTls
<1>4. KeepsH2(p, r)
  BY ONLY <1>1, <1>2 DEF KeepsH2
<1> QED
  BY ONLY <1>3, <1>4 DEF p, r

(* A profile that agrees is the best there is. *)
LEMMA CleanIsNamed ==
  ASSUME NEW r, NEW base \in Seq(ProfileType), NEW n \in DOMAIN base, IsClean(Diff(r, base[n]))
  PROVE  \E m \in DOMAIN base :
           /\ IsClean(Diff(r, base[m]))
           /\ Identify(r, base).best = {Candidate(r, base[m])}
<1>1. DOMAIN base \subseteq Nat
  <2>1. DOMAIN base = 1 .. Len(base) /\ Len(base) \in Nat
    OBVIOUS
  <2> QED
    BY ONLY <2>1
<1>2. \E m \in DOMAIN base : /\ IsClean(Diff(r, base[m]))
                             /\ Best(r, base) = {Candidate(r, base[m])}
  BY ONLY <1>1, n \in DOMAIN base, IsClean(Diff(r, base[n])), CleanIsBest
<1>3. Identify(r, base).best = Best(r, base)
  BY ONLY DEF Identify
<1> QED
  BY ONLY <1>2, <1>3

(* The profile that was captured of a client agrees with it.                *)
LEMMA CapturedAgrees ==
  ASSUME Inv, ToldInv, id # None, report # None, samples # <<>>,
         NEW shape, shape = RequestShape(The(visit).plan),
         Undisturbed(The(visit), shape),
         \A n \in DOMAIN samples : Undisturbed(samples[n].visit, shape),
         scene.client.permutes => Last(db).extensionOrder # "fixed"
  PROVE  IsClean(Diff(The(report), Last(db)))
<1> DEFINE client == scene.client
           v == The(visit)
           r == The(report)
           reports == [n \in DOMAIN samples |-> samples[n].report]
           p == ProfileFrom(reports, Captured)
           last == Len(samples)
           w == samples[last].visit
           s == samples[last].report
<1>1. /\ v \in VisitType /\ FitsInRecord(client, v) /\ Heard(r, client, v)
      /\ r.tls \in FingerprintTls(Recorded(WriteHello(client, v)))
      /\ Speaker = client /\ client \in ClientType /\ scene \in Scenes
      /\ ~(Len(samples) < scene.samples)
  BY ONLY Inv, ToldInv, id # None, report # None, WhoIsSaid
<1>2. SceneInv /\ SamplesInv /\ SamplesHeard /\ DbInv
  BY ONLY Inv, ToldInv DEF Inv, ToldInv
<1>3. last \in DOMAIN samples /\ DOMAIN samples = 1 .. last /\ last \in Nat
  <2>1. IsSequence(samples)
    BY ONLY <1>2 DEF SceneInv
  <2>2. Len(samples) # 0 /\ Len(samples) \in Nat /\ DOMAIN samples = 1 .. Len(samples)
    <3>1. PICK T : samples \in Seq(T)
      BY ONLY <2>1 DEF IsSequence
    <3> QED
      BY ONLY <3>1, samples # <<>>
  <2> QED
    BY ONLY <2>2
<1>4. db # <<>> /\ Last(db) = p
  BY ONLY <1>1, <1>2, samples # <<>> DEF DbInv
<1>5. Last(reports) = s
  <2>1. reports = [n \in 1 .. last |-> samples[n].report]
    BY ONLY <1>3
  <2> HIDE DEF reports
  <2>2. Len(reports) = last /\ reports[last] = s
    BY ONLY <1>3, <2>1
  <2> QED
    BY ONLY <2>2 DEF Last
<1> HIDE DEF reports
<1>6. KeepsTls(p, s.tls) /\ KeepsH2(p, s)
  BY ONLY <1>5, ProfileKeeps
<1>7. /\ w \in VisitType /\ FitsInRecord(client, w) /\ Heard(s, client, w)
      /\ s.tls \in FingerprintTls(Recorded(WriteHello(client, w)))
  <2>1. SampleOf(samples[last]) /\ Heard(s, client, w)
    BY ONLY <1>2, <1>3 DEF SamplesInv, SamplesHeard
  <2>2. w \in scene.sampled /\ s.tls \in FingerprintTls(Recorded(WriteHello(client, w)))
    BY ONLY <2>1 DEF SampleOf
  <2>3. w \in VisitType /\ FitsInRecord(client, w)
    BY ONLY <1>1, <2>2, SceneFacts
  <2> QED
    BY ONLY <2>1, <2>2, <2>3
<1>8. /\ GoesWell(client, v) /\ GoesWell(client, w)
      /\ RequestShape(v.plan) = RequestShape(w.plan)
  <2>1. GoesWell(client, v) /\ RequestShape(v.plan) = shape
    BY ONLY <1>1, Undisturbed(The(visit), shape), UndisturbedIsWell
  <2>2. Undisturbed(w, shape)
    BY ONLY <1>3, \A n \in DOMAIN samples : Undisturbed(samples[n].visit, shape)
  <2>3. GoesWell(client, w) /\ RequestShape(w.plan) = shape
    BY ONLY <1>1, <2>2, UndisturbedIsWell
  <2> QED
    BY ONLY <2>1, <2>3
<1>9. IsHeard(r, client, v) /\ IsHeard(s, client, w)
  BY ONLY <1>1, <1>7, <1>8 DEF Heard
<1>10. client.permutes => p.extensionOrder # "fixed"
  BY ONLY <1>4, scene.client.permutes => Last(db).extensionOrder # "fixed"
<1> HIDE DEF client, v, r, p, w, s
<1>11. Says(r.tls, client) /\ Says(s.tls, client)
  BY ONLY <1>1, <1>7, HelloSays
<1>12. TlsAgrees(r, p)
  BY ONLY <1>6, <1>10, <1>11, SaysAgree
<1>13. H2Agrees(r, p) /\ HttpAgrees(r, p)
  BY ONLY <1>1, <1>6, <1>7, <1>8, <1>9, HeardAgree
<1>14. IsClean(Diff(r, p))
  BY ONLY <1>12, <1>13, DiffIsClean
<1> QED
  BY ONLY <1>4, <1>14 DEF r

(* A client that a profile was captured of is recognised when it returns,   *)
(* for every client, every database and every number of samples: whatever   *)
(* order, GREASE and resumption its visits had, its next report agrees with *)
(* the profile in every field, and then the profile named does too.         *)
THEOREM ReturningClientIsRecognised == Spec => []SameClientIsRecognised
<1>1. Inv /\ ToldInv => SameClientIsRecognised
  <2> SUFFICES ASSUME Inv, ToldInv, id # None, samples # <<>>, report # None,
                      NEW shape, shape = RequestShape(The(visit).plan),
                      Undisturbed(The(visit), shape),
                      \A n \in DOMAIN samples : Undisturbed(samples[n].visit, shape),
                      scene.client.permutes => Last(db).extensionOrder # "fixed"
               PROVE  \E b \in The(id).best : IsClean(b.diff)
    BY Zenon DEF SameClientIsRecognised
  <2>1. IsClean(Diff(The(report), Last(db)))
    BY CapturedAgrees
  <2>2. db \in Seq(ProfileType) /\ db # <<>>
    <3>1. SceneInv /\ DbInv
      BY ONLY Inv, ToldInv DEF Inv, ToldInv
    <3>2. ~(Len(samples) < scene.samples)
      BY ONLY Inv, ToldInv, id # None, report # None, WhoIsSaid
    <3> QED
      BY ONLY <3>1, <3>2, samples # <<>> DEF SceneInv, DbInv
  <2>3. Len(db) \in DOMAIN db /\ Last(db) = db[Len(db)]
    BY ONLY <2>2 DEF Last
  <2>4. PICK m \in DOMAIN db : /\ IsClean(Diff(The(report), db[m]))
                               /\ Identify(The(report), db).best = {Candidate(The(report), db[m])}
    BY ONLY <2>1, <2>2, <2>3, CleanIsNamed
  <2>5. The(id) = Identify(The(report), db)
    BY ONLY Inv, ToldInv, id # None, report # None, WhoIsSaid
  <2>6. Candidate(The(report), db[m]).diff = Diff(The(report), db[m])
    BY ONLY DEF Candidate
  <2> QED
    BY ONLY <2>4, <2>5, <2>6
<1> QED
  BY <1>1, ToldAlways, PTL

(* The least of some numbers is the one that none is below. *)
LEMMA LeastIsMin ==
  ASSUME NEW S, S \subseteq Nat, NEW k \in S, \A m \in S : k <= m
  PROVE  Min(S) = k
<1>1. \E x \in S : \A y \in S : x <= y
  OBVIOUS
<1>2. Min(S) \in S /\ \A y \in S : Min(S) <= y
  BY ONLY <1>1 DEF Min
<1>3. Min(S) <= k /\ k <= Min(S) /\ k \in Nat /\ Min(S) \in Nat
  BY <1>2
<1> QED
  BY ONLY <1>3

(* A User-Agent claims the family that it is of, if that is a known one.    *)
LEMMA ClaimedIsFamily ==
  ASSUME NEW agent \in DOMAIN AgentFamily
  PROVE  ClaimedFamily(agent) = IF AgentFamily[agent] \in Families THEN AgentFamily[agent] ELSE "unknown"
<1> DEFINE family == AgentFamily[agent]
           starts == AgentTokens[agent].starts
           has(tokens) == tokens \subseteq AgentTokens[agent].contains
           fits == {n \in DOMAIN Browsers : Browsers[n].tokens \subseteq AgentTokens[agent].contains}
           others == {"curl", "python", "go", "node"}
<1>1. /\ \A other \in others : starts = other <=> family = other
      /\ starts \notin others =>
           /\ has({"edg"}) <=> family = "edge"
           /\ has({"firefox"}) /\ family # "edge" <=> family = "firefox"
           /\ has({"chrome"}) /\ family \notin {"edge", "firefox"} <=> family = "chrome"
           /\ has({"safari", "version"}) /\ family \notin {"edge", "firefox", "chrome"}
                <=> family = "safari"
  BY AgentsAssumption
<1>2. ClaimedFamily(agent) = IF starts \in others THEN starts
                             ELSE IF fits = {} THEN "unknown" ELSE Browsers[Min(fits)].family
  BY ONLY DEF ClaimedFamily
<1>3. /\ fits \subseteq 1 .. 4
      /\ 1 \in fits <=> has({"edg"})
      /\ 2 \in fits <=> has({"firefox"})
      /\ 3 \in fits <=> has({"chrome"})
      /\ 4 \in fits <=> has({"safari", "version"})
  <2>1. /\ DOMAIN Browsers = 1 .. 4
        /\ Browsers[1].tokens = {"edg"} /\ Browsers[2].tokens = {"firefox"}
        /\ Browsers[3].tokens = {"chrome"} /\ Browsers[4].tokens = {"safari", "version"}
    BY ONLY DEF Browsers
  <2>2. 1 \in 1 .. 4 /\ 2 \in 1 .. 4 /\ 3 \in 1 .. 4 /\ 4 \in 1 .. 4
    OBVIOUS
  <2>3. \A n \in 1 .. 4 : n \in fits <=> has(Browsers[n].tokens)
    BY ONLY <2>1
  <2>4. fits \subseteq 1 .. 4
    BY ONLY <2>1
  <2> HIDE DEF fits, has
  <2> QED
    BY ONLY <2>1, <2>2, <2>3, <2>4
<1>4. /\ Browsers[1].family = "edge" /\ Browsers[2].family = "firefox"
      /\ Browsers[3].family = "chrome" /\ Browsers[4].family = "safari"
  BY ONLY DEF Browsers
<1>5. family \in Families <=> family \in others \cup {"edge", "firefox", "chrome", "safari"}
  BY ONLY DEF Families
<1> HIDE DEF has, fits, family, starts
<1>6. CASE starts \in others
  <2>1. family = starts
    BY ONLY <1>1, <1>6
  <2> QED
    BY ONLY <1>2, <1>5, <1>6, <2>1 DEF family
<1>7. CASE starts \notin others
  <2>1. family \notin others
    BY ONLY <1>1, <1>7
  <2>2. ASSUME NEW k \in fits, \A m \in fits : k <= m, Browsers[k].family = family
        PROVE  ClaimedFamily(agent) = family
    <3>1. fits \subseteq Nat
      BY ONLY <1>3
    <3>2. Min(fits) = k
      BY ONLY <2>2, <3>1, LeastIsMin
    <3> QED
      BY ONLY <1>2, <1>7, <2>2, <3>2
  <2>3. \A n \in fits : n = 1 \/ n = 2 \/ n = 3 \/ n = 4
    BY ONLY <1>3
  <2>4. CASE family = "edge"
    <3>1. 1 \in fits
      BY ONLY <1>1, <1>3, <1>7, <2>4
    <3>2. \A m \in fits : 1 <= m
      BY ONLY <2>3
    <3>3. ClaimedFamily(agent) = family
      BY ONLY <1>4, <2>2, <2>4, <3>1, <3>2
    <3> QED
      BY ONLY <1>5, <2>4, <3>3 DEF family
  <2>5. CASE family = "firefox"
    <3>1. 2 \in fits /\ 1 \notin fits
      BY ONLY <1>1, <1>3, <1>7, <2>5
    <3>2. \A m \in fits : 2 <= m
      BY ONLY <2>3, <3>1
    <3>3. ClaimedFamily(agent) = family
      BY ONLY <1>4, <2>2, <2>5, <3>1, <3>2
    <3> QED
      BY ONLY <1>5, <2>5, <3>3 DEF family
  <2>6. CASE family = "chrome"
    <3>1. 3 \in fits /\ 1 \notin fits /\ 2 \notin fits
      BY ONLY <1>1, <1>3, <1>7, <2>6
    <3>2. \A m \in fits : 3 <= m
      BY ONLY <2>3, <3>1
    <3>3. ClaimedFamily(agent) = family
      BY ONLY <1>4, <2>2, <2>6, <3>1, <3>2
    <3> QED
      BY ONLY <1>5, <2>6, <3>3 DEF family
  <2>7. CASE family = "safari"
    <3>1. 4 \in fits /\ 1 \notin fits /\ 2 \notin fits /\ 3 \notin fits
      BY ONLY <1>1, <1>3, <1>7, <2>7
    <3>2. \A m \in fits : 4 <= m
      BY ONLY <2>3, <3>1
    <3>3. ClaimedFamily(agent) = family
      BY ONLY <1>4, <2>2, <2>7, <3>1, <3>2
    <3> QED
      BY ONLY <1>5, <2>7, <3>3 DEF family
  <2>8. CASE family \notin {"edge", "firefox", "chrome", "safari"}
    <3>1. 1 \notin fits /\ 2 \notin fits /\ 3 \notin fits /\ 4 \notin fits
      BY ONLY <1>1, <1>3, <1>7, <2>8
    <3>2. fits = {}
      BY ONLY <2>3, <3>1
    <3> QED
      BY ONLY <1>2, <1>5, <1>7, <2>1, <2>8, <3>2 DEF family
  <2> QED
    BY ONLY <2>4, <2>5, <2>6, <2>7, <2>8
<1> QED
  BY ONLY <1>6, <1>7

(* Where labels are of one profile each, a label's family is its profile's. *)
LEMMA FamilyIsTheProfiles ==
  ASSUME NEW base \in Seq(ProfileType), NEW m \in DOMAIN base,
         \A j, n \in DOMAIN base : base[j].label = base[n].label => j = n
  PROVE  FamilyOf(base[m].label, base) = base[m].family
<1> DEFINE label == base[m].label
           S == {p \in ProfileType : p.label = label}
           K == Keeping(base, S)
<1>1. \A n \in DOMAIN base : base[n] \in ProfileType
  OBVIOUS
<1>2. Keep(base, LAMBDA p : p.label = label) = K
  <2>1. {n \in DOMAIN base : base[n].label = label} = {n \in DOMAIN base : base[n] \in S}
    BY ONLY <1>1
  <2> QED
    BY ONLY <2>1 DEF Keep, Keeping
<1> HIDE DEF K
<1>3. K \in Seq(ProfileType)
  BY ONLY base \in Seq(ProfileType), KeepingType DEF K
<1>4. \E k \in DOMAIN K : K[k] = base[m]
  <2>1. m \in 1 .. Len(base) /\ base[m] \in S
    BY ONLY <1>1, m \in DOMAIN base, base \in Seq(ProfileType)
  <2> QED
    BY ONLY <2>1, base \in Seq(ProfileType), KeepingHas DEF K
<1>5. K # <<>> /\ 1 \in DOMAIN K /\ Head(K) = K[1]
  BY ONLY <1>3, <1>4
<1>6. K[1] \in ToSet(base) /\ K[1] \in S
  <2>1. K[1] \in ToSet(K)
    BY ONLY <1>5 DEF ToSet
  <2> HIDE DEF S
  <2> QED
    BY ONLY <2>1, base \in Seq(ProfileType), KeepingElements DEF K
<1>7. PICK j \in DOMAIN base : K[1] = base[j]
  BY ONLY <1>6 DEF ToSet
<1>8. base[j].label = base[m].label
  BY ONLY <1>6, <1>7
<1>9. j = m
  BY ONLY <1>8, m \in DOMAIN base, j \in DOMAIN base,
          \A i, n \in DOMAIN base : base[i].label = base[n].label => i = n
<1>10. FamilyOf(label, base) = Head(Keep(base, LAMBDA p : p.label = label)).family
  BY ONLY DEF FamilyOf
<1> QED
  BY ONLY <1>2, <1>5, <1>7, <1>9, <1>10

(* What a report claims of a request that was read. *)
LEMMA ClaimsAreTheAgents ==
  ASSUME NEW r, NEW meant, NEW sent, sent = Keep(meant, LAMBDA f : f.name = UserAgent), sent # <<>>,
         r.h2 # {}, \A h \in r.h2 : h.headers = meant
  PROVE  ClaimsOf(r) = {ClaimedFamily(Head(sent).value)} \ {"unknown"}
<1> DEFINE agents(h) == Keep(h.headers, LAMBDA f : f.name = UserAgent)
           claim(h) == ClaimedFamily(Head(agents(h)).value)
<1>1. ClaimsOf(r) = {claim(h) : h \in {h \in r.h2 : agents(h) # <<>>}} \ {"unknown"}
  BY ONLY DEF ClaimsOf
<1>2. \A h \in r.h2 : agents(h) = sent
  BY ONLY sent = Keep(meant, LAMBDA f : f.name = UserAgent), \A h \in r.h2 : h.headers = meant
<1> HIDE DEF agents
<1>3. {h \in r.h2 : agents(h) # <<>>} = r.h2
  BY ONLY <1>2, sent # <<>>
<1>4. \A h \in r.h2 : claim(h) = ClaimedFamily(Head(sent).value)
  BY ONLY <1>2
<1> HIDE DEF claim
<1>5. {claim(h) : h \in r.h2} = {ClaimedFamily(Head(sent).value)}
  <2>1. \E h : h \in r.h2
    BY ONLY r.h2 # {}
  <2> QED
    BY ONLY <1>4, <2>1
<1> QED
  BY ONLY <1>1, <1>3, <1>5

(* A verdict contradicts a claim when both are known and differ.            *)
LEMMA MismatchIs ==
  ASSUME NEW r, NEW base, NEW c, NEW claimed,
         Identify(r, base).best = {c}, ClaimsOf(r) = {claimed} \ {"unknown"}
  PROVE  Identify(r, base).mismatch # None <=>
           /\ claimed # "unknown" /\ FamilyOf(c.label, base) \in Families
           /\ claimed # FamilyOf(c.label, base)
<1> DEFINE best == Best(r, base)
           pair(claim, b) == [claimed |-> claim, observed |-> FamilyOf(b.label, base)]
           pairs == {pair(claim, b) : claim \in ClaimsOf(r),
                                      b \in {b \in best : FamilyOf(b.label, base) \in Families}}
           own == FamilyOf(c.label, base)
<1>1. Identify(r, base).best = best /\ MismatchOf(r, best, base) = pairs
  BY ONLY DEF Identify, MismatchOf
<1>2. Identify(r, base).mismatch = {p \in MismatchOf(r, best, base) : p.claimed # p.observed}
  BY ONLY DEF Identify
<1> HIDE DEF best
<1>3. best = {c}
  BY ONLY <1>1, Identify(r, base).best = {c}
<1>4. \A claim : pair(claim, c).claimed = claim /\ pair(claim, c).observed = own
  OBVIOUS
<1> HIDE DEF pair, own
<1>5. pairs = {pair(claim, c) : claim \in {x \in ClaimsOf(r) : own \in Families}}
  BY ONLY <1>3 DEF own
<1> HIDE DEF pairs
<1>6. \A p : p \in pairs <=> p = pair(claimed, c) /\ claimed # "unknown" /\ own \in Families
  BY ONLY <1>5, ClaimsOf(r) = {claimed} \ {"unknown"}
<1>7. \A p : p \in Identify(r, base).mismatch <=>
               p = pair(claimed, c) /\ claimed # "unknown" /\ own \in Families /\ claimed # own
  BY ONLY <1>1, <1>2, <1>4, <1>6
<1> QED
  BY ONLY <1>7 DEF None, own

(* A User-Agent is called a lie exactly when it is one, for every client,   *)
(* every database whose labels are of one profile each and every string of  *)
(* which a family is known: no honest client is accused and no false string *)
(* believed, as long as the profiles that agree are of the client's family. *)
THEOREM ClaimsAreJudgedRightly == Spec => []MismatchTellsTheTruth
<1>1. Inv /\ ToldInv => MismatchTellsTheTruth
  <2> DEFINE client == scene.client
             v == The(visit)
             r == The(report)
             clean == {n \in DOMAIN db : IsClean(Diff(r, db[n]))}
             meant == Peer(v.plan).meant
             sent == Keep(meant, LAMBDA f : f.name = UserAgent)
             agent == Head(sent).value
             lies == /\ {AgentFamily[agent], client.family} \subseteq Families
                     /\ AgentFamily[agent] # client.family
  <2> SUFFICES ASSUME Inv, ToldInv, id # None, report # None,
                      Undisturbed(v, RequestShape(v.plan)),
                      AlpnOf(v) = Some(Http2), AsksInOneFrame,
                      sent # <<>>, agent \in DOMAIN AgentFamily,
                      \A m, n \in DOMAIN db : db[m].label = db[n].label => m = n,
                      clean # {}, \A n \in clean : db[n].family = client.family
               PROVE  The(id).mismatch # None <=> lies
    BY Zenon DEF MismatchTellsTheTruth
  <2>1. /\ Heard(r, client, v) /\ The(id) = Identify(r, db) /\ Speaker = client
    BY ONLY Inv, ToldInv, id # None, report # None, WhoIsSaid
  <2>2. GoesWell(client, v)
    BY ONLY <2>1, Undisturbed(v, RequestShape(v.plan)), UndisturbedIsWell
  <2>3. Negotiated(client) = Some(Http2)
    BY ONLY <2>1, <2>2, AlpnOf(v) = Some(Http2), WellIsComplete
  <2>4. r.h2 # {} /\ \A h \in r.h2 : h.headers = meant
    <3>1. r.h2 # None /\ \A h \in r.h2 : IsSeen(h, client, Meant(client, v))
      BY ONLY <2>1, <2>2, <2>3 DEF Heard, IsHeard
    <3>2. Meant(client, v) = meant
      BY ONLY AsksInOneFrame DEF AsksInOneFrame, Meant, Announced
    <3> QED
      BY ONLY <3>1, <3>2 DEF IsSeen, None
  <2>5. ClaimsOf(r) = {ClaimedFamily(agent)} \ {"unknown"}
    <3> HIDE DEF meant, r
    <3> QED
      BY ONLY <2>4, sent # <<>>, ClaimsAreTheAgents
  <2>6. db \in Seq(ProfileType)
    BY ONLY Inv DEF Inv, SceneInv
  <2>7. PICK n \in DOMAIN db : IsClean(Diff(r, db[n]))
    BY ONLY clean # {}
  <2>8. PICK m \in DOMAIN db : IsClean(Diff(r, db[m])) /\ Identify(r, db).best = {Candidate(r, db[m])}
    BY ONLY <2>6, <2>7, CleanIsNamed
  <2>9. Candidate(r, db[m]).label = db[m].label
    BY ONLY DEF Candidate
  <2>10. FamilyOf(db[m].label, db) = client.family
    <3>1. db[m].family = client.family
      BY ONLY <2>8, \A k \in clean : db[k].family = client.family
    <3>2. FamilyOf(db[m].label, db) = db[m].family
      BY ONLY <2>6, \A j, k \in DOMAIN db : db[j].label = db[k].label => j = k, FamilyIsTheProfiles
    <3> QED
      BY ONLY <3>1, <3>2
  <2>11. The(id).mismatch # None <=>
           /\ ClaimedFamily(agent) # "unknown" /\ client.family \in Families
           /\ ClaimedFamily(agent) # client.family
    <3> DEFINE claimed == ClaimedFamily(agent)
               c == Candidate(r, db[m])
    <3>1. FamilyOf(c.label, db) = client.family
      BY ONLY <2>9, <2>10
    <3>2. ClaimsOf(r) = {claimed} \ {"unknown"} /\ Identify(r, db).best = {c} /\ The(id) = Identify(r, db)
      BY ONLY <2>1, <2>5, <2>8
    <3> HIDE DEF claimed, c, r, client
    <3>3. Identify(r, db).mismatch # None <=>
            /\ claimed # "unknown" /\ FamilyOf(c.label, db) \in Families
            /\ claimed # FamilyOf(c.label, db)
      BY ONLY <3>2, MismatchIs
    <3> QED
      BY ONLY <3>1, <3>2, <3>3 DEF claimed
  <2>12. ClaimedFamily(agent) = IF AgentFamily[agent] \in Families THEN AgentFamily[agent] ELSE "unknown"
    BY ONLY agent \in DOMAIN AgentFamily, ClaimedIsFamily
  <2>13. "unknown" \notin Families
    BY ONLY DEF Families
  <2> HIDE DEF agent, client
  <2> QED
    BY ONLY <2>11, <2>12, <2>13
<1> QED
  BY <1>1, ToldAlways, PTL

====
