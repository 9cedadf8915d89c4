---- MODULE FingerprintTypes ----
(***************************************************************************)
(* What the pipeline's operators return: what clients and peers write is   *)
(* bytes, and is read back as they meant it, frame by frame, integer by    *)
(* integer and string by string; what is read of bytes is read in one way  *)
(* at most; reports, profiles, verdicts and the decoder's table are what   *)
(* they should be.  FingerprintPipelineProofs rests on these.              *)
(***************************************************************************)
EXTENDS FingerprintPipeline, SequenceLemmas, FiniteSetTheorems

-----------------------------------------------------------------------------
(* Bytes *)

(* Two sequences over a set make one over it. *)
LEMMA ConcatType ==
  ASSUME NEW T, NEW s \in Seq(T), NEW t \in Seq(T)
  PROVE  s \o t \in Seq(T)
OBVIOUS

(* A sequence over a set is one over every larger set. *)
LEMMA WiderType ==
  ASSUME NEW T, NEW U, T \subseteq U, NEW s \in Seq(T)
  PROVE  s \in Seq(U)
<1>1. Len(s) \in Nat /\ s = [i \in 1 .. Len(s) |-> s[i]] /\ \A i \in 1 .. Len(s) : s[i] \in U
  OBVIOUS
<1> DEFINE n == Len(s)
<1> HIDE DEF n
<1>2. [i \in 1 .. n |-> s[i]] \in Seq(U)
  BY <1>1 DEF n
<1> QED
  BY <1>1, <1>2 DEF n

(* Bytes are numbers. *)
LEMMA OctetIsNat == ASSUME NEW s \in Seq(Octet) PROVE s \in Seq(Nat)
<1>1. Octet \subseteq Nat
  BY DEF Octet
<1> QED
  BY <1>1, WiderType

(* What is left of a number fits the byte it is put in. *)
LEMMA Modulo == \A n \in Nat : n % 256 \in Octet /\ n % 128 \in Nat
BY DEF Octet

(* Numbers are written as bytes. *)
LEMMA OctetsType ==
  ASSUME NEW v \in Nat
  PROVE  Octets16(v) \in Seq(Octet) /\ Octets24(v) \in Seq(Octet) /\ Octets32(v) \in Seq(Octet)
<1>2. v \div 256 \in Nat /\ v \div 65536 \in Nat /\ v \div 16777216 \in Nat
  OBVIOUS
<1> DEFINE a == (v \div 256) % 256
           b == v % 256
           c == (v \div 65536) % 256
           d == (v \div 16777216) % 256
<1>3. a \in Octet /\ b \in Octet /\ c \in Octet /\ d \in Octet
  BY <1>2, Modulo
<1> HIDE DEF a, b, c, d
<1>4. <<a, b>> \in Seq(Octet) /\ <<c>> \in Seq(Octet) /\ <<d>> \in Seq(Octet)
  BY <1>3
<1>5. /\ Octets16(v) = <<a, b>> /\ Octets24(v) = <<c>> \o Octets16(v)
      /\ Octets32(v) = <<d>> \o Octets24(v)
  BY DEF Octets16, Octets24, Octets32, a, b, c, d
<1>6. Octets24(v) \in Seq(Octet)
  BY <1>4, <1>5, ConcatType
<1> QED
  BY <1>4, <1>5, <1>6, ConcatType

(* What is cut from bytes is bytes, and as many as were asked for. *)
LEMMA TakeFacts ==
  ASSUME NEW T, NEW s \in Seq(T), NEW at \in Nat, NEW n \in Nat, Fits(s, at, n)
  PROVE  /\ Take(s, at, n) \in Seq(T) /\ Len(Take(s, at, n)) = n
         /\ \A i \in 1 .. n : Take(s, at, n)[i] = s[at + i]
<1>1. at + n <= Len(s) /\ Len(s) \in Nat
  BY DEF Fits
<1>2. at + 1 \in 1 .. at + n + 1 /\ at + n \in Nat
  OBVIOUS
<1>3. Take(s, at, n) = [i \in 1 .. n |-> s[at + i]]
  <2>1. SubSeq(s, at + 1, at + n) = [i \in 1 .. (at + n) - (at + 1) + 1 |-> s[i + (at + 1) - 1]]
    OBVIOUS
  <2>2. (at + n) - (at + 1) + 1 = n /\ \A i \in 1 .. n : i + (at + 1) - 1 = at + i
    OBVIOUS
  <2> QED
    BY <2>1, <2>2 DEF Take
<1>4. \A i \in 1 .. n : s[at + i] \in T
  BY <1>1
<1> QED
  BY <1>3, <1>4

(* The numbers read from the halves of bytes are numbers. *)
LEMMA NumbersType ==
  ASSUME NEW s \in Seq(Octet), NEW at \in Nat
  PROVE  /\ Fits(s, at, 1) => U8(s, at) \in Octet /\ U8(s, at) \in Nat
         /\ Fits(s, at, 2) => U16(s, at) \in Nat
         /\ Fits(s, at, 3) => U24(s, at) \in Nat
         /\ Fits(s, at, 4) => U31(s, at) \in Nat
<1>1. \A k \in 1 .. Len(s) : s[k] \in Octet
  OBVIOUS
<1>2. Len(s) \in Nat
  OBVIOUS
<1> DEFINE a == s[at + 1]
           b == s[at + 2]
           c == s[at + 3]
           d == s[at + 4]
<1>3. /\ Fits(s, at, 1) => a \in Octet
      /\ Fits(s, at, 2) => a \in Octet /\ b \in Octet
      /\ Fits(s, at, 3) => a \in Octet /\ b \in Octet /\ c \in Octet
      /\ Fits(s, at, 4) => a \in Octet /\ b \in Octet /\ c \in Octet /\ d \in Octet
  <2> HIDE DEF Octet
  <2> QED
    BY <1>1, <1>2 DEF Fits
<1>4. at + 1 + 1 = at + 2 /\ at + 1 + 2 = at + 3 /\ at + 1 + 1 + 1 = at + 3 /\ at + 1 + 1 + 2 = at + 4
  OBVIOUS
<1>5. /\ U8(s, at) = a /\ U16(s, at) = 256 * a + b
      /\ U24(s, at) = 65536 * a + (256 * b + c)
      /\ U31(s, at) = 16777216 * (a % 128) + (65536 * b + (256 * c + d))
  BY <1>4 DEF U8, U16, U24, U31
<1> HIDE DEF a, b, c, d
<1>6. \A x \in Octet : x \in Nat /\ x % 128 \in Nat
  BY DEF Octet
<1>7. ASSUME Fits(s, at, 4) PROVE U31(s, at) \in Nat
  <2> DEFINE t == a % 128
  <2>1. t \in Nat /\ b \in Nat /\ c \in Nat /\ d \in Nat
    BY ONLY <1>3, <1>6, <1>7
  <2>2. U31(s, at) = 16777216 * t + (65536 * b + (256 * c + d))
    BY ONLY <1>5, SMT
  <2> HIDE DEF t
  <2> QED
    BY ONLY <2>1, <2>2, SMT
<1>8. ASSUME Fits(s, at, 3) PROVE U24(s, at) \in Nat
  <2>1. a \in Nat /\ b \in Nat /\ c \in Nat
    BY ONLY <1>3, <1>6, <1>8
  <2> QED
    BY ONLY <1>5, <2>1, SMT
<1>9. ASSUME Fits(s, at, 2) PROVE U16(s, at) \in Nat
  <2>1. a \in Nat /\ b \in Nat
    BY ONLY <1>3, <1>6, <1>9
  <2> QED
    BY ONLY <1>5, <2>1, SMT
<1> QED
  BY <1>3, <1>5, <1>6, <1>7, <1>8, <1>9

(* A list of 16-bit numbers is read as numbers. *)
LEMMA U16sType ==
  ASSUME NEW s \in Seq(Octet)
  PROVE  U16s(s) \in Seq(Nat) /\ Len(U16s(s)) = Len(s) \div 2
<1>1. Len(s) \div 2 \in Nat /\ Len(s) \in Nat
  OBVIOUS
<1>2. ASSUME NEW n \in 1 .. Len(s) \div 2 PROVE U16(s, 2 * (n - 1)) \in Nat
  <2>1. 2 * (n - 1) \in Nat /\ Fits(s, 2 * (n - 1), 2)
    BY <1>1 DEF Fits
  <2> QED
    BY <2>1, NumbersType
<1> QED
  BY <1>1, <1>2 DEF U16s

(* A list behind its length is bytes. *)
LEMMA Lists ==
  ASSUME NEW s \in Seq(Octet)
  PROVE  List8(s) \in Seq(Octet) /\ List16(s) \in Seq(Octet)
<1>1. Len(s) \in Nat
  OBVIOUS
<1>2. Len(s) % 256 \in Octet
  BY <1>1, Modulo
<1> DEFINE n == Len(s) % 256
<1> HIDE DEF n
<1>3. <<n>> \in Seq(Octet)
  BY <1>2 DEF n
<1>4. <<n>> \o s \in Seq(Octet)
  BY <1>3, ConcatType
<1>5. Octets16(Len(s)) \o s \in Seq(Octet)
  BY <1>1, OctetsType, ConcatType
<1> QED
  BY <1>4, <1>5 DEF List8, List16, n

(* A frame is bytes. *)
LEMMA FrameType ==
  ASSUME NEW kind \in Octet, NEW flags \in Octet, NEW stream \in Nat, NEW payload \in Seq(Octet)
  PROVE  Frame(kind, flags, stream, payload) \in Seq(Octet)
<1>1. Octets24(Len(payload)) \in Seq(Octet) /\ Octets32(stream) \in Seq(Octet)
  BY OctetsType
<1>2. <<kind, flags>> \in Seq(Octet)
  OBVIOUS
<1> QED
  BY <1>1, <1>2, ConcatType DEF Frame

(* What is found, or nothing, is bytes. *)
LEMMA OrEmptyType ==
  ASSUME NEW T, NEW found, found \subseteq Seq(T)
  PROVE  OrEmpty(found) \in Seq(T)
<1>1. CASE found = {}
  BY <1>1 DEF OrEmpty, None
<1>2. CASE found # {}
  <2>1. The(found) \in found
    BY <1>2 DEF The
  <2> QED
    BY <1>2, <2>1 DEF OrEmpty, None
<1> QED
  BY <1>1, <1>2

(* A sequence of sequences, given element by element. *)
LEMMA FlattenEach ==
  ASSUME NEW T, NEW n \in Nat, NEW e, e \in [1 .. n -> Seq(T)]
  PROVE  FlattenSeq(e) \in Seq(T)
<1>1. e \in Seq(Seq(T))
  OBVIOUS
<1> QED
  BY <1>1, FlattenType

-----------------------------------------------------------------------------
(* What clients write is bytes *)

(* A list of 16-bit numbers is written as bytes. *)
LEMMA NumbersAreBytes ==
  ASSUME NEW values \in Seq(Nat)
  PROVE  Numbers(values) \in Seq(Octet)
<1> DEFINE e == [n \in DOMAIN values |-> Octets16(values[n])]
<1>1. Len(values) \in Nat /\ DOMAIN values = 1 .. Len(values)
  OBVIOUS
<1>2. \A n \in 1 .. Len(values) : values[n] \in Nat
  OBVIOUS
<1>3. \A n \in 1 .. Len(values) : Octets16(values[n]) \in Seq(Octet)
  BY <1>2, OctetsType
<1>4. e \in [1 .. Len(values) -> Seq(Octet)]
  BY <1>1, <1>3
<1> HIDE DEF e
<1>5. FlattenSeq(e) \in Seq(Octet)
  BY <1>1, <1>4, FlattenEach
<1> QED
  BY <1>5 DEF Numbers, e

(* A client as far as its hello goes. *)
SaysHello(client) ==
  /\ client.ciphers \in Seq(Nat) /\ client.extensions \in Seq(Nat)
  /\ client.protocols \in Seq(Seq(Octet))

(* A list of protocols is written as bytes. *)
LEMMA ProtocolsAreBytes ==
  ASSUME NEW protocols \in Seq(Seq(Octet))
  PROVE  FlattenSeq([n \in DOMAIN protocols |-> List8(protocols[n])]) \in Seq(Octet)
<1> DEFINE e == [n \in DOMAIN protocols |-> List8(protocols[n])]
<1>1. /\ Len(protocols) \in Nat /\ DOMAIN protocols = 1 .. Len(protocols)
      /\ \A n \in 1 .. Len(protocols) : protocols[n] \in Seq(Octet)
  OBVIOUS
<1>2. \A n \in 1 .. Len(protocols) : List8(protocols[n]) \in Seq(Octet)
  BY <1>1, Lists
<1>3. e \in [1 .. Len(protocols) -> Seq(Octet)]
  BY <1>1, <1>2
<1> HIDE DEF e
<1>4. FlattenSeq(e) \in Seq(Octet)
  BY <1>1, <1>3, FlattenEach
<1> QED
  BY <1>4 DEF e

(* The body of an extension is bytes, whatever the extension is. *)
LEMMA ExtensionBodyIsBytes ==
  ASSUME NEW client, SaysHello(client), NEW grease \in Nat, NEW x
  PROVE  ExtensionBody(client, grease, x) \in Seq(Octet)
<1>1. List16(FlattenSeq([n \in DOMAIN client.protocols |-> List8(client.protocols[n])])) \in Seq(Octet)
  <2>1. client.protocols \in Seq(Seq(Octet))
    BY DEF SaysHello
  <2> QED
    BY <2>1, ProtocolsAreBytes, Lists
<1>2. List8(Numbers(<<grease, 772, 771>>)) \in Seq(Octet)
  <2> DEFINE s == <<grease, 772, 771>>
  <2>1. s \in Seq(Nat)
    BY SMT
  <2> HIDE DEF s
  <2>2. List8(Numbers(s)) \in Seq(Octet)
    BY <2>1, NumbersAreBytes, Lists
  <2> QED
    BY <2>2 DEF s
<1>3. List16(Numbers(<<1027, 2052>>)) \in Seq(Octet)
  <2> DEFINE s == <<1027, 2052>>
  <2>1. s \in Seq(Nat)
    BY SMT
  <2> HIDE DEF s
  <2>2. List16(Numbers(s)) \in Seq(Octet)
    BY <2>1, NumbersAreBytes, Lists
  <2> QED
    BY <2>2 DEF s
<1>4. List16(Numbers(<<grease, 29>>)) \in Seq(Octet)
  <2> DEFINE s == <<grease, 29>>
  <2>1. s \in Seq(Nat)
    BY SMT
  <2> HIDE DEF s
  <2>2. List16(Numbers(s)) \in Seq(Octet)
    BY <2>1, NumbersAreBytes, Lists
  <2> QED
    BY <2>2 DEF s
<1>5. List8(<<0>>) \in Seq(Octet)
  <2>1. 0 \in Octet
    BY DEF Octet
  <2>2. <<0>> \in Seq(Octet)
    BY <2>1
  <2> QED
    BY <2>2, Lists
<1>6. <<>> \in Seq(Octet)
  OBVIOUS
<1> QED
  BY <1>1, <1>2, <1>3, <1>4, <1>5, <1>6 DEF ExtensionBody

(* A client that greases sends numbers. *)
LEMMA GreasedType ==
  ASSUME NEW client, NEW grease \in Nat, NEW values \in Seq(Nat)
  PROVE  Greased(client, grease, values) \in Seq(Nat)
<1>1. (IF client.grease THEN <<grease>> ELSE <<>>) \in Seq(Nat)
  OBVIOUS
<1> QED
  BY <1>1, ConcatType DEF Greased

(* A sequence read from its end is over the same set. *)
LEMMA ReverseType ==
  ASSUME NEW T, NEW s \in Seq(T)
  PROVE  Reverse(s) \in Seq(T)
<1>1. Len(s) \in Nat /\ \A i \in 1 .. Len(s) : (Len(s) - i) + 1 \in 1 .. Len(s)
  OBVIOUS
<1>2. \A i \in 1 .. Len(s) : s[(Len(s) - i) + 1] \in T
  BY <1>1
<1> QED
  BY <1>1, <1>2 DEF Reverse

(* The extensions of a hello are numbers. *)
LEMMA ExtensionIdsType ==
  ASSUME NEW client, SaysHello(client), NEW v, v.grease \in Nat
  PROVE  ExtensionIds(client, v) \in Seq(Nat)
<1> DEFINE a == IF client.permutes /\ v.flipped THEN Reverse(client.extensions)
                ELSE client.extensions
           b == IF v.resumed THEN <<PreSharedKey>> ELSE <<>>
<1>1. client.extensions \in Seq(Nat) /\ Reverse(client.extensions) \in Seq(Nat)
  BY ReverseType DEF SaysHello
<1>2. a \in Seq(Nat)
  BY <1>1
<1>3. b \in Seq(Nat)
  BY SMT DEF PreSharedKey
<1>4. <<>> \in Seq(Nat)
  OBVIOUS
<1> HIDE DEF a, b
<1>5. Greased(client, v.grease, a) \in Seq(Nat) /\ Greased(client, v.grease, <<>>) \in Seq(Nat)
  BY <1>2, <1>4, GreasedType
<1>6. Greased(client, v.grease, a) \o Greased(client, v.grease, <<>>) \in Seq(Nat)
  BY <1>5, ConcatType
<1>7. (Greased(client, v.grease, a) \o Greased(client, v.grease, <<>>)) \o b \in Seq(Nat)
  BY <1>3, <1>6, ConcatType
<1> QED
  BY <1>7 DEF ExtensionIds, a, b

(* The block of extensions is bytes. *)
LEMMA ExtensionBlockIsBytes ==
  ASSUME NEW client, SaysHello(client), NEW v, v.grease \in Nat
  PROVE  ExtensionBlock(client, v) \in Seq(Octet)
<1> DEFINE ids == ExtensionIds(client, v)
           body(n) == ExtensionBody(client, v.grease, ids[n])
           e == [n \in DOMAIN ids |-> Octets16(ids[n]) \o List16(body(n))]
<1>1. ids \in Seq(Nat)
  BY ExtensionIdsType
<1>2. \A n \in DOMAIN ids : body(n) \in Seq(Octet)
  BY ExtensionBodyIsBytes
<1> HIDE DEF ids, body
<1>3. Len(ids) \in Nat /\ DOMAIN ids = 1 .. Len(ids) /\ \A n \in DOMAIN ids : ids[n] \in Nat
  BY <1>1
<1>4. ASSUME NEW n \in DOMAIN ids PROVE Octets16(ids[n]) \o List16(body(n)) \in Seq(Octet)
  <2>1. Octets16(ids[n]) \in Seq(Octet) /\ List16(body(n)) \in Seq(Octet)
    BY <1>2, <1>3, OctetsType, Lists
  <2> QED
    BY <2>1, ConcatType
<1>5. e \in [1 .. Len(ids) -> Seq(Octet)]
  BY <1>3, <1>4
<1> HIDE DEF e
<1>6. FlattenSeq(e) \in Seq(Octet)
  BY <1>3, <1>5, FlattenEach
<1> QED
  BY <1>6 DEF ExtensionBlock, e, ids, body

(* The message of a hello is bytes. *)
LEMMA MessageIsBytes ==
  ASSUME NEW client, SaysHello(client), NEW v, v.grease \in Nat
  PROVE  Message(client, v) \in Seq(Octet)
<1> DEFINE a == Octets16(771)
           b == [n \in 1 .. RandomLen |-> 7]
           c == List8(<<8>>)
           d == List16(Numbers(Greased(client, v.grease, client.ciphers)))
           e == List8(<<0>>)
           f == IF client.extensions = <<>> THEN <<>> ELSE List16(ExtensionBlock(client, v))
<1>0. 7 \in Octet /\ 8 \in Octet /\ 0 \in Octet /\ 771 \in Nat
  BY SMT DEF Octet
<1>1. a \in Seq(Octet)
  BY <1>0, OctetsType
<1>2. b \in Seq(Octet)
  BY <1>0, RandomLenAssumption
<1>3. <<8>> \in Seq(Octet) /\ <<0>> \in Seq(Octet) /\ <<>> \in Seq(Octet)
  BY <1>0
<1>4. c \in Seq(Octet) /\ e \in Seq(Octet)
  BY <1>3, Lists
<1>5. d \in Seq(Octet)
  <2>1. client.ciphers \in Seq(Nat)
    BY DEF SaysHello
  <2>2. Numbers(Greased(client, v.grease, client.ciphers)) \in Seq(Octet)
    BY <2>1, GreasedType, NumbersAreBytes
  <2> QED
    BY <2>2, Lists
<1>6. f \in Seq(Octet)
  <2>1. List16(ExtensionBlock(client, v)) \in Seq(Octet)
    BY ExtensionBlockIsBytes, Lists
  <2> QED
    BY <1>3, <2>1
<1> HIDE DEF a, b, c, d, e, f
<1>7. a \o b \in Seq(Octet)
  BY <1>1, <1>2, ConcatType
<1>8. (a \o b) \o c \in Seq(Octet)
  BY <1>4, <1>7, ConcatType
<1>9. ((a \o b) \o c) \o d \in Seq(Octet)
  BY <1>5, <1>8, ConcatType
<1>10. (((a \o b) \o c) \o d) \o e \in Seq(Octet)
  BY <1>4, <1>9, ConcatType
<1>11. ((((a \o b) \o c) \o d) \o e) \o f \in Seq(Octet)
  BY <1>6, <1>10, ConcatType
<1> QED
  BY <1>11 DEF Message, a, b, c, d, e, f

(* A record is bytes. *)
LEMMA RecordIsBytes ==
  ASSUME NEW s \in Seq(Octet)
  PROVE  Record(s) \in Seq(Octet)
<1>1. 22 \in Octet /\ 3 \in Octet /\ 1 \in Octet
  BY SMT DEF Octet
<1>2. <<22, 3, 1>> \in Seq(Octet)
  BY <1>1
<1> QED
  BY <1>2, Lists, ConcatType DEF Record

(* What comes before an end is over the same set. *)
LEMMA FrontType ==
  ASSUME NEW T, NEW s \in Seq(T)
  PROVE  Front(s) \in Seq(T)
<1>1. CASE Len(s) = 0
  <2>1. s = <<>> /\ SubSeq(<<>>, 1, 0 - 1) = <<>>
    BY <1>1
  <2> QED
    BY <1>1, <2>1 DEF Front
<1>2. CASE Len(s) # 0
  BY <1>2, FrontFacts DEF Front
<1> QED
  BY <1>1, <1>2

(* What a client writes first is bytes. *)
LEMMA HelloIsBytes ==
  ASSUME NEW client, SaysHello(client), NEW v, v.grease \in Nat,
         v.hello \in {"whole", "split", "cut"}
  PROVE  WriteHello(client, v) \in Seq(Octet)
<1> DEFINE m == Message(client, v)
           h == <<1>> \o Octets24(Len(m)) \o m
           half == Len(h) \div 2
<1>1. m \in Seq(Octet)
  BY MessageIsBytes
<1>2. 1 \in Octet /\ 20 \in Octet /\ 3 \in Octet
  BY SMT DEF Octet
<1> HIDE DEF m
<1>3. <<1>> \in Seq(Octet) /\ <<20, 3, 3>> \in Seq(Octet) /\ Len(m) \in Nat
  BY <1>1, <1>2
<1>4. h \in Seq(Octet)
  <2>1. Octets24(Len(m)) \in Seq(Octet)
    BY <1>3, OctetsType
  <2> QED
    BY <1>1, <1>3, <2>1, ConcatType
<1>5. WriteHello(client, v) =
        CASE v.hello = "whole" -> Record(h) \o <<20, 3, 3>>
          [] v.hello = "split" -> Record(Take(h, 0, half)) \o Record(Take(h, half, Len(h) - half))
          [] v.hello = "cut" -> Front(Record(h))
  BY DEF WriteHello, m
<1> HIDE DEF h
<1>6. half \in Nat /\ Len(h) \in Nat /\ half <= Len(h) /\ Len(h) - half \in Nat
  BY <1>4
<1> HIDE DEF half
<1>7. Record(h) \in Seq(Octet)
  BY <1>4, RecordIsBytes
<1>8. Record(h) \o <<20, 3, 3>> \in Seq(Octet) /\ Front(Record(h)) \in Seq(Octet)
  BY <1>3, <1>7, ConcatType, FrontType
<1>9. Record(Take(h, 0, half)) \o Record(Take(h, half, Len(h) - half)) \in Seq(Octet)
  <2>1. Fits(h, 0, half) /\ Fits(h, half, Len(h) - half)
    BY <1>6 DEF Fits
  <2>2. Take(h, 0, half) \in Seq(Octet) /\ Take(h, half, Len(h) - half) \in Seq(Octet)
    BY <1>4, <1>6, <2>1, TakeFacts
  <2> QED
    BY <2>2, RecordIsBytes, ConcatType
<1>10. v.hello = "whole" \/ v.hello = "split" \/ v.hello = "cut"
  OBVIOUS
<1>11. CASE v.hello = "whole"
  BY <1>5, <1>8, <1>11
<1>12. CASE v.hello = "split"
  BY <1>5, <1>9, <1>12
<1>13. CASE v.hello = "cut"
  <2>1. v.hello # "whole" /\ v.hello # "split"
    BY ONLY <1>13
  <2>2. WriteHello(client, v) = Front(Record(h))
    BY ONLY <1>5, <1>13, <2>1
  <2> QED
    BY ONLY <1>8, <2>2
<1> QED
  BY ONLY <1>10, <1>11, <1>12, <1>13

(* A cap keeps a number below it. *)
LEMMA AtMostFacts ==
  ASSUME NEW T, NEW s \in Seq(T), NEW n \in Nat
  PROVE  /\ AtMost(n, s) \in Seq(T) /\ Len(AtMost(n, s)) <= n
         /\ Len(AtMost(n, s)) = Len(s) => AtMost(n, s) = s
<1> DEFINE m == IF Len(s) < n THEN Len(s) ELSE n
<1>1. m \in Nat /\ m <= Len(s) /\ m <= n /\ AtMost(n, s) = SubSeq(s, 1, m)
  BY DEF AtMost
<1> HIDE DEF m
<1>2. SubSeq(s, 1, m) \in Seq(T) /\ Len(SubSeq(s, 1, m)) = m
  BY <1>1, PrefixFacts
<1>3. SubSeq(s, 1, Len(s)) = s
  OBVIOUS
<1> QED
  BY <1>1, <1>2, <1>3

-----------------------------------------------------------------------------
(* What HPACK writes is bytes *)

(* The equation of Continued, from a number down. *)
Sevens(f, n) ==
  f = [v \in 0 .. n |-> IF v < 128 THEN <<v>> ELSE <<128 + (v % 128)>> \o f[v \div 128]]

(* What is left of a number after seven bits is less. *)
LEMMA Shrinks ==
  \A v \in Nat : v >= 128 => v \div 128 \in Nat /\ v \div 128 < v /\ v % 128 \in 0 .. 127
OBVIOUS

(* Every number has its groups of seven bits. *)
LEMMA SevensExist == \A n \in Nat : \E f : Sevens(f, n)
<1> DEFINE G == {n \in Nat : \E f : Sevens(f, n)}
           step(f, v) == IF v < 128 THEN <<v>> ELSE <<128 + (v % 128)>> \o f[v \div 128]
<1>1. 0 \in G
  <2> DEFINE f == [v \in 0 .. 0 |-> <<0>>]
  <2>1. \A v \in 0 .. 0 : v < 128 /\ f[v] = <<v>>
    OBVIOUS
  <2> HIDE DEF f
  <2>2. DOMAIN f = 0 .. 0 /\ f = [v \in 0 .. 0 |-> f[v]]
    BY DEF f
  <2>3. f = [v \in 0 .. 0 |-> IF v < 128 THEN <<v>> ELSE <<128 + (v % 128)>> \o f[v \div 128]]
    BY <2>1, <2>2
  <2>4. Sevens(f, 0)
    BY <2>3 DEF Sevens
  <2> QED
    BY <2>4
<1>2. ASSUME NEW n \in Nat, n \in G PROVE n + 1 \in G
  <2>1. PICK f : Sevens(f, n)
    BY <1>2
  <2> DEFINE g == [v \in 0 .. n + 1 |-> IF v \in 0 .. n THEN f[v] ELSE step(f, v)]
  <2>2. \A v \in 0 .. n : f[v] = step(f, v)
    <3> HIDE DEF step
    <3>1. f = [v \in 0 .. n |-> step(f, v)]
      BY <2>1 DEF Sevens, step
    <3> QED
      BY <3>1
  <2>3. \A v \in 0 .. n + 1 : v >= 128 => v \div 128 \in 0 .. n
    BY Shrinks
  <2>4. \A v \in 0 .. n : v \in 0 .. n + 1 /\ g[v] = f[v]
    <3> HIDE DEF step
    <3> QED
      OBVIOUS
  <2>5. g[n + 1] = step(f, n + 1)
    <3> HIDE DEF step
    <3>1. n + 1 \in 0 .. n + 1 /\ n + 1 \notin 0 .. n
      OBVIOUS
    <3> QED
      BY <3>1
  <2>6. g = [v \in 0 .. n + 1 |-> g[v]]
    OBVIOUS
  <2> HIDE DEF g
  <2>7. ASSUME NEW v \in 0 .. n + 1 PROVE g[v] = step(g, v)
    <3>1. v >= 128 => g[v \div 128] = f[v \div 128]
      BY <2>3, <2>4
    <3>2. step(g, v) = step(f, v)
      BY <3>1
    <3>3. v \in 0 .. n \/ v = n + 1
      OBVIOUS
    <3> HIDE DEF step
    <3> QED
      BY <2>2, <2>4, <2>5, <3>2, <3>3
  <2>8. g = [v \in 0 .. n + 1 |-> step(g, v)]
    <3> HIDE DEF step
    <3> QED
      BY <2>6, <2>7
  <2>9. Sevens(g, n + 1)
    BY <2>8 DEF Sevens
  <2> QED
    BY <2>9
<1>3. Nat \subseteq G
  <2> HIDE DEF G
  <2> QED
    BY <1>1, <1>2, SetInduction
<1> QED
  BY <1>3

(* The octets behind a full prefix are bytes. *)
LEMMA ContinuedType ==
  ASSUME NEW rest \in Nat
  PROVE  Continued(rest) \in Seq(Octet)
<1> DEFINE f == CHOOSE f : Sevens(f, rest)
<1>1. Sevens(f, rest)
  BY SevensExist
<1>2. Continued(rest) = f[rest]
  BY DEF Continued, Sevens
<1> HIDE DEF f
<1>3. \A v \in 0 .. rest : f[v] = IF v < 128 THEN <<v>> ELSE <<128 + (v % 128)>> \o f[v \div 128]
  <2> DEFINE g(v) == IF v < 128 THEN <<v>> ELSE <<128 + (v % 128)>> \o f[v \div 128]
  <2>1. f = [v \in 0 .. rest |-> g(v)]
    BY <1>1 DEF Sevens
  <2> HIDE DEF g
  <2>2. \A v \in 0 .. rest : f[v] = g(v)
    BY <2>1
  <2> QED
    BY <2>2 DEF g
<1> DEFINE G == {k \in Nat : \A v \in 0 .. rest : v <= k => f[v] \in Seq(Octet)}
<1>4. ASSUME NEW v \in 0 .. rest, v < 128 PROVE f[v] \in Seq(Octet)
  <2>1. v \in Octet
    BY <1>4 DEF Octet
  <2>2. f[v] = <<v>>
    BY <1>3, <1>4
  <2> HIDE DEF Octet
  <2>3. <<v>> \in Seq(Octet)
    BY ONLY <2>1
  <2> QED
    BY ONLY <2>2, <2>3
<1>5. 0 \in G
  <2>1. \A v \in 0 .. rest : v <= 0 => v < 128
    OBVIOUS
  <2> QED
    BY <1>4, <2>1
<1>6. ASSUME NEW k \in Nat, k \in G PROVE k + 1 \in G
  <2> SUFFICES ASSUME NEW v \in 0 .. rest, v <= k + 1, ~(v < 128) PROVE f[v] \in Seq(Octet)
    BY <1>4
  <2>1. v >= 128 /\ v \in Nat
    OBVIOUS
  <2>2. v \div 128 \in Nat /\ v \div 128 < v /\ v % 128 \in 0 .. 127
    BY <2>1, Shrinks
  <2> DEFINE d == v \div 128
             m == 128 + (v % 128)
  <2>3. m \in Octet
    BY <2>2 DEF Octet
  <2>4. f[v] = <<m>> \o f[d]
    BY <1>3, ZenonT(40)
  <2>5. d \in 0 .. rest /\ d <= k
    BY <2>2
  <2> HIDE DEF d, m
  <2>6. f[d] \in Seq(Octet)
    BY <1>6, <2>5
  <2>7. <<m>> \in Seq(Octet)
    BY <2>3
  <2>8. <<m>> \o f[d] \in Seq(Octet)
    BY <2>6, <2>7, ConcatType
  <2> QED
    BY <2>4, <2>8
<1>7. Nat \subseteq G
  <2> HIDE DEF G
  <2> QED
    BY <1>5, <1>6, SetInduction
<1>8. rest \in 0 .. rest /\ rest <= rest
  OBVIOUS
<1>9. rest \in G
  <2> HIDE DEF G
  <2> QED
    BY <1>7
<1>10. f[rest] \in Seq(Octet)
  BY <1>8, <1>9
<1> QED
  BY <1>2, <1>10

(* A prefix with room for a pattern above it. *)
Prefix(bits, pattern) ==
  \/ bits = 7 /\ pattern \in {0, 128}
  \/ bits = 6 /\ pattern \in {0, 64}
  \/ bits = 5 /\ pattern \in {0, 32}
  \/ bits = 4 /\ pattern \in {0, 16}

(* An HPACK integer is written as bytes. *)
LEMMA IntegerType ==
  ASSUME NEW value \in Nat, NEW bits, NEW pattern, Prefix(bits, pattern)
  PROVE  Integer(value, bits, pattern) \in Seq(Octet)
<1> DEFINE mask == 2^bits - 1
<1>1. mask \in Nat /\ pattern \in Nat /\ pattern + mask <= 255
  <2>1. 2^7 - 1 = 127 /\ 2^6 - 1 = 63 /\ 2^5 - 1 = 31 /\ 2^4 - 1 = 15
    BY SMT
  <2>2. \/ bits = 7 /\ mask = 127
        \/ bits = 6 /\ mask = 63
        \/ bits = 5 /\ mask = 31
        \/ bits = 4 /\ mask = 15
    <3>1. /\ bits = 7 => mask = 2^7 - 1
          /\ bits = 6 => mask = 2^6 - 1
          /\ bits = 5 => mask = 2^5 - 1
          /\ bits = 4 => mask = 2^4 - 1
      OBVIOUS
    <3> HIDE DEF mask
    <3>2. /\ bits = 7 => mask = 127
          /\ bits = 6 => mask = 63
          /\ bits = 5 => mask = 31
          /\ bits = 4 => mask = 15
      BY <2>1, <3>1
    <3> QED
      BY <3>2 DEF Prefix
  <2> HIDE DEF mask
  <2> QED
    BY <2>2 DEF Prefix
<1>2. Integer(value, bits, pattern) =
        IF value < mask THEN <<pattern + value>> ELSE <<pattern + mask>> \o Continued(value - mask)
  BY DEF Integer
<1> HIDE DEF mask
<1>3. CASE value < mask
  <2>1. pattern + value \in Octet
    BY <1>1, <1>3 DEF Octet
  <2> DEFINE o == pattern + value
  <2> HIDE DEF o
  <2>2. <<o>> \in Seq(Octet)
    BY <2>1 DEF o
  <2> QED
    BY <1>2, <1>3, <2>2 DEF o
<1>4. CASE ~(value < mask)
  <2>1. pattern + mask \in Octet /\ value - mask \in Nat
    BY <1>1, <1>4 DEF Octet
  <2> DEFINE o == pattern + mask
  <2> HIDE DEF o
  <2>2. <<o>> \in Seq(Octet)
    BY <2>1 DEF o
  <2>3. Continued(value - mask) \in Seq(Octet)
    BY <2>1, ContinuedType
  <2>4. <<o>> \o Continued(value - mask) \in Seq(Octet)
    BY <2>2, <2>3, ConcatType
  <2> QED
    BY <1>2, <1>4, <2>4 DEF o
<1> QED
  BY <1>3, <1>4

(* A Huffman string is written as bytes. *)
LEMMA HuffmanEncodeType ==
  ASSUME NEW bytes \in Seq(Octet)
  PROVE  HuffmanEncode(bytes) \in Seq(Octet)
<1> DEFINE e == [n \in DOMAIN bytes |-> HuffmanCode[bytes[n]]]
           code == FlattenSeq(e)
           octets == (Len(code) + 7) \div 8
           bit(n) == IF n <= Len(code) THEN code[n] ELSE 1
           nibble(n) == 8 * bit(n + 1) + 4 * bit(n + 2) + 2 * bit(n + 3) + bit(n + 4)
<1>1. e \in [1 .. Len(bytes) -> Seq({0, 1})] /\ Len(bytes) \in Nat
  <2>1. DOMAIN bytes = 1 .. Len(bytes) /\ Len(bytes) \in Nat /\ \A n \in 1 .. Len(bytes) : bytes[n] \in Octet
    OBVIOUS
  <2>2. \A o \in Octet : HuffmanCode[o] \in Seq({0, 1})
    <3>1. Symbols = 0 .. 256 /\ \A s \in Symbols : HuffmanCode[s] \in Seq({0, 1})
      BY HuffmanAssumption DEF Eos
    <3>2. \A o \in Octet : o \in 0 .. 256
      BY DEF Octet
    <3> QED
      BY <3>1, <3>2
  <2> QED
    BY <2>1, <2>2
<1> HIDE DEF e
<1>2. code \in Seq({0, 1})
  BY <1>1, FlattenEach
<1> HIDE DEF code
<1>3. Len(code) \in Nat
  BY <1>2
<1>4. octets \in Nat
  BY <1>3
<1>5. \A n \in Nat : n >= 1 => bit(n) \in {0, 1}
  BY <1>2, <1>3
<1> HIDE DEF octets, bit
<1>6. ASSUME NEW n \in Nat PROVE nibble(n) \in 0 .. 15
  <2>1. \A i \in 1 .. 4 : bit(n + i) \in {0, 1}
    BY <1>5
  <2>2. /\ bit(n + 1) \in {0, 1} /\ bit(n + 2) \in {0, 1}
        /\ bit(n + 3) \in {0, 1} /\ bit(n + 4) \in {0, 1}
    BY <2>1
  <2> DEFINE a == bit(n + 1)
             b == bit(n + 2)
             c == bit(n + 3)
             d == bit(n + 4)
  <2>3. 8 * a + 4 * b + 2 * c + d \in 0 .. 15
    <3>1. a \in {0, 1} /\ b \in {0, 1} /\ c \in {0, 1} /\ d \in {0, 1}
      BY <2>2
    <3> HIDE DEF a, b, c, d
    <3> QED
      BY <3>1
  <2> QED
    BY <2>3
<1>7. ASSUME NEW k \in 1 .. octets PROVE 16 * nibble(8 * (k - 1)) + nibble(8 * (k - 1) + 4) \in Octet
  <2> DEFINE a == 8 * (k - 1)
  <2>1. a \in Nat /\ a + 4 \in Nat
    BY <1>4
  <2>2. nibble(a) \in 0 .. 15 /\ nibble(a + 4) \in 0 .. 15
    BY <1>6, <2>1
  <2>3. \A x, y \in 0 .. 15 : 16 * x + y \in Octet
    BY DEF Octet
  <2> HIDE DEF nibble, Octet
  <2>4. 16 * nibble(a) + nibble(a + 4) \in Octet
    BY <2>2, <2>3
  <2> QED
    BY <2>4
<1>8. [k \in 1 .. octets |-> 16 * nibble(8 * (k - 1)) + nibble(8 * (k - 1) + 4)] \in Seq(Octet)
  <2> HIDE DEF nibble
  <2> QED
    BY <1>4, <1>7
<1> QED
  BY <1>8 DEF HuffmanEncode, nibble, bit, octets, code, e

(* An HPACK string is written as bytes. *)
LEMMA StringsAreBytes ==
  ASSUME NEW bytes \in Seq(Octet)
  PROVE  String(bytes) \in Seq(Octet) /\ \A huffman : PeerString(bytes, huffman) \in Seq(Octet)
<1>1. HuffmanEncode(bytes) \in Seq(Octet)
  BY HuffmanEncodeType
<1>2. Len(HuffmanEncode(bytes)) \in Nat /\ Len(bytes) \in Nat
  BY <1>1
<1>3. Prefix(7, 128) /\ Prefix(7, 0)
  BY DEF Prefix
<1>4. /\ Integer(Len(HuffmanEncode(bytes)), 7, 128) \in Seq(Octet)
      /\ Integer(Len(bytes), 7, 0) \in Seq(Octet)
  BY <1>2, <1>3, IntegerType
<1>5. /\ Integer(Len(HuffmanEncode(bytes)), 7, 128) \o HuffmanEncode(bytes) \in Seq(Octet)
      /\ Integer(Len(bytes), 7, 0) \o bytes \in Seq(Octet)
  BY <1>1, <1>4, ConcatType
<1> QED
  BY <1>5 DEF String, PeerString

(* Where something is found, it is found first somewhere. *)
LEMMA LeastIndex ==
  ASSUME NEW S, S \subseteq Nat, S # {}
  PROVE  Min(S) \in S
<1>1. PICK n \in S : \A m \in S : n <= m
  BY LeastElement
<1> QED
  BY <1>1 DEF Min

(* A field is written as bytes. *)
LEMMA EncodeFieldType ==
  ASSUME NEW f \in Entry
  PROVE  EncodeField(f) \in Seq(Octet)
<1> DEFINE exact == {n \in DOMAIN StaticTable : StaticTable[n] = f}
           named == {n \in DOMAIN StaticTable : StaticTable[n].name = f.name}
<1>1. f.name \in Seq(Octet) /\ f.value \in Seq(Octet)
  BY DEF Entry
<1>2. String(f.name) \in Seq(Octet) /\ String(f.value) \in Seq(Octet)
  BY <1>1, StringsAreBytes
<1>3. DOMAIN StaticTable \subseteq Nat
  BY StringsAssumption
<1>4. Prefix(7, 128) /\ Prefix(6, 64)
  BY DEF Prefix
<1>5. CASE exact # {}
  <2>1. Min(exact) \in Nat
    BY <1>3, <1>5, LeastIndex
  <2>2. Integer(Min(exact), 7, 128) \in Seq(Octet)
    BY <1>4, <2>1, IntegerType
  <2> QED
    BY <1>5, <2>2 DEF EncodeField
<1>6. CASE exact = {} /\ named # {}
  <2>1. Min(named) \in Nat
    BY <1>3, <1>6, LeastIndex
  <2>2. Integer(Min(named), 6, 64) \in Seq(Octet)
    BY <1>4, <2>1, IntegerType
  <2>3. Integer(Min(named), 6, 64) \o String(f.value) \in Seq(Octet)
    BY <1>2, <2>2, ConcatType
  <2> QED
    BY <1>6, <2>3 DEF EncodeField
<1>7. CASE exact = {} /\ named = {}
  <2>1. 64 \in Octet
    BY DEF Octet
  <2>2. <<64>> \in Seq(Octet)
    BY <2>1
  <2>3. <<64>> \o String(f.name) \o String(f.value) \in Seq(Octet)
    BY <1>2, <2>2, ConcatType
  <2> QED
    BY <1>7, <2>3 DEF EncodeField
<1> QED
  BY <1>5, <1>6, <1>7

(* A list of fields is written as bytes. *)
LEMMA EncodeHeadersType ==
  ASSUME NEW headers \in Seq(Entry)
  PROVE  EncodeHeaders(headers) \in Seq(Octet)
<1> DEFINE e == [n \in DOMAIN headers |-> EncodeField(headers[n])]
<1>1. Len(headers) \in Nat /\ DOMAIN headers = 1 .. Len(headers) /\ \A n \in 1 .. Len(headers) : headers[n] \in Entry
  OBVIOUS
<1>2. \A n \in 1 .. Len(headers) : EncodeField(headers[n]) \in Seq(Octet)
  BY <1>1, EncodeFieldType
<1>3. e \in [1 .. Len(headers) -> Seq(Octet)]
  BY <1>1, <1>2
<1> HIDE DEF e
<1>4. FlattenSeq(e) \in Seq(Octet)
  BY <1>1, <1>3, FlattenEach
<1> QED
  BY <1>4 DEF EncodeHeaders, e

-----------------------------------------------------------------------------
(* The flights of clients and of the emulator are bytes *)

(* The payload of a SETTINGS frame is bytes. *)
LEMMA SettingsPayloadType ==
  ASSUME NEW pairs \in Seq(Nat \X Nat)
  PROVE  SettingsPayload(pairs) \in Seq(Octet)
<1> DEFINE e == [n \in DOMAIN pairs |-> Octets16(pairs[n][1]) \o Octets32(pairs[n][2])]
<1>1. /\ Len(pairs) \in Nat /\ DOMAIN pairs = 1 .. Len(pairs)
      /\ \A n \in 1 .. Len(pairs) : pairs[n] \in Nat \X Nat
  OBVIOUS
<1>2. ASSUME NEW n \in 1 .. Len(pairs)
      PROVE  Octets16(pairs[n][1]) \o Octets32(pairs[n][2]) \in Seq(Octet)
  <2>1. pairs[n][1] \in Nat /\ pairs[n][2] \in Nat
    BY <1>1
  <2>2. Octets16(pairs[n][1]) \in Seq(Octet) /\ Octets32(pairs[n][2]) \in Seq(Octet)
    BY <2>1, OctetsType
  <2> QED
    BY <2>2, ConcatType
<1>3. e \in [1 .. Len(pairs) -> Seq(Octet)]
  BY <1>1, <1>2
<1> HIDE DEF e
<1>4. FlattenSeq(e) \in Seq(Octet)
  BY <1>1, <1>3, FlattenEach
<1> QED
  BY <1>4 DEF SettingsPayload, e

(* The numbers below 256 that the models name are bytes. *)
LEMMA SmallOctets ==
  /\ HEADERS \in Octet /\ PRIORITY \in Octet /\ SETTINGS \in Octet /\ WINDOWUPDATE \in Octet
  /\ 0 \in Octet /\ 1 \in Octet /\ EndStream + EndHeaders \in Octet /\ 0 \in Nat /\ 1 \in Nat
BY DEF Octet, HEADERS, PRIORITY, SETTINGS, WINDOWUPDATE, EndStream, EndHeaders

(* The client preface is 24 bytes. *)
LEMMA PrefaceType == Preface \in Seq(Octet) /\ Len(Preface) = 24
<1>1. /\ 80 \in Octet /\ 82 \in Octet /\ 73 \in Octet /\ 32 \in Octet /\ 42 \in Octet
      /\ 72 \in Octet /\ 84 \in Octet /\ 47 \in Octet /\ 50 \in Octet /\ 46 \in Octet
      /\ 48 \in Octet /\ 13 \in Octet /\ 10 \in Octet /\ 83 \in Octet /\ 77 \in Octet
  BY DEF Octet
<1> QED
  BY <1>1 DEF Preface

(* The frame of the window, if there is one. *)
LEMMA WindowFrameType ==
  ASSUME NEW window, window \subseteq Nat
  PROVE  OrEmpty({Frame(WINDOWUPDATE, 0, 0, Octets32(w)) : w \in window}) \in Seq(Octet)
<1>1. ASSUME NEW w \in window PROVE Frame(WINDOWUPDATE, 0, 0, Octets32(w)) \in Seq(Octet)
  <2>1. Octets32(w) \in Seq(Octet)
    BY OctetsType
  <2> QED
    BY <2>1, SmallOctets, FrameType
<1>2. {Frame(WINDOWUPDATE, 0, 0, Octets32(w)) : w \in window} \subseteq Seq(Octet)
  BY <1>1
<1> QED
  BY <1>2, OrEmptyType

(* A SETTINGS frame is bytes. *)
LEMMA SettingsFrameType ==
  ASSUME NEW pairs \in Seq(Nat \X Nat)
  PROVE  Frame(SETTINGS, 0, 0, SettingsPayload(pairs)) \in Seq(Octet)
<1>1. SettingsPayload(pairs) \in Seq(Octet)
  BY SettingsPayloadType
<1> QED
  BY <1>1, SmallOctets, FrameType

(* What opens an HTTP/2 connection is bytes. *)
LEMMA OpeningType ==
  ASSUME NEW client \in ClientType
  PROVE  Opening(client) \in Seq(Octet)
<1> DEFINE a == Frame(SETTINGS, 0, 0, SettingsPayload(client.settings))
           b == OrEmpty({Frame(WINDOWUPDATE, 0, 0, Octets32(w)) : w \in client.window})
           ps == client.priorities
           e == [n \in DOMAIN ps |-> Frame(PRIORITY, 0, 2 * n + 1, ps[n])]
<1>1. /\ client.settings \in Seq(Nat \X Nat) /\ client.window \subseteq Nat
      /\ ps \in Seq(Seq(Octet))
  BY DEF ClientType
<1>2. a \in Seq(Octet) /\ b \in Seq(Octet)
  BY <1>1, SettingsFrameType, WindowFrameType
<1> HIDE DEF ps
<1>3. /\ Len(ps) \in Nat /\ DOMAIN ps = 1 .. Len(ps)
      /\ \A n \in 1 .. Len(ps) : ps[n] \in Seq(Octet) /\ 2 * n + 1 \in Nat
  BY <1>1
<1>4. \A n \in 1 .. Len(ps) : Frame(PRIORITY, 0, 2 * n + 1, ps[n]) \in Seq(Octet)
  BY <1>3, SmallOctets, FrameType
<1>5. e \in [1 .. Len(ps) -> Seq(Octet)]
  BY <1>3, <1>4
<1> HIDE DEF a, b, e
<1>6. FlattenSeq(e) \in Seq(Octet)
  BY <1>3, <1>5, FlattenEach
<1>7. Preface \o a \in Seq(Octet)
  BY <1>2, PrefaceType, ConcatType
<1>8. (Preface \o a) \o b \in Seq(Octet)
  BY <1>2, <1>7, ConcatType
<1>9. ((Preface \o a) \o b) \o FlattenSeq(e) \in Seq(Octet)
  BY <1>6, <1>8, ConcatType
<1> QED
  BY <1>9 DEF Opening, a, b, e, ps

(* A peer writes a representation as bytes. *)
LEMMA WriteRepresentationType ==
  ASSUME NEW w \in WriteType
  PROVE  WriteRepresentation(w) \in Seq(Octet)
<1> DEFINE a == Integer(w.index, PrefixBits(w.do), Pattern(w.do))
           b == IF w.index = 0 THEN PeerString(w.name, w.huffman) ELSE <<>>
           c == PeerString(w.value, w.huffman)
<1>1. /\ w.index \in Nat /\ w.name \in Seq(Octet) /\ w.value \in Seq(Octet)
      /\ w.do \in {"index", "insert", "plain", "never", "size"}
  BY DEF WriteType
<1>2. Prefix(PrefixBits(w.do), Pattern(w.do))
  BY <1>1 DEF Prefix, PrefixBits, Pattern
<1>3. a \in Seq(Octet)
  BY <1>1, <1>2, IntegerType
<1>4. PeerString(w.name, w.huffman) \in Seq(Octet) /\ c \in Seq(Octet) /\ <<>> \in Seq(Octet)
  <2>1. \A s \in Seq(Octet) : \A huffman : PeerString(s, huffman) \in Seq(Octet)
    BY StringsAreBytes
  <2>2. PeerString(w.name, w.huffman) \in Seq(Octet) /\ PeerString(w.value, w.huffman) \in Seq(Octet)
    BY <1>1, <2>1
  <2>3. <<>> \in Seq(Octet)
    OBVIOUS
  <2> QED
    BY <2>2, <2>3
<1>5. b \in Seq(Octet)
  BY <1>4
<1>6. WriteRepresentation(w) = a \o (IF w.do \in {"index", "size"} THEN <<>> ELSE b \o c)
  BY DEF WriteRepresentation
<1> HIDE DEF a, b, c
<1>7. b \o c \in Seq(Octet)
  BY <1>4, <1>5, ConcatType
<1>8. a \o <<>> \in Seq(Octet) /\ a \o (b \o c) \in Seq(Octet)
  BY <1>3, <1>4, <1>7, ConcatType
<1> QED
  BY <1>6, <1>8

(* A peer writes a header block as bytes. *)
LEMMA WriteBlockType ==
  ASSUME NEW plan \in Seq(WriteType)
  PROVE  WriteBlock(plan) \in Seq(Octet)
<1> DEFINE e == [n \in DOMAIN plan |-> WriteRepresentation(plan[n])]
<1>1. /\ Len(plan) \in Nat /\ DOMAIN plan = 1 .. Len(plan)
      /\ \A n \in 1 .. Len(plan) : plan[n] \in WriteType
  OBVIOUS
<1>2. \A n \in 1 .. Len(plan) : WriteRepresentation(plan[n]) \in Seq(Octet)
  BY <1>1, WriteRepresentationType
<1>3. e \in [1 .. Len(plan) -> Seq(Octet)]
  BY <1>1, <1>2
<1> HIDE DEF e
<1>4. FlattenSeq(e) \in Seq(Octet)
  BY <1>1, <1>3, FlattenEach
<1> QED
  BY <1>4 DEF WriteBlock, e

(* A peer writes a request as bytes. *)
LEMMA WriteRequestType ==
  ASSUME NEW flags \in Octet, NEW bytes \in Seq(Octet)
  PROVE  WriteRequest(flags, 1, bytes) \in Seq(Octet)
<1> DEFINE a == IF (flags \div Padded) % 2 = 1 THEN <<2>> ELSE <<>>
           b == IF (flags \div HasPriority) % 2 = 1 THEN <<128, 0, 0, 0, 255>> ELSE <<>>
           c == IF (flags \div Padded) % 2 = 1 THEN <<0, 0>> ELSE <<>>
<1>1. 0 \in Octet /\ 2 \in Octet /\ 128 \in Octet /\ 255 \in Octet
  BY DEF Octet
<1>2. /\ <<2>> \in Seq(Octet) /\ <<128, 0, 0, 0, 255>> \in Seq(Octet) /\ <<0, 0>> \in Seq(Octet)
      /\ <<>> \in Seq(Octet)
  BY <1>1
<1>3. a \in Seq(Octet) /\ b \in Seq(Octet) /\ c \in Seq(Octet)
  BY <1>2
<1>4. WriteRequest(flags, 1, bytes) = Frame(HEADERS, flags, 1, ((a \o b) \o bytes) \o c)
  BY DEF WriteRequest
<1> HIDE DEF a, b, c
<1>5. (a \o b) \o bytes \in Seq(Octet)
  BY <1>3, ConcatType
<1> DEFINE p == ((a \o b) \o bytes) \o c
<1>6. p \in Seq(Octet)
  BY <1>3, <1>5, ConcatType
<1> HIDE DEF p
<1>7. Frame(HEADERS, flags, 1, p) \in Seq(Octet)
  BY <1>6, SmallOctets, FrameType
<1> QED
  BY <1>4, <1>7 DEF p

(* Two sequences together are as long as both. *)
LEMMA ConcatLength ==
  ASSUME NEW T, NEW s \in Seq(T), NEW t \in Seq(T)
  PROVE  Len(s \o t) = Len(s) + Len(t) /\ Len(s) \in Nat /\ Len(t) \in Nat
OBVIOUS

(* Numbers are written in as many bytes as they are given. *)
LEMMA OctetsLength ==
  ASSUME NEW v \in Nat
  PROVE  Len(Octets16(v)) = 2 /\ Len(Octets24(v)) = 3 /\ Len(Octets32(v)) = 4
<1> DEFINE a == (v \div 65536) % 256
           b == (v \div 16777216) % 256
<1>1. /\ Octets16(v) \in Seq(Octet) /\ Octets24(v) \in Seq(Octet)
      /\ Octets32(v) \in Seq(Octet)
  BY OctetsType
<1>2. v \div 65536 \in Nat /\ v \div 16777216 \in Nat
  OBVIOUS
<1>3. a \in Octet /\ b \in Octet
  BY <1>2, Modulo
<1>4. Len(Octets16(v)) = 2
  <2> DEFINE c == (v \div 256) % 256
             d == v % 256
  <2>1. Octets16(v) = <<c, d>>
    BY DEF Octets16
  <2> HIDE DEF c, d
  <2> QED
    BY <2>1
<1>5. Octets24(v) = <<a>> \o Octets16(v) /\ Octets32(v) = <<b>> \o Octets24(v)
  BY DEF Octets24, Octets32
<1> HIDE DEF a, b
<1>6. <<a>> \in Seq(Octet) /\ <<b>> \in Seq(Octet) /\ Len(<<a>>) = 1 /\ Len(<<b>>) = 1
  BY <1>3
<1>7. Len(Octets24(v)) = 3
  <2>1. Len(<<a>> \o Octets16(v)) = Len(<<a>>) + Len(Octets16(v))
    BY <1>1, <1>6, ConcatLength
  <2> QED
    BY <1>4, <1>5, <1>6, <2>1
<1>8. Len(Octets32(v)) = 4
  <2>1. Len(<<b>> \o Octets24(v)) = Len(<<b>>) + Len(Octets24(v))
    BY <1>1, <1>6, ConcatLength
  <2> QED
    BY <1>5, <1>6, <1>7, <2>1
<1> QED
  BY <1>4, <1>7, <1>8

(* A frame is nine bytes longer than its payload. *)
LEMMA FrameLength ==
  ASSUME NEW kind \in Octet, NEW flags \in Octet, NEW stream \in Nat, NEW payload \in Seq(Octet)
  PROVE  Len(Frame(kind, flags, stream, payload)) = 9 + Len(payload)
<1> DEFINE a == Octets24(Len(payload))
           b == <<kind, flags>>
           c == Octets32(stream)
<1>1. Frame(kind, flags, stream, payload) = ((a \o b) \o c) \o payload
  BY DEF Frame
<1>0. Len(payload) \in Nat
  OBVIOUS
<1>2. a \in Seq(Octet) /\ c \in Seq(Octet) /\ Len(a) = 3 /\ Len(c) = 4
  BY <1>0, OctetsType, OctetsLength
<1>3. b \in Seq(Octet) /\ Len(b) = 2
  OBVIOUS
<1> HIDE DEF a, b, c
<1>4. a \o b \in Seq(Octet) /\ Len(a \o b) = 5
  <2>1. Len(a \o b) = Len(a) + Len(b)
    BY <1>2, <1>3, ConcatLength
  <2>2. a \o b \in Seq(Octet)
    BY <1>2, <1>3, ConcatType
  <2> QED
    BY <1>2, <1>3, <2>1, <2>2
<1>5. (a \o b) \o c \in Seq(Octet) /\ Len((a \o b) \o c) = 9
  <2>1. Len((a \o b) \o c) = Len(a \o b) + Len(c)
    BY <1>2, <1>4, ConcatLength
  <2> QED
    BY <1>2, <1>4, <2>1, ConcatType
<1>6. Len(((a \o b) \o c) \o payload) = Len((a \o b) \o c) + Len(payload)
  BY <1>5, ConcatLength
<1> QED
  BY <1>1, <1>5, <1>6

(* A client's first flight is bytes, and long enough to hold a preface. *)
LEMMA WriteFlightType ==
  ASSUME NEW client \in ClientType, NEW v \in VisitType
  PROVE  WriteFlight(client, v) \in Seq(Octet)
<1> DEFINE r == WriteRequest(client.flags, 1, WriteBlock(v.plan))
           c == CASE v.flight = "whole" -> r
                  [] v.flight = "settings" -> <<>>
                  [] v.flight = "header" -> Take(r, 0, FrameHeader)
<1>1. /\ client.flags \in Octet /\ v.plan \in Seq(WriteType)
      /\ v.flight \in {"whole", "settings", "header"}
  BY DEF ClientType, VisitType
<1>2. WriteBlock(v.plan) \in Seq(Octet)
  BY <1>1, WriteBlockType
<1>3. r \in Seq(Octet)
  BY <1>1, <1>2, WriteRequestType
<1>4. Len(r) >= 9 /\ Len(r) \in Nat
  <2>1. PICK p \in Seq(Octet) : r = Frame(HEADERS, client.flags, 1, p)
    <3> DEFINE flags == client.flags
               x == IF (flags \div Padded) % 2 = 1 THEN <<2>> ELSE <<>>
               y == IF (flags \div HasPriority) % 2 = 1 THEN <<128, 0, 0, 0, 255>> ELSE <<>>
               z == IF (flags \div Padded) % 2 = 1 THEN <<0, 0>> ELSE <<>>
               bytes == WriteBlock(v.plan)
    <3>1. r = Frame(HEADERS, flags, 1, ((x \o y) \o bytes) \o z)
      BY DEF WriteRequest
    <3>2. 0 \in Octet /\ 2 \in Octet /\ 128 \in Octet /\ 255 \in Octet
      BY DEF Octet
    <3>3. x \in Seq(Octet) /\ y \in Seq(Octet) /\ z \in Seq(Octet) /\ bytes \in Seq(Octet)
      BY <1>2, <3>2
    <3> HIDE DEF x, y, z, bytes, r
    <3>4. (x \o y) \o bytes \in Seq(Octet)
      BY <3>3, ConcatType
    <3>5. ((x \o y) \o bytes) \o z \in Seq(Octet)
      BY <3>3, <3>4, ConcatType
    <3> DEFINE q == ((x \o y) \o bytes) \o z
    <3>6. r = Frame(HEADERS, client.flags, 1, q) /\ q \in Seq(Octet)
      BY <3>1, <3>5
    <3> HIDE DEF q
    <3> QED
      BY ONLY <3>6
  <2>2. Len(r) = 9 + Len(p)
    BY <1>1, <2>1, SmallOctets, FrameLength, SMTT(30)
  <2> QED
    BY <2>2
<1> HIDE DEF r
<1>5. Take(r, 0, FrameHeader) \in Seq(Octet)
  <2>1. Fits(r, 0, FrameHeader) /\ FrameHeader \in Nat
    BY <1>4 DEF Fits, FrameHeader
  <2> QED
    BY <1>3, <2>1, TakeFacts
<1>6. c \in Seq(Octet)
  BY <1>1, <1>3, <1>5
<1>7. WriteFlight(client, v) = Opening(client) \o c
  BY DEF WriteFlight, r
<1> HIDE DEF c
<1>8. Opening(client) \o c \in Seq(Octet)
  BY <1>6, OpeningType, ConcatType
<1> QED
  BY <1>7, <1>8

(* A profile as far as its request goes. *)
LEMMA EmulatedHeadersType ==
  ASSUME NEW p \in ProfileType, p.h2 # None
  PROVE  EmulatedHeaders(p) \in Seq(Entry)
<1> DEFINE h == The(p.h2)
           pseudo(x) == [n \in DOMAIN x.pseudo |-> Field(x.pseudo[n], PseudoValue(x.pseudo[n]))]
           regular(x) == [n \in DOMAIN x.names |-> Field(x.names[n], <<>>)]
<1>1. h \in p.h2
  BY DEF The, None
<1>2. h.pseudo \in Seq(Pseudo) /\ \A x \in p.http : x.names \in Seq(Seq(Octet))
  BY <1>1 DEF ProfileType
<1>3. \A n \in Pseudo : n \in Seq(Octet) /\ PseudoValue(n) \in Seq(Octet)
  <2>1. /\ 58 \in Octet /\ 109 \in Octet /\ 97 \in Octet /\ 115 \in Octet /\ 112 \in Octet
        /\ 103 \in Octet /\ 104 \in Octet /\ 47 \in Octet /\ 49 \in Octet
    BY DEF Octet
  <2>2. /\ Method \in Seq(Octet) /\ Authority \in Seq(Octet) /\ Scheme \in Seq(Octet)
        /\ Path \in Seq(Octet)
    BY <2>1 DEF Method, Authority, Scheme, Path, Colon
  <2>3. /\ Get \in Seq(Octet) /\ Localhost \in Seq(Octet) /\ Https \in Seq(Octet)
        /\ Slash \in Seq(Octet)
    BY <2>1 DEF Get, Localhost, Https, Slash
  <2> QED
    BY <2>2, <2>3 DEF Pseudo, PseudoValue
<1>4. pseudo(h) \in Seq(Entry)
  <2> DEFINE s == h.pseudo
  <2>1. s \in Seq(Pseudo)
    BY <1>2
  <2> HIDE DEF s, h
  <2>2. Len(s) \in Nat /\ DOMAIN s = 1 .. Len(s) /\ \A n \in 1 .. Len(s) : s[n] \in Pseudo
    BY <2>1
  <2>3. \A n \in 1 .. Len(s) : Field(s[n], PseudoValue(s[n])) \in Entry
    BY <1>3, <2>2 DEF Entry, Field
  <2>4. [n \in DOMAIN s |-> Field(s[n], PseudoValue(s[n]))] \in Seq(Entry)
    BY <2>2, <2>3
  <2> QED
    BY <2>4 DEF s
<1>5. ASSUME NEW x \in p.http PROVE regular(x) \in Seq(Entry)
  <2> DEFINE s == x.names
  <2>1. s \in Seq(Seq(Octet))
    BY <1>2
  <2> HIDE DEF s
  <2>2. Len(s) \in Nat /\ DOMAIN s = 1 .. Len(s) /\ \A n \in 1 .. Len(s) : s[n] \in Seq(Octet)
    BY <2>1
  <2>3. <<>> \in Seq(Octet)
    OBVIOUS
  <2>4. \A n \in 1 .. Len(s) : Field(s[n], <<>>) \in Entry
    BY <2>2, <2>3 DEF Entry, Field
  <2>5. [n \in DOMAIN s |-> Field(s[n], <<>>)] \in Seq(Entry)
    BY <2>2, <2>4
  <2> QED
    BY <2>5 DEF s
<1> HIDE DEF pseudo, regular, h
<1>6. OrEmpty({regular(x) : x \in p.http}) \in Seq(Entry)
  <2>1. {regular(x) : x \in p.http} \subseteq Seq(Entry)
    BY <1>5
  <2> QED
    BY <2>1, OrEmptyType
<1>7. pseudo(h) \o OrEmpty({regular(x) : x \in p.http}) \in Seq(Entry)
  BY <1>4, <1>6, ConcatType
<1> QED
  BY <1>7 DEF EmulatedHeaders, pseudo, regular, h

(* What the emulator writes first is bytes, and begins with a preface. *)
LEMMA EmulatedPreambleType ==
  ASSUME NEW p \in ProfileType
  PROVE  EmulatedPreamble(p) \in Seq(Octet)
<1>1. CASE p.h2 = None
  BY <1>1 DEF EmulatedPreamble
<1>2. CASE p.h2 # None
  <2> DEFINE h == The(p.h2)
             a == Frame(SETTINGS, 0, 0, SettingsPayload(h.settings))
             b == OrEmpty({Frame(WINDOWUPDATE, 0, 0, Octets32(w)) : w \in h.window})
             c == Frame(HEADERS, EndStream + EndHeaders, 1, EncodeHeaders(EmulatedHeaders(p)))
  <2>1. h \in p.h2
    BY <1>2 DEF The, None
  <2>2. h.settings \in Seq(Nat \X Nat) /\ h.window \subseteq Nat
    BY <2>1 DEF ProfileType
  <2>3. a \in Seq(Octet) /\ b \in Seq(Octet)
    BY <2>2, SettingsFrameType, WindowFrameType
  <2>4. EncodeHeaders(EmulatedHeaders(p)) \in Seq(Octet)
    BY <1>2, EmulatedHeadersType, EncodeHeadersType
  <2>5. c \in Seq(Octet)
    BY <2>4, SmallOctets, FrameType
  <2>6. EmulatedPreamble(p) = ((Preface \o a) \o b) \o c
    BY <1>2 DEF EmulatedPreamble
  <2> HIDE DEF a, b, c
  <2>7. Preface \o a \in Seq(Octet)
    BY <2>3, PrefaceType, ConcatType
  <2>8. (Preface \o a) \o b \in Seq(Octet)
    BY <2>3, <2>7, ConcatType
  <2>9. ((Preface \o a) \o b) \o c \in Seq(Octet)
    BY <2>5, <2>8, ConcatType
  <2> QED
    BY <2>6, <2>9
<1> QED
  BY <1>1, <1>2

-----------------------------------------------------------------------------
(* What HPACK reads *)

(* An offset that lies behind another, and within the bytes. *)
Behind(buf, at, next) == next \in Nat /\ at < next /\ next <= Len(buf)

(* A number of octets, the first of which counts least. *)
Highest(g, k, digit) ==
  g = [n \in 0 .. k |-> IF n = 0 THEN 0 ELSE 128 * g[n - 1] + digit[k + 1 - n]]

(* Groups of seven bits make a number. *)
LEMMA HighestExists ==
  ASSUME NEW k \in Nat, NEW digit, \A j \in 1 .. k : digit[j] \in Nat
  PROVE  \E g : Highest(g, k, digit)
<1> DEFINE step == [p \in Nat \X (1 .. k) |-> 128 * p[1] + digit[k + 1 - p[2]]]
           V(g) == g = [n \in 0 .. k |-> IF n = 0 THEN 0 ELSE 128 * g[n - 1] + digit[k + 1 - n]]
<1>1. step \in [Nat \X (1 .. k) -> Nat]
  <2>1. ASSUME NEW p \in Nat \X (1 .. k) PROVE 128 * p[1] + digit[k + 1 - p[2]] \in Nat
    <3>1. p[1] \in Nat /\ k + 1 - p[2] \in 1 .. k
      OBVIOUS
    <3>2. digit[k + 1 - p[2]] \in Nat
      BY <3>1
    <3> QED
      BY <3>1, <3>2
  <2> QED
    BY <2>1
<1>2. ASSUME NEW v \in Nat, NEW n \in 1 .. k PROVE step[<<v, n>>] = 128 * v + digit[k + 1 - n]
  OBVIOUS
<1> HIDE DEF step
<1>3. PICK g \in [0 .. k -> Nat] : Runs(g, 0, step, k)
  BY <1>1, RunsExist
<1>4. V(g)
  <2>1. Unfolded(g, 0, step, k)
    BY <1>3, RunsUnfold
  <2>2. DOMAIN g = 0 .. k /\ g[0] = 0 /\ \A n \in 1 .. k : g[n] = step[<<g[n - 1], n>>]
    BY <2>1 DEF Unfolded
  <2>3. ASSUME NEW n \in 1 .. k PROVE g[n] = 128 * g[n - 1] + digit[k + 1 - n]
    <3>1. g[n - 1] \in Nat
      BY <1>3
    <3>2. step[<<g[n - 1], n>>] = 128 * g[n - 1] + digit[k + 1 - n]
      BY <1>2, <3>1, SMTT(30)
    <3>3. g[n] = step[<<g[n - 1], n>>]
      BY <2>2
    <3> QED
      BY ONLY <3>2, <3>3
  <2>4. \A n \in 0 .. k : n = 0 \/ n \in 1 .. k
    OBVIOUS
  <2>5. \A n \in 0 .. k : g[n] = IF n = 0 THEN 0 ELSE 128 * g[n - 1] + digit[k + 1 - n]
    BY <2>2, <2>3, <2>4
  <2>6. g = [n \in 0 .. k |-> g[n]]
    BY <1>3
  <2> QED
    BY <2>5, <2>6
<1> HIDE DEF V
<1> QED
  BY <1>4 DEF V, Highest

(* A number read from groups of seven bits is a number. *)
LEMMA HighestType ==
  ASSUME NEW k \in Nat, NEW digit, \A j \in 1 .. k : digit[j] \in Nat
  PROVE  (CHOOSE g : Highest(g, k, digit))[k] \in Nat
<1> DEFINE V(g) == g = [n \in 0 .. k |-> IF n = 0 THEN 0 ELSE 128 * g[n - 1] + digit[k + 1 - n]]
<1>4. \E g : V(g)
  <2>1. PICK g : Highest(g, k, digit)
    BY HighestExists
  <2>2. V(g)
    BY <2>1 DEF Highest
  <2> HIDE DEF V
  <2> QED
    BY <2>2
<1> DEFINE h == CHOOSE x : V(x)
<1>5. V(h)
  <2> HIDE DEF V
  <2>1. \E x : V(x)
    BY <1>4
  <2> QED
    BY <2>1
<1>6. h[k] \in Nat
  <2> DEFINE G == {n \in Nat : n <= k => h[n] \in Nat}
  <2>1. \A n \in 0 .. k : h[n] = IF n = 0 THEN 0 ELSE 128 * h[n - 1] + digit[k + 1 - n]
    <3> HIDE DEF h
    <3> QED
      BY <1>5
  <2> HIDE DEF h
  <2>2. 0 \in G
    BY <2>1
  <2>3. ASSUME NEW n \in Nat, n \in G PROVE n + 1 \in G
    <3> SUFFICES ASSUME n + 1 <= k PROVE h[n + 1] \in Nat
      OBVIOUS
    <3>1. n + 1 \in 0 .. k /\ n + 1 # 0 /\ n + 1 - 1 = n /\ k + 1 - (n + 1) \in 1 .. k
      OBVIOUS
    <3>2. h[n] \in Nat /\ digit[k + 1 - (n + 1)] \in Nat
      BY <2>3, <3>1
    <3> DEFINE x == h[n]
               y == digit[k + 1 - (n + 1)]
    <3>3. h[n + 1] = 128 * x + y
      BY <2>1, <3>1
    <3>4. x \in Nat /\ y \in Nat
      BY <3>2
    <3> HIDE DEF x, y
    <3>5. 128 * x + y \in Nat
      BY <3>4
    <3> QED
      BY <3>3, <3>5
  <2>4. Nat \subseteq G
    <3> HIDE DEF G
    <3> QED
      BY <2>2, <2>3, SetInduction
  <2> QED
    BY <2>4
<1> HIDE DEF V
<1> QED
  BY <1>6 DEF V, Highest

(* An integer read from a block is a number, read from within the block. *)
LEMMA IntegerAtType ==
  ASSUME NEW buf \in Seq(Octet), NEW at \in Nat, NEW bits \in {4, 5, 6, 7}
  PROVE  \A i \in IntegerAt(buf, at, bits) : i.value \in Nat /\ Behind(buf, at, i.next)
<1> DEFINE mask == 2^bits - 1
           first == U8(buf, at) % 2^bits
           last == {k \in 1 .. MaxOctets : /\ Fits(buf, at, k + 1)
                                           /\ U8(buf, at + k) < 128
                                           /\ \A j \in 1 .. k - 1 : U8(buf, at + j) >= 128}
           digit(k) == U8(buf, at + k) % 128
           rest(k) == (CHOOSE g : g = [n \in 0 .. k |-> IF n = 0 THEN 0
                                         ELSE 128 * g[n - 1] + digit(k + 1 - n)])[k]
<1>1. mask \in Nat /\ 2^bits \in Nat /\ 2^bits > 0
  <2>1. 2^4 = 16 /\ 2^5 = 32 /\ 2^6 = 64 /\ 2^7 = 128
    BY SMT
  <2> DEFINE p == 2^bits
  <2>2. p = 2^4 \/ p = 2^5 \/ p = 2^6 \/ p = 2^7
    OBVIOUS
  <2> HIDE DEF p
  <2>3. p - 1 \in Nat /\ p \in Nat /\ p > 0
    BY <2>1, <2>2
  <2> QED
    BY <2>3 DEF p
<1>2. Len(buf) \in Nat /\ MaxOctets = 9
  BY DEF MaxOctets
<1>4. IntegerAt(buf, at, bits) =
        IF ~Fits(buf, at, 1) THEN None
        ELSE IF first < mask THEN Some([value |-> first, next |-> at + 1])
        ELSE {[value |-> mask + rest(k), next |-> at + k + 1] : k \in last}
  BY DEF IntegerAt
<1>5. ASSUME Fits(buf, at, 1) PROVE first \in Nat /\ at + 1 <= Len(buf)
  <2>1. U8(buf, at) \in Nat
    BY <1>5, NumbersType
  <2> QED
    BY <1>1, <1>2, <1>5, <2>1 DEF Fits
<1>6. ASSUME NEW k \in last PROVE mask + rest(k) \in Nat /\ Behind(buf, at, at + k + 1)
  <2>1. k \in 1 .. 9 /\ Fits(buf, at, k + 1)
    BY <1>2
  <2> HIDE DEF last
  <2> DEFINE d == [j \in 1 .. k |-> digit(j)]
  <2>2. ASSUME NEW j \in 1 .. k PROVE d[j] \in Nat
    <3>1. at + j \in Nat /\ Fits(buf, at + j, 1)
      BY <1>2, <2>1 DEF Fits
    <3>2. U8(buf, at + j) \in Nat
      BY <3>1, NumbersType
    <3>3. digit(j) \in Nat
      BY <3>2, Modulo
    <3> QED
      BY <3>3
  <2>3. \A j \in 1 .. k : d[j] = digit(j)
    OBVIOUS
  <2> HIDE DEF d, digit
  <2> DEFINE V(g) == g = [n \in 0 .. k |-> IF n = 0 THEN 0 ELSE 128 * g[n - 1] + digit(k + 1 - n)]
             W(g) == Highest(g, k, d)
  <2>4. (CHOOSE g : W(g))[k] \in Nat
    <3>1. k \in Nat
      BY <2>1
    <3> QED
      BY <2>2, <3>1, HighestType
  <2>5. \A n \in 0 .. k : n # 0 => d[k + 1 - n] = digit(k + 1 - n)
    BY <2>1, <2>3
  <2>6. \A g : V(g) <=> W(g)
    <3> SUFFICES ASSUME NEW g PROVE V(g) <=> W(g)
      OBVIOUS
    <3>1. [n \in 0 .. k |-> IF n = 0 THEN 0 ELSE 128 * g[n - 1] + digit(k + 1 - n)]
            = [n \in 0 .. k |-> IF n = 0 THEN 0 ELSE 128 * g[n - 1] + d[k + 1 - n]]
      BY <2>5
    <3> QED
      BY <3>1 DEF Highest
  <2>7. rest(k) \in Nat
    <3>1. (CHOOSE g : V(g)) = (CHOOSE g : W(g))
      <4> HIDE DEF V, W
      <4> QED
        BY <2>6
    <3>2. rest(k) = (CHOOSE g : V(g))[k]
      OBVIOUS
    <3> HIDE DEF V, W, rest
    <3> QED
      BY <2>4, <3>1, <3>2
  <2>8. Behind(buf, at, at + k + 1)
    BY <1>2, <2>1 DEF Fits, Behind
  <2> HIDE DEF mask, rest
  <2> QED
    BY <1>1, <2>7, <2>8
<1> HIDE DEF mask, first, last, rest
<1>7. CASE ~Fits(buf, at, 1)
  BY <1>4, <1>7 DEF None
<1>8. CASE Fits(buf, at, 1) /\ first < mask
  <2>1. IntegerAt(buf, at, bits) = {[value |-> first, next |-> at + 1]}
    BY <1>4, <1>8 DEF Some
  <2>2. Behind(buf, at, at + 1)
    BY <1>2, <1>5, <1>8 DEF Behind
  <2> QED
    BY <1>5, <1>8, <2>1, <2>2
<1>9. CASE Fits(buf, at, 1) /\ ~(first < mask)
  BY <1>4, <1>6, <1>9
<1> QED
  BY <1>7, <1>8, <1>9

-----------------------------------------------------------------------------
(* The decode tree has one byte or none at a leaf other than that of Eos.   *)
LEMMA LeafType ==
  ASSUME NEW path \in Tree, SymbolAt[path] # {}, SymbolAt[path] # {Eos}
  PROVE  The(SymbolAt[path]) \in Octet
<1> DEFINE leaf == SymbolAt[path]
<1>1. leaf = {s \in Symbols : HuffmanCode[s] = path}
  BY DEF SymbolAt
<1>2. Symbols = 0 .. Eos
  BY HuffmanAssumption
<1>3. \A s, t \in leaf : s = t
  <2>1. \A s, t \in Symbols : IsPrefix(HuffmanCode[s], HuffmanCode[t]) => s = t
    BY HuffmanAssumption
  <2>2. \A s \in Symbols : HuffmanCode[s] \in Seq({0, 1})
    BY HuffmanAssumption
  <2>3. \A p \in Seq({0, 1}) : IsPrefix(p, p)
    BY DEF IsPrefix
  <2> QED
    BY <1>1, <2>1, <2>2, <2>3
<1>4. The(leaf) \in leaf
  BY DEF The
<1>5. The(leaf) # Eos
  BY <1>3, <1>4
<1>6. \A s \in 0 .. Eos : s # Eos => s \in Octet
  BY DEF Eos, Octet
<1> QED
  BY <1>1, <1>2, <1>4, <1>5, <1>6

(* The walks down the tree over bits from a set. *)
WalkType(B) == [path : Seq(B), out : Seq(Octet), bad : BOOLEAN]

(* A walk down the Huffman tree ends at a node of it or nowhere. *)
LEMMA DescendType ==
  ASSUME NEW B, NEW walk \in WalkType(B), NEW bit \in B
  PROVE  Descend(walk, bit) \in WalkType(B)
<1> DEFINE path == Append(walk.path, bit)
           leaf == SymbolAt[path]
<1>1. walk.path \in Seq(B) /\ walk.out \in Seq(Octet) /\ walk.bad \in BOOLEAN
  BY DEF WalkType
<1>2. path \in Seq(B)
  BY <1>1
<1>3. walk = [path |-> walk.path, out |-> walk.out, bad |-> walk.bad]
  BY DEF WalkType
<1>4. [walk EXCEPT !.bad = TRUE] \in WalkType(B)
  BY <1>1 DEF WalkType
<1>5. [walk EXCEPT !.path = path] \in WalkType(B)
  <2> HIDE DEF path
  <2> QED
    BY <1>1, <1>2 DEF WalkType
<1>6. ASSUME path \in Tree, leaf # {}, leaf # {Eos}
      PROVE  [walk EXCEPT !.path = <<>>, !.out = Append(@, The(leaf))] \in WalkType(B)
  <2> DEFINE o == The(leaf)
  <2>1. o \in Octet
    <3> HIDE DEF path
    <3> QED
      BY <1>6, LeafType
  <2> HIDE DEF o, leaf, path
  <2>2. Append(walk.out, o) \in Seq(Octet)
    BY <1>1, <2>1, AppendFacts
  <2> DEFINE out == Append(walk.out, o)
  <2> HIDE DEF out
  <2>3. out \in Seq(Octet)
    BY <2>2 DEF out
  <2>4. <<>> \in Seq(B)
    OBVIOUS
  <2>5. [walk EXCEPT !.path = <<>>, !.out = out] \in WalkType(B)
    <3> DEFINE P == Seq(B)
               Q == Seq(Octet)
               e == <<>>
    <3>1. walk \in [path : P, out : Q, bad : BOOLEAN] /\ e \in P /\ out \in Q
      BY <2>3, <2>4 DEF WalkType
    <3> HIDE DEF P, Q, e
    <3>2. [walk EXCEPT !.path = e, !.out = out] \in [path : P, out : Q, bad : BOOLEAN]
      BY <3>1, ZenonT(40)
    <3> QED
      BY <3>2 DEF WalkType, P, Q, e
  <2> QED
    BY <2>5 DEF out, o
<1>7. Descend(walk, bit) =
        IF walk.bad \/ path \notin Tree \/ leaf = {Eos} THEN [walk EXCEPT !.bad = TRUE]
        ELSE IF leaf = {} THEN [walk EXCEPT !.path = path]
        ELSE [walk EXCEPT !.path = <<>>, !.out = Append(@, The(leaf))]
  BY DEF Descend
<1> HIDE DEF path, leaf
<1> QED
  BY <1>4, <1>5, <1>6, <1>7

(* The walk down the tree over some bits, and what it finds at their end.   *)
Going(path, out) == [path |-> path, out |-> out, bad |-> FALSE]
Start == Going(<<>>, <<>>)
Descends(f, bits) ==
  f[0] = Start /\ \A k \in 1 .. Len(bits) : f[k] = Descend(f[k - 1], bits[k])
Found(walk) ==
  IF walk.bad \/ Len(walk.path) > 7 \/ 0 \in ToSet(walk.path) THEN None ELSE Some(walk.out)

(* A Huffman string is decoded by a walk of its bits. *)
LEMMA HuffmanDecodeIs ==
  ASSUME NEW octets \in Seq(Octet)
  PROVE  \E f : /\ Descends(f, BitsOf(octets))
                /\ HuffmanDecode(octets) = Found(f[Len(BitsOf(octets))])
                /\ f[Len(BitsOf(octets))].out \in Seq(Octet)
<1> DEFINE bits == BitsOf(octets)
           n == Len(bits)
           B == {bits[k] : k \in 1 .. n}
           step == [p \in WalkType(B) \X (1 .. n) |-> Descend(p[1], bits[p[2]])]
           V(g) == g = [k \in 0 .. n |-> IF k = 0 THEN Start ELSE Descend(g[k - 1], bits[k])]
           f == CHOOSE g : V(g)
<1>1. n \in Nat
  <2>1. 8 * Len(octets) \in Nat
    OBVIOUS
  <2>2. n = 8 * Len(octets)
    BY <2>1 DEF BitsOf
  <2> QED
    BY <2>1, <2>2
<1> HIDE DEF bits, n
<1>2. Start \in WalkType(B)
  BY DEF WalkType, Start, Going
<1>3. step \in [WalkType(B) \X (1 .. n) -> WalkType(B)]
  <2> HIDE DEF B
  <2>1. \A k \in 1 .. n : bits[k] \in B
    BY DEF B
  <2>2. ASSUME NEW p \in WalkType(B) \X (1 .. n) PROVE Descend(p[1], bits[p[2]]) \in WalkType(B)
    <3>1. p[1] \in WalkType(B) /\ p[2] \in 1 .. n
      OBVIOUS
    <3> QED
      BY <2>1, <3>1, DescendType
  <2> QED
    BY <2>2
<1>4. \A v \in WalkType(B), k \in 1 .. n : step[<<v, k>>] = Descend(v, bits[k])
  <2> HIDE DEF B
  <2> QED
    OBVIOUS
<1> HIDE DEF B, step
<1>5. PICK g \in [0 .. n -> WalkType(B)] : Runs(g, Start, step, n)
  BY <1>1, <1>2, <1>3, RunsExist
<1>6. V(g)
  <2>1. Unfolded(g, Start, step, n)
    BY <1>1, <1>5, RunsUnfold
  <2>2. DOMAIN g = 0 .. n /\ g[0] = Start /\ \A k \in 1 .. n : g[k] = step[<<g[k - 1], k>>]
    BY <2>1 DEF Unfolded
  <2>3. ASSUME NEW k \in 1 .. n PROVE g[k] = Descend(g[k - 1], bits[k])
    <3>1. g[k - 1] \in WalkType(B)
      BY <1>1, <1>5
    <3>2. step[<<g[k - 1], k>>] = Descend(g[k - 1], bits[k])
      BY <1>4, <3>1
    <3> QED
      BY <2>2, <3>2
  <2>4. \A k \in 0 .. n : k = 0 \/ k \in 1 .. n
    BY <1>1
  <2>5. \A k \in 0 .. n : g[k] = IF k = 0 THEN Start ELSE Descend(g[k - 1], bits[k])
    BY <2>2, <2>3, <2>4
  <2>6. g = [k \in 0 .. n |-> g[k]]
    BY <2>2, <1>5
  <2> QED
    BY <2>5, <2>6
<1>7. V(f)
  <2> HIDE DEF V
  <2>1. \E x : V(x)
    BY <1>6
  <2> QED
    BY <2>1
<1>8. \A k \in 0 .. n : f[k] = IF k = 0 THEN Start ELSE Descend(f[k - 1], bits[k])
  <2> HIDE DEF f
  <2> QED
    BY <1>7
<1>9. HuffmanDecode(octets) = Found(f[n])
  BY DEF HuffmanDecode, bits, n, Start, Going, Found
<1> HIDE DEF f
<1>10. \A k \in 1 .. n : k \in 0 .. n /\ k # 0
  OBVIOUS
<1>11. f[0] = Start /\ \A k \in 1 .. n : f[k] = Descend(f[k - 1], bits[k])
  BY <1>1, <1>8, <1>10
<1>12. f[n].out \in Seq(Octet)
  <2> DEFINE G == {k \in Nat : k <= n => f[k] \in WalkType(B)}
  <2>2. 0 \in G
    BY <1>2, <1>11
  <2>3. ASSUME NEW k \in Nat, k \in G PROVE k + 1 \in G
    <3> SUFFICES ASSUME k + 1 <= n PROVE f[k + 1] \in WalkType(B)
      OBVIOUS
    <3>1. k + 1 - 1 = k /\ k + 1 \in 1 .. n
      BY <1>1
    <3>2. f[k] \in WalkType(B) /\ bits[k + 1] \in B
      BY <1>1, <2>3, <3>1 DEF B
    <3>3. f[k + 1] = Descend(f[k], bits[k + 1])
      BY <1>11, <3>1
    <3>4. Descend(f[k], bits[k + 1]) \in WalkType(B)
      BY <3>2, DescendType
    <3> QED
      BY <3>3, <3>4
  <2>4. Nat \subseteq G
    <3> HIDE DEF G
    <3> QED
      BY <2>2, <2>3, SetInduction
  <2>5. f[n] \in WalkType(B)
    BY <1>1, <2>4
  <2> QED
    BY <2>5 DEF WalkType
<1>13. Descends(f, bits)
  BY <1>11 DEF Descends, n
<1> QED
  BY <1>9, <1>12, <1>13 DEF bits, n

(* What a Huffman string is decoded to is bytes. *)
LEMMA HuffmanDecodeType ==
  ASSUME NEW octets \in Seq(Octet)
  PROVE  HuffmanDecode(octets) \subseteq Seq(Octet)
<1>1. PICK f : /\ HuffmanDecode(octets) = Found(f[Len(BitsOf(octets))])
               /\ f[Len(BitsOf(octets))].out \in Seq(Octet)
  BY HuffmanDecodeIs
<1> QED
  BY <1>1 DEF Found, None, Some

(* What bytes are as text is bytes. *)
LEMMA LossyType ==
  ASSUME NEW s \in Seq(Octet)
  PROVE  Lossy(s) \in Seq(Octet)
<1> DEFINE part(n) == IF IsInside(s, n) THEN <<>>
                      ELSE IF IsWhole(s, n) THEN Take(s, n - 1, CharLen(s[n])) ELSE Replacement
           e == [n \in DOMAIN s |-> part(n)]
<1>1. Len(s) \in Nat /\ DOMAIN s = 1 .. Len(s)
  OBVIOUS
<1>2. Replacement \in Seq(Octet)
  <2>1. 239 \in Octet /\ 191 \in Octet /\ 189 \in Octet
    BY DEF Octet
  <2> QED
    BY <2>1 DEF Replacement
<1>3. \A n \in 1 .. Len(s) : IsWhole(s, n) => Take(s, n - 1, CharLen(s[n])) \in Seq(Octet)
  <2> SUFFICES ASSUME NEW n \in 1 .. Len(s), IsWhole(s, n)
               PROVE  Take(s, n - 1, CharLen(s[n])) \in Seq(Octet)
    OBVIOUS
  <2>1. CharLen(s[n]) \in Nat
    BY DEF CharLen
  <2> DEFINE k == CharLen(s[n])
  <2>2. n - 1 \in Nat /\ k \in Nat /\ Fits(s, n - 1, k)
    BY <1>1, <2>1 DEF IsWhole, Begins, Fits
  <2> HIDE DEF k
  <2>3. Take(s, n - 1, k) \in Seq(Octet)
    BY <2>2, TakeFacts
  <2> QED
    BY <2>3 DEF k
<1>4. \A n \in 1 .. Len(s) : part(n) \in Seq(Octet)
  <2> TAKE n \in 1 .. Len(s)
  <2>1. CASE IsInside(s, n)
    BY <2>1
  <2>2. CASE ~IsInside(s, n) /\ IsWhole(s, n)
    BY <1>3, <2>2
  <2>3. CASE ~IsInside(s, n) /\ ~IsWhole(s, n)
    BY <1>2, <2>3
  <2> QED
    BY <2>1, <2>2, <2>3
<1> HIDE DEF part
<1>5. e \in [1 .. Len(s) -> Seq(Octet)]
  BY <1>1, <1>4
<1> HIDE DEF e
<1>6. FlattenSeq(e) \in Seq(Octet)
  BY <1>1, <1>5, FlattenEach
<1> QED
  BY <1>6 DEF Lossy, e, part

(* A string read from a block is bytes, read from within the block. *)
LEMMA StringAtType ==
  ASSUME NEW buf \in Seq(Octet), NEW at \in Nat
  PROVE  \A v \in StringAt(buf, at) : v.value \in Seq(Octet) /\ Behind(buf, at, v.next)
<1> DEFINE octets(n) == Take(buf, n.next, n.value)
           plain(n) == IF U8(buf, at) >= 128 THEN HuffmanDecode(octets(n)) ELSE Some(octets(n))
           found(n) == {[value |-> Lossy(s), next |-> n.next + n.value] : s \in plain(n)}
           lengths == {m \in IntegerAt(buf, at, 7) : m.value <= MaxString /\ Fits(buf, m.next, m.value)}
<1>1. StringAt(buf, at) = UNION {found(n) : n \in lengths}
  BY DEF StringAt
<1>2. ASSUME NEW n \in lengths, NEW v \in found(n)
      PROVE  v.value \in Seq(Octet) /\ Behind(buf, at, v.next)
  <2>1. n.value \in Nat /\ Behind(buf, at, n.next) /\ Fits(buf, n.next, n.value)
    BY IntegerAtType
  <2>2. n.next \in Nat /\ at < n.next
    BY <2>1 DEF Behind
  <2>3. octets(n) \in Seq(Octet)
    BY <2>1, <2>2, TakeFacts
  <2>4. plain(n) \subseteq Seq(Octet)
    <3> HIDE DEF octets
    <3>1. HuffmanDecode(octets(n)) \subseteq Seq(Octet) /\ Some(octets(n)) \subseteq Seq(Octet)
      BY <2>3, HuffmanDecodeType DEF Some
    <3> QED
      BY <3>1
  <2> HIDE DEF plain
  <2>5. PICK s \in plain(n) : v = [value |-> Lossy(s), next |-> n.next + n.value]
    OBVIOUS
  <2>6. Lossy(s) \in Seq(Octet)
    BY <2>4, LossyType
  <2>7. n.next + n.value \in Nat /\ at < n.next + n.value /\ n.next + n.value <= Len(buf)
    BY <2>1, <2>2 DEF Fits
  <2> QED
    BY <2>5, <2>6, <2>7 DEF Behind
<1> HIDE DEF found, lengths
<1> QED
  BY <1>1, <1>2

(* An index names an entry of the two tables, or none. *)
LEMMA LookupType ==
  ASSUME NEW es \in Seq(Entry), NEW index
  PROVE  Lookup(index, es) \subseteq Entry
<1>1. StaticTable \o es \in Seq(Entry)
  BY StringsAssumption, ConcatType
<1> DEFINE both == StaticTable \o es
<1> HIDE DEF both
<1>2. \A n \in 1 .. Len(both) : both[n] \in Entry
  BY <1>1 DEF both
<1> QED
  BY <1>2 DEF Lookup, both

(* A literal read from a block is an entry, read from within the block. *)
LEMMA LiteralAtType ==
  ASSUME NEW buf \in Seq(Octet), NEW at \in Nat, NEW bits \in {4, 5, 6, 7}, NEW es \in Seq(Entry)
  PROVE  \A l \in LiteralAt(buf, at, bits, es) : l.field \in Entry /\ Behind(buf, at, l.next)
<1> DEFINE named(i) == IF i.value = 0 THEN StringAt(buf, i.next)
                       ELSE {[value |-> e.name, next |-> i.next] : e \in Lookup(i.value, es)}
           whole(n) == {[field |-> Field(n.value, v.value), next |-> v.next] :
                          v \in StringAt(buf, n.next)}
<1>1. LiteralAt(buf, at, bits, es) =
        UNION {whole(n) : n \in UNION {named(i) : i \in IntegerAt(buf, at, bits)}}
  BY DEF LiteralAt
<1>2. ASSUME NEW i \in IntegerAt(buf, at, bits), NEW n \in named(i)
      PROVE  n.value \in Seq(Octet) /\ Behind(buf, at, n.next)
  <2>1. Behind(buf, at, i.next)
    BY IntegerAtType
  <2>2. i.next \in Nat /\ at < i.next
    BY <2>1 DEF Behind
  <2>3. CASE i.value = 0
    <3>1. n \in StringAt(buf, i.next)
      BY <2>3
    <3>2. n.value \in Seq(Octet) /\ Behind(buf, i.next, n.next)
      BY <2>2, <3>1, StringAtType
    <3> QED
      BY <2>2, <3>2 DEF Behind
  <2>4. CASE i.value # 0
    <3>1. PICK e \in Lookup(i.value, es) : n = [value |-> e.name, next |-> i.next]
      BY <2>4
    <3>2. e \in Entry
      BY LookupType
    <3>3. e.name \in Seq(Octet)
      BY <3>2 DEF Entry
    <3> QED
      BY <2>1, <3>1, <3>3
  <2> QED
    BY <2>3, <2>4
<1>3. ASSUME NEW i \in IntegerAt(buf, at, bits), NEW n \in named(i), NEW l \in whole(n)
      PROVE  l.field \in Entry /\ Behind(buf, at, l.next)
  <2>1. n.value \in Seq(Octet) /\ Behind(buf, at, n.next)
    BY <1>2
  <2>2. n.next \in Nat /\ at < n.next
    BY <2>1 DEF Behind
  <2>3. PICK v \in StringAt(buf, n.next) : l = [field |-> Field(n.value, v.value), next |-> v.next]
    OBVIOUS
  <2>4. v.value \in Seq(Octet) /\ Behind(buf, n.next, v.next)
    BY <2>2, StringAtType
  <2>5. Behind(buf, at, v.next)
    BY <2>2, <2>4 DEF Behind
  <2>6. Field(n.value, v.value) \in Entry
    BY <2>1, <2>4 DEF Entry, Field
  <2> QED
    BY <2>3, <2>5, <2>6
<1> HIDE DEF named, whole
<1> QED
  BY <1>1, <1>3

(* A representation is read from within the block, and is of one kind. *)
LEMMA RepresentationAtType ==
  ASSUME NEW buf \in Seq(Octet), NEW at \in Nat, NEW es \in Seq(Entry)
  PROVE  \A rep \in RepresentationAt(buf, at, es) :
            /\ Behind(buf, at, rep.next)
            /\ IF rep.kind = "resized" THEN rep.size \in Nat ELSE rep.field \in Entry
<1> DEFINE literal(kind, bits) ==
             {[kind |-> kind, next |-> l.next, field |-> l.field] : l \in LiteralAt(buf, at, bits, es)}
           indexed(i) == {[kind |-> "indexed", next |-> i.next, field |-> e] : e \in Lookup(i.value, es)}
           resized == {[kind |-> "resized", next |-> i.next, size |-> i.value] :
                         i \in IntegerAt(buf, at, 5)}
           Ok(rep) == /\ Behind(buf, at, rep.next)
                      /\ IF rep.kind = "resized" THEN rep.size \in Nat ELSE rep.field \in Entry
<1>1. ASSUME NEW i \in IntegerAt(buf, at, 7), NEW rep \in indexed(i) PROVE Ok(rep)
  <2>1. PICK e \in Lookup(i.value, es) : rep = [kind |-> "indexed", next |-> i.next, field |-> e]
    OBVIOUS
  <2>2. e \in Entry /\ Behind(buf, at, i.next)
    BY LookupType, IntegerAtType
  <2> QED
    BY <2>1, <2>2
<1>2. ASSUME NEW kind \in {"inserted", "plain"}, NEW bits \in {4, 6}, NEW rep \in literal(kind, bits)
      PROVE  Ok(rep)
  <2>1. PICK l \in LiteralAt(buf, at, bits, es) : rep = [kind |-> kind, next |-> l.next, field |-> l.field]
    OBVIOUS
  <2>2. l.field \in Entry /\ Behind(buf, at, l.next)
    BY LiteralAtType
  <2> QED
    BY <2>1, <2>2
<1>3. ASSUME NEW rep \in resized PROVE Ok(rep)
  <2>1. PICK i \in IntegerAt(buf, at, 5) : rep = [kind |-> "resized", next |-> i.next, size |-> i.value]
    OBVIOUS
  <2>2. i.value \in Nat /\ Behind(buf, at, i.next)
    BY IntegerAtType
  <2> QED
    BY <2>1, <2>2
<1>4. \/ RepresentationAt(buf, at, es) = UNION {indexed(i) : i \in IntegerAt(buf, at, 7)}
      \/ RepresentationAt(buf, at, es) = literal("inserted", 6)
      \/ RepresentationAt(buf, at, es) = resized
      \/ RepresentationAt(buf, at, es) = literal("plain", 4)
  <2> DEFINE first == U8(buf, at)
             all == UNION {indexed(i) : i \in IntegerAt(buf, at, 7)}
             b == literal("inserted", 6)
             d == literal("plain", 4)
  <2>1. RepresentationAt(buf, at, es) =
          CASE first >= 128 -> all
            [] first \in 64 .. 127 -> b
            [] first \in 32 .. 63 -> resized
            [] OTHER -> d
    BY DEF RepresentationAt
  <2> HIDE DEF first, all, b, resized, d
  <2>2. \/ RepresentationAt(buf, at, es) = all \/ RepresentationAt(buf, at, es) = b
        \/ RepresentationAt(buf, at, es) = resized \/ RepresentationAt(buf, at, es) = d
    BY <2>1
  <2> QED
    BY <2>2 DEF all, b, d
<1> HIDE DEF literal, indexed, resized
<1>5. \A rep \in RepresentationAt(buf, at, es) : Ok(rep)
  <2> HIDE DEF Ok
  <2> QED
    BY <1>1, <1>2, <1>3, <1>4
<1> QED
  BY <1>5

-----------------------------------------------------------------------------
(* What a table costs *)

CostsOf(es) == [n \in 1 .. Len(es) |-> Cost(es[n])]

(* An entry's cost is a number. *)
LEMMA CostType == \A e \in Entry : Cost(e) \in Nat
BY TableAssumption DEF Entry, Cost

(* Some running total adds up what a table holds. *)
LEMMA TotalCostIs ==
  ASSUME NEW es \in Seq(Entry)
  PROVE  \E f : Totals(f, 0, CostsOf(es), 0 .. Len(es)) /\ TotalCost(es) = f[Len(es)]
<1> DEFINE n == Len(es)
           V(g) == g = [k \in 0 .. n |-> IF k = 0 THEN 0 ELSE g[k - 1] + Cost(es[k])]
           f == CHOOSE g : V(g)
<1>1. n \in Nat
  OBVIOUS
<1>2. TotalCost(es) = f[n]
  BY DEF TotalCost
<1>3. ASSUME NEW g PROVE V(g) <=> Totals(g, 0, CostsOf(es), 0 .. n)
  <2>1. \A k \in 0 .. n : k # 0 => CostsOf(es)[k] = Cost(es[k])
    BY DEF CostsOf
  <2> HIDE DEF n
  <2>2. [k \in 0 .. n |-> IF k = 0 THEN 0 ELSE g[k - 1] + Cost(es[k])]
          = [k \in 0 .. n |-> IF k = 0 THEN 0 ELSE g[k - 1] + CostsOf(es)[k]]
    BY <2>1
  <2> QED
    BY <2>2 DEF Totals
<1>4. \E g : V(g)
  <2>1. \E g : Totals(g, 0, CostsOf(es), 0 .. n)
    BY <1>1, TotalsUpTo
  <2> HIDE DEF V, n
  <2> QED
    BY <1>3, <2>1
<1>5. V(f)
  <2> HIDE DEF V
  <2> QED
    BY <1>4
<1>6. Totals(f, 0, CostsOf(es), 0 .. n)
  <2> HIDE DEF f, V
  <2> QED
    BY <1>3, <1>5
<1> HIDE DEF f, V
<1> QED
  BY <1>2, <1>6

(* A running total is a number throughout. *)
LEMMA TotalsAreNat ==
  ASSUME NEW b \in Nat, NEW w, NEW n \in Nat, NEW m \in Nat, m <= n,
         \A k \in 1 .. m : w[k] \in Nat,
         NEW f, Totals(f, b, w, 0 .. n)
  PROVE  f[m] \in Nat
<1> DEFINE G == {k \in Nat : k <= m => f[k] \in Nat}
<1>1. \A k \in 0 .. n : f[k] = IF k = 0 THEN b ELSE f[k - 1] + w[k]
  BY DEF Totals
<1>2. 0 \in G
  BY <1>1
<1>3. ASSUME NEW k \in Nat, k \in G PROVE k + 1 \in G
  <2> SUFFICES ASSUME k + 1 <= m PROVE f[k + 1] \in Nat
    OBVIOUS
  <2>1. k + 1 \in 1 .. m /\ k + 1 \in 0 .. n /\ k + 1 # 0 /\ k + 1 - 1 = k /\ k <= m
    OBVIOUS
  <2>2. f[k + 1] = f[k] + w[k + 1]
    BY <1>1, <2>1
  <2>3. f[k] \in Nat /\ w[k + 1] \in Nat
    BY <1>3, <2>1
  <2> QED
    BY <2>2, <2>3
<1>4. Nat \subseteq G
  <2> HIDE DEF G
  <2> QED
    BY <1>2, <1>3, SetInduction
<1> QED
  BY <1>4

(* What a table holds is a number. *)
LEMMA TotalCostType == ASSUME NEW es \in Seq(Entry) PROVE TotalCost(es) \in Nat
<1>1. PICK f : Totals(f, 0, CostsOf(es), 0 .. Len(es)) /\ TotalCost(es) = f[Len(es)]
  BY TotalCostIs
<1>2. Len(es) \in Nat /\ \A k \in 1 .. Len(es) : es[k] \in Entry
  OBVIOUS
<1>3. \A k \in 1 .. Len(es) : CostsOf(es)[k] \in Nat
  BY <1>2, CostType DEF CostsOf
<1> DEFINE n == Len(es)
           w == CostsOf(es)
<1> HIDE DEF n, w
<1>4. 0 \in Nat /\ n \in Nat /\ n <= n /\ (\A k \in 1 .. n : w[k] \in Nat) /\ Totals(f, 0, w, 0 .. n)
  BY <1>1, <1>2, <1>3 DEF n, w
<1>5. f[n] \in Nat
  BY <1>4, TotalsAreNat
<1> QED
  BY <1>1, <1>5 DEF n

(* Two totals, of which the second adds behind d what the first adds. *)
Shifted(f, w, n, g, u, d) ==
  /\ n \in Nat /\ d \in Nat
  /\ \A k \in 1 .. n : w[k] \in Nat
  /\ \A k \in 1 .. n + d : u[k] \in Nat
  /\ \A k \in 1 .. n : u[k + d] = w[k]
  /\ Totals(f, 0, w, 0 .. n)
  /\ Totals(g, 0, u, 0 .. n + d)

(* A running total of what comes behind one entry is the other less it. *)
LEMMA TotalsShift ==
  ASSUME NEW f, NEW w, NEW n, NEW g, NEW u, NEW d, Shifted(f, w, n, g, u, d)
  PROVE  g[n + d] = f[n] + g[d]
<1> USE DEF Shifted
<1> DEFINE G == {k \in Nat : k <= n => g[k + d] = f[k] + g[d]}
<1>1. \A k \in 0 .. n : f[k] = IF k = 0 THEN 0 ELSE f[k - 1] + w[k]
  BY DEF Totals
<1>2. \A k \in 0 .. n + d : g[k] = IF k = 0 THEN 0 ELSE g[k - 1] + u[k]
  BY DEF Totals
<1>3. \A k \in 0 .. n : f[k] \in Nat
  <2> TAKE k \in 0 .. n
  <2>1. k \in Nat /\ k <= n /\ \A j \in 1 .. k : w[j] \in Nat
    OBVIOUS
  <2> QED
    BY <2>1, TotalsAreNat
<1>4. \A k \in 0 .. n + d : g[k] \in Nat
  <2> TAKE k \in 0 .. n + d
  <2>1. k \in Nat /\ n + d \in Nat /\ k <= n + d /\ \A j \in 1 .. k : u[j] \in Nat
    OBVIOUS
  <2> QED
    BY <2>1, TotalsAreNat
<1>5. 0 \in G
  <2>1. f[0] = 0 /\ g[0 + d] = g[d] /\ g[d] \in Nat
    BY <1>1, <1>4
  <2> QED
    BY <2>1
<1>6. ASSUME NEW k \in Nat, k \in G PROVE k + 1 \in G
  <2> SUFFICES ASSUME k + 1 <= n PROVE g[k + 1 + d] = f[k + 1] + g[d]
    OBVIOUS
  <2>1. /\ k + 1 \in 0 .. n /\ k + 1 # 0 /\ k + 1 - 1 = k /\ k + 1 \in 1 .. n
        /\ k \in 0 .. n /\ d \in 0 .. n + d
        /\ k + 1 + d \in 0 .. n + d /\ k + 1 + d # 0 /\ k + 1 + d - 1 = k + d
    OBVIOUS
  <2>2. f[k + 1] = f[k] + w[k + 1]
    BY <1>1, <2>1
  <2>3. g[k + 1 + d] = g[k + d] + w[k + 1]
    BY <1>2, <2>1
  <2>4. g[k + d] = f[k] + g[d]
    BY <1>6, <2>1
  <2>5. f[k] \in Nat /\ g[d] \in Nat /\ w[k + 1] \in Nat
    BY <1>3, <1>4, <2>1
  <2> QED
    BY <2>2, <2>3, <2>4, <2>5
<1>7. Nat \subseteq G
  <2> HIDE DEF G
  <2> QED
    BY <1>5, <1>6, SetInduction
<1> QED
  BY <1>7

(* The cost of a table that begins with an entry. *)
LEMMA TotalCostOfNew ==
  ASSUME NEW es \in Seq(Entry), NEW e \in Entry
  PROVE  TotalCost(<<e>> \o es) = Cost(e) + TotalCost(es)
<1> DEFINE t == <<e>> \o es
           n == Len(es)
           w == CostsOf(es)
           u == CostsOf(t)
<1>1. /\ t \in Seq(Entry) /\ Len(t) = n + 1 /\ n \in Nat /\ t[1] = e
      /\ \A k \in 1 .. n : t[k + 1] = es[k] /\ es[k] \in Entry
  <2>1. <<e>> \in Seq(Entry) /\ Len(<<e>>) = 1 /\ <<e>>[1] = e
    OBVIOUS
  <2> DEFINE s == <<e>>
  <2> HIDE DEF s
  <2>2. s \in Seq(Entry) /\ Len(s) = 1 /\ s[1] = e /\ t = s \o es
    BY <2>1 DEF s
  <2> QED
    BY <2>2
<1> HIDE DEF t
<1>2. \A k \in 1 .. n + 1 : t[k] \in Entry
  BY <1>1
<1>3. /\ \A k \in 1 .. n : w[k] = Cost(es[k])
      /\ \A k \in 1 .. n + 1 : u[k] = Cost(t[k])
  BY <1>1 DEF CostsOf
<1> HIDE DEF n, w, u
<1>4. /\ \A k \in 1 .. n : w[k] \in Nat
      /\ \A k \in 1 .. n + 1 : u[k] \in Nat
      /\ \A k \in 1 .. n : u[k + 1] = w[k]
  <2>1. \A k \in 1 .. n : k + 1 \in 1 .. n + 1
    BY <1>1
  <2> QED
    BY <1>1, <1>2, <1>3, <2>1, CostType
<1>5. PICK f : Totals(f, 0, w, 0 .. n) /\ TotalCost(es) = f[n]
  BY TotalCostIs DEF w, n
<1>6. PICK g : Totals(g, 0, u, 0 .. n + 1) /\ TotalCost(t) = g[n + 1]
  BY <1>1, TotalCostIs DEF u
<1> DEFINE d == 1
<1>7. /\ d \in Nat /\ Totals(g, 0, u, 0 .. n + d)
      /\ \A k \in 1 .. n + d : u[k] \in Nat
      /\ \A k \in 1 .. n : u[k + d] = w[k]
  BY <1>4, <1>6
<1>8. g[n + 1] = f[n] + g[1]
  <2> HIDE DEF d
  <2>0. Shifted(f, w, n, g, u, d)
    BY <1>1, <1>4, <1>5, <1>7 DEF Shifted
  <2>1. g[n + d] = f[n] + g[d]
    BY <2>0, TotalsShift
  <2> QED
    BY <2>1 DEF d
<1>9. g[1] = Cost(e)
  <2>1. 0 \in 0 .. n + 1 /\ 1 \in 0 .. n + 1 /\ 1 \in 1 .. n + 1 /\ 1 - 1 = 0
    BY <1>1
  <2>2. g[0] = 0 /\ g[1] = g[0] + u[1]
    BY <1>6, <2>1 DEF Totals
  <2>3. u[1] = Cost(e) /\ u[1] \in Nat
    BY <1>1, <1>3, <1>4, <2>1
  <2> QED
    BY <2>2, <2>3
<1>10. TotalCost(es) \in Nat /\ Cost(e) \in Nat
  BY TotalCostType, CostType
<1> QED
  BY <1>5, <1>6, <1>8, <1>9, <1>10 DEF t

(* The cost of a table without its oldest entry. *)
LEMMA TotalCostOfFront ==
  ASSUME NEW es \in Seq(Entry), es # <<>>
  PROVE  /\ Front(es) \in Seq(Entry) /\ Last(es) \in Entry
         /\ TotalCost(es) = TotalCost(Front(es)) + Cost(Last(es))
<1> DEFINE t == Front(es)
           n == Len(t)
           w == CostsOf(t)
           u == CostsOf(es)
<1>1. /\ t \in Seq(Entry) /\ n \in Nat /\ Len(es) = n + 1 /\ es[n + 1] \in Entry
      /\ \A k \in 1 .. n : t[k] = es[k]
  <2>1. Len(es) # 0 /\ Len(es) \in Nat
    OBVIOUS
  <2> DEFINE m == Len(es) - 1
  <2>2. m \in Nat /\ m <= Len(es) /\ Len(es) = m + 1
    BY <2>1
  <2> HIDE DEF m
  <2>3. /\ SubSeq(es, 1, m) \in Seq(Entry) /\ Len(SubSeq(es, 1, m)) = m
        /\ \A i \in 1 .. m : SubSeq(es, 1, m)[i] = es[i]
    BY <2>2, PrefixFacts
  <2>4. t = SubSeq(es, 1, m)
    BY DEF Front, m
  <2>5. es[m + 1] \in Entry
    BY <2>2
  <2> QED
    BY <2>2, <2>3, <2>4, <2>5
<1>2. Last(es) = es[n + 1]
  BY <1>1 DEF Last
<1> HIDE DEF t
<1>3. \A k \in 1 .. n + 1 : es[k] \in Entry
  BY <1>1
<1>4. /\ \A k \in 1 .. n : w[k] = Cost(t[k])
      /\ \A k \in 1 .. n + 1 : u[k] = Cost(es[k])
  BY <1>1 DEF CostsOf
<1> HIDE DEF n, w, u
<1>5. /\ \A k \in 1 .. n : w[k] \in Nat
      /\ \A k \in 1 .. n + 0 : u[k] \in Nat
      /\ \A k \in 1 .. n : u[k + 0] = w[k]
      /\ u[n + 1] \in Nat
  <2>1. /\ \A k \in 1 .. n : k \in 1 .. n + 1 /\ k + 0 = k
        /\ n + 0 = n /\ n + 1 \in 1 .. n + 1
    BY <1>1
  <2> QED
    BY <1>1, <1>3, <1>4, <2>1, CostType
<1>6. PICK f : Totals(f, 0, w, 0 .. n) /\ TotalCost(t) = f[n]
  BY <1>1, TotalCostIs DEF w, n
<1>7. PICK g : Totals(g, 0, u, 0 .. n + 1) /\ TotalCost(es) = g[n + 1]
  BY <1>1, TotalCostIs DEF u
<1>8. g[n] = f[n]
  <2> DEFINE h == [k \in 0 .. n + 0 |-> g[k]]
  <2>0. \A k \in 0 .. n + 1 : g[k] = IF k = 0 THEN 0 ELSE g[k - 1] + u[k]
    BY <1>7 DEF Totals
  <2>1. Totals(h, 0, u, 0 .. n + 0)
    <3>1. \A k \in 0 .. n + 0 : k \in 0 .. n + 1 /\ (k # 0 => k - 1 \in 0 .. n + 0)
      BY <1>1
    <3>2. \A k \in 0 .. n + 0 : h[k] = IF k = 0 THEN 0 ELSE h[k - 1] + u[k]
      BY <2>0, <3>1
    <3>3. h = [k \in 0 .. n + 0 |-> h[k]]
      OBVIOUS
    <3> HIDE DEF h
    <3>4. h = [k \in 0 .. n + 0 |-> IF k = 0 THEN 0 ELSE h[k - 1] + u[k]]
      BY <3>2, <3>3
    <3> QED
      BY <3>4 DEF Totals
  <2>2. h[0] = g[0] /\ h[n + 0] = g[n] /\ g[0] = 0
    <3>1. 0 \in 0 .. n + 0 /\ n + 0 \in 0 .. n + 0 /\ n + 0 = n /\ 0 \in 0 .. n + 1
      BY <1>1
    <3> QED
      BY <2>0, <3>1
  <2> DEFINE d == 0
  <2>3. /\ d \in Nat /\ Totals(h, 0, u, 0 .. n + d)
        /\ \A k \in 1 .. n : w[k] \in Nat
        /\ \A k \in 1 .. n + d : u[k] \in Nat
        /\ \A k \in 1 .. n : u[k + d] = w[k]
    BY <1>5, <2>1
  <2> HIDE DEF h
  <2>4. h[n + 0] = f[n] + h[0]
    <3> HIDE DEF d
    <3>0. Shifted(f, w, n, h, u, d)
      BY <1>1, <1>6, <2>3 DEF Shifted
    <3>1. h[n + d] = f[n] + h[d]
      BY <3>0, TotalsShift
    <3> QED
      BY <3>1 DEF d
  <2>5. f[n] \in Nat
    BY <1>1, <1>6, TotalCostType
  <2> QED
    BY <2>2, <2>4, <2>5
<1>9. g[n + 1] = g[n] + u[n + 1]
  <2>1. n + 1 \in 0 .. n + 1 /\ n + 1 # 0 /\ n + 1 - 1 = n
    BY <1>1
  <2> QED
    <3>1. \A k \in 0 .. n + 1 : g[k] = IF k = 0 THEN 0 ELSE g[k - 1] + u[k]
      BY <1>7 DEF Totals
    <3> QED
      BY <1>1, <2>1, <3>1
<1>10. u[n + 1] = Cost(Last(es))
  <2>1. n + 1 \in 1 .. n + 1
    BY <1>1
  <2> QED
    BY <1>2, <1>4, <2>1
<1> QED
  BY <1>1, <1>2, <1>6, <1>7, <1>8, <1>9, <1>10 DEF t

(* An empty table holds nothing. *)
LEMMA TotalCostOfNone == TotalCost(<<>>) = 0
<1>1. <<>> \in Seq(Entry) /\ Len(<<>>) = 0 /\ 0 \in 0 .. 0
  OBVIOUS
<1>2. PICK f : Totals(f, 0, CostsOf(<<>>), 0 .. Len(<<>>)) /\ TotalCost(<<>>) = f[Len(<<>>)]
  BY <1>1, TotalCostIs
<1>3. f[0] = 0
  BY <1>1, <1>2 DEF Totals
<1> QED
  BY <1>1, <1>2, <1>3

-----------------------------------------------------------------------------
(* The decoder *)

DecoderInv == DecoderTypeOK /\ TableAccounts

(* A new decoder has an empty table whose size is what it holds. *)
LEMMA DecoderStarts == DecoderInit => DecoderInv
<1> SUFFICES ASSUME DecoderInit PROVE DecoderInv
  OBVIOUS
<1>1. /\ block = <<>> /\ pos = 0 /\ fields = <<>> /\ entries = <<>> /\ size = 0
      /\ maxSize = DefaultMax /\ decoding = "idle"
  BY DEF DecoderInit
<1>2. DefaultMax \in 0 .. AbsoluteMax /\ DefaultMax \in Nat
  BY TableAssumption
<1>3. block \in Seq(Octet) /\ pos \in 0 .. Len(block) /\ fields \in Seq(Entry) /\ entries \in Seq(Entry)
  BY <1>1
<1> QED
  BY <1>1, <1>2, <1>3, TotalCostOfNone DEF DecoderInv, DecoderTypeOK, TableAccounts

(* Opening a block leaves the table, and reads from its first byte. *)
LEMMA BlockOpens ==
  ASSUME NEW bytes \in Seq(Octet), OpenBlock(bytes)
  PROVE  DecoderInv'
<1>1. /\ block' = bytes /\ pos' = 0 /\ fields' = <<>> /\ entries' = <<>> /\ size' = 0
      /\ maxSize' = DefaultMax /\ decoding' = "reading"
  BY DEF OpenBlock
<1>2. DefaultMax \in 0 .. AbsoluteMax /\ DefaultMax \in Nat
  BY TableAssumption
<1>3. /\ block' \in Seq(Octet) /\ pos' \in 0 .. Len(block') /\ fields' \in Seq(Entry)
      /\ entries' \in Seq(Entry)
  BY <1>1
<1>4. TotalCost(entries') = 0
  BY <1>1, TotalCostOfNone
<1> QED
  BY <1>1, <1>2, <1>3, <1>4 DEF DecoderInv, DecoderTypeOK, TableAccounts

(* What a representation makes of the decoder. *)
Represents(rep) ==
  /\ rep.next \in 0 .. Len(block)
  /\ IF rep.kind = "resized" THEN rep.size \in Nat ELSE rep.field \in Entry

(* What the decoder reads next is a representation. *)
LEMMA RepresentationsRepresent ==
  ASSUME DecoderInv, NEW rep \in RepresentationAt(block, pos, entries)
  PROVE  Represents(rep)
<1>1. block \in Seq(Octet) /\ pos \in Nat /\ entries \in Seq(Entry)
  BY DEF DecoderInv, DecoderTypeOK
<1>2. /\ Behind(block, pos, rep.next)
      /\ IF rep.kind = "resized" THEN rep.size \in Nat ELSE rep.field \in Entry
  BY <1>1, RepresentationAtType
<1> QED
  BY <1>2 DEF Represents, Behind

(* Reading an indexed field leaves the table. *)
LEMMA ReadFieldKeeps ==
  ASSUME DecoderInv, decoding = "reading", NEW rep, Represents(rep), ReadField(rep)
  PROVE  DecoderInv'
<1>1. /\ rep.kind \in {"indexed", "plain"} /\ pos' = rep.next /\ block' = block
      /\ fields' = Append(fields, rep.field)
      /\ entries' = entries /\ size' = size /\ maxSize' = maxSize /\ decoding' = decoding
  BY DEF ReadField, Reads, tableVars
<1>2. rep.field \in Entry /\ rep.next \in 0 .. Len(block)
  BY <1>1 DEF Represents
<1>3. fields' \in Seq(Entry)
  BY <1>1, <1>2, AppendFacts DEF DecoderInv, DecoderTypeOK
<1> QED
  BY <1>1, <1>2, <1>3 DEF DecoderInv, DecoderTypeOK, TableAccounts

(* Reading a literal to be indexed adds it and its cost. *)
LEMMA InsertKeeps ==
  ASSUME DecoderInv, decoding = "reading", NEW rep, Represents(rep), Insert(rep)
  PROVE  DecoderInv'
<1> DEFINE e == rep.field
<1>1. /\ rep.kind = "inserted" /\ pos' = rep.next /\ block' = block
      /\ fields' = Append(fields, e) /\ maxSize' = maxSize
      /\ IF Cost(e) > maxSize THEN entries' = <<>> /\ size' = 0
         ELSE entries' = <<e>> \o entries /\ size' = size + Cost(e)
      /\ decoding' = IF size' > maxSize' THEN "evicting" ELSE "reading"
  BY DEF Insert, Reads, Evicts
<1>2. e \in Entry /\ rep.next \in 0 .. Len(block)
  BY <1>1 DEF Represents
<1>3. /\ entries \in Seq(Entry) /\ fields \in Seq(Entry) /\ size \in Nat /\ maxSize \in 0 .. AbsoluteMax
      /\ size = TotalCost(entries) /\ block \in Seq(Octet)
  BY DEF DecoderInv, DecoderTypeOK, TableAccounts
<1>4. Cost(e) \in Nat
  BY <1>2, CostType
<1> HIDE DEF e
<1>5. fields' \in Seq(Entry)
  BY <1>1, <1>2, <1>3, AppendFacts
<1>6. entries' \in Seq(Entry) /\ size' \in Nat /\ size' = TotalCost(entries')
  <2>1. CASE Cost(e) > maxSize
    <3>1. entries' = <<>> /\ size' = 0 /\ <<>> \in Seq(Entry)
      BY <1>1, <2>1
    <3> QED
      BY <3>1, TotalCostOfNone
  <2>2. CASE ~(Cost(e) > maxSize)
    <3>1. entries' = <<e>> \o entries /\ size' = size + Cost(e)
      BY <1>1, <2>2
    <3>2. <<e>> \in Seq(Entry)
      BY <1>2
    <3>3. <<e>> \o entries \in Seq(Entry)
      BY <1>3, <3>2, ConcatType
    <3>4. TotalCost(<<e>> \o entries) = Cost(e) + TotalCost(entries)
      BY <1>2, <1>3, TotalCostOfNew
    <3> QED
      BY <1>3, <1>4, <3>1, <3>3, <3>4
  <2> QED
    BY <2>1, <2>2
<1>7. decoding' \in {"reading", "evicting"} /\ (decoding' # "evicting" => size' <= maxSize')
  BY <1>1, <1>3, <1>6
<1> QED
  BY <1>1, <1>2, <1>3, <1>5, <1>6, <1>7 DEF DecoderInv, DecoderTypeOK, TableAccounts

(* A size update moves the limit alone, and no further than the advertised one. *)
LEMMA ResizeKeeps ==
  ASSUME DecoderInv, decoding = "reading", NEW rep, Represents(rep), Resize(rep)
  PROVE  DecoderInv'
<1>1. /\ rep.kind = "resized" /\ pos' = rep.next /\ block' = block
      /\ maxSize' = (IF rep.size < AbsoluteMax THEN rep.size ELSE AbsoluteMax)
      /\ fields' = fields /\ entries' = entries /\ size' = size
      /\ decoding' = IF size' > maxSize' THEN "evicting" ELSE "reading"
  BY DEF Resize, Reads, Evicts
<1>2. rep.size \in Nat /\ rep.next \in 0 .. Len(block)
  BY <1>1 DEF Represents
<1>3. maxSize' \in 0 .. AbsoluteMax
  BY <1>1, <1>2, TableAssumption
<1>4. /\ entries \in Seq(Entry) /\ fields \in Seq(Entry) /\ size \in Nat
      /\ size = TotalCost(entries) /\ block \in Seq(Octet)
  BY DEF DecoderInv, DecoderTypeOK, TableAccounts
<1>5. decoding' \in {"reading", "evicting"} /\ (decoding' # "evicting" => size' <= maxSize')
  BY <1>1, <1>3, <1>4
<1> QED
  BY <1>1, <1>2, <1>3, <1>4, <1>5 DEF DecoderInv, DecoderTypeOK, TableAccounts

(* An eviction takes the oldest entry and its cost. *)
LEMMA EvictKeeps ==
  ASSUME DecoderInv, Evict
  PROVE  DecoderInv'
<1>1. /\ decoding = "evicting"
      /\ IF entries = <<>> THEN size' = 0 /\ entries' = entries
         ELSE /\ entries' = Front(entries)
              /\ size' = IF size < Cost(Last(entries)) THEN 0 ELSE size - Cost(Last(entries))
      /\ block' = block /\ pos' = pos /\ fields' = fields /\ maxSize' = maxSize
      /\ decoding' = IF size' > maxSize' THEN "evicting" ELSE "reading"
  BY DEF Evict, Evicts
<1>2. /\ entries \in Seq(Entry) /\ fields \in Seq(Entry) /\ size \in Nat /\ maxSize \in 0 .. AbsoluteMax
      /\ size = TotalCost(entries) /\ block \in Seq(Octet) /\ pos \in 0 .. Len(block)
  BY DEF DecoderInv, DecoderTypeOK, TableAccounts
<1>3. entries' \in Seq(Entry) /\ size' \in Nat /\ size' = TotalCost(entries')
  <2>1. CASE entries = <<>>
    <3>1. entries' = <<>> /\ size' = 0 /\ <<>> \in Seq(Entry)
      BY <1>1, <2>1
    <3> QED
      BY <3>1, TotalCostOfNone
  <2>2. CASE entries # <<>>
    <3> DEFINE rest == Front(entries)
               last == Last(entries)
    <3>1. rest \in Seq(Entry) /\ last \in Entry /\ TotalCost(entries) = TotalCost(rest) + Cost(last)
      BY <1>2, <2>2, TotalCostOfFront
    <3>2. entries' = rest /\ size' = IF size < Cost(last) THEN 0 ELSE size - Cost(last)
      BY <1>1, <2>2
    <3> HIDE DEF rest, last
    <3>3. TotalCost(rest) \in Nat /\ Cost(last) \in Nat
      BY <3>1, TotalCostType, CostType
    <3>4. size' = TotalCost(rest)
      BY <1>2, <3>1, <3>2, <3>3, SMTT(30)
    <3> QED
      BY <3>1, <3>2, <3>3, <3>4
  <2> QED
    BY <2>1, <2>2
<1>4. decoding' \in {"reading", "evicting"} /\ (decoding' # "evicting" => size' <= maxSize')
  BY <1>1, <1>2, <1>3
<1> QED
  BY <1>1, <1>2, <1>3, <1>4 DEF DecoderInv, DecoderTypeOK, TableAccounts

(* No step of the decoder loses track of what its table holds. *)
LEMMA DecodeKeeps ==
  ASSUME DecoderInv, Decode
  PROVE  DecoderInv'
<1>1. CASE \E rep \in RepresentationAt(block, pos, entries) :
             Reading /\ (ReadField(rep) \/ Insert(rep) \/ Resize(rep))
  <2>1. PICK rep \in RepresentationAt(block, pos, entries) :
               Reading /\ (ReadField(rep) \/ Insert(rep) \/ Resize(rep))
    BY <1>1
  <2>2. decoding = "reading" /\ Represents(rep)
    BY <2>1, RepresentationsRepresent DEF Reading
  <2> QED
    BY <2>1, <2>2, ReadFieldKeeps, InsertKeeps, ResizeKeeps
<1>2. CASE Fail
  <2>1. /\ fields' = <<>> /\ decoding' = "failed" /\ block' = block /\ pos' = pos
        /\ entries' = entries /\ size' = size /\ maxSize' = maxSize /\ decoding = "reading"
    BY <1>2 DEF Fail, Reading, tableVars
  <2>2. <<>> \in Seq(Entry)
    OBVIOUS
  <2> QED
    BY <2>1, <2>2 DEF DecoderInv, DecoderTypeOK, TableAccounts
<1>3. CASE Evict
  BY <1>3, EvictKeeps
<1>4. CASE Finish
  <2>1. /\ fields' = fields /\ decoding' = "done" /\ block' = block /\ pos' = pos
        /\ entries' = entries /\ size' = size /\ maxSize' = maxSize /\ decoding = "reading"
    BY <1>4 DEF Finish, tableVars
  <2> QED
    BY <2>1 DEF DecoderInv, DecoderTypeOK, TableAccounts
<1> QED
  BY <1>1, <1>2, <1>3, <1>4 DEF Decode

(* The decoder's invariant is about the decoder alone. *)
LEMMA DecoderStutters ==
  ASSUME DecoderInv, UNCHANGED decoderVars
  PROVE  DecoderInv'
<1>1. /\ block' = block /\ pos' = pos /\ fields' = fields /\ entries' = entries
      /\ size' = size /\ maxSize' = maxSize /\ decoding' = decoding
  BY DEF decoderVars, tableVars
<1> QED
  BY <1>1 DEF DecoderInv, DecoderTypeOK, TableAccounts

-----------------------------------------------------------------------------
(* What a hello is read as: at most one thing *)

ExtensionType ==
  [id : Nat, body : Seq(Octet), span : [start : Nat, len : Nat]]

AtMostOne(found) == \A p, q \in found : p = q

(* The walk over the extensions: where it stops, with what, and otherwise   *)
(* what it finds and where it goes on.                                      *)
ExtStop(e) == {at \in 0 .. Len(e) : ~Fits(e, at, 4) \/ ~Fits(e, at + 4, U16(e, at + 2))}
ExtEnd(e) == [at \in 0 .. Len(e) |-> IF ~Fits(e, at, 4) THEN Some(<<>>) ELSE None]
ExtFound(e, base) == [at \in 0 .. Len(e) |-> Extension(e, at, base)]
ExtNext(e) == [at \in 0 .. Len(e) |-> at + 4 + U16(e, at + 2)]

(* From every offset the walk stops or goes on to a later one. *)
LEMMA ExtensionsAdvance ==
  ASSUME NEW e \in Seq(Octet), NEW base \in Nat
  PROVE  Advances(Len(e), ExtStop(e), ExtEnd(e), ExtFound(e, base), ExtNext(e), ExtensionType)
<1> DEFINE n == Len(e)
           len(at) == U16(e, at + 2)
<1>1. n \in Nat
  OBVIOUS
<1>2. ASSUME NEW at \in 0 .. n, at \notin ExtStop(e)
      PROVE  ExtNext(e)[at] \in at + 1 .. n /\ ExtFound(e, base)[at] \in ExtensionType
  <2>1. at \in Nat /\ Fits(e, at, 4) /\ Fits(e, at + 4, len(at))
    BY <1>2 DEF ExtStop
  <2>2. Fits(e, at, 2) /\ Fits(e, at + 2, 2) /\ at + 2 \in Nat /\ at + 4 \in Nat
    BY <1>1, <2>1 DEF Fits
  <2>3. U16(e, at) \in Nat /\ len(at) \in Nat
    BY <2>2, NumbersType
  <2>4. Take(e, at + 4, len(at)) \in Seq(Octet)
    BY <2>1, <2>2, <2>3, TakeFacts
  <2>5. Extension(e, at, base) \in ExtensionType
    <3>1. base + at \in Nat /\ len(at) + 4 \in Nat
      BY <2>1, <2>3
    <3> QED
      BY <2>3, <2>4, <3>1 DEF Extension, Span, ExtensionType
  <2> DEFINE l == len(at)
  <2>6. ExtNext(e)[at] = at + 4 + l
    BY DEF ExtNext
  <2>7. ExtFound(e, base)[at] = Extension(e, at, base)
    BY DEF ExtFound
  <2> HIDE DEF l
  <2>8. at + 4 + l \in at + 1 .. n
    BY <1>1, <2>1, <2>3 DEF Fits, l
  <2> QED
    BY <2>5, <2>6, <2>7, <2>8
<1>3. ASSUME NEW at \in 0 .. n, at \in ExtStop(e)
      PROVE  ExtEnd(e)[at] \subseteq Seq(ExtensionType) /\ \A p, q \in ExtEnd(e)[at] : p = q
  <2>1. <<>> \in Seq(ExtensionType)
    OBVIOUS
  <2>2. ExtEnd(e)[at] \subseteq {<<>>}
    BY DEF ExtEnd, Some, None
  <2> QED
    BY <2>1, <2>2
<1> QED
  BY <1>2, <1>3 DEF Advances

(* The extensions read from an offset are what a walk finds. *)
LEMMA ExtensionsWalk ==
  ASSUME NEW e \in Seq(Octet), NEW base \in Nat
  PROVE  \E f : /\ ExtensionsIn(e, base) = f[0]
                /\ Walks(f, 0, Len(e), ExtStop(e), ExtEnd(e), ExtFound(e, base), ExtNext(e))
<1> DEFINE n == Len(e)
           len(at) == U16(e, at + 2)
           stop == ExtStop(e)
           a == ExtEnd(e)
           x == ExtFound(e, base)
           next == ExtNext(e)
           V(g) == g = [at \in 0 .. n |->
                          IF ~Fits(e, at, 4) THEN Some(<<>>)
                          ELSE IF ~Fits(e, at + 4, len(at)) THEN None
                          ELSE {<<Extension(e, at, base)>> \o rest : rest \in g[at + 4 + len(at)]}]
           f == CHOOSE g : V(g)
<1>1. n \in Nat
  OBVIOUS
<1>2. \A at \in 0 .. n : at \notin stop => next[at] \in at + 1 .. n
  BY ExtensionsAdvance DEF Advances
<1>4. ASSUME NEW g PROVE V(g) <=> Walks(g, 0, n, stop, a, x, next)
  <2> DEFINE l(at) == IF ~Fits(e, at, 4) THEN Some(<<>>)
                      ELSE IF ~Fits(e, at + 4, len(at)) THEN None
                      ELSE {<<Extension(e, at, base)>> \o rest : rest \in g[at + 4 + len(at)]}
             r(at) == IF at \in stop THEN a[at] ELSE Further(x, at, g[next[at]])
  <2>1. ASSUME NEW at \in 0 .. n PROVE l(at) = r(at)
    <3>1. a[at] = (IF ~Fits(e, at, 4) THEN Some(<<>>) ELSE None)
      BY DEF ExtEnd
    <3>2. x[at] = Extension(e, at, base) /\ next[at] = at + 4 + len(at)
      BY DEF ExtFound, ExtNext
    <3>3. at \in stop <=> ~Fits(e, at, 4) \/ ~Fits(e, at + 4, len(at))
      BY DEF ExtStop
    <3> HIDE DEF a, x, next, stop
    <3>4. Further(x, at, g[next[at]]) =
            {<<Extension(e, at, base)>> \o rest : rest \in g[at + 4 + len(at)]}
      BY <3>2 DEF Further
    <3> HIDE DEF len
    <3> QED
      BY <3>1, <3>3, <3>4
  <2>2. [at \in 0 .. n |-> l(at)] = [at \in 0 .. n |-> r(at)]
    <3> HIDE DEF l, r, n
    <3> QED
      BY <2>1
  <2> HIDE DEF n, stop, a, x, next
  <2>3. V(g) <=> g = [at \in 0 .. n |-> l(at)]
    OBVIOUS
  <2>4. Walks(g, 0, n, stop, a, x, next) <=> g = [at \in 0 .. n |-> r(at)]
    BY DEF Walks
  <2> HIDE DEF l, r, V
  <2> QED
    BY <2>2, <2>3, <2>4
<1>5. ExtensionsIn(e, base) = f[0]
  BY DEF ExtensionsIn
<1> HIDE DEF n, stop, a, x, next, V
<1>6. \E g : Walks(g, 0, n, stop, a, x, next)
  BY ONLY <1>1, <1>2, WalkExists
<1>7. V(f)
  <2>1. \E g : V(g)
    BY <1>4, <1>6
  <2> QED
    BY <2>1
<1> HIDE DEF f
<1>8. Walks(f, 0, n, stop, a, x, next)
  BY <1>4, <1>7
<1> QED
  BY <1>5, <1>8 DEF n, stop, a, x, next

(* A block is read as one list of extensions at most. *)
LEMMA ExtensionsInOne ==
  ASSUME NEW e \in Seq(Octet), NEW base \in Nat
  PROVE  ExtensionsIn(e, base) \subseteq Seq(ExtensionType) /\ AtMostOne(ExtensionsIn(e, base))
<1>1. PICK f : /\ ExtensionsIn(e, base) = f[0]
               /\ Walks(f, 0, Len(e), ExtStop(e), ExtEnd(e), ExtFound(e, base), ExtNext(e))
  BY ExtensionsWalk
<1>2. Len(e) \in Nat /\ 0 \in 0 .. Len(e)
  OBVIOUS
<1>3. FindsOne(f, Len(e), ExtensionType)
  BY <1>1, <1>2, ExtensionsAdvance, WalkFindsOne
<1> QED
  BY <1>1, <1>2, <1>3 DEF AtMostOne, FindsOne

HelloType ==
  [version : Nat, ciphers : Seq(Nat), cipherSpan : [start : Nat, len : Nat],
   extensions : Seq(ExtensionType), extensionsSpan : [start : Nat, len : Nat]]

(* Where the fields lie once they fit. *)
LEMMA FieldsLie ==
  ASSUME RandomLen \in Nat, NEW c \in Seq(Octet), FieldsFit(c)
  PROVE  /\ U16(c, 0) \in Nat
         /\ CiphersAt(c) \in Nat /\ CipherLen(c) \in Nat /\ ExtensionsAt(c) \in Nat
         /\ Take(c, CiphersAt(c) + 2, CipherLen(c)) \in Seq(Octet)
<1>0. Len(c) \in Nat
  OBVIOUS
<1>1. /\ Fits(c, 0, 2 + RandomLen + 1) /\ Fits(c, CiphersAt(c), 2)
      /\ Fits(c, CiphersAt(c) + 2, CipherLen(c)) /\ Fits(c, CompressionAt(c), 1)
  BY DEF FieldsFit
<1>2. /\ Fits(c, 0, 2) /\ 2 + RandomLen \in Nat /\ Fits(c, 2 + RandomLen, 1) /\ 0 \in Nat
  BY <1>0, <1>1 DEF Fits
<1>3. U16(c, 0) \in Nat /\ U8(c, 2 + RandomLen) \in Nat
  BY <1>2, NumbersType
<1>4. CiphersAt(c) \in Nat
  BY <1>2, <1>3 DEF CiphersAt
<1>5. CipherLen(c) \in Nat
  <2>1. U16(c, CiphersAt(c)) \in Nat
    BY <1>1, <1>4, NumbersType
  <2> QED
    BY <2>1 DEF CipherLen
<1>6. CompressionAt(c) \in Nat
  BY <1>4, <1>5 DEF CompressionAt
<1>7. ExtensionsAt(c) \in Nat
  <2>1. U8(c, CompressionAt(c)) \in Nat
    BY <1>1, <1>6, NumbersType
  <2> QED
    BY <1>6, <2>1 DEF ExtensionsAt
<1>8. CiphersAt(c) + 2 \in Nat
  BY <1>4
<1>9. Take(c, CiphersAt(c) + 2, CipherLen(c)) \in Seq(Octet)
  BY <1>1, <1>5, <1>8, TakeFacts
<1> QED
  BY <1>3, <1>4, <1>5, <1>7, <1>9

(* A hello that is read is as long as its fields say. *)
LEMMA HelloFits ==
  ASSUME NEW c \in Seq(Octet), FieldsFit(c), NEW exts \in Seq(ExtensionType),
         NEW span \in [start : Nat, len : Nat]
  PROVE  Hello(c, exts, span) \in HelloType
<1>1. /\ U16(c, 0) \in Nat /\ CiphersAt(c) \in Nat /\ CipherLen(c) \in Nat
      /\ Take(c, CiphersAt(c) + 2, CipherLen(c)) \in Seq(Octet)
  BY RandomLenAssumption, FieldsLie
<1>2. U16s(Take(c, CiphersAt(c) + 2, CipherLen(c))) \in Seq(Nat)
  BY <1>1, U16sType
<1>3. HandshakeBase + CiphersAt(c) + 2 \in Nat
  BY <1>1, SMTT(30) DEF HandshakeBase, RecordBase
<1>4. Span(HandshakeBase + CiphersAt(c) + 2, CipherLen(c)) \in [start : Nat, len : Nat]
  BY <1>1, <1>3 DEF Span
<1> QED
  BY <1>1, <1>2, <1>4 DEF Hello, HelloType

(* The fields of a hello are read in one way at most. *)
LEMMA ParseFieldsOne ==
  ASSUME NEW c \in Seq(Octet)
  PROVE  ParseFields(c) \subseteq HelloType /\ AtMostOne(ParseFields(c))
<1> DEFINE at == ExtensionsAt(c)
           base == HandshakeBase + at + 2
           block0 == Take(c, at + 2, U16(c, at))
<1>1. CASE ~FieldsFit(c)
  BY <1>1 DEF ParseFields, None, AtMostOne
<1>2. CASE FieldsFit(c) /\ ~Fits(c, at, 2)
  <2>1. at \in Nat
    BY <1>2, RandomLenAssumption, FieldsLie
  <2>2. Span(HandshakeBase + at, 0) \in [start : Nat, len : Nat]
    BY <2>1 DEF Span, HandshakeBase, RecordBase
  <2>3. <<>> \in Seq(ExtensionType)
    OBVIOUS
  <2>4. Hello(c, <<>>, Span(HandshakeBase + at, 0)) \in HelloType
    BY <1>2, <2>2, <2>3, HelloFits
  <2>5. ParseFields(c) = {Hello(c, <<>>, Span(HandshakeBase + at, 0))}
    BY <1>2 DEF ParseFields, Some
  <2> QED
    BY <2>4, <2>5 DEF AtMostOne
<1>3. CASE FieldsFit(c) /\ Fits(c, at, 2) /\ ~Fits(c, at + 2, U16(c, at))
  BY <1>3 DEF ParseFields, None, AtMostOne
<1>4. CASE FieldsFit(c) /\ Fits(c, at, 2) /\ Fits(c, at + 2, U16(c, at))
  <2>1. at \in Nat
    BY <1>4, RandomLenAssumption, FieldsLie
  <2>2. U16(c, at) \in Nat /\ at + 2 \in Nat /\ base \in Nat
    BY <1>4, <2>1, NumbersType DEF HandshakeBase, RecordBase
  <2>3. block0 \in Seq(Octet)
    BY <1>4, <2>2, TakeFacts
  <2>4. Span(base, U16(c, at)) \in [start : Nat, len : Nat]
    BY <2>2 DEF Span
  <2>5. ParseFields(c) = {Hello(c, exts, Span(base, U16(c, at))) : exts \in ExtensionsIn(block0, base)}
    BY <1>4 DEF ParseFields
  <2> HIDE DEF at, base, block0
  <2>6. /\ ExtensionsIn(block0, base) \subseteq Seq(ExtensionType)
        /\ AtMostOne(ExtensionsIn(block0, base))
    BY <2>2, <2>3, ExtensionsInOne
  <2>7. \A exts \in ExtensionsIn(block0, base) : Hello(c, exts, Span(base, U16(c, at))) \in HelloType
    BY <1>4, <2>4, <2>6, HelloFits
  <2> QED
    BY <2>5, <2>6, <2>7 DEF AtMostOne
<1> QED
  BY <1>1, <1>2, <1>3, <1>4

(* Bytes are read as one hello at most. *)
LEMMA ParseHelloOne ==
  ASSUME NEW s \in Seq(Octet)
  PROVE  ParseHello(s) \subseteq HelloType /\ AtMostOne(ParseHello(s))
<1>1. CASE ~(RecordFits(s) /\ HandshakeFits(RecordBody(s)))
  BY <1>1 DEF ParseHello, None, AtMostOne
<1>2. CASE RecordFits(s) /\ HandshakeFits(RecordBody(s))
  <2> DEFINE rec == RecordBody(s)
             body == HandshakeBody(rec)
  <2>1. rec \in Seq(Octet)
    <3>1. Fits(s, 0, 5) /\ Fits(s, 5, U16(s, 3))
      BY <1>2 DEF RecordFits, RecordBase
    <3>2. Fits(s, 3, 2) /\ 3 \in Nat /\ 5 \in Nat
      BY <3>1 DEF Fits
    <3>3. U16(s, 3) \in Nat
      BY <3>2, NumbersType
    <3> QED
      BY <3>1, <3>2, <3>3, TakeFacts DEF RecordBody, RecordBase
  <2>2. body \in Seq(Octet)
    <3> HIDE DEF rec
    <3>1. Fits(rec, 0, 4) /\ Fits(rec, 4, U24(rec, 1))
      BY <1>2 DEF HandshakeFits, rec
    <3>2. Fits(rec, 1, 3) /\ 1 \in Nat /\ 4 \in Nat
      BY <3>1 DEF Fits
    <3>3. U24(rec, 1) \in Nat
      BY <2>1, <3>2, NumbersType
    <3> QED
      BY <2>1, <3>1, <3>2, <3>3, TakeFacts DEF HandshakeBody
  <2>3. ParseHello(s) = ParseFields(body)
    BY <1>2 DEF ParseHello
  <2> HIDE DEF body
  <2> QED
    BY <2>2, <2>3, ParseFieldsOne
<1> QED
  BY <1>1, <1>2

-----------------------------------------------------------------------------
(* What a hello is reduced to *)

(* The extensions of a hello have numbers. *)
LEMMA IdsType ==
  ASSUME NEW exts \in Seq(ExtensionType)
  PROVE  Ids(exts) \in Seq(Nat)
<1>0. Len(exts) \in Nat /\ \A n \in 1 .. Len(exts) : exts[n] \in ExtensionType
  OBVIOUS
<1>1. Len(exts) \in Nat /\ \A n \in 1 .. Len(exts) : exts[n].id \in Nat
  <2>1. \A e \in ExtensionType : e.id \in Nat
    BY DEF ExtensionType
  <2> QED
    BY <1>0, <2>1
<1>2. Ids(exts) = [n \in 1 .. Len(exts) |-> exts[n].id]
  BY DEF Ids
<1> QED
  BY <1>1, <1>2

(* What is kept of numbers without GREASE is numbers. *)
LEMMA StripType ==
  ASSUME NEW values \in Seq(Nat)
  PROVE  Strip(values) \in Seq(Nat)
BY ElementsAtType DEF Strip, Keep

(* The body of a hello's extension is bytes, or missing. *)
LEMMA BodyOfType ==
  ASSUME NEW exts \in Seq(ExtensionType), NEW x, HasExtension(exts, x)
  PROVE  BodyOf(exts, x) \in Seq(Octet)
<1> DEFINE S == {e \in ExtensionType : e.id = x}
           k == Keep(exts, LAMBDA e : e.id = x)
<1>1. \A n \in 1 .. Len(exts) : exts[n] \in ExtensionType
  OBVIOUS
<1>2. k = Keeping(exts, S)
  <2>1. {n \in DOMAIN exts : exts[n].id = x} = {n \in DOMAIN exts : exts[n] \in S}
    BY <1>1
  <2> QED
    BY <2>1 DEF Keep, Keeping
<1>3. k \in Seq(ExtensionType)
  BY ElementsAtType DEF Keep
<1>4. PICK n \in 1 .. Len(exts) : exts[n].id = x
  BY DEF HasExtension, ToSet, Ids
<1>5. exts[n] \in S
  BY <1>1, <1>4
<1> HIDE DEF k, S
<1>6. \E i \in DOMAIN k : k[i] = exts[n]
  BY <1>2, <1>5, KeepingHas
<1>7. 1 \in DOMAIN k
  BY <1>3, <1>6
<1>8. k[1] \in ExtensionType
  BY <1>3, <1>7
<1>9. k[1].body \in Seq(Octet)
  BY <1>8 DEF ExtensionType
<1> QED
  BY <1>9 DEF BodyOf, k

(* The list behind a length is numbers. *)
LEMMA ListBehindType ==
  ASSUME NEW body \in Seq(Octet), NEW width \in {1, 2}
  PROVE  ListBehind(width, body) \subseteq Seq(Octet)
<1> DEFINE len == IF width = 1 THEN U8(body, 0) ELSE U16(body, 0)
<1> SUFFICES ASSUME Fits(body, 0, width), Fits(body, width, len)
             PROVE  Take(body, width, len) \in Seq(Octet)
  BY DEF ListBehind, Some, None
<1>1. 0 \in Nat /\ width \in Nat
  OBVIOUS
<1>2. len \in Nat
  BY <1>1, NumbersType
<1> HIDE DEF len
<1> QED
  BY <1>1, <1>2, TakeFacts

(* The list in an extension is numbers. *)
LEMMA ListInType ==
  ASSUME NEW exts \in Seq(ExtensionType), NEW x, NEW width \in {1, 2}
  PROVE  ListIn(exts, x, width) \subseteq Seq(Octet)
BY BodyOfType, ListBehindType DEF ListIn, None

(* A list that a hello carries is numbers, or empty. *)
LEMMA ListOfType ==
  ASSUME NEW exts \in Seq(ExtensionType), NEW x, NEW width \in {1, 2}
  PROVE  ListOf(exts, x, width) \in Seq(Octet)
BY ListInType, OrEmptyType DEF ListOf

(* The first protocol of a hello is bytes, or missing. *)
LEMMA FirstAlpnType ==
  ASSUME NEW exts \in Seq(ExtensionType)
  PROVE  FirstAlpn(exts) \subseteq Seq(Octet)
<1>1. ListIn(exts, ALPN, 2) \subseteq Seq(Octet)
  BY ListInType
<1>2. \A l \in ListIn(exts, ALPN, 2) : ListBehind(1, l) \subseteq Seq(Octet)
  BY <1>1, ListBehindType
<1> QED
  BY <1>2 DEF FirstAlpn

(* What anything else that is made of a report rests on. *)
TlsTyped(tls) ==
  /\ tls.ciphers \in Seq(Nat) /\ tls.extensions \in Seq(Nat)
  /\ tls.greaseCiphers \subseteq Nat /\ tls.greaseExts \subseteq Nat
  /\ tls.alpn \subseteq Seq(Octet)
  /\ tls.hasSni \in BOOLEAN

(* The places of what is GREASE are places of the list. *)
LEMMA PositionsType ==
  ASSUME NEW values \in Seq(Nat)
  PROVE  GreasePositions(values) \subseteq Nat
BY DEF GreasePositions

(* What is kept of a hello is a TLS half of a report. *)
LEMMA TlsOfTyped ==
  ASSUME NEW hello \in HelloType
  PROVE  TlsTyped(TlsOf(hello))
<1>1. hello.ciphers \in Seq(Nat) /\ hello.extensions \in Seq(ExtensionType)
  BY DEF HelloType
<1>2. Ids(hello.extensions) \in Seq(Nat)
  BY <1>1, IdsType
<1>3. GreasePositions(hello.ciphers) \subseteq Nat /\ GreasePositions(Ids(hello.extensions)) \subseteq Nat
  BY <1>1, <1>2, PositionsType
<1>4. FirstAlpn(hello.extensions) \subseteq Seq(Octet)
  BY <1>1, FirstAlpnType
<1>5. HasExtension(hello.extensions, SNI) \in BOOLEAN
  BY DEF HasExtension
<1>6. /\ TlsOf(hello).ciphers = hello.ciphers /\ TlsOf(hello).extensions = Ids(hello.extensions)
      /\ TlsOf(hello).greaseCiphers = GreasePositions(hello.ciphers)
      /\ TlsOf(hello).greaseExts = GreasePositions(Ids(hello.extensions))
      /\ TlsOf(hello).alpn = FirstAlpn(hello.extensions)
      /\ TlsOf(hello).hasSni = HasExtension(hello.extensions, SNI)
  BY DEF TlsOf
<1> QED
  BY <1>1, <1>2, <1>3, <1>4, <1>5, <1>6 DEF TlsTyped

(* Bytes have one TLS half at most. *)
LEMMA FingerprintTlsOne ==
  ASSUME NEW s \in Seq(Octet)
  PROVE  /\ \A tls \in FingerprintTls(s) : TlsTyped(tls)
         /\ AtMostOne(FingerprintTls(s))
         /\ FingerprintTls(s) = None <=> ParseHello(s) = None
<1>1. ParseHello(s) \subseteq HelloType /\ AtMostOne(ParseHello(s))
  BY ParseHelloOne
<1>2. \A hello \in ParseHello(s) : TlsTyped(TlsOf(hello))
  BY <1>1, TlsOfTyped
<1>3. FingerprintTls(s) = {TlsOf(hello) : hello \in ParseHello(s)}
  BY DEF FingerprintTls
<1>4. AtMostOne(FingerprintTls(s))
  BY <1>1, <1>3 DEF AtMostOne
<1>5. FingerprintTls(s) = {} <=> ParseHello(s) = {}
  BY <1>3
<1> QED
  BY <1>2, <1>3, <1>4, <1>5 DEF None

-----------------------------------------------------------------------------
(* What a preamble is reduced to *)

FrameRecord == [kind : Nat, flags : Nat, stream : Nat, payload : Seq(Octet)]

(* A frame is read from within the bytes. *)
LEMMA FrameAtType ==
  ASSUME NEW buf \in Seq(Octet), NEW at \in Nat, Fits(buf, at, FrameHeader),
         Fits(buf, at + FrameHeader, U24(buf, at))
  PROVE  FrameAt(buf, at) \in FrameRecord /\ U24(buf, at) \in Nat
<1>1. /\ Fits(buf, at, 3) /\ Fits(buf, at + 3, 1) /\ Fits(buf, at + 4, 1) /\ Fits(buf, at + 5, 4)
      /\ at + 3 \in Nat /\ at + 4 \in Nat /\ at + 5 \in Nat /\ at + FrameHeader \in Nat
  BY DEF Fits, FrameHeader
<1>2. U24(buf, at) \in Nat /\ U31(buf, at + 5) \in Nat
  BY <1>1, NumbersType
<1>3. U8(buf, at + 3) \in Nat /\ U8(buf, at + 4) \in Nat
  BY <1>1, NumbersType
<1>4. Take(buf, at + FrameHeader, U24(buf, at)) \in Seq(Octet)
  BY <1>1, <1>2, TakeFacts
<1> QED
  BY <1>2, <1>3, <1>4 DEF FrameAt, FrameRecord

(* From each offset on, the frames that follow. *)
FramesFrom(buf, f, at) ==
  IF ~Fits(buf, at, FrameHeader) THEN Some(<<>>)
  ELSE IF ~Fits(buf, at + FrameHeader, U24(buf, at)) THEN None
  ELSE IF FrameAt(buf, at).kind = HEADERS THEN Some(<<FrameAt(buf, at)>>)
  ELSE {<<FrameAt(buf, at)>> \o rest : rest \in f[at + FrameHeader + U24(buf, at)]}
Preambles(buf, f) ==
  /\ \A at \in 0 .. Len(buf) : f[at] = FramesFrom(buf, f, at)
  /\ FindsOne(f, Len(buf), FrameRecord)
  /\ ParsePreamble(buf) = IF IsPrefix(Preface, buf) THEN f[Len(Preface)] ELSE None

(* A preamble is read frame after frame. *)
LEMMA PreambleUnfolds ==
  ASSUME NEW buf \in Seq(Octet)
  PROVE  \E f : Preambles(buf, f)
<1> DEFINE n == Len(buf)
           len(at) == U24(buf, at)
           stop == {at \in 0 .. n : \/ ~Fits(buf, at, FrameHeader)
                                    \/ ~Fits(buf, at + FrameHeader, len(at))
                                    \/ FrameAt(buf, at).kind = HEADERS}
           a == [at \in 0 .. n |-> IF ~Fits(buf, at, FrameHeader) THEN Some(<<>>)
                                   ELSE IF ~Fits(buf, at + FrameHeader, len(at)) THEN None
                                   ELSE Some(<<FrameAt(buf, at)>>)]
           x == [at \in 0 .. n |-> FrameAt(buf, at)]
           next == [at \in 0 .. n |-> at + FrameHeader + len(at)]
           V(g) == g = [at \in 0 .. n |->
                          IF ~Fits(buf, at, FrameHeader) THEN Some(<<>>)
                          ELSE IF ~Fits(buf, at + FrameHeader, len(at)) THEN None
                          ELSE IF FrameAt(buf, at).kind = HEADERS THEN Some(<<FrameAt(buf, at)>>)
                          ELSE {<<FrameAt(buf, at)>> \o rest : rest \in g[at + FrameHeader + len(at)]}]
           f == CHOOSE g : V(g)
<1>1. n \in Nat
  OBVIOUS
<1>2. ASSUME NEW at \in 0 .. n, at \notin stop
      PROVE  next[at] \in at + 1 .. n /\ x[at] \in FrameRecord
  <2>1. at \in Nat /\ Fits(buf, at, FrameHeader) /\ Fits(buf, at + FrameHeader, len(at))
    BY <1>2
  <2>2. FrameAt(buf, at) \in FrameRecord /\ len(at) \in Nat
    BY <2>1, FrameAtType
  <2> DEFINE l == len(at)
  <2> HIDE DEF l
  <2>3. at + FrameHeader + l \in at + 1 .. n
    BY <1>1, <2>1, <2>2 DEF Fits, l, FrameHeader
  <2> QED
    BY <2>2, <2>3 DEF l
<1>3. ASSUME NEW at \in 0 .. n, at \in stop
      PROVE  a[at] \subseteq Seq(FrameRecord) /\ \A p, q \in a[at] : p = q
  <2>1. CASE ~Fits(buf, at, FrameHeader)
    <3>1. a[at] = {<<>>}
      BY <2>1 DEF Some
    <3>2. <<>> \in Seq(FrameRecord)
      OBVIOUS
    <3> HIDE DEF a
    <3> QED
      BY <3>1, <3>2
  <2>2. CASE Fits(buf, at, FrameHeader) /\ ~Fits(buf, at + FrameHeader, len(at))
    <3>1. a[at] = {}
      BY <2>2 DEF None
    <3> HIDE DEF a
    <3> QED
      BY <3>1
  <2>3. CASE Fits(buf, at, FrameHeader) /\ Fits(buf, at + FrameHeader, len(at))
    <3> DEFINE y == FrameAt(buf, at)
    <3>1. a[at] = {<<y>>}
      BY <2>3 DEF Some
    <3>2. y \in FrameRecord
      BY <2>3, FrameAtType
    <3> HIDE DEF a, y
    <3>3. <<y>> \in Seq(FrameRecord)
      BY <3>2
    <3> QED
      BY <3>1, <3>3
  <2> QED
    BY <2>1, <2>2, <2>3
<1>4. ASSUME NEW g PROVE V(g) <=> Walks(g, 0, n, stop, a, x, next)
  <2> DEFINE l(at) == IF ~Fits(buf, at, FrameHeader) THEN Some(<<>>)
                      ELSE IF ~Fits(buf, at + FrameHeader, len(at)) THEN None
                      ELSE IF FrameAt(buf, at).kind = HEADERS THEN Some(<<FrameAt(buf, at)>>)
                      ELSE {<<FrameAt(buf, at)>> \o rest : rest \in g[at + FrameHeader + len(at)]}
             r(at) == IF at \in stop THEN a[at] ELSE Further(x, at, g[next[at]])
  <2>1. ASSUME NEW at \in 0 .. n PROVE l(at) = r(at)
    <3> DEFINE y == FrameAt(buf, at)
    <3>1. a[at] = (IF ~Fits(buf, at, FrameHeader) THEN Some(<<>>)
                   ELSE IF ~Fits(buf, at + FrameHeader, len(at)) THEN None ELSE Some(<<y>>))
      OBVIOUS
    <3>2. x[at] = y /\ next[at] = at + FrameHeader + len(at)
      OBVIOUS
    <3>3. at \in stop <=> \/ ~Fits(buf, at, FrameHeader) \/ ~Fits(buf, at + FrameHeader, len(at))
                          \/ y.kind = HEADERS
      OBVIOUS
    <3>4. l(at) = IF ~Fits(buf, at, FrameHeader) THEN Some(<<>>)
                  ELSE IF ~Fits(buf, at + FrameHeader, len(at)) THEN None
                  ELSE IF y.kind = HEADERS THEN Some(<<y>>)
                  ELSE {<<y>> \o rest : rest \in g[at + FrameHeader + len(at)]}
      OBVIOUS
    <3> HIDE DEF a, x, next, stop, y, len, l
    <3>5. Further(x, at, g[next[at]]) = {<<y>> \o rest : rest \in g[at + FrameHeader + len(at)]}
      BY <3>2 DEF Further
    <3> QED
      BY <3>1, <3>3, <3>4, <3>5
  <2>2. [at \in 0 .. n |-> l(at)] = [at \in 0 .. n |-> r(at)]
    <3> HIDE DEF l, r, n
    <3> QED
      BY <2>1
  <2> HIDE DEF n, stop, a, x, next
  <2>3. V(g) <=> g = [at \in 0 .. n |-> l(at)]
    OBVIOUS
  <2>4. Walks(g, 0, n, stop, a, x, next) <=> g = [at \in 0 .. n |-> r(at)]
    BY DEF Walks
  <2> HIDE DEF l, r, V
  <2> QED
    BY <2>2, <2>3, <2>4
<1>5. ParsePreamble(buf) = IF IsPrefix(Preface, buf) THEN f[Len(Preface)] ELSE None
  BY DEF ParsePreamble
<1> DEFINE u(at) == FramesFrom(buf, f, at)
<1>7. V(f) => f = [at \in 0 .. n |-> u(at)]
  BY DEF FramesFrom
<1> HIDE DEF n, stop, a, x, next, V, u
<1>8. \E g : Walks(g, 0, n, stop, a, x, next)
  BY <1>1, <1>2, WalkExists
<1>9. V(f)
  <2>1. \E g : V(g)
    BY <1>4, <1>8
  <2> QED
    BY <2>1
<1> HIDE DEF f
<1>10. Walks(f, 0, n, stop, a, x, next)
  BY <1>4, <1>9
<1>11. Advances(n, stop, a, x, next, FrameRecord)
  BY <1>2, <1>3 DEF Advances
<1>12. FindsOne(f, n, FrameRecord)
  BY <1>1, <1>10, <1>11, WalkFindsOne
<1>13. \A at \in 0 .. n : f[at] = FramesFrom(buf, f, at)
  BY <1>7, <1>9 DEF u
<1>14. Preambles(buf, f)
  BY ONLY <1>5, <1>12, <1>13 DEF Preambles, n
<1> QED
  BY <1>14

(* Bytes are read as frames in one way at most. *)
LEMMA ParsePreambleOne ==
  ASSUME NEW buf \in Seq(Octet)
  PROVE  ParsePreamble(buf) \subseteq Seq(FrameRecord) /\ AtMostOne(ParsePreamble(buf))
<1>1. PICK f : Preambles(buf, f)
  BY PreambleUnfolds
<1>2. Len(Preface) = 24 /\ Preface \in Seq(Octet)
  BY PrefaceType
<1>3. IsPrefix(Preface, buf) => 24 \in 0 .. Len(buf)
  BY <1>2 DEF IsPrefix
<1> QED
  BY <1>1, <1>2, <1>3 DEF Preambles, AtMostOne, FindsOne, None

(* The frames of a kind are frames. *)
LEMMA OfKindType ==
  ASSUME NEW frames \in Seq(FrameRecord), NEW kind
  PROVE  OfKind(frames, kind) \in Seq(FrameRecord)
BY ElementsAtType DEF OfKind, Keep

(* Settings are read as pairs of numbers. *)
LEMMA PairsOfType ==
  ASSUME NEW payload \in Seq(Octet)
  PROVE  PairsOf(payload) \in Seq(Nat \X Nat)
<1> DEFINE w == Len(payload) \div 6
           e == [n \in 1 .. w |->
                  << U16(payload, 6 * (n - 1)),
                     16777216 * U8(payload, 6 * n - 4) + U24(payload, 6 * n - 3) >>]
<1>1. Len(payload) \in Nat /\ w \in Nat /\ 6 * w <= Len(payload)
  OBVIOUS
<1>2. ASSUME NEW n \in 1 .. w
      PROVE  << U16(payload, 6 * (n - 1)),
                16777216 * U8(payload, 6 * n - 4) + U24(payload, 6 * n - 3) >> \in Nat \X Nat
  <2>1. /\ 6 * (n - 1) \in Nat /\ 6 * n - 4 \in Nat /\ 6 * n - 3 \in Nat
        /\ Fits(payload, 6 * (n - 1), 2) /\ Fits(payload, 6 * n - 4, 1)
        /\ Fits(payload, 6 * n - 3, 3)
    <3> HIDE DEF w
    <3> QED
      BY <1>1 DEF Fits
  <2>2. /\ U16(payload, 6 * (n - 1)) \in Nat /\ U8(payload, 6 * n - 4) \in Nat
        /\ U24(payload, 6 * n - 3) \in Nat
    BY <2>1, NumbersType
  <2> DEFINE p == U16(payload, 6 * (n - 1))
             q == U8(payload, 6 * n - 4)
             r == U24(payload, 6 * n - 3)
  <2> HIDE DEF p, q, r
  <2>3. p \in Nat /\ 16777216 * q + r \in Nat
    BY <2>2 DEF p, q, r
  <2> QED
    BY <2>3 DEF p, q, r
<1>3. e \in Seq(Nat \X Nat)
  <2> DEFINE v(n) == << U16(payload, 6 * (n - 1)),
                        16777216 * U8(payload, 6 * n - 4) + U24(payload, 6 * n - 3) >>
             P == Nat \X Nat
  <2>1. \A n \in 1 .. w : v(n) \in P
    BY <1>2
  <2>2. e = [n \in 1 .. w |-> v(n)]
    OBVIOUS
  <2>3. w \in Nat
    BY <1>1
  <2> HIDE DEF v, e, w, P
  <2>4. e \in [1 .. w -> P]
    BY <2>1, <2>2
  <2>5. e \in Seq(P)
    BY <2>3, <2>4
  <2> QED
    BY <2>5 DEF P
<1>4. <<>> \in Seq(Nat \X Nat)
  OBVIOUS
<1>5. PairsOf(payload) = IF Len(payload) % 6 # 0 THEN <<>> ELSE e
  BY DEF PairsOf
<1> HIDE DEF e
<1> QED
  BY <1>3, <1>4, <1>5

(* A sequence of sequences, one for each frame of some kind, put together.  *)
LEMMA FlattenFrames ==
  ASSUME NEW T, NEW frames \in Seq(FrameRecord), NEW e, DOMAIN e = DOMAIN frames,
         e = [n \in DOMAIN frames |-> e[n]],
         \A n \in 1 .. Len(frames) : e[n] \in Seq(T)
  PROVE  FlattenSeq(e) \in Seq(T)
<1>1. Len(frames) \in Nat /\ DOMAIN frames = 1 .. Len(frames)
  OBVIOUS
<1>2. e \in [1 .. Len(frames) -> Seq(T)]
  BY <1>1
<1> QED
  BY <1>1, <1>2, FlattenEach

(* What a frame carries is bytes. *)
LEMMA PayloadIsBytes ==
  ASSUME NEW frames \in Seq(FrameRecord)
  PROVE  /\ DOMAIN frames = 1 .. Len(frames) /\ Len(frames) \in Nat
         /\ \A n \in 1 .. Len(frames) : frames[n].payload \in Seq(Octet)
<1>1. Len(frames) \in Nat /\ DOMAIN frames = 1 .. Len(frames)
      /\ \A n \in 1 .. Len(frames) : frames[n] \in FrameRecord
  OBVIOUS
<1>2. \A x \in FrameRecord : x.payload \in Seq(Octet)
  BY DEF FrameRecord
<1> QED
  BY <1>1, <1>2

(* The settings of a connection are pairs of numbers. *)
LEMMA SettingsPairsType ==
  ASSUME NEW frames \in Seq(FrameRecord)
  PROVE  SettingsPairs(frames) \in Seq(Nat \X Nat)
<1> DEFINE s == OfKind(frames, SETTINGS)
           e == [n \in DOMAIN s |-> PairsOf(s[n].payload)]
<1>1. s \in Seq(FrameRecord)
  BY OfKindType
<1> HIDE DEF s
<1>2. \A n \in 1 .. Len(s) : s[n].payload \in Seq(Octet)
  BY <1>1, PayloadIsBytes
<1>3. \A n \in 1 .. Len(s) : PairsOf(s[n].payload) \in Seq(Nat \X Nat)
  BY <1>2, PairsOfType
<1>4. DOMAIN s = 1 .. Len(s)
  BY <1>1
<1>5. DOMAIN e = DOMAIN s /\ \A n \in 1 .. Len(s) : e[n] \in Seq(Nat \X Nat)
  BY <1>3, <1>4
<1>6. e = [n \in DOMAIN s |-> e[n]]
  OBVIOUS
<1>7. SettingsPairs(frames) = FlattenSeq(e)
  BY DEF SettingsPairs, s
<1> HIDE DEF e
<1> QED
  BY <1>1, <1>5, <1>6, <1>7, FlattenFrames

(* A window's increment is a number. *)
LEMMA WindowUpdateType ==
  ASSUME NEW frames \in Seq(FrameRecord)
  PROVE  WindowUpdate(frames) \subseteq Nat
<1> DEFINE s == OfKind(frames, WINDOWUPDATE)
<1> SUFFICES ASSUME s # <<>>, Fits(Head(s).payload, 0, 4)
             PROVE  U31(Head(s).payload, 0) \in Nat
  BY DEF WindowUpdate, Some, None
<1>1. s \in Seq(FrameRecord)
  BY OfKindType
<1> HIDE DEF s
<1>2. Head(s) \in FrameRecord
  BY <1>1
<1>3. Head(s).payload \in Seq(Octet) /\ 0 \in Nat
  BY <1>2 DEF FrameRecord
<1> QED
  BY <1>3, NumbersType

(* What a frame adds to a header block is bytes. *)
LEMMA FragmentType ==
  ASSUME NEW f \in FrameRecord
  PROVE  HeaderBlockFragment(f) \in Seq(Octet)
<1> DEFINE p == f.payload
           from == (IF Flag(f, Padded) THEN 1 ELSE 0) + (IF Flag(f, HasPriority) THEN 5 ELSE 0)
           pad == IF Flag(f, Padded) THEN U8(p, 0) ELSE 0
<1>1. p \in Seq(Octet) /\ Len(p) \in Nat
  <2>1. p \in Seq(Octet)
    BY DEF FrameRecord
  <2> HIDE DEF p
  <2> QED
    BY <2>1
<1>2. HeaderBlockFragment(f) = IF ~Fits(p, 0, 1) \/ ~Fits(p, from, pad) THEN <<>>
                               ELSE Take(p, from, Len(p) - from - pad)
  BY DEF HeaderBlockFragment
<1>3. from \in Nat
  OBVIOUS
<1>4. <<>> \in Seq(Octet)
  OBVIOUS
<1>5. Fits(p, 0, 1) => pad \in Nat
  <2>1. 0 \in Nat
    OBVIOUS
  <2>2. Fits(p, 0, 1) => U8(p, 0) \in Nat
    BY <1>1, <2>1, NumbersType
  <2> QED
    BY <2>2
<1> HIDE DEF p, from, pad
<1>6. ASSUME Fits(p, 0, 1), Fits(p, from, pad)
      PROVE  Take(p, from, Len(p) - from - pad) \in Seq(Octet)
  <2>1. pad \in Nat
    BY <1>5, <1>6
  <2>2. Len(p) - from - pad \in Nat /\ Fits(p, from, Len(p) - from - pad)
    BY <1>1, <1>3, <1>6, <2>1 DEF Fits
  <2> QED
    BY <1>1, <1>3, <2>2, TakeFacts
<1> QED
  BY <1>2, <1>4, <1>6

(* The header block of frames is bytes, or missing. *)
LEMMA BlockOfType ==
  ASSUME NEW frames \in Seq(FrameRecord)
  PROVE  BlockOf(frames) \in Seq(Octet)
<1> DEFINE s == Keep(OfKind(frames, HEADERS), LAMBDA f : Flag(f, EndHeaders))
           e == [n \in DOMAIN s |-> HeaderBlockFragment(s[n])]
<1>1. s \in Seq(FrameRecord)
  BY OfKindType, ElementsAtType DEF Keep
<1>2. BlockOf(frames) = FlattenSeq(e)
  BY DEF BlockOf
<1> HIDE DEF s
<1>3. \A n \in 1 .. Len(s) : s[n] \in FrameRecord
  BY <1>1
<1>4. \A n \in 1 .. Len(s) : HeaderBlockFragment(s[n]) \in Seq(Octet)
  BY <1>3, FragmentType
<1>5. DOMAIN s = 1 .. Len(s)
  BY <1>1
<1>6. DOMAIN e = DOMAIN s /\ \A n \in 1 .. Len(s) : e[n] \in Seq(Octet)
  BY <1>4, <1>5
<1>7. e = [n \in DOMAIN s |-> e[n]]
  OBVIOUS
<1> HIDE DEF e
<1> QED
  BY <1>1, <1>2, <1>6, <1>7, FlattenFrames

(* What Connect decodes is bytes, however the capture ended. *)
LEMMA BlockIsBytes ==
  ASSUME NEW s \in Seq(Octet)
  PROVE  OrEmpty({BlockOf(f) : f \in ParsePreamble(s)}) \in Seq(Octet)
<1>1. ParsePreamble(s) \subseteq Seq(FrameRecord)
  BY ParsePreambleOne
<1>2. {BlockOf(f) : f \in ParsePreamble(s)} \subseteq Seq(Octet)
  <2>1. \A f \in ParsePreamble(s) : BlockOf(f) \in Seq(Octet)
    BY <1>1, BlockOfType
  <2> QED
    BY <2>1
<1> QED
  BY <1>2, OrEmptyType

(* The names of decoded fields are bytes. *)
LEMMA NamesOfType ==
  ASSUME NEW headers \in Seq(Entry)
  PROVE  NamesOf(headers) \in Seq(Seq(Octet))
<1> DEFINE N == Seq(Octet)
<1>1. Len(headers) \in Nat /\ DOMAIN headers = 1 .. Len(headers)
      /\ \A n \in 1 .. Len(headers) : headers[n] \in Entry
  OBVIOUS
<1>2. \A x \in Entry : x.name \in N
  BY DEF Entry
<1> HIDE DEF N
<1>3. NamesOf(headers) \in Seq(N)
  BY <1>1, <1>2 DEF NamesOf
<1> QED
  BY <1>3 DEF N

(* The order of pseudo-headers is initials. *)
LEMMA PseudoOrderType ==
  ASSUME NEW headers \in Seq(Entry)
  PROVE  PseudoOrder(headers) \in Seq(Pseudo)
<1> DEFINE names == NamesOf(headers)
           N == Seq(Octet)
<1>1. names \in Seq(N)
  BY NamesOfType
<1>2. PseudoOrder(headers) = Keeping(names, Pseudo)
  BY DEF PseudoOrder, Keep, Keeping
<1> HIDE DEF names, N
<1>3. \A x \in N : x \in Pseudo => x \in Pseudo
  OBVIOUS
<1>4. Keeping(names, Pseudo) \in Seq(Pseudo)
  BY <1>1, <1>3, KeepingType
<1> QED
  BY <1>2, <1>4

(* The names that are kept are bytes. *)
LEMMA RegularNamesType ==
  ASSUME NEW headers \in Seq(Entry)
  PROVE  RegularNames(headers) \in Seq(Seq(Octet))
BY NamesOfType, ElementsAtType DEF RegularNames, Keep

(* What is compared of a preamble is a string of numbers. *)
LEMMA ComparableType ==
  ASSUME NEW names \in Seq(Seq(Octet))
  PROVE  Comparable(names) \in Seq(Seq(Octet)) /\ Len(Comparable(names)) \in Nat
<1>1. Comparable(names) \in Seq(Seq(Octet))
  BY ElementsAtType DEF Comparable, Keep
<1> QED
  BY <1>1

H2Typed(h) ==
  /\ h.settings \in Seq(Nat \X Nat) /\ h.window \subseteq Nat /\ h.pseudo \in Seq(Pseudo)
  /\ h.headers \in Seq(Entry)
  /\ h.http.names \in Seq(Seq(Octet)) /\ h.http.count \in Nat /\ h.http.language \in BOOLEAN

(* What is kept of a preamble is the HTTP/2 half of a report. *)
LEMMA H2OfTyped ==
  ASSUME NEW frames \in Seq(FrameRecord), NEW headers \in Seq(Entry)
  PROVE  H2Typed(H2Of(frames, headers))
<1> DEFINE p == HttpProfile(headers)
<1>1. /\ p.names = RegularNames(headers)
      /\ p.count = Len(Comparable(RegularNames(headers)))
      /\ p.language = (Language \in ToSet(RegularNames(headers)))
  BY DEF HttpProfile
<1>2. /\ H2Of(frames, headers).settings = SettingsPairs(frames)
      /\ H2Of(frames, headers).window = WindowUpdate(frames)
      /\ H2Of(frames, headers).pseudo = PseudoOrder(headers)
      /\ H2Of(frames, headers).headers = headers
      /\ H2Of(frames, headers).http = p
  BY DEF H2Of
<1>3. RegularNames(headers) \in Seq(Seq(Octet))
  BY RegularNamesType
<1>4. Len(Comparable(RegularNames(headers))) \in Nat
  BY <1>3, ComparableType
<1>5. p.language \in BOOLEAN
  BY <1>1
<1> HIDE DEF p
<1> QED
  BY <1>1, <1>2, <1>3, <1>4, <1>5, SettingsPairsType, WindowUpdateType, PseudoOrderType DEF H2Typed

-----------------------------------------------------------------------------
(* Reports and the profiles made of them *)

Reported(r) ==
  /\ TlsTyped(r.tls)
  /\ \A h \in r.h2 : H2Typed(h)
  /\ AtMostOne(r.h2)

H2Kept == [settings : Seq(Nat \X Nat), window : SUBSET Nat, pseudo : Seq(Pseudo)]
HttpKept == [names : Seq(Seq(Octet)), count : Nat, language : BOOLEAN]

(* The HTTP/2 half that is kept is the half of a report, or missing. *)
LEMMA H2KeptType ==
  ASSUME NEW h, H2Typed(h)
  PROVE  /\ [settings |-> h.settings, window |-> h.window, pseudo |-> h.pseudo] \in H2Kept
         /\ [names |-> Comparable(h.http.names), count |-> h.http.count,
             language |-> h.http.language] \in HttpKept
<1>1. /\ h.settings \in Seq(Nat \X Nat) /\ h.window \subseteq Nat /\ h.pseudo \in Seq(Pseudo)
      /\ h.http.names \in Seq(Seq(Octet)) /\ h.http.count \in Nat /\ h.http.language \in BOOLEAN
  BY DEF H2Typed
<1>2. Comparable(h.http.names) \in Seq(Seq(Octet))
  BY <1>1, ComparableType
<1> QED
  BY <1>1, <1>2 DEF H2Kept, HttpKept

(* A profile of one sample is a profile. *)
LEMMA ProfileOfType ==
  ASSUME NEW r, Reported(r), NEW label \in {"captured"}
  PROVE  ProfileOf(r, label) \in ProfileType
<1> DEFINE a == PreSharedKey \in ToSet(r.tls.extensions)
           c == Strip(r.tls.ciphers)
           e == Strip(r.tls.extensions)
           h == {[settings |-> x.settings, window |-> x.window, pseudo |-> x.pseudo] : x \in r.h2}
           k == {[names |-> Comparable(x.http.names), count |-> x.http.count,
                  language |-> x.http.language] : x \in r.h2}
           u == "unknown"
           n == ""
           gc == r.tls.greaseCiphers
           ge == r.tls.greaseExts
           al == r.tls.alpn
           sn == r.tls.hasSni
<1>1. TlsTyped(r.tls) /\ \A x \in r.h2 : H2Typed(x)
  BY DEF Reported
<1>2. /\ r.tls.ciphers \in Seq(Nat) /\ r.tls.extensions \in Seq(Nat)
      /\ r.tls.greaseCiphers \in SUBSET Nat /\ r.tls.greaseExts \in SUBSET Nat
      /\ r.tls.alpn \in SUBSET Seq(Octet) /\ r.tls.hasSni \in BOOLEAN
  BY <1>1 DEF TlsTyped
<1>3. c \in Seq(Nat) /\ e \in Seq(Nat)
  BY <1>2, StripType
<1>4. h \in SUBSET H2Kept /\ k \in SUBSET HttpKept
  BY <1>1, H2KeptType
<1>8. u \in Order
  BY DEF Order
<1>9. a \in BOOLEAN
  OBVIOUS
<1>6. ProfileOf(r, label) =
        [label |-> label, family |-> n, resumed |-> a, cipherOrder |-> u, extensionOrder |-> u,
         ciphers |-> c, extensions |-> e, greaseCiphers |-> gc, greaseExts |-> ge,
         alpn |-> al, hasSni |-> sn, h2 |-> h, http |-> k]
  BY DEF ProfileOf
<1> DEFINE L == {"captured"} \cup STRING
           F == {""} \cup STRING
           N == Seq(Nat)
           A == SUBSET Seq(Octet)
           S == SUBSET Nat
           H == SUBSET H2Kept
           K == SUBSET HttpKept
<1>7. ProfileType =
        [label : L, family : F, resumed : BOOLEAN, cipherOrder : Order,
         extensionOrder : Order, ciphers : N, extensions : N, greaseCiphers : S,
         greaseExts : S, alpn : A, hasSni : BOOLEAN, h2 : H, http : K]
  BY DEF ProfileType, H2Kept, HttpKept
<1>5. n \in F /\ label \in L
  OBVIOUS
<1> HIDE DEF a, c, e, h, k, u, n, gc, ge, al, sn, L, F, N, A, S, H, K
<1>10. /\ c \in N /\ e \in N /\ gc \in S /\ ge \in S
       /\ al \in A /\ sn \in BOOLEAN /\ h \in H /\ k \in K
  BY <1>2, <1>3, <1>4 DEF N, A, S, H, K, gc, ge, al, sn
<1> QED
  BY <1>5, <1>6, <1>7, <1>8, <1>9, <1>10

(* An inferred order is one of the two. *)
LEMMA InferOrderType == \A s : InferOrder(s) \in Order
BY DEF InferOrder, Order

(* A profile of samples is a profile, with their label. *)
LEMMA ProfileFromType ==
  ASSUME NEW reports, Reported(Last(reports)), NEW label \in {"captured"}
  PROVE  ProfileFrom(reports, label) \in ProfileType /\ ProfileFrom(reports, label).label = label
<1> DEFINE p == ProfileOf(Last(reports), label)
           a == InferOrder([n \in DOMAIN reports |-> Strip(reports[n].tls.ciphers)])
           b == InferOrder([n \in DOMAIN reports |-> Strip(reports[n].tls.extensions)])
           q == [p EXCEPT !.cipherOrder = a]
<1>1. p \in ProfileType /\ p.label = label
  BY ProfileOfType DEF ProfileOf
<1>2. a \in Order /\ b \in Order
  BY InferOrderType
<1>3. ProfileFrom(reports, label) = [p EXCEPT !.cipherOrder = a, !.extensionOrder = b]
  BY DEF ProfileFrom
<1> HIDE DEF p, a, b
<1> DEFINE L == {"captured"} \cup STRING
           F == {""} \cup STRING
           N == Seq(Nat)
           A == SUBSET Seq(Octet)
           S == SUBSET Nat
           H == SUBSET H2Kept
           K == SUBSET HttpKept
<1>4. ProfileType =
        [label : L, family : F, resumed : BOOLEAN, cipherOrder : Order,
         extensionOrder : Order, ciphers : N, extensions : N,
         greaseCiphers : S, greaseExts : S,
         alpn : A, hasSni : BOOLEAN, h2 : H, http : K]
  BY DEF ProfileType, H2Kept, HttpKept
<1> HIDE DEF L, F, N, A, S, H, K
<1> QED
  BY <1>1, <1>2, <1>3, <1>4, ZenonT(40)

(* The protocols of a profile are bytes. *)
LEMMA ProtocolsType ==
  ASSUME NEW p, p.alpn \subseteq Seq(Octet)
  PROVE  Protocols(p) \in Seq(Seq(Octet))
<1> DEFINE T == Seq(Octet)
<1>1. Http11 \in T
  BY DEF Http11, Octet
<1>2. \A x \in p.alpn : x \in T
  OBVIOUS
<1> HIDE DEF T
<1>3. \A x \in T : <<x, Http11>> \in Seq(T)
  BY <1>1
<1>4. {<<x, Http11>> : x \in p.alpn} \subseteq Seq(T)
  BY <1>2, <1>3
<1>5. OrEmpty({<<x, Http11>> : x \in p.alpn}) \in Seq(T)
  BY <1>4, OrEmptyType
<1> QED
  BY <1>5 DEF Protocols, T

(* What the emulator builds from a profile is a client. *)
LEMMA BuildSaysHello ==
  ASSUME NEW p \in ProfileType
  PROVE  SaysHello(Build(p))
<1>1. p.ciphers \in Seq(Nat) /\ p.alpn \subseteq Seq(Octet)
  <2>1. p.ciphers \in Seq(Nat) /\ p.alpn \in SUBSET Seq(Octet)
    BY DEF ProfileType
  <2> QED
    BY <2>1
<1>2. CipherList(p) \in Seq(Nat)
  BY <1>1, ElementsAtType DEF CipherList, Keep
<1>3. Tls13 \in Seq(Nat)
  BY DEF Tls13
<1>4. Build(p).ciphers \in Seq(Nat)
  <2> DEFINE l == IF CipherList(p) = <<>> THEN BoringCiphers ELSE CipherList(p)
  <2>1. l \in Seq(Nat)
    BY <1>2, BoringAssumption
  <2>2. Build(p).ciphers = Tls13 \o l
    BY DEF Build
  <2> HIDE DEF l
  <2> QED
    BY <1>3, <2>1, <2>2, ConcatType
<1>5. Build(p).extensions \in Seq(Nat)
  BY BoringAssumption, ElementsAtType DEF Build, Keep
<1>6. Build(p).protocols \in Seq(Seq(Octet))
  BY <1>1, ProtocolsType DEF Build
<1> QED
  BY <1>4, <1>5, <1>6 DEF SaysHello

-----------------------------------------------------------------------------
(* What the writer of a block means *)

PeerCosts(es) == [n \in 1 .. Len(es) |-> PeerCost(es[n])]

Fits2(max, n, cost, len) == cost[n] <= max /\ \A m \in n + 1 .. len : cost[m] > max

(* Some longest front of a table is no larger than its limit. *)
LEMMA LastThatFits ==
  ASSUME NEW max \in Nat, NEW len \in Nat, NEW cost, cost[0] = 0,
         \A m \in 0 .. len : cost[m] \in Nat
  PROVE  \E n \in 0 .. len : Fits2(max, n, cost, len)
<1> DEFINE S == {k \in Nat : \A m \in k + 1 .. len : cost[m] > max}
<1>1. len \in S
  OBVIOUS
<1>2. PICK k \in S : \A m \in S : k <= m
  BY <1>1, LeastElement
<1>3. k \in 0 .. len
  BY <1>1, <1>2
<1>4. cost[k] <= max
  <2>1. CASE k = 0
    BY <2>1
  <2>2. CASE k # 0
    <3>1. k - 1 \in Nat /\ k - 1 \notin S
      BY <1>2, <1>3, <2>2
    <3>2. PICK m \in k .. len : ~(cost[m] > max)
      BY <3>1
    <3>3. m = k
      BY <1>2, <3>2
    <3>4. cost[k] \in Nat
      BY <1>3
    <3> QED
      BY <3>2, <3>3, <3>4
  <2> QED
    BY <2>1, <2>2
<1>5. \A m \in k + 1 .. len : cost[m] > max
  BY <1>2
<1> QED
  BY <1>3, <1>4, <1>5 DEF Fits2

(* What a peer's table keeps is entries, no larger than its limit. *)
LEMMA FittingType ==
  ASSUME NEW es \in Seq(Entry), NEW max \in Nat
  PROVE  Fitting(es, max) \in Seq(Entry)
<1> DEFINE n == Len(es)
           V(g) == g = [k \in 0 .. n |-> IF k = 0 THEN 0 ELSE g[k - 1] + PeerCost(es[k])]
           f == CHOOSE g : V(g)
           last == CHOOSE k \in 0 .. n : f[k] <= max /\ \A m \in k + 1 .. n : f[m] > max
<1>1. n \in Nat /\ \A k \in 1 .. n : es[k] \in Entry
  OBVIOUS
<1>2. Fitting(es, max) = SubSeq(es, 1, last)
  BY DEF Fitting
<1>3. ASSUME NEW g PROVE V(g) <=> Totals(g, 0, PeerCosts(es), 0 .. n)
  <2>1. \A k \in 0 .. n : k # 0 => PeerCosts(es)[k] = PeerCost(es[k])
    BY DEF PeerCosts
  <2> HIDE DEF n
  <2>2. [k \in 0 .. n |-> IF k = 0 THEN 0 ELSE g[k - 1] + PeerCost(es[k])]
          = [k \in 0 .. n |-> IF k = 0 THEN 0 ELSE g[k - 1] + PeerCosts(es)[k]]
    BY <2>1
  <2> QED
    BY <2>2 DEF Totals
<1>4. \E g : V(g)
  <2>1. \E g : Totals(g, 0, PeerCosts(es), 0 .. n)
    BY <1>1, TotalsUpTo
  <2> HIDE DEF V, n
  <2> QED
    BY <1>3, <2>1
<1>5. V(f)
  <2> HIDE DEF V
  <2> QED
    BY <1>4
<1>6. Totals(f, 0, PeerCosts(es), 0 .. n)
  <2> HIDE DEF f, V
  <2> QED
    BY <1>3, <1>5
<1>7. \A k \in 1 .. n : PeerCosts(es)[k] \in Nat
  <2>1. \A e \in Entry : PeerCost(e) \in Nat
    BY PeerAssumption DEF Entry, PeerCost
  <2>2. \A k \in 1 .. n : PeerCosts(es)[k] = PeerCost(es[k])
    BY DEF PeerCosts
  <2> QED
    BY <1>1, <2>1, <2>2
<1> DEFINE w == PeerCosts(es)
<1> HIDE DEF f, V, n, w
<1>8. \A m \in 0 .. n : f[m] \in Nat
  <2> SUFFICES ASSUME NEW m \in 0 .. n PROVE f[m] \in Nat
    OBVIOUS
  <2>1. /\ 0 \in Nat /\ n \in Nat /\ m \in Nat /\ m <= n
        /\ (\A k \in 1 .. m : w[k] \in Nat) /\ Totals(f, 0, w, 0 .. n)
    BY <1>1, <1>6, <1>7 DEF w
  <2> QED
    BY <2>1, TotalsAreNat
<1>9. f[0] = 0
  BY <1>1, <1>6 DEF Totals
<1>10. \E k \in 0 .. n : Fits2(max, k, f, n)
  BY <1>1, <1>8, <1>9, LastThatFits
<1>11. last \in 0 .. n
  BY <1>10 DEF Fits2
<1> HIDE DEF last
<1>12. SubSeq(es, 1, last) \in Seq(Entry)
  BY <1>11 DEF n
<1> QED
  BY <1>2, <1>12

PeerType == [meant : Seq(Entry), entries : Seq(Entry), max : Nat, legal : BOOLEAN]

(* A representation that a peer may write means an entry. *)
LEMMA MeantFieldType ==
  ASSUME NEW peer \in PeerType, NEW w \in WriteType, w.do # "size",
         Known(peer, w.index) \/ (w.do # "index" /\ w.index = 0)
  PROVE  MeantField(peer, w) \in Entry
<1> DEFINE table == StaticTable \o peer.entries
<1>1. table \in Seq(Entry)
  <2>1. peer.entries \in Seq(Entry)
    BY DEF PeerType
  <2> QED
    BY <2>1, StringsAssumption, ConcatType
<1>2. w.name \in Seq(Octet) /\ w.value \in Seq(Octet) /\ w.index \in Nat
  BY DEF WriteType
<1>3. Known(peer, w.index) <=> w.index \in 1 .. Len(table)
  BY DEF Known
<1>4. MeantField(peer, w) = IF w.do = "index" THEN table[w.index]
                            ELSE Field(IF w.index = 0 THEN w.name ELSE table[w.index].name, w.value)
  BY DEF MeantField
<1> HIDE DEF table
<1>5. Known(peer, w.index) => table[w.index] \in Entry
  BY <1>1, <1>3
<1>6. \A e \in Entry : e.name \in Seq(Octet)
  BY DEF Entry
<1>7. \A a \in Seq(Octet), b \in Seq(Octet) : Field(a, b) \in Entry
  BY DEF Field, Entry
<1>8. CASE w.do = "index"
  BY <1>4, <1>5, <1>8
<1>9. CASE w.do # "index"
  <2>1. (IF w.index = 0 THEN w.name ELSE table[w.index].name) \in Seq(Octet)
    BY <1>2, <1>5, <1>6, <1>9
  <2> QED
    BY <1>2, <1>4, <1>7, <1>9, <2>1
<1> QED
  BY <1>8, <1>9

(* What a peer's table becomes is entries. *)
LEMMA PeerWritesType ==
  ASSUME NEW peer \in PeerType, NEW w \in WriteType
  PROVE  PeerWrites(peer, w) \in PeerType
<1> DEFINE E == Seq(Entry)
<1>0. PeerType = [meant : E, entries : E, max : Nat, legal : BOOLEAN]
  BY DEF PeerType
<1>1. peer.meant \in E /\ peer.entries \in E /\ peer.max \in Nat /\ peer.legal \in BOOLEAN
  BY <1>0
<1>2. w.index \in Nat
  BY DEF WriteType
<1>3. CASE w.do = "size"
  <2> DEFINE k == Fitting(peer.entries, w.index)
  <2>1. k \in E
    BY <1>1, <1>2, FittingType
  <2>2. PeerWrites(peer, w) = [peer EXCEPT !.max = w.index, !.entries = k]
    BY <1>3 DEF PeerWrites
  <2> HIDE DEF k, E
  <2> QED
    BY <1>0, <1>2, <2>1, <2>2, ZenonT(40)
<1>4. CASE w.do # "size" /\ ~Known(peer, w.index) /\ (w.do = "index" \/ w.index # 0)
  <2>1. PeerWrites(peer, w) = [peer EXCEPT !.legal = FALSE]
    BY <1>4 DEF PeerWrites
  <2> HIDE DEF E
  <2> QED
    BY <1>0, <2>1
<1>5. CASE w.do # "size" /\ ~(~Known(peer, w.index) /\ (w.do = "index" \/ w.index # 0))
  <2> DEFINE m == MeantField(peer, w)
             a == Append(peer.meant, m)
             b == IF w.do = "insert" THEN Fitting(<<m>> \o peer.entries, peer.max) ELSE peer.entries
  <2>1. m \in Entry
    BY <1>5, MeantFieldType
  <2>2. PeerWrites(peer, w) = [peer EXCEPT !.meant = a, !.entries = b]
    BY <1>5 DEF PeerWrites
  <2> HIDE DEF m
  <2>3. a \in E
    BY <1>1, <2>1
  <2>4. <<m>> \o peer.entries \in E
    BY <1>1, <2>1, ConcatType
  <2>5. b \in E
    BY <1>1, <2>4, FittingType
  <2> HIDE DEF a, b, E
  <2> QED
    BY <1>0, <2>2, <2>3, <2>5, ZenonT(40)
<1> QED
  BY <1>3, <1>4, <1>5

(* A peer's table as a block is written, from one write to the next. *)
NewPeer == [meant |-> <<>>, entries |-> <<>>, max |-> PeerMax, legal |-> TRUE]
PeerRun(f, plan) ==
  /\ f \in [0 .. Len(plan) -> PeerType]
  /\ f[0] = NewPeer /\ f[Len(plan)] = Peer(plan)
  /\ \A k \in 1 .. Len(plan) : f[k] = PeerWrites(f[k - 1], plan[k])

(* There is such a run for every plan. *)
LEMMA PeerRuns ==
  ASSUME NEW plan \in Seq(WriteType)
  PROVE  \E f : PeerRun(f, plan)
<1> DEFINE n == Len(plan)
           b == [meant |-> <<>>, entries |-> <<>>, max |-> PeerMax, legal |-> TRUE]
           V(g) == g = [k \in 0 .. n |-> IF k = 0 THEN b ELSE PeerWrites(g[k - 1], plan[k])]
           f == CHOOSE g : V(g)
           X == PeerType
           step == [p \in X \X (1 .. n) |-> PeerWrites(p[1], plan[p[2]])]
<1>1. n \in Nat /\ \A k \in 1 .. n : plan[k] \in WriteType
  OBVIOUS
<1>2. b \in X
  <2>1. <<>> \in Seq(Entry)
    OBVIOUS
  <2> QED
    BY <2>1, PeerAssumption DEF PeerType
<1>3. Peer(plan) = f[n]
  BY DEF Peer
<1>4. \A x \in X : \A k \in 1 .. n : PeerWrites(x, plan[k]) \in X
  BY <1>1, PeerWritesType
<1>5. step \in [X \X (1 .. n) -> X] /\ \A x \in X : \A k \in 1 .. n : step[<<x, k>>] = PeerWrites(x, plan[k])
  <2> HIDE DEF X, n
  <2> QED
    BY <1>4
<1> HIDE DEF n, b, step, X
<1>6. PICK g \in [0 .. n -> X] : Runs(g, b, step, n)
  BY <1>1, <1>2, <1>5, RunsExist
<1>7. Unfolded(g, b, step, n)
  BY <1>1, <1>6, RunsUnfold
<1>8. V(g)
  <2>1. ASSUME NEW k \in 0 .. n PROVE g[k] = IF k = 0 THEN b ELSE PeerWrites(g[k - 1], plan[k])
    <3>1. CASE k = 0
      BY <1>7, <3>1 DEF Unfolded
    <3>2. CASE k # 0
      <4>1. k \in 1 .. n /\ k - 1 \in 0 .. n
        BY <1>1, <3>2
      <4>2. g[k] = step[<<g[k - 1], k>>]
        BY <1>7, <4>1 DEF Unfolded
      <4>3. g[k - 1] \in X
        BY <4>1
      <4> QED
        BY <1>5, <3>2, <4>1, <4>2, <4>3
    <3> QED
      BY <3>1, <3>2
  <2>2. g = [k \in 0 .. n |-> g[k]]
    OBVIOUS
  <2> QED
    BY <2>1, <2>2
<1>9. V(f)
  <2>1. \E h : V(h)
    BY <1>8
  <2> HIDE DEF V
  <2> QED
    BY <2>1
<1> HIDE DEF f
<1> DEFINE G == {k \in Nat : k <= n => f[k] \in X}
<1>0. f = [k \in 0 .. n |-> f[k]]
  BY <1>9
<1>10. \A k \in 0 .. n : f[k] = IF k = 0 THEN b ELSE PeerWrites(f[k - 1], plan[k])
  BY <1>9
<1> HIDE DEF V
<1>11. 0 \in G
  BY <1>1, <1>2, <1>10
<1>12. ASSUME NEW k \in Nat, k \in G PROVE k + 1 \in G
  <2> SUFFICES ASSUME k + 1 <= n PROVE f[k + 1] \in X
    OBVIOUS
  <2>1. k + 1 \in 1 .. n /\ k + 1 \in 0 .. n /\ k + 1 # 0 /\ k + 1 - 1 = k /\ k <= n
    BY <1>1
  <2>2. f[k + 1] = PeerWrites(f[k], plan[k + 1])
    BY <1>10, <2>1
  <2>3. f[k] \in X
    BY <1>12, <2>1
  <2> QED
    BY <1>4, <2>1, <2>2, <2>3
<1>13. Nat \subseteq G
  <2> HIDE DEF G
  <2> QED
    BY <1>11, <1>12, SetInduction
<1>14. f \in [0 .. n -> X]
  <2>1. \A k \in 0 .. n : f[k] \in X
    BY <1>1, <1>13
  <2> QED
    BY <1>0, <2>1
<1>15. f[0] = b /\ \A k \in 1 .. n : f[k] = PeerWrites(f[k - 1], plan[k])
  <2>1. 0 \in 0 .. n /\ \A k \in 1 .. n : k \in 0 .. n /\ k # 0
    BY <1>1
  <2> QED
    BY <1>10, <2>1
<1>16. PeerRun(f, plan)
  BY <1>3, <1>14, <1>15 DEF PeerRun, NewPeer, n, b, X
<1> QED
  BY <1>16

(* A peer's table is entries throughout a block. *)
LEMMA PeerIs ==
  ASSUME NEW plan \in Seq(WriteType)
  PROVE  Peer(plan) \in PeerType
<1>1. PICK f : PeerRun(f, plan)
  BY PeerRuns
<1>2. Len(plan) \in 0 .. Len(plan)
  OBVIOUS
<1> QED
  BY <1>1, <1>2 DEF PeerRun

-----------------------------------------------------------------------------
(* An identification names at most one profile and tells at most one lie.   *)

IsSequence(s) == \E T : s \in Seq(T)

(* A sequence has a length. *)
LEMMA SequenceLength == ASSUME NEW s, IsSequence(s) PROVE Len(s) \in Nat /\ DOMAIN s = 1 .. Len(s)
<1>1. PICK T : s \in Seq(T)
  BY DEF IsSequence
<1> QED
  BY <1>1

(* A sequence of such elements is over their set. *)
LEMMA SequenceIn ==
  ASSUME NEW s, IsSequence(s), NEW T, \A n \in DOMAIN s : s[n] \in T
  PROVE  s \in Seq(T)
<1>1. PICK U : s \in Seq(U)
  BY DEF IsSequence
<1> QED
  BY <1>1

(* Two sequences are one. *)
LEMMA SequenceConcat ==
  ASSUME NEW s, NEW t, IsSequence(s), IsSequence(t)
  PROVE  IsSequence(s \o t)
<1>1. PICK T : s \in Seq(T)
  BY DEF IsSequence
<1>2. PICK U : t \in Seq(U)
  BY DEF IsSequence
<1> DEFINE W == T \cup U
<1>3. \A x \in T : x \in W
  OBVIOUS
<1>4. \A x \in U : x \in W
  OBVIOUS
<1> HIDE DEF W
<1>5. s \in Seq(W) /\ t \in Seq(W)
  BY <1>1, <1>2, <1>3, <1>4
<1>6. s \o t \in Seq(W)
  BY <1>5, ConcatType
<1> QED
  BY <1>6 DEF IsSequence

(* A sequence and an element are a sequence. *)
LEMMA SequenceAppend ==
  ASSUME NEW s, NEW x, IsSequence(s)
  PROVE  /\ IsSequence(Append(s, x)) /\ Len(Append(s, x)) = Len(s) + 1
         /\ Append(s, x)[Len(s) + 1] = x
         /\ \A n \in DOMAIN Append(s, x) :
              Append(s, x)[n] = x \/ (n \in DOMAIN s /\ Append(s, x)[n] = s[n])
<1>1. PICK T : s \in Seq(T)
  BY DEF IsSequence
<1> DEFINE W == T \cup {x}
<1>2. \A y \in T : y \in W
  OBVIOUS
<1>3. x \in W
  OBVIOUS
<1> HIDE DEF W
<1>4. s \in Seq(W)
  BY <1>1, <1>2
<1>5. /\ Append(s, x) \in Seq(W) /\ Len(Append(s, x)) = Len(s) + 1 /\ Append(s, x)[Len(s) + 1] = x
      /\ \A n \in DOMAIN Append(s, x) :
           Append(s, x)[n] = x \/ (n \in DOMAIN s /\ Append(s, x)[n] = s[n])
  <2> DEFINE a == Append(s, x)
             N == Len(s)
  <2>1. /\ a \in Seq(W) /\ Len(a) = N + 1 /\ N \in Nat /\ a[N + 1] = x
        /\ \A n \in 1 .. N : a[n] = s[n]
    BY ONLY <1>3, <1>4, AppendFacts
  <2>2. DOMAIN s = 1 .. N
    BY ONLY <1>4
  <2> HIDE DEF a, N
  <2>3. DOMAIN a = 1 .. (N + 1)
    BY ONLY <2>1
  <2>4. \A n \in 1 .. (N + 1) : n = N + 1 \/ n \in 1 .. N
    <3>1. N \in Nat
      BY ONLY <2>1
    <3> QED
      BY ONLY <3>1
  <2>5. \A n \in DOMAIN a : a[n] = x \/ (n \in DOMAIN s /\ a[n] = s[n])
    <3>1. a[N + 1] = x /\ \A n \in 1 .. N : a[n] = s[n]
      BY ONLY <2>1
    <3> QED
      BY ONLY <2>2, <2>3, <2>4, <3>1
  <2> QED
    BY ONLY <2>1, <2>5 DEF a, N
<1> QED
  BY <1>5 DEF IsSequence

(* An element that is appended is one of the set. *)
LEMMA SequenceElements ==
  ASSUME NEW s, NEW at, IsSequence(s)
  PROVE  IsSequence(ElementsAt(s, at))
<1>1. PICK T : s \in Seq(T)
  BY DEF IsSequence
<1> QED
  BY <1>1, ElementsAtType DEF IsSequence

(* The parts of a comparison are sequences. *)
LEMMA DiffPartsAre ==
  ASSUME NEW r, NEW p
  PROVE  IsSequence(DiffTls(r, p)) /\ IsSequence(DiffH2(r, p)) /\ IsSequence(DiffHttp(r, p))
<1>1. IsSequence(DiffTls(r, p))
  <2> DEFINE a == Compared("ciphers", SameOrdered(Strip(r.tls.ciphers), p.ciphers, p.cipherOrder))
             b == Compared("extensions", SameOrdered(WithoutPsk(r.tls.extensions),
                                                     WithoutPsk(p.extensions), p.extensionOrder))
             c == Compared("GREASE",
                    /\ Cardinality(r.tls.greaseCiphers) = Cardinality(p.greaseCiphers)
                    /\ Cardinality(r.tls.greaseExts) = Cardinality(p.greaseExts))
             d == Compared("ALPN", r.tls.alpn = p.alpn)
             e == Compared("SNI", r.tls.hasSni = p.hasSni)
  <2>1. DiffTls(r, p) = <<a, b, c, d, e>>
    BY DEF DiffTls
  <2> HIDE DEF a, b, c, d, e
  <2>2. <<a, b, c, d, e>> \in Seq({a, b, c, d, e})
    OBVIOUS
  <2> QED
    BY <2>1, <2>2 DEF IsSequence
<1>2. IsSequence(DiffH2(r, p))
  <2> DEFINE f == Compared("HTTP/2", FALSE)
             got == The(r.h2)
             kept == The(p.h2)
             a == Compared("SETTINGS", got.settings = kept.settings)
             b == Compared("WINDOW_UPDATE", got.window = kept.window)
             c == Compared("pseudo-header", got.pseudo = kept.pseudo)
  <2>1. DiffH2(r, p) = <<>> \/ DiffH2(r, p) = <<f>> \/ DiffH2(r, p) = <<a, b, c>>
    BY DEF DiffH2
  <2> HIDE DEF f, a, b, c
  <2>2. <<>> \in Seq({a}) /\ <<f>> \in Seq({f}) /\ <<a, b, c>> \in Seq({a, b, c})
    OBVIOUS
  <2> QED
    BY <2>1, <2>2 DEF IsSequence
<1>3. IsSequence(DiffHttp(r, p))
  <2> DEFINE got == The(r.h2).http
             kept == The(p.http)
             a == Compared("header order", Comparable(got.names) = kept.names)
             b == Compared("accept-language", got.language = kept.language)
  <2>1. DiffHttp(r, p) = <<>> \/ DiffHttp(r, p) = <<a, b>>
    BY DEF DiffHttp
  <2> HIDE DEF a, b
  <2>2. <<>> \in Seq({a}) /\ <<a, b>> \in Seq({a, b})
    OBVIOUS
  <2> QED
    BY <2>1, <2>2 DEF IsSequence
<1> QED
  BY ONLY <1>1, <1>2, <1>3

(* The differences are a list. *)
LEMMA DiffIsSequence ==
  ASSUME NEW r, NEW p
  PROVE  IsSequence(Diff(r, p))
<1>1. IsSequence(DiffTls(r, p)) /\ IsSequence(DiffH2(r, p)) /\ IsSequence(DiffHttp(r, p))
  BY DiffPartsAre
<1>2. IsSequence(DiffTls(r, p) \o DiffH2(r, p))
  BY <1>1, SequenceConcat
<1> QED
  BY <1>1, <1>2, SequenceConcat DEF Diff

(* A score is a number. *)
LEMMA ScoreType ==
  ASSUME NEW r, NEW p
  PROVE  Score(Diff(r, p))[1] \in Nat /\ Score(Diff(r, p))[2] \in Nat
<1> DEFINE d == Diff(r, p)
           k == Keep(d, LAMBDA f : f.ok)
<1>1. IsSequence(d)
  BY DiffIsSequence
<1>2. IsSequence(k)
  BY <1>1, SequenceElements DEF Keep
<1>3. Len(d) \in Nat /\ Len(k) \in Nat
  BY <1>1, <1>2, SequenceLength
<1>4. Score(d) = <<Len(k), Len(d)>>
  BY DEF Score, Agreeing
<1> HIDE DEF d, k
<1>5. Score(d)[1] \in Nat /\ Score(d)[2] \in Nat
  BY <1>3, <1>4
<1> QED
  BY <1>5 DEF d

(* No two profiles are each above the other. *)
LEMMA NotBothAbove ==
  ASSUME NEW s, NEW t, s[1] \in Nat, s[2] \in Nat, t[1] \in Nat, t[2] \in Nat
  PROVE  ~(Above(s, t) /\ Above(t, s))
<1> DEFINE p == s[1] * t[2]
           q == t[1] * s[2]
<1>1. p \in Nat /\ q \in Nat
  OBVIOUS
<1>2. (Above(s, t) <=> p > q) /\ (Above(t, s) <=> q > p)
  BY DEF Above
<1> HIDE DEF p, q
<1> QED
  BY <1>1, <1>2

(* One profile ranks first. *)
LEMMA OneRanksFirst ==
  ASSUME NEW r, NEW base, DOMAIN base \subseteq Nat, NEW m \in DOMAIN base, NEW n \in DOMAIN base, m # n,
         RanksBefore(r, base, m, n), RanksBefore(r, base, n, m)
  PROVE  FALSE
<1> DEFINE s == Score(Diff(r, base[m]))
           t == Score(Diff(r, base[n]))
<1>1. /\ Above(s, t) \/ (~Above(t, s) /\ m < n)
      /\ Above(t, s) \/ (~Above(s, t) /\ n < m)
  BY DEF RanksBefore
<1>2. ~(Above(s, t) /\ Above(t, s))
  BY ScoreType, NotBothAbove
<1>3. m \in Nat /\ n \in Nat
  OBVIOUS
<1> HIDE DEF s, t
<1> QED
  BY <1>1, <1>2, <1>3

(* The best of profiles is one. *)
LEMMA BestOne ==
  ASSUME NEW r, NEW base, DOMAIN base \subseteq Nat
  PROVE  /\ AtMostOne(Best(r, base))
         /\ \A c \in Best(r, base) : \E n \in DOMAIN base : c.label = base[n].label
<1> DEFINE firsts == {n \in DOMAIN base : \A m \in DOMAIN base \ {n} : RanksBefore(r, base, n, m)}
<1>1. \A m, n \in firsts : m = n
  <2> SUFFICES ASSUME NEW m \in firsts, NEW n \in firsts, m # n PROVE FALSE
    OBVIOUS
  <2>1. /\ m \in DOMAIN base /\ n \in DOMAIN base
        /\ RanksBefore(r, base, m, n) /\ RanksBefore(r, base, n, m)
    OBVIOUS
  <2> QED
    BY <2>1, OneRanksFirst
<1>2. \A c \in Best(r, base) : \E n \in firsts : c = Candidate(r, base[n])
  BY DEF Best
<1>3. firsts \subseteq DOMAIN base
  OBVIOUS
<1> HIDE DEF firsts
<1>4. AtMostOne(Best(r, base))
  BY <1>1, <1>2 DEF AtMostOne
<1>5. ASSUME NEW n \in DOMAIN base PROVE Candidate(r, base[n]).label = base[n].label
  BY DEF Candidate
<1> QED
  BY <1>2, <1>3, <1>4, <1>5

(* A claim is of one family. *)
LEMMA ClaimsOne ==
  ASSUME NEW r, AtMostOne(r.h2)
  PROVE  AtMostOne(ClaimsOf(r))
<1> DEFINE agents(h) == Keep(h.headers, LAMBDA f : f.name = UserAgent)
           claim(h) == ClaimedFamily(Head(agents(h)).value)
<1>1. ClaimsOf(r) = {claim(h) : h \in {h \in r.h2 : agents(h) # <<>>}} \ {"unknown"}
  BY DEF ClaimsOf
<1> HIDE DEF agents, claim
<1> QED
  BY <1>1 DEF AtMostOne

(* There is one verdict on a report. *)
LEMMA IdentifyOne ==
  ASSUME NEW r, AtMostOne(r.h2), NEW base, DOMAIN base \subseteq Nat
  PROVE  AtMostOne(Identify(r, base).best) /\ AtMostOne(Identify(r, base).mismatch)
<1> DEFINE best == Best(r, base)
           pairs == MismatchOf(r, best, base)
<1>1. Identify(r, base).best = best /\ Identify(r, base).mismatch \subseteq pairs
  BY DEF Identify
<1>2. AtMostOne(best)
  BY BestOne
<1>3. AtMostOne(pairs)
  <2> HIDE DEF best
  <2> SUFFICES ASSUME NEW p \in pairs, NEW q \in pairs PROVE p = q
    BY DEF AtMostOne
  <2> DEFINE pair(claim, b) == [claimed |-> claim, observed |-> FamilyOf(b.label, base)]
  <2>1. pairs = {pair(claim, b) : claim \in ClaimsOf(r),
                                  b \in {b \in best : FamilyOf(b.label, base) \in Families}}
    BY DEF MismatchOf
  <2> HIDE DEF pairs, pair
  <2>2. PICK c1 \in ClaimsOf(r), b1 \in best : p = pair(c1, b1)
    BY <2>1
  <2>3. PICK c2 \in ClaimsOf(r), b2 \in best : q = pair(c2, b2)
    BY <2>1
  <2>4. c1 = c2 /\ b1 = b2
    BY <1>2, ClaimsOne DEF AtMostOne
  <2> QED
    BY <2>2, <2>3, <2>4
<1> HIDE DEF best, pairs
<1> QED
  BY <1>1, <1>2, <1>3 DEF AtMostOne

(* A set of one has one element. *)
LEMMA FewOfOne ==
  ASSUME NEW S, AtMostOne(S)
  PROVE  IsFiniteSet(S) /\ Cardinality(S) <= 1
<1>1. CASE S = {}
  BY <1>1, FS_EmptySet
<1>2. CASE S # {}
  <2>1. PICK x : x \in S
    BY <1>2
  <2>2. S = {x}
    BY <2>1 DEF AtMostOne
  <2>3. IsFiniteSet({x}) /\ Cardinality({x}) = 1
    BY FS_Singleton
  <2> QED
    BY <2>2, <2>3
<1> QED
  BY <1>1, <1>2

-----------------------------------------------------------------------------
(* An integer is read as it was written *)

(* The groups of seven bits of a number are the same, whatever numbers above *)
(* it they were made for.                                                    *)
LEMMA SevensAgree ==
  ASSUME NEW m \in Nat, NEW n \in Nat, NEW f, NEW g, Sevens(f, m), Sevens(g, n)
  PROVE  \A v \in 0 .. m : v <= n => f[v] = g[v]
<1> DEFINE G == {k \in Nat : \A v \in 0 .. m : v <= n /\ v <= k => f[v] = g[v]}
           step(h, v) == IF v < 128 THEN <<v>> ELSE <<128 + (v % 128)>> \o h[v \div 128]
<1>1. (\A v \in 0 .. m : f[v] = step(f, v)) /\ (\A v \in 0 .. n : g[v] = step(g, v))
  <2>1. f = [v \in 0 .. m |-> step(f, v)] /\ g = [v \in 0 .. n |-> step(g, v)]
    BY DEF Sevens
  <2> HIDE DEF step
  <2> QED
    BY <2>1
<1>2. 0 \in G
  <2>1. ASSUME NEW v \in 0 .. m, v <= n, v <= 0 PROVE f[v] = g[v]
    <3>1. v \in 0 .. n /\ v < 128
      BY <2>1
    <3>2. step(f, v) = <<v>> /\ step(g, v) = <<v>>
      BY <3>1
    <3> HIDE DEF step
    <3> QED
      BY <1>1, <3>1, <3>2
  <2> QED
    BY <2>1
<1>3. ASSUME NEW k \in Nat, k \in G PROVE k + 1 \in G
  <2> SUFFICES ASSUME NEW v \in 0 .. m, v <= n, v <= k + 1 PROVE f[v] = g[v]
    OBVIOUS
  <2>1. v \in 0 .. n
    OBVIOUS
  <2>2. step(f, v) = step(g, v)
    <3>1. CASE v < 128
      BY <3>1
    <3>2. CASE v >= 128
      <4>1. v \div 128 \in Nat /\ v \div 128 < v
        BY <3>2, Shrinks
      <4>2. v \div 128 \in 0 .. m /\ v \div 128 <= n /\ v \div 128 <= k
        BY <4>1
      <4>3. f[v \div 128] = g[v \div 128]
        BY <1>3, <4>2
      <4> QED
        BY <4>3
    <3> QED
      BY <3>1, <3>2
  <2> HIDE DEF step
  <2> QED
    BY <1>1, <2>1, <2>2
<1>4. Nat \subseteq G
  <2> HIDE DEF G
  <2> QED
    BY <1>2, <1>3, SetInduction
<1> QED
  BY <1>4

(* The octets behind a full prefix: the lowest seven bits, and the rest.    *)
LEMMA ContinuedUnfolds ==
  ASSUME NEW v \in Nat
  PROVE  Continued(v) = IF v < 128 THEN <<v>> ELSE <<128 + (v % 128)>> \o Continued(v \div 128)
<1> DEFINE made(n) == CHOOSE f : Sevens(f, n)
<1>1. \A n \in Nat : Sevens(made(n), n)
  BY SevensExist
<1>2. \A n \in Nat : Continued(n) = made(n)[n]
  BY DEF Continued, Sevens
<1> HIDE DEF made
<1> DEFINE f == made(v)
<1>3. f[v] = IF v < 128 THEN <<v>> ELSE <<128 + (v % 128)>> \o f[v \div 128]
  <2> DEFINE g(w) == IF w < 128 THEN <<w>> ELSE <<128 + (w % 128)>> \o f[w \div 128]
  <2>1. f = [w \in 0 .. v |-> g(w)]
    <3>1. Sevens(f, v)
      BY <1>1
    <3> HIDE DEF f
    <3> QED
      BY <3>1 DEF Sevens
  <2>2. v \in 0 .. v
    OBVIOUS
  <2> HIDE DEF g, f
  <2>3. f[v] = g(v)
    BY <2>1, <2>2
  <2> QED
    BY <2>3 DEF g
<1>4. ASSUME v >= 128 PROVE f[v \div 128] = Continued(v \div 128)
  <2> DEFINE d == v \div 128
             h == made(d)
  <2>1. d \in Nat /\ d < v
    BY <1>4, Shrinks
  <2>2. Sevens(f, v) /\ Sevens(h, d)
    BY <1>1, <2>1
  <2> HIDE DEF d, f
  <2>3. d \in 0 .. v /\ d <= d
    BY <2>1
  <2>4. f[d] = h[d]
    <3> HIDE DEF h
    <3> QED
      BY <2>1, <2>2, <2>3, SevensAgree
  <2> QED
    BY <1>2, <2>1, <2>4 DEF d
<1>5. Continued(v) = f[v]
  BY <1>2
<1> HIDE DEF f
<1>6. v < 128 \/ v >= 128
  OBVIOUS
<1> QED
  BY <1>3, <1>4, <1>5, <1>6

(* The octets behind a full prefix, all but the last with the bit that says *)
(* that there are more, and what is read of them.                           *)
Grouped(c, v) ==
  /\ c \in Seq(Octet) /\ Len(c) >= 1
  /\ c[Len(c)] < 128 /\ \A j \in 1 .. Len(c) - 1 : c[j] >= 128
  /\ \A g, digit : /\ \A j \in 1 .. Len(c) : digit[j] = c[j] % 128
                   /\ Highest(g, Len(c), digit)
                   => g[Len(c)] = v

LEMMA GroupsOfOne ==
  ASSUME NEW v \in Nat, v < 128
  PROVE  Grouped(<<v>>, v)
<1> DEFINE c == <<v>>
<1>1. v \in Octet /\ v % 128 = v
  BY DEF Octet
<1>2. Len(c) = 1 /\ c[1] = v
  OBVIOUS
<1>3. c \in Seq(Octet)
  BY <1>1
<1> HIDE DEF c
<1>4. ASSUME NEW g, NEW digit, \A j \in 1 .. Len(c) : digit[j] = c[j] % 128,
             Highest(g, Len(c), digit)
      PROVE  g[Len(c)] = v
  <2>1. g = [n \in 0 .. 1 |-> IF n = 0 THEN 0 ELSE 128 * g[n - 1] + digit[1 + 1 - n]]
    BY <1>2, <1>4 DEF Highest
  <2>2. g[0] = 0 /\ g[1] = 128 * g[0] + digit[1]
    BY <2>1
  <2>3. digit[1] = v
    BY <1>1, <1>2, <1>4
  <2> QED
    BY <1>2, <2>2, <2>3
<1>5. \A j \in 1 .. Len(c) - 1 : c[j] >= 128
  BY <1>2
<1>6. Len(c) >= 1 /\ c[Len(c)] < 128
  BY <1>2
<1> QED
  BY ONLY <1>3, <1>4, <1>5, <1>6 DEF Grouped, c

LEMMA GroupsOfMore ==
  ASSUME NEW low \in 0 .. 127, NEW d \in Nat, NEW c, Grouped(c, d)
  PROVE  Grouped(<<128 + low>> \o c, 128 * d + low)
<1> DEFINE m == 128 + low
           s == <<m>> \o c
           L == Len(c)
<1>1. m \in Octet /\ m >= 128 /\ m % 128 = low
  BY DEF Octet
<1>2. /\ c \in Seq(Octet) /\ L \in Nat /\ L >= 1
      /\ c[L] < 128 /\ \A j \in 1 .. L - 1 : c[j] >= 128
      /\ \A g, digit : /\ \A j \in 1 .. L : digit[j] = c[j] % 128
                       /\ Highest(g, L, digit)
                       => g[L] = d
  BY DEF Grouped
<1> HIDE DEF m
<1>3. s \in Seq(Octet) /\ Len(s) = L + 1 /\ s[1] = m /\ \A j \in 1 .. L : s[j + 1] = c[j]
  BY <1>1, <1>2
<1> HIDE DEF s, L
<1>4. s[Len(s)] < 128
  BY <1>2, <1>3
<1>5. ASSUME NEW j \in 1 .. Len(s) - 1 PROVE s[j] >= 128
  <2>1. CASE j = 1
    BY <1>1, <1>3, <2>1
  <2>2. CASE j # 1
    <3> DEFINE i == j - 1
    <3>1. i \in 1 .. L - 1 /\ i \in 1 .. L /\ j = i + 1
      BY <1>2, <1>3, <2>2
    <3> HIDE DEF i
    <3> QED
      BY <1>2, <1>3, <3>1
  <2> QED
    BY <2>1, <2>2
<1>6. ASSUME NEW g, NEW digit, \A j \in 1 .. Len(s) : digit[j] = s[j] % 128,
             Highest(g, Len(s), digit)
      PROVE  g[Len(s)] = 128 * d + low
  <2> DEFINE N == L + 1
             h == [n \in 0 .. L |-> g[n]]
             e == [j \in 1 .. L |-> digit[j + 1]]
  <2>1. \A n \in 0 .. N : g[n] = IF n = 0 THEN 0 ELSE 128 * g[n - 1] + digit[N + 1 - n]
    <3> DEFINE V(n) == IF n = 0 THEN 0 ELSE 128 * g[n - 1] + digit[N + 1 - n]
    <3>1. g = [n \in 0 .. N |-> V(n)]
      BY <1>3, <1>6 DEF Highest
    <3> HIDE DEF V, N
    <3>2. \A n \in 0 .. N : g[n] = V(n)
      BY <3>1
    <3> QED
      BY <3>2 DEF V
  <2>2. \A j \in 1 .. L : e[j] = digit[j + 1] /\ e[j] = c[j] % 128
    <3> SUFFICES ASSUME NEW j \in 1 .. L PROVE e[j] = digit[j + 1] /\ e[j] = c[j] % 128
      OBVIOUS
    <3>1. j + 1 \in 1 .. Len(s)
      BY <1>2, <1>3
    <3> QED
      BY <1>3, <1>6, <3>1
  <2>3. \A n \in 0 .. L : h[n] = g[n]
    OBVIOUS
  <2> HIDE DEF e
  <2>4. ASSUME NEW n \in 0 .. L PROVE h[n] = IF n = 0 THEN 0 ELSE 128 * h[n - 1] + e[L + 1 - n]
    <3>1. CASE n = 0
      <4>1. 0 \in 0 .. N
        BY <1>2
      <4> QED
        BY <2>1, <2>3, <3>1, <4>1
    <3>2. CASE n # 0
      <4> DEFINE i == L + 1 - n
      <4>1. n \in 0 .. N /\ n - 1 \in 0 .. L /\ i \in 1 .. L /\ N + 1 - n = i + 1
        BY <1>2, <3>2
      <4> HIDE DEF i, h, N
      <4>2. g[n] = 128 * g[n - 1] + digit[i + 1]
        BY <2>1, <3>2, <4>1
      <4>3. e[i] = digit[i + 1]
        BY <2>2, <4>1
      <4>4. h[n] = g[n] /\ h[n - 1] = g[n - 1]
        BY <2>3, <4>1
      <4> QED
        BY <3>2, <4>2, <4>3, <4>4 DEF i
    <3> QED
      BY <3>1, <3>2
  <2>5. Highest(h, L, e)
    <3>1. h = [n \in 0 .. L |-> h[n]]
      OBVIOUS
    <3> HIDE DEF h
    <3>2. h = [n \in 0 .. L |-> IF n = 0 THEN 0 ELSE 128 * h[n - 1] + e[L + 1 - n]]
      BY <2>4, <3>1
    <3> QED
      BY <3>2 DEF Highest
  <2> HIDE DEF h
  <2>6. h[L] = d
    BY <1>2, <2>2, <2>5
  <2>7. digit[1] = low
    <3>1. 1 \in 1 .. Len(s)
      BY <1>2, <1>3
    <3> QED
      BY <1>1, <1>3, <1>6, <3>1
  <2>8. N \in 0 .. N /\ N # 0 /\ N - 1 = L /\ N + 1 - N = 1 /\ L \in 0 .. L
    BY <1>2
  <2>9. g[N] = 128 * g[L] + digit[1]
    BY <2>1, <2>8
  <2> QED
    BY <1>3, <2>3, <2>6, <2>7, <2>8, <2>9
<1>7. Len(s) >= 1
  BY <1>2, <1>3
<1>8. Grouped(s, 128 * d + low)
  BY ONLY <1>3, <1>4, <1>5, <1>6, <1>7 DEF Grouped
<1> QED
  BY <1>8 DEF s, m

LEMMA ContinuedIsGrouped ==
  ASSUME NEW v \in Nat
  PROVE  Grouped(Continued(v), v)
<1> DEFINE G == {k \in Nat : \A w \in 0 .. k : Grouped(Continued(w), w)}
<1>1. ASSUME NEW w \in Nat, w < 128 PROVE Grouped(Continued(w), w)
  <2>1. Continued(w) = <<w>>
    BY <1>1, ContinuedUnfolds
  <2> QED
    BY <1>1, <2>1, GroupsOfOne
<1>2. 0 \in G
  BY <1>1
<1>3. ASSUME NEW k \in Nat, k \in G PROVE k + 1 \in G
  <2> SUFFICES ASSUME NEW w \in 0 .. k + 1, ~(w < 128) PROVE Grouped(Continued(w), w)
    BY <1>1
  <2> DEFINE d == w \div 128
             low == w % 128
  <2>1. w \in Nat /\ w >= 128
    OBVIOUS
  <2>2. d \in 0 .. k /\ d \in Nat /\ low \in 0 .. 127 /\ w = 128 * d + low
    BY <2>1, Shrinks
  <2>3. Continued(w) = <<128 + low>> \o Continued(d)
    BY <2>1, ContinuedUnfolds
  <2> HIDE DEF d, low
  <2>4. Grouped(Continued(d), d)
    BY <1>3, <2>2
  <2>5. Grouped(<<128 + low>> \o Continued(d), 128 * d + low)
    BY <2>2, <2>4, GroupsOfMore
  <2> QED
    BY <2>2, <2>3, <2>5
<1>4. Nat \subseteq G
  <2> HIDE DEF G
  <2> QED
    BY <1>2, <1>3, SetInduction
<1>5. v \in G /\ v \in 0 .. v
  <2> HIDE DEF G
  <2> QED
    BY <1>4
<1> QED
  BY <1>5

(* A number below 2^28 takes four octets at most. *)
LEMMA ContinuedLength ==
  ASSUME NEW v \in Nat, v < 128^4
  PROVE  Len(Continued(v)) <= 4
<1> DEFINE L(w) == Len(Continued(w))
<1>1. ASSUME NEW w \in Nat, w < 128 PROVE L(w) = 1
  <2>1. Continued(w) = <<w>>
    BY <1>1, ContinuedUnfolds
  <2>2. Len(<<w>>) = 1
    OBVIOUS
  <2> QED
    BY <2>1, <2>2
<1>2. ASSUME NEW w \in Nat, w >= 128
      PROVE  \E d \in Nat : 128 * d <= w /\ L(w) = 1 + L(d) /\ L(d) \in Nat
  <2> DEFINE d == w \div 128
             m == 128 + (w % 128)
  <2>1. d \in Nat /\ w % 128 \in 0 .. 127 /\ 128 * d <= w
    <3>1. w \div 128 \in Nat /\ w % 128 \in 0 .. 127
      BY ONLY <1>2, Shrinks, w \in Nat
    <3>2. 128 * (w \div 128) <= w
      BY ONLY w \in Nat, SMTT(30)
    <3> QED
      BY <3>1, <3>2
  <2>2. m \in Octet
    BY <2>1 DEF Octet
  <2>3. Continued(w) = <<m>> \o Continued(d)
    BY <1>2, ContinuedUnfolds
  <2>4. Continued(d) \in Seq(Octet)
    BY <2>1, ContinuedType
  <2> HIDE DEF d, m
  <2>5. Len(<<m>> \o Continued(d)) = 1 + Len(Continued(d)) /\ Len(Continued(d)) \in Nat
    BY ONLY <2>2, <2>4
  <2>6. L(w) = 1 + L(d) /\ L(d) \in Nat
    BY ONLY <2>3, <2>5
  <2> QED
    BY <2>1, <2>6
<1> HIDE DEF L
<1>3. ASSUME NEW w \in Nat, w < 128 * 128 PROVE L(w) <= 2
  BY ONLY <1>1, <1>2, <1>3
<1>4. ASSUME NEW w \in Nat, w < 128 * (128 * 128) PROVE L(w) <= 3
  BY ONLY <1>1, <1>2, <1>3, <1>4
<1>5. L(v) <= 4
  <2>1. 128^4 = 128 * (128 * (128 * 128))
    BY ONLY SMT
  <2> QED
    BY ONLY <1>1, <1>2, <1>4, <2>1, v \in Nat, v < 128^4
<1> QED
  BY <1>5 DEF L

(* The pattern and the mask of a prefix, as numbers. *)
LEMMA PrefixMask ==
  ASSUME NEW bits, NEW pattern, Prefix(bits, pattern)
  PROVE  /\ bits \in {4, 5, 6, 7} /\ pattern \in Octet
         /\ 2^bits \in {16, 32, 64, 128} /\ pattern + 2^bits <= 256
         /\ pattern % 2^bits = 0
<1>1. 2^7 = 128 /\ 2^6 = 64 /\ 2^5 = 32 /\ 2^4 = 16
  BY SMT
<1> DEFINE p == 2^bits
<1>2. /\ bits = 7 => p = 2^7
      /\ bits = 6 => p = 2^6
      /\ bits = 5 => p = 2^5
      /\ bits = 4 => p = 2^4
  OBVIOUS
<1> HIDE DEF p
<1>3. \/ bits = 7 /\ p = 128 /\ pattern \in {0, 128}
      \/ bits = 6 /\ p = 64 /\ pattern \in {0, 64}
      \/ bits = 5 /\ p = 32 /\ pattern \in {0, 32}
      \/ bits = 4 /\ p = 16 /\ pattern \in {0, 16}
  BY <1>1, <1>2 DEF Prefix
<1>4. pattern \in Octet /\ p \in {16, 32, 64, 128} /\ pattern + p <= 256
  BY <1>3 DEF Octet
<1>5. pattern % p = 0
  <2>1. 0 % 128 = 0 /\ 128 % 128 = 0 /\ 0 % 64 = 0 /\ 64 % 64 = 0
        /\ 0 % 32 = 0 /\ 32 % 32 = 0 /\ 0 % 16 = 0 /\ 16 % 16 = 0
    BY SMT
  <2> QED
    BY <1>3, <2>1
<1>6. bits \in {4, 5, 6, 7}
  BY <1>3
<1> QED
  BY <1>4, <1>5, <1>6 DEF p

(* What an integer is written as: a prefix that holds it, or a full one and *)
(* its groups.                                                              *)
LEMMA IntegerIs ==
  ASSUME NEW value \in Nat, NEW bits, NEW pattern, Prefix(bits, pattern)
  PROVE  /\ value < 2^bits - 1 => Integer(value, bits, pattern) = <<pattern + value>>
         /\ value >= 2^bits - 1 =>
              Integer(value, bits, pattern) =
                <<pattern + (2^bits - 1)>> \o Continued(value - (2^bits - 1))
<1>1. 2^bits \in {16, 32, 64, 128}
  BY PrefixMask
<1> DEFINE p == 2^bits
<1>2. Integer(value, bits, pattern) =
        IF value < p - 1 THEN <<pattern + value>>
        ELSE <<pattern + (p - 1)>> \o Continued(value - (p - 1))
  BY DEF Integer
<1> HIDE DEF p
<1>3. p \in Nat
  BY <1>1 DEF p
<1> QED
  BY <1>2, <1>3 DEF p

(* An integer is read as it was written, unless it takes more octets than   *)
(* are read; then it is not read at all.                                    *)
LEMMA IntegerIsRead ==
  ASSUME NEW value \in Nat, NEW bits, NEW pattern, Prefix(bits, pattern),
         NEW buf \in Seq(Octet), NEW at \in Nat,
         Within(Integer(value, bits, pattern), buf, at)
  PROVE  LET all == {[value |-> value, next |-> at + Len(Integer(value, bits, pattern))]}
         IN  /\ IntegerAt(buf, at, bits) \subseteq all
             /\ value < 128^4 => IntegerAt(buf, at, bits) = all
             /\ Len(Integer(value, bits, pattern)) \in Nat \ {0}
             /\ U8(buf, at) \in pattern .. pattern + 2^bits - 1
<1> DEFINE p == 2^bits
           s == Integer(value, bits, pattern)
           first == U8(buf, at) % p
           last == {k \in 1 .. MaxOctets : /\ Fits(buf, at, k + 1)
                                           /\ U8(buf, at + k) < 128
                                           /\ \A j \in 1 .. k - 1 : U8(buf, at + j) >= 128}
           digit(k) == U8(buf, at + k) % 128
           rest(k) == (CHOOSE g : g = [n \in 0 .. k |-> IF n = 0 THEN 0
                                         ELSE 128 * g[n - 1] + digit(k + 1 - n)])[k]
           all == {[value |-> value, next |-> at + Len(s)]}
<1>1. p \in {16, 32, 64, 128} /\ pattern \in Octet /\ pattern % p = 0 /\ pattern + p <= 256
  BY PrefixMask
<1>0. \A x \in Octet : x \in Nat
  BY DEF Octet
<1>91. \A x \in 0 .. p - 1 : (pattern + x) % p = x
  <2> HIDE DEF p
  <2> SUFFICES ASSUME NEW x \in 0 .. p - 1 PROVE (pattern + x) % p = x
    OBVIOUS
  <2>1. pattern \in 0 .. 255
    BY <1>1 DEF Octet
  <2>2. CASE p = 16
    BY ONLY <2>1, <2>2, <1>1, x \in 0 .. p - 1
  <2>3. CASE p = 32
    BY ONLY <2>1, <2>3, <1>1, x \in 0 .. p - 1
  <2>4. CASE p = 64
    BY ONLY <2>1, <2>4, <1>1, x \in 0 .. p - 1
  <2>5. CASE p = 128
    BY ONLY <2>1, <2>5, <1>1, x \in 0 .. p - 1
  <2> QED
    BY ONLY <1>1, <2>2, <2>3, <2>4, <2>5
<1>92. \A x \in Nat : x % 128 \in Nat
  OBVIOUS
<1>2. s \in Seq(Octet) /\ Len(s) \in Nat /\ Len(buf) \in Nat /\ MaxOctets = 9
  BY IntegerType DEF MaxOctets
<1>3. at + Len(s) <= Len(buf) /\ \A i \in 1 .. Len(s) : s[i] = buf[at + i]
  BY DEF Within
<1>4. IntegerAt(buf, at, bits) =
        IF ~Fits(buf, at, 1) THEN None
        ELSE IF first < p - 1 THEN Some([value |-> first, next |-> at + 1])
        ELSE {[value |-> p - 1 + rest(k), next |-> at + k + 1] : k \in last}
  BY DEF IntegerAt
<1>5. /\ value < p - 1 => s = <<pattern + value>>
      /\ value >= p - 1 => s = <<pattern + (p - 1)>> \o Continued(value - (p - 1))
  BY IntegerIs
<1> HIDE DEF p, s
<1>6. pattern \in Nat /\ p \in Nat /\ p - 1 \in Nat
  BY <1>1 DEF Octet
<1>7. CASE value < p - 1
  <2>1. Len(s) = 1 /\ s[1] = pattern + value
    BY <1>5, <1>7
  <2>2. U8(buf, at) = pattern + value /\ at + 1 <= Len(buf)
    BY <1>3, <2>1 DEF U8
  <2>3. first = value
    <3>1. value \in 0 .. p - 1
      BY <1>6, <1>7
    <3>2. (pattern + value) % p = value
      BY ONLY <1>91, <3>1
    <3> QED
      BY <2>2, <3>2
  <2>4. IntegerAt(buf, at, bits) = all
    <3> HIDE DEF first, rest, last
    <3>1. Fits(buf, at, 1)
      BY <2>2 DEF Fits
    <3> QED
      BY <1>4, <1>7, <2>1, <2>3, <3>1 DEF Some
  <2>5. U8(buf, at) \in pattern .. pattern + p - 1
    BY <1>6, <1>7, <2>2
  <2> HIDE DEF first, rest, last
  <2> QED
    BY <2>1, <2>4, <2>5 DEF p, s
<1>8. CASE value >= p - 1
  <2> DEFINE v == value - (p - 1)
             c == Continued(v)
             L == Len(c)
             o == pattern + (p - 1)
  <2>1. v \in Nat
    BY <1>6, <1>8
  <2>2. Grouped(c, v)
    BY <2>1, ContinuedIsGrouped
  <2>3. v < 128^4 => L <= 4
    BY <2>1, ContinuedLength
  <2>4. s = <<o>> \o c
    BY <1>5, <1>8
  <2>5. o \in Octet
    BY <1>1, <1>6 DEF Octet
  <2>6. p - 1 + v = value
    BY <1>6
  <2> HIDE DEF c, v, o
  <2>7. /\ c \in Seq(Octet) /\ L >= 1 /\ L \in Nat
        /\ c[L] < 128 /\ \A j \in 1 .. L - 1 : c[j] >= 128
        /\ \A g, d : (\A j \in 1 .. L : d[j] = c[j] % 128) /\ Highest(g, L, d) => g[L] = v
    BY <2>2 DEF Grouped
  <2>8. Len(s) = L + 1 /\ s[1] = o /\ \A j \in 1 .. L : s[j + 1] = c[j]
    BY <2>4, <2>5, <2>7
  <2> HIDE DEF L
  <2>9. U8(buf, at) = o /\ at + L + 1 <= Len(buf)
    <3>1. 1 \in 1 .. Len(s)
      BY <2>7, <2>8
    <3> QED
      BY <1>2, <1>3, <2>7, <2>8, <3>1 DEF U8
  <2>10. ASSUME NEW j \in 1 .. L PROVE U8(buf, at + j) = c[j]
    <3>1. j + 1 \in 1 .. Len(s) /\ at + (j + 1) = at + j + 1
      BY <2>7, <2>8
    <3> QED
      BY <1>3, <2>8, <3>1 DEF U8
  <2>11. first = p - 1
    <3>1. p - 1 \in 0 .. p - 1
      BY <1>6
    <3>2. (pattern + (p - 1)) % p = p - 1
      BY ONLY <1>91, <3>1
    <3> QED
      BY <2>9, <3>2 DEF o
  <2>12. last \subseteq {L} /\ (L <= 9 => last = {L})
    <3>1. ASSUME NEW k \in last PROVE k = L
      <4>1. /\ k \in 1 .. 9 /\ Fits(buf, at, k + 1) /\ U8(buf, at + k) < 128
            /\ \A j \in 1 .. k - 1 : U8(buf, at + j) >= 128
        BY <1>2
      <4> HIDE DEF last
      <4>2. ~(k < L)
        <5> SUFFICES ASSUME k < L PROVE FALSE
          OBVIOUS
        <5>1. k \in 1 .. L /\ k \in 1 .. L - 1
          BY <2>7, <4>1
        <5>2. c[k] \in Octet
          BY <2>7, <5>1 DEF L
        <5>3. c[k] \in Nat
          BY ONLY <1>0, <5>2
        <5>4. U8(buf, at + k) = c[k]
          BY <2>10, <5>1
        <5>5. c[k] < 128 /\ c[k] >= 128
          BY <2>7, <4>1, <5>1, <5>4
        <5> QED
          BY ONLY <5>3, <5>5
      <4>3. ~(L < k)
        <5> SUFFICES ASSUME L < k PROVE FALSE
          OBVIOUS
        <5>1. L \in 1 .. k - 1 /\ L \in 1 .. L
          BY <2>7, <4>1
        <5>2. c[L] \in Octet
          BY <2>7, <5>1 DEF L
        <5>3. c[L] \in Nat
          BY ONLY <1>0, <5>2
        <5>4. U8(buf, at + L) = c[L]
          BY <2>10, <5>1
        <5>5. c[L] < 128 /\ c[L] >= 128
          BY <2>7, <4>1, <5>1, <5>4
        <5> QED
          BY ONLY <5>3, <5>5
      <4> QED
        BY <2>7, <4>1, <4>2, <4>3
    <3>2. ASSUME L <= 9 PROVE L \in last
      <4>1. L \in 1 .. MaxOctets /\ L \in 1 .. L
        BY <1>2, <2>7, <3>2
      <4>2. Fits(buf, at, L + 1)
        BY <2>7, <2>9 DEF Fits
      <4>3. U8(buf, at + L) < 128
        BY <2>7, <2>10, <4>1
      <4>4. \A j \in 1 .. L - 1 : U8(buf, at + j) >= 128
        <5>1. \A j \in 1 .. L - 1 : j \in 1 .. L
          BY <2>7
        <5> QED
          BY <2>7, <2>10, <5>1
      <4> QED
        BY <4>1, <4>2, <4>3, <4>4
    <3> HIDE DEF last
    <3> QED
      BY <3>1, <3>2
  <2>13. rest(L) = v
    <3> DEFINE d == [j \in 1 .. L |-> digit(j)]
               V(g) == g = [n \in 0 .. L |-> IF n = 0 THEN 0 ELSE 128 * g[n - 1] + digit(L + 1 - n)]
               W(g) == Highest(g, L, d)
    <3>1. ASSUME NEW j \in 1 .. L PROVE d[j] = digit(j) /\ d[j] = c[j] % 128 /\ d[j] \in Nat
      <4>1. digit(j) = c[j] % 128
        BY <2>10
      <4>2. c[j] \in Octet
        BY <2>7 DEF L
      <4>5. c[j] \in Nat
        BY ONLY <1>0, <4>2
      <4>3. c[j] % 128 \in Nat
        BY ONLY <1>92, <4>5
      <4> QED
        BY <4>1, <4>3
    <3>2. \A n \in 0 .. L : n # 0 => d[L + 1 - n] = digit(L + 1 - n)
      <4>1. \A n \in 0 .. L : n # 0 => L + 1 - n \in 1 .. L
        BY <2>7
      <4> HIDE DEF d, digit
      <4> QED
        BY <3>1, <4>1
    <3> HIDE DEF d, digit
    <3>3. \A g : V(g) <=> W(g)
      <4> SUFFICES ASSUME NEW g PROVE V(g) <=> W(g)
        OBVIOUS
      <4>1. [n \in 0 .. L |-> IF n = 0 THEN 0 ELSE 128 * g[n - 1] + digit(L + 1 - n)]
              = [n \in 0 .. L |-> IF n = 0 THEN 0 ELSE 128 * g[n - 1] + d[L + 1 - n]]
        BY <3>2
      <4> QED
        BY <4>1 DEF Highest
    <3>4. \E g : W(g)
      <4>1. L \in Nat /\ \A j \in 1 .. L : d[j] \in Nat
        BY <2>7, <3>1
      <4> QED
        BY <4>1, HighestExists
    <3> DEFINE h == CHOOSE g : V(g)
    <3>5. V(h)
      <4> HIDE DEF V, W
      <4> QED
        BY <3>3, <3>4
    <3>6. rest(L) = h[L]
      OBVIOUS
    <3> HIDE DEF h, V, rest
    <3>7. W(h)
      BY <3>3, <3>5
    <3>8. h[L] = v
      BY <2>7, <3>1, <3>7
    <3> QED
      BY <3>6, <3>8
  <2> HIDE DEF first, last, rest
  <2>14. Fits(buf, at, 1)
    BY <1>2, <2>7, <2>9 DEF Fits
  <2>15. IntegerAt(buf, at, bits) = {[value |-> p - 1 + rest(k), next |-> at + k + 1] : k \in last}
    BY <1>4, <1>6, <2>11, <2>14
  <2>16. at + L + 1 = at + Len(s)
    BY <2>7, <2>8
  <2>17. IntegerAt(buf, at, bits) \subseteq all /\ (L <= 9 => IntegerAt(buf, at, bits) = all)
    <3>1. p - 1 + rest(L) = value
      BY <2>6, <2>13
    <3> DEFINE here == [value |-> p - 1 + rest(L), next |-> at + L + 1]
    <3>2. all = {here}
      BY <2>16, <3>1
    <3>3. IntegerAt(buf, at, bits) \subseteq {here}
      BY <2>12, <2>15
    <3>4. L <= 9 => IntegerAt(buf, at, bits) = {here}
      BY <2>12, <2>15
    <3> QED
      BY <3>2, <3>3, <3>4
  <2>18. value < 128^4 => L <= 9
    <3>1. 128^4 \in Nat
      BY SMT
    <3> DEFINE q == 128^4
    <3>2. q \in Nat /\ (v < q => L <= 4)
      BY <2>3, <3>1 DEF L
    <3> HIDE DEF q
    <3>3. value < q => L <= 9
      BY <1>6, <2>1, <2>6, <2>7, <3>2
    <3> QED
      BY <3>3 DEF q
  <2>19. U8(buf, at) \in pattern .. pattern + p - 1
    BY <1>6, <2>9 DEF o
  <2>20. Len(s) \in Nat \ {0}
    BY <2>7, <2>8
  <2> QED
    BY <2>17, <2>18, <2>19, <2>20 DEF p, s
<1> HIDE DEF first, last, rest
<1>9. value < p - 1 \/ value >= p - 1
  BY <1>6
<1> QED
  BY ONLY <1>7, <1>8, <1>9

-----------------------------------------------------------------------------
(* A string is decoded as it was encoded *)

(* No code is the beginning of another, so none is empty. *)
LEMMA CodesAreThere ==
  ASSUME NEW s \in Symbols
  PROVE  HuffmanCode[s] \in Seq({0, 1}) /\ Len(HuffmanCode[s]) \in Nat \ {0}
<1>1. HuffmanCode[s] \in Seq({0, 1})
  BY HuffmanAssumption
<1>2. Len(HuffmanCode[s]) # 0
  <2> SUFFICES ASSUME Len(HuffmanCode[s]) = 0 PROVE FALSE
    OBVIOUS
  <2>1. \A p, q \in Seq({0, 1}) : Len(p) = 0 => IsPrefix(p, q)
    BY DEF IsPrefix
  <2>2. \A t \in Symbols : s = t
    BY <1>1, <2>1, HuffmanAssumption
  <2>7. Symbols = 0 .. Eos
    BY HuffmanAssumption
  <2>3. 0 \in Symbols /\ 1 \in Symbols
    BY ONLY <2>7 DEF Eos
  <2>4. s = 0
    BY ONLY <2>2, <2>3, Zenon
  <2>5. s = 1
    BY ONLY <2>2, <2>3, Zenon
  <2>6. 0 = 1
    BY ONLY <2>4, <2>5, Zenon
  <2> QED
    BY ONLY <2>6
<1>3. Len(HuffmanCode[s]) \in Nat
  BY <1>1
<1> QED
  BY <1>1, <1>2, <1>3

(* One bit of a symbol's code leads one node further down, and the last one *)
(* to the symbol.                                                           *)
LEMMA DescendAlong ==
  ASSUME NEW s \in Symbols, NEW j \in 1 .. Len(HuffmanCode[s]), NEW out
  PROVE  LET c == HuffmanCode[s]
             next == Descend(Going(SubSeq(c, 1, j - 1), out), c[j])
         IN  /\ j < Len(c) => next = Going(SubSeq(c, 1, j), out)
             /\ j = Len(c) /\ s # Eos => next = Going(<<>>, Append(out, s))
<1> DEFINE c == HuffmanCode[s]
           n == Len(c)
           walk == [path |-> SubSeq(c, 1, j - 1), out |-> out, bad |-> FALSE]
           path == Append(walk.path, c[j])
           p == SubSeq(c, 1, j)
           leaf == SymbolAt[path]
<1>1. c \in Seq({0, 1}) /\ n \in Nat
  BY CodesAreThere
<1>2. \A t, u \in Symbols : IsPrefix(HuffmanCode[t], HuffmanCode[u]) => t = u
  BY HuffmanAssumption
<1>3. \A t \in Symbols : HuffmanCode[t] \in Seq({0, 1})
  BY HuffmanAssumption
<1>4. path = p
  <2>1. walk.path = SubSeq(c, 1, j - 1)
    OBVIOUS
  <2> HIDE DEF walk, c
  <2>2. j \in 1 .. Len(c)
    BY DEF c
  <2>3. Append(SubSeq(c, 1, j - 1), c[j]) = SubSeq(c, 1, j)
    BY <1>1, <2>2
  <2> QED
    BY <2>1, <2>3
<1>5. Descend(walk, c[j]) =
        IF walk.bad \/ path \notin Tree \/ leaf = {Eos} THEN [walk EXCEPT !.bad = TRUE]
        ELSE IF leaf = {} THEN [walk EXCEPT !.path = path]
        ELSE [walk EXCEPT !.path = <<>>, !.out = Append(walk.out, The(leaf))]
  BY DEF Descend
<1>6. p \in Tree
  <2>1. j \in 0 .. n
    BY <1>1
  <2> QED
    BY <2>1 DEF Tree
<1>7. leaf = {t \in Symbols : HuffmanCode[t] = p}
  <2> HIDE DEF p, path
  <2> QED
    BY <1>4, <1>6 DEF SymbolAt
<1>8. p \in Seq({0, 1}) /\ Len(p) = j
  <2> HIDE DEF c
  <2>1. j \in 1 .. Len(c)
    BY DEF c
  <2> QED
    BY <1>1, <2>1
<1>9. IsPrefix(p, c)
  <2> HIDE DEF c
  <2>1. j \in 1 .. Len(c)
    BY DEF c
  <2>2. Len(p) <= Len(c)
    BY <1>1, <1>8, <2>1
  <2>3. SubSeq(p, 1, Len(p)) = SubSeq(c, 1, Len(p))
    BY <1>1, <1>8, <2>1
  <2> QED
    BY <2>2, <2>3 DEF IsPrefix
<1>10. leaf \subseteq {s}
  <2> HIDE DEF p, path, leaf
  <2> QED
    BY <1>2, <1>7, <1>9
<1> DEFINE e == Descend(walk, c[j])
<1>11. walk.bad = FALSE /\ walk.out = out
  OBVIOUS
<1>12. /\ [walk EXCEPT !.path = p] = [path |-> p, out |-> out, bad |-> FALSE]
       /\ [walk EXCEPT !.path = <<>>, !.out = Append(out, s)]
            = [path |-> <<>>, out |-> Append(out, s), bad |-> FALSE]
  <2> DEFINE a == SubSeq(c, 1, j - 1)
             no == FALSE
             z == <<>>
             v == [walk EXCEPT !.path = z]
             o == Append(out, s)
  <2>1. walk = [path |-> a, out |-> out, bad |-> no]
    OBVIOUS
  <2>2. [walk EXCEPT !.path = z, !.out = o] = [v EXCEPT !.out = o]
    OBVIOUS
  <2> HIDE DEF p, walk, a, no, z, o
  <2>3. [walk EXCEPT !.path = p] = [path |-> p, out |-> out, bad |-> no]
    BY ONLY <2>1
  <2>4. v = [path |-> z, out |-> out, bad |-> no]
    BY ONLY <2>1
  <2> HIDE DEF v
  <2>5. [v EXCEPT !.out = o] = [path |-> z, out |-> o, bad |-> no]
    BY ONLY <2>4
  <2> QED
    BY <2>2, <2>3, <2>5 DEF no, z, o
<1>13. ASSUME j < n PROVE e = [path |-> p, out |-> out, bad |-> FALSE]
  <2>1. HuffmanCode[s] # p
    BY <1>1, <1>8, <1>13
  <2>2. leaf = {}
    <3> HIDE DEF p, path, leaf
    <3> QED
      BY <1>7, <1>10, <2>1
  <2> HIDE DEF p, path, leaf, walk
  <2> QED
    BY <1>4, <1>5, <1>6, <1>11, <1>12, <2>2
<1>14. ASSUME j = n, s # Eos PROVE e = [path |-> <<>>, out |-> Append(out, s), bad |-> FALSE]
  <2>1. p = c
    <3> HIDE DEF c
    <3> QED
      BY <1>1, <1>14
  <2>2. leaf = {s}
    <3>1. HuffmanCode[s] = p
      BY <2>1
    <3> HIDE DEF p, path, leaf
    <3> QED
      BY <1>7, <1>10, <3>1
  <2>3. The(leaf) = s /\ leaf # {} /\ leaf # {Eos}
    <3> HIDE DEF leaf
    <3> QED
      BY <1>14, <2>2 DEF The
  <2> HIDE DEF p, path, leaf, walk
  <2> QED
    BY <1>4, <1>5, <1>6, <1>11, <1>12, <2>3
<1> HIDE DEF e
<1> QED
  BY <1>13, <1>14 DEF e, walk, p, c, n, Going

(* The eight bits of an octet. *)
LEMMA OctetBits ==
  ASSUME NEW b \in [1 .. 8 -> {0, 1}], NEW r \in 0 .. 7
  PROVE  LET octet == 16 * (8 * b[1] + 4 * b[2] + 2 * b[3] + b[4])
                        + (8 * b[5] + 4 * b[6] + 2 * b[7] + b[8])
         IN  (octet \div 2^(7 - r)) % 2 = b[r + 1]
<1> DEFINE x1 == b[1]
           x2 == b[2]
           x3 == b[3]
           x4 == b[4]
           x5 == b[5]
           x6 == b[6]
           x7 == b[7]
           x8 == b[8]
           o == 16 * (8 * x1 + 4 * x2 + 2 * x3 + x4) + (8 * x5 + 4 * x6 + 2 * x7 + x8)
<1>1. /\ x1 \in {0, 1} /\ x2 \in {0, 1} /\ x3 \in {0, 1} /\ x4 \in {0, 1}
      /\ x5 \in {0, 1} /\ x6 \in {0, 1} /\ x7 \in {0, 1} /\ x8 \in {0, 1}
  OBVIOUS
<1>2. /\ 2^7 = 128 /\ 2^6 = 64 /\ 2^5 = 32 /\ 2^4 = 16 /\ 2^3 = 8 /\ 2^2 = 4 /\ 2^1 = 2 /\ 2^0 = 1
  BY SMT
<1> HIDE DEF x1, x2, x3, x4, x5, x6, x7, x8
<1>3. /\ (o \div 128) % 2 = x1 /\ (o \div 64) % 2 = x2
      /\ (o \div 32) % 2 = x3 /\ (o \div 16) % 2 = x4
  BY <1>1, SMTT(60)
<1>4. /\ (o \div 8) % 2 = x5 /\ (o \div 4) % 2 = x6
      /\ (o \div 2) % 2 = x7 /\ (o \div 1) % 2 = x8
  BY <1>1, SMTT(60)
<1> HIDE DEF o
<1>5. /\ r = 0 => 7 - r = 7 /\ r + 1 = 1
      /\ r = 1 => 7 - r = 6 /\ r + 1 = 2
      /\ r = 2 => 7 - r = 5 /\ r + 1 = 3
      /\ r = 3 => 7 - r = 4 /\ r + 1 = 4
      /\ r = 4 => 7 - r = 3 /\ r + 1 = 5
      /\ r = 5 => 7 - r = 2 /\ r + 1 = 6
      /\ r = 6 => 7 - r = 1 /\ r + 1 = 7
      /\ r = 7 => 7 - r = 0 /\ r + 1 = 8
  OBVIOUS
<1>6. r = 0 \/ r = 1 \/ r = 2 \/ r = 3 \/ r = 4 \/ r = 5 \/ r = 6 \/ r = 7
  OBVIOUS
<1> DEFINE good(k, n) == (o \div 2^k) % 2 = b[n]
<1>7. /\ good(7, 1) /\ good(6, 2) /\ good(5, 3) /\ good(4, 4)
      /\ good(3, 5) /\ good(2, 6) /\ good(1, 7) /\ good(0, 8)
  BY ONLY <1>2, <1>3, <1>4 DEF x1, x2, x3, x4, x5, x6, x7, x8
<1> HIDE DEF good
<1>8. good(7 - r, r + 1)
  <2>1. ASSUME NEW k, NEW n, good(k, n), 7 - r = k, r + 1 = n PROVE good(7 - r, r + 1)
    BY ONLY <2>1, Zenon
  <2> QED
    BY ONLY <1>5, <1>6, <1>7, <2>1
<1> QED
  BY <1>8 DEF good, o, x1, x2, x3, x4, x5, x6, x7, x8

(* The bits of a Huffman string: the codes of its bytes, then ones up to    *)
(* the end of its last octet.                                               *)
LEMMA HuffmanBits ==
  ASSUME NEW bytes \in Seq(Octet)
  PROVE  LET code == FlattenSeq([n \in DOMAIN bytes |-> HuffmanCode[bytes[n]]])
             bits == BitsOf(HuffmanEncode(bytes))
         IN  /\ [n \in DOMAIN bytes |-> HuffmanCode[bytes[n]]] \in Seq(Seq({0, 1}))
             /\ code \in Seq({0, 1})
             /\ Len(bits) \in Nat /\ Len(bits) - Len(code) \in 0 .. 7
             /\ \A m \in 1 .. Len(bits) : bits[m] = IF m <= Len(code) THEN code[m] ELSE 1
<1> DEFINE e == [n \in DOMAIN bytes |-> HuffmanCode[bytes[n]]]
           code == FlattenSeq(e)
           h == HuffmanEncode(bytes)
           bits == BitsOf(h)
           octets == (Len(code) + 7) \div 8
           bit(n) == IF n <= Len(code) THEN code[n] ELSE 1
           nibble(n) == 8 * bit(n + 1) + 4 * bit(n + 2) + 2 * bit(n + 3) + bit(n + 4)
<1>1. e \in [1 .. Len(bytes) -> Seq({0, 1})] /\ Len(bytes) \in Nat
  <2>1. DOMAIN bytes = 1 .. Len(bytes) /\ Len(bytes) \in Nat /\ \A n \in 1 .. Len(bytes) : bytes[n] \in Octet
    OBVIOUS
  <2>2. \A o \in Octet : HuffmanCode[o] \in Seq({0, 1})
    <3>1. Symbols = 0 .. 256 /\ \A s \in Symbols : HuffmanCode[s] \in Seq({0, 1})
      BY HuffmanAssumption DEF Eos
    <3>2. \A o \in Octet : o \in 0 .. 256
      BY DEF Octet
    <3> QED
      BY <3>1, <3>2
  <2> QED
    BY <2>1, <2>2
<1> HIDE DEF e
<1>2. code \in Seq({0, 1})
  BY <1>1, FlattenEach
<1>3. e \in Seq(Seq({0, 1}))
  BY <1>1
<1>4. h = [k \in 1 .. octets |-> 16 * nibble(8 * (k - 1)) + nibble(8 * (k - 1) + 4)]
  BY DEF HuffmanEncode, e
<1> HIDE DEF code, h
<1>5. Len(code) \in Nat
  BY <1>2
<1>6. octets \in Nat /\ 8 * octets - Len(code) \in 0 .. 7
  BY <1>5
<1>7. \A n \in Nat : n >= 1 => bit(n) \in {0, 1}
  BY <1>2, <1>5
<1> HIDE DEF octets, bit, nibble
<1>8. Len(h) = octets /\ \A k \in 1 .. octets : h[k] = 16 * nibble(8 * (k - 1)) + nibble(8 * (k - 1) + 4)
  BY <1>4, <1>6
<1>9. /\ bits = [n \in 1 .. 8 * octets |-> (h[(n - 1) \div 8 + 1] \div 2^(7 - ((n - 1) % 8))) % 2]
      /\ Len(bits) = 8 * octets
  <2>1. bits = [n \in 1 .. 8 * octets |-> (h[(n - 1) \div 8 + 1] \div 2^(7 - ((n - 1) % 8))) % 2]
    BY <1>8 DEF BitsOf
  <2>2. 8 * octets \in Nat
    BY <1>6
  <2> HIDE DEF bits
  <2> QED
    BY <2>1, <2>2
<1>10. ASSUME NEW m \in 1 .. 8 * octets PROVE bits[m] = bit(m)
  <2> DEFINE k == (m - 1) \div 8 + 1
             r == (m - 1) % 8
             base == 8 * (k - 1)
             b == [i \in 1 .. 8 |-> bit(base + i)]
             o == 16 * (8 * b[1] + 4 * b[2] + 2 * b[3] + b[4])
                    + (8 * b[5] + 4 * b[6] + 2 * b[7] + b[8])
  <2>1. k \in 1 .. octets /\ r \in 0 .. 7 /\ base \in Nat /\ base + (r + 1) = m
    BY <1>6
  <2>2. bits[m] = (h[k] \div 2^(7 - r)) % 2
    BY <1>9
  <2>3. b \in [1 .. 8 -> {0, 1}]
    <3> HIDE DEF base
    <3>1. \A i \in 1 .. 8 : base + i \in Nat /\ base + i >= 1
      BY <2>1
    <3> QED
      BY <1>7, <3>1
  <2>4. h[k] = o
    <3>1. h[k] = 16 * nibble(base) + nibble(base + 4)
      BY <1>8, <2>1
    <3> HIDE DEF k, base
    <3>2. /\ base + 4 + 1 = base + 5 /\ base + 4 + 2 = base + 6
          /\ base + 4 + 3 = base + 7 /\ base + 4 + 4 = base + 8
      BY <2>1
    <3>3. /\ b[1] = bit(base + 1) /\ b[2] = bit(base + 2) /\ b[3] = bit(base + 3)
          /\ b[4] = bit(base + 4) /\ b[5] = bit(base + 5) /\ b[6] = bit(base + 6)
          /\ b[7] = bit(base + 7) /\ b[8] = bit(base + 8)
      OBVIOUS
    <3> HIDE DEF b
    <3>4. /\ nibble(base) = 8 * b[1] + 4 * b[2] + 2 * b[3] + b[4]
          /\ nibble(base + 4) = 8 * b[5] + 4 * b[6] + 2 * b[7] + b[8]
      BY ONLY <3>2, <3>3 DEF nibble
    <3> QED
      BY <3>1, <3>4
  <2> HIDE DEF k, r, base
  <2>5. b[r + 1] = bit(m)
    <3>1. r + 1 \in 1 .. 8
      BY <2>1
    <3> QED
      BY <2>1, <3>1
  <2> HIDE DEF b
  <2>6. (o \div 2^(7 - r)) % 2 = b[r + 1]
    BY <2>1, <2>3, OctetBits
  <2> QED
    BY <2>2, <2>4, <2>5, <2>6
<1> HIDE DEF bits
<1>11. /\ Len(bits) \in Nat /\ Len(bits) - Len(code) \in 0 .. 7
       /\ \A m \in 1 .. Len(bits) : bits[m] = IF m <= Len(code) THEN code[m] ELSE 1
  BY <1>6, <1>9, <1>10 DEF bit
<1> QED
  BY <1>2, <1>3, <1>11 DEF code, bits, h, e

(* The first m bits behind base are those of the code of s. *)
Along(f, bits, s, base, m, out) ==
  /\ Descends(f, bits) /\ Len(bits) \in Nat /\ s \in Symbols /\ base \in Nat
  /\ m \in 0 .. Len(HuffmanCode[s]) /\ base + m <= Len(bits)
  /\ \A i \in 1 .. m : bits[base + i] = HuffmanCode[s][i]
  /\ f[base] = Going(<<>>, out)

(* A walk along the code of a symbol, or along the beginning of one. *)
LEMMA WalksAlong ==
  ASSUME NEW f, NEW bits, NEW s, NEW base, NEW m, NEW out, Along(f, bits, s, base, m, out)
  PROVE  /\ m < Len(HuffmanCode[s]) =>
              f[base + m] = Going(SubSeq(HuffmanCode[s], 1, m), out)
         /\ m = Len(HuffmanCode[s]) /\ s # Eos =>
              f[base + m] = Going(<<>>, Append(out, s))
<1> DEFINE c == HuffmanCode[s]
           n == Len(c)
           At(j) == Going(SubSeq(c, 1, j), out)
           G == {j \in Nat : j <= m /\ j < n => f[base + j] = At(j)}
<1>0. /\ Descends(f, bits) /\ Len(bits) \in Nat /\ s \in Symbols /\ base \in Nat
      /\ m \in 0 .. n /\ base + m <= Len(bits)
      /\ \A i \in 1 .. m : bits[base + i] = c[i]
      /\ f[base] = Going(<<>>, out)
  BY DEF Along
<1>1. c \in Seq({0, 1}) /\ n \in Nat /\ n # 0
  BY <1>0, CodesAreThere
<1>2. \A k \in 1 .. Len(bits) : f[k] = Descend(f[k - 1], bits[k])
  BY <1>0 DEF Descends
<1>3. 0 \in G
  <2>1. SubSeq(c, 1, 0) = <<>>
    <3> HIDE DEF c
    <3> QED
      BY <1>1
  <2>2. base + 0 = base
    BY <1>0
  <2> QED
    BY <1>0, <2>1, <2>2
<1>4. ASSUME NEW j \in Nat, j + 1 <= m, f[base + j] = At(j)
      PROVE  f[base + (j + 1)] = Descend(At(j), c[j + 1])
  <2>1. /\ base + (j + 1) \in 1 .. Len(bits) /\ base + (j + 1) - 1 = base + j
        /\ j + 1 \in 1 .. m
    <3>1. base \in Nat /\ m \in Nat /\ base + m <= Len(bits) /\ Len(bits) \in Nat
      BY ONLY <1>0, <1>1
    <3> QED
      BY ONLY <1>4, <3>1, j \in Nat
  <2>2. bits[base + (j + 1)] = c[j + 1]
    BY ONLY <1>0, <2>1
  <2> DEFINE q == base + (j + 1)
  <2>3. f[base + j] = At(j)
    BY <1>4
  <2> HIDE DEF At, c
  <2>6. q - 1 = base + j
    BY <1>0
  <2>7. q \in 1 .. Len(bits) /\ bits[q] = c[j + 1]
    BY ONLY <2>1, <2>2
  <2> HIDE DEF q
  <2>8. f[q - 1] = At(j)
    BY ONLY <2>3, <2>6, Zenon
  <2>4. q \in 1 .. Len(bits) /\ f[q - 1] = At(j) /\ bits[q] = c[j + 1]
    BY ONLY <2>7, <2>8
  <2>5. f[q] = Descend(At(j), c[j + 1])
    BY ONLY <1>2, <2>4
  <2> QED
    BY ONLY <2>5 DEF q
<1>5. ASSUME NEW j \in Nat, j \in G PROVE j + 1 \in G
  <2> SUFFICES ASSUME j + 1 <= m, j + 1 < n PROVE f[base + (j + 1)] = At(j + 1)
    OBVIOUS
  <2>1. f[base + j] = At(j)
    <3>1. j <= m /\ j < n
      BY <1>0, <1>1
    <3> QED
      BY <1>5, <3>1
  <2>2. f[base + (j + 1)] = Descend(At(j), c[j + 1])
    <3> HIDE DEF At, c
    <3> QED
      BY <1>4, <2>1
  <2>3. j + 1 \in 1 .. n /\ j + 1 - 1 = j
    BY <1>1
  <2>4. Descend(Going(SubSeq(c, 1, j + 1 - 1), out), c[j + 1]) = At(j + 1)
    BY <1>0, <2>3, DescendAlong
  <2> QED
    BY <2>2, <2>3, <2>4
<1>6. Nat \subseteq G
  <2> HIDE DEF G
  <2> QED
    BY <1>3, <1>5, SetInduction
<1>7. ASSUME m < n PROVE f[base + m] = At(m)
  <2>1. m \in Nat /\ m <= m
    BY <1>0, <1>1
  <2> QED
    BY <1>6, <1>7, <2>1
<1>8. ASSUME m = n, s # Eos PROVE f[base + m] = Going(<<>>, Append(out, s))
  <2> DEFINE j == m - 1
  <2>1. j \in Nat /\ j <= m /\ j < n /\ j + 1 <= m /\ j + 1 = m /\ m \in 1 .. n
    BY <1>0, <1>1, <1>8
  <2>2. f[base + j] = At(j)
    BY <1>6, <2>1
  <2>3. f[base + (j + 1)] = Descend(At(j), c[j + 1])
    <3> HIDE DEF At, c, j
    <3> QED
      BY <1>4, <2>1, <2>2
  <2>4. Descend(Going(SubSeq(c, 1, m - 1), out), c[m])
          = Going(<<>>, Append(out, s))
    BY <1>0, <1>8, <2>1, DescendAlong
  <2> QED
    BY <2>1, <2>3, <2>4
<1> QED
  BY <1>7, <1>8

(* A byte more of a text. *)
LEMMA NextByte ==
  ASSUME NEW T, NEW s \in Seq(T), NEW k \in Nat, k + 1 <= Len(s)
  PROVE  Append(SubSeq(s, 1, k), s[k + 1]) = SubSeq(s, 1, k + 1)
OBVIOUS

(* A string is decoded from what its bytes are encoded to. *)
LEMMA HuffmanIsDecoded ==
  ASSUME NEW bytes \in Seq(Octet)
  PROVE  HuffmanDecode(HuffmanEncode(bytes)) = {bytes}
<1> DEFINE e == [n \in DOMAIN bytes |-> HuffmanCode[bytes[n]]]
           code == FlattenSeq(e)
           h == HuffmanEncode(bytes)
           bits == BitsOf(h)
           N == Len(bytes)
           At(k) == Going(<<>>, SubSeq(bytes, 1, k))
<1>1. h \in Seq(Octet)
  BY HuffmanEncodeType
<1>2. PICK f : Descends(f, bits) /\ HuffmanDecode(h) = Found(f[Len(bits)])
  BY <1>1, HuffmanDecodeIs
<1>3. /\ e \in Seq(Seq({0, 1})) /\ code \in Seq({0, 1})
      /\ Len(bits) \in Nat /\ Len(bits) - Len(code) \in 0 .. 7
      /\ \A m \in 1 .. Len(bits) : bits[m] = IF m <= Len(code) THEN code[m] ELSE 1
  BY HuffmanBits
<1>4. /\ N \in Nat /\ DOMAIN e = 1 .. N /\ Len(e) = N
      /\ \A k \in 1 .. N : e[k] = HuffmanCode[bytes[k]] /\ bytes[k] \in Octet
  BY <1>3
<1>5. Symbols = 0 .. 256
  BY HuffmanAssumption DEF Eos
<1> HIDE DEF e, code, h, bits
<1>6. PICK g : Joined(g, e, {0, 1})
  BY <1>3, FlattenJoins
<1>7. /\ \A k \in 1 .. Len(e) : /\ Within(e[k], code, Len(g[k - 1]))
                                /\ Len(g[k]) = Len(g[k - 1]) + Len(e[k])
      /\ Len(g[0]) = 0 /\ Len(g[Len(e)]) = Len(code)
  BY <1>3, <1>6, FlattenLies DEF code
<1>22. \A k \in 1 .. N : /\ Within(e[k], code, Len(g[k - 1]))
                         /\ Len(g[k]) = Len(g[k - 1]) + Len(e[k])
  BY ONLY <1>4, <1>7
<1>8. Len(code) \in Nat /\ \A k \in 0 .. N : Len(g[k]) \in Nat
  <2>1. \A k \in 0 .. N : g[k] \in Seq({0, 1})
    BY <1>4, <1>6 DEF Joined
  <2> QED
    BY <1>3, <2>1
<1> DEFINE G == {k \in Nat : k <= N => f[Len(g[k])] = At(k)}
<1>9. 0 \in G
  <2>1. f[0] = Going(<<>>, <<>>)
    BY <1>2 DEF Descends, Start
  <2>2. SubSeq(bytes, 1, 0) = <<>>
    OBVIOUS
  <2> QED
    BY <1>7, <2>1, <2>2
<1>10. ASSUME NEW k \in Nat, k \in G PROVE k + 1 \in G
  <2> SUFFICES ASSUME k + 1 <= N PROVE f[Len(g[k + 1])] = At(k + 1)
    OBVIOUS
  <2> DEFINE s == bytes[k + 1]
             base == Len(g[k])
             m == Len(e[k + 1])
             out == SubSeq(bytes, 1, k)
  <2>1. k + 1 \in 1 .. N /\ k + 1 - 1 = k /\ k \in 0 .. N
    BY <1>4
  <2>2. e[k + 1] = HuffmanCode[s] /\ s \in Octet
    BY <1>4, <2>1
  <2>13. \A o \in Octet : o \in 0 .. 256 /\ o # 256
    BY DEF Octet
  <2>3. s \in Symbols /\ s # Eos
    BY <1>5, <2>2, <2>13 DEF Eos
  <2>4. m \in Nat /\ m = Len(HuffmanCode[s])
    BY <2>2, <2>3, CodesAreThere
  <2>14. /\ Within(e[k + 1], code, Len(g[k + 1 - 1]))
         /\ Len(g[k + 1]) = Len(g[k + 1 - 1]) + Len(e[k + 1])
    <3> DEFINE q == k + 1
    <3>1. q \in 1 .. N
      BY <2>1
    <3> HIDE DEF q
    <3>2. Within(e[q], code, Len(g[q - 1])) /\ Len(g[q]) = Len(g[q - 1]) + Len(e[q])
      BY ONLY <1>22, <3>1
    <3> QED
      BY ONLY <3>2 DEF q
  <2>5. base \in Nat /\ Len(g[k + 1]) = base + m /\ Within(e[k + 1], code, base)
    BY <1>8, <2>1, <2>14
  <2>6. f[base] = Going(<<>>, out)
    BY <1>4, <1>10, <2>1
  <2>7. base + m <= Len(code) /\ \A i \in 1 .. m : e[k + 1][i] = code[base + i]
    BY <2>5 DEF Within
  <2> HIDE DEF s, base, m, out
  <2>8. base + m <= Len(bits)
    BY <1>3, <1>8, <2>4, <2>5, <2>7
  <2>9. ASSUME NEW i \in 1 .. m PROVE bits[base + i] = HuffmanCode[s][i]
    <3>1. base + i \in 1 .. Len(bits) /\ base + i <= Len(code)
      BY <1>3, <1>8, <2>4, <2>5, <2>7, <2>8
    <3>2. bits[base + i] = code[base + i]
      BY <1>3, <3>1
    <3> QED
      BY <2>2, <2>7, <3>2
  <2>10. m \in 0 .. Len(HuffmanCode[s])
    BY <2>4
  <2>11. f[base + m] = Going(<<>>, Append(out, s))
    <3>1. Along(f, bits, s, base, m, out)
      BY ONLY <1>2, <1>3, <2>3, <2>5, <2>6, <2>8, <2>9, <2>10 DEF Along
    <3> QED
      BY ONLY <2>3, <2>4, <3>1, WalksAlong
  <2>12. Append(out, s) = SubSeq(bytes, 1, k + 1)
    BY NextByte DEF out, s
  <2> QED
    BY <2>5, <2>11, <2>12
<1>11. Nat \subseteq G
  <2> HIDE DEF G
  <2> QED
    BY <1>9, <1>10, SetInduction
<1>12. f[Len(code)] = Going(<<>>, bytes)
  <2>1. f[Len(g[N])] = At(N)
    BY <1>4, <1>11
  <2>2. SubSeq(bytes, 1, N) = bytes
    OBVIOUS
  <2> QED
    BY <1>4, <1>7, <2>1, <2>2
<1> DEFINE m == Len(bits) - Len(code)
           c == HuffmanCode[Eos]
<1>13. /\ Eos \in Symbols /\ Len(c) > 7 /\ \A i \in DOMAIN c : c[i] = 1
       /\ c \in Seq({0, 1}) /\ Len(c) \in Nat
  <2>1. Eos \in Symbols
    BY <1>5 DEF Eos
  <2> QED
    BY <2>1, CodesAreThere, HpackAssumption
<1> HIDE DEF c
<1>14. /\ m \in 0 .. 7 /\ m \in 0 .. Len(c) /\ m < Len(c) /\ Len(code) + m = Len(bits)
       /\ Len(code) + m <= Len(bits)
  BY <1>3, <1>8, <1>13
<1> HIDE DEF m
<1>15. ASSUME NEW i \in 1 .. m PROVE bits[Len(code) + i] = c[i]
  <2>1. Len(code) + i \in 1 .. Len(bits) /\ ~(Len(code) + i <= Len(code)) /\ i \in 1 .. Len(c)
    BY <1>3, <1>8, <1>13, <1>14
  <2>2. c[i] = 1
    BY <1>13, <2>1
  <2> QED
    BY <1>3, <2>1, <2>2
<1>16. f[Len(code) + m] = Going(SubSeq(c, 1, m), bytes)
  <2>1. Along(f, bits, Eos, Len(code), m, bytes)
    BY ONLY <1>2, <1>3, <1>8, <1>12, <1>13, <1>14, <1>15 DEF Along, c
  <2> QED
    BY ONLY <1>14, <2>1, WalksAlong DEF c
<1> DEFINE p == SubSeq(c, 1, m)
<1>17. Len(p) = m /\ \A i \in 1 .. m : p[i] = 1 /\ DOMAIN p = 1 .. m
  <2>1. m \in Nat /\ m <= Len(c)
    BY <1>13, <1>14
  <2>2. Len(p) = m /\ p \in Seq({0, 1}) /\ \A i \in 1 .. m : p[i] = c[i]
    BY <1>13, <2>1, PrefixFacts
  <2>3. \A i \in 1 .. m : c[i] = 1
    BY <1>13, <1>14
  <2>4. DOMAIN p = 1 .. m
    <3> HIDE DEF p
    <3> QED
      BY <2>1, <2>2
  <2> QED
    BY <2>2, <2>3, <2>4
<1> HIDE DEF p
<1>18. ~(Len(p) > 7) /\ 0 \notin ToSet(p)
  <2>1. ToSet(p) \subseteq {1}
    <3>1. DOMAIN p = 1 .. Len(p)
      BY <1>14, <1>17
    <3> QED
      BY <1>17, <3>1 DEF ToSet
  <2> QED
    BY <1>14, <1>17, <2>1
<1>19. f[Len(bits)] = Going(p, bytes)
  BY <1>14, <1>16 DEF p
<1>20. f[Len(bits)].path = p /\ f[Len(bits)].out = bytes /\ f[Len(bits)].bad = FALSE
  BY ONLY <1>19 DEF Going
<1>21. Found(f[Len(bits)]) = {bytes}
  BY ONLY <1>18, <1>20 DEF Found, Some
<1> QED
  BY <1>2, <1>21 DEF h

-----------------------------------------------------------------------------
(* A representation is read as it was written *)

(* What lies in some bytes is what is cut from them there. *)
LEMMA TakeOfWithin ==
  ASSUME NEW T, NEW c \in Seq(T), NEW buf \in Seq(T), NEW off \in Nat, Within(c, buf, off)
  PROVE  Fits(buf, off, Len(c)) /\ Take(buf, off, Len(c)) = c
<1> DEFINE n == Len(c)
           t == Take(buf, off, n)
<1>1. n \in Nat /\ off + n <= Len(buf) /\ \A i \in 1 .. n : c[i] = buf[off + i]
  BY DEF Within
<1> HIDE DEF n
<1>2. Fits(buf, off, n)
  BY <1>1 DEF Fits
<1>3. t \in Seq(T) /\ Len(t) = n /\ \A i \in 1 .. n : t[i] = buf[off + i]
  BY <1>1, <1>2, TakeFacts
<1> HIDE DEF t
<1>4. t = c
  BY <1>1, <1>3 DEF n
<1> QED
  BY <1>2, <1>4 DEF t, n

(* Two parts lie one behind the other where the whole lies. *)
LEMMA PartsWithin ==
  ASSUME NEW T, NEW p \in Seq(T), NEW q \in Seq(T), NEW buf \in Seq(T), NEW at \in Nat,
         Within(p \o q, buf, at)
  PROVE  /\ Within(p, buf, at) /\ Within(q, buf, at + Len(p))
         /\ Len(p \o q) = Len(p) + Len(q) /\ Len(p) \in Nat /\ Len(q) \in Nat
<1>1. /\ p \o q \in Seq(T) /\ Len(p \o q) = Len(p) + Len(q)
      /\ Within(p, p \o q, 0) /\ Within(q, p \o q, Len(p))
  BY PartsOfConcat
<1>2. Len(p) \in Nat /\ Len(q) \in Nat
  OBVIOUS
<1> DEFINE s == p \o q
<1> HIDE DEF s
<1>3. s \in Seq(T) /\ Within(p, s, 0) /\ Within(q, s, Len(p)) /\ Within(s, buf, at)
  BY <1>1 DEF s
<1>4. Within(p, buf, at + 0)
  BY <1>3, WithinWithin
<1>5. Within(q, buf, at + Len(p))
  BY <1>2, <1>3, WithinWithin
<1> QED
  BY <1>1, <1>2, <1>4, <1>5

(* Text is read as it stands. *)
LEMMA TextIsKept ==
  ASSUME NEW s \in Seq(Octet), IsText(s)
  PROVE  Lossy(s) = s
BY DEF Lossy

(* How a string is sent: its octets, and the pattern of their length. *)
Sent(bytes, huffman) == IF huffman THEN HuffmanEncode(bytes) ELSE bytes
SentPattern(huffman) == IF huffman THEN 128 ELSE 0

LEMMA SentIs ==
  ASSUME NEW bytes \in Seq(Octet), NEW huffman \in BOOLEAN
  PROVE  /\ Sent(bytes, huffman) \in Seq(Octet) /\ Len(Sent(bytes, huffman)) \in Nat
         /\ Prefix(7, SentPattern(huffman))
         /\ PeerString(bytes, huffman)
              = Integer(Len(Sent(bytes, huffman)), 7, SentPattern(huffman)) \o Sent(bytes, huffman)
<1>1. HuffmanEncode(bytes) \in Seq(Octet)
  BY HuffmanEncodeType
<1>2. Prefix(7, 128) /\ Prefix(7, 0)
  BY DEF Prefix
<1>3. Sent(bytes, huffman) \in Seq(Octet)
  BY <1>1 DEF Sent
<1>4. Len(Sent(bytes, huffman)) \in Nat
  BY <1>3
<1>5. CASE huffman
  BY <1>2, <1>3, <1>4, <1>5 DEF Sent, SentPattern, PeerString
<1>6. CASE ~huffman
  BY <1>2, <1>3, <1>4, <1>6 DEF Sent, SentPattern, PeerString
<1> QED
  BY <1>5, <1>6

(* A string is read as it was sent. *)
LEMMA StringIsRead ==
  ASSUME NEW bytes \in Seq(Octet), NEW huffman \in BOOLEAN, IsRead(bytes, huffman),
         NEW buf \in Seq(Octet), NEW at \in Nat, Within(PeerString(bytes, huffman), buf, at)
  PROVE  /\ StringAt(buf, at) = {[value |-> bytes, next |-> at + Len(PeerString(bytes, huffman))]}
         /\ Len(PeerString(bytes, huffman)) \in Nat \ {0}
<1> DEFINE o == Sent(bytes, huffman)
           L == Len(o)
           pattern == SentPattern(huffman)
           i == Integer(L, 7, pattern)
           s == PeerString(bytes, huffman)
           here == at + Len(i)
           n == [value |-> L, next |-> here]
           octets(m) == Take(buf, m.next, m.value)
           plain(m) == IF U8(buf, at) >= 128 THEN HuffmanDecode(octets(m)) ELSE Some(octets(m))
           found(m) == {[value |-> Lossy(t), next |-> m.next + m.value] : t \in plain(m)}
           lengths == {m \in IntegerAt(buf, at, 7) : m.value <= MaxString /\ Fits(buf, m.next, m.value)}
<1>1. StringAt(buf, at) = UNION {found(m) : m \in lengths}
  BY DEF StringAt
<1>2. o \in Seq(Octet) /\ L \in Nat /\ Prefix(7, pattern) /\ s = i \o o
  BY SentIs
<1>3. i \in Seq(Octet)
  BY <1>2, IntegerType
<1>4. IsText(bytes) /\ L <= MaxString
  BY DEF IsRead, Sent
<1> HIDE DEF o, pattern, s
<1>5. /\ Within(i, buf, at) /\ Within(o, buf, here)
      /\ Len(s) = Len(i) + L /\ Len(i) \in Nat
  <2>1. Within(i \o o, buf, at)
    BY <1>2 DEF s
  <2> QED
    BY <1>2, <1>3, <2>1, PartsWithin
<1>6. L < 128^4
  <2>1. MaxString < 128^4 /\ MaxString \in Nat
    BY HpackAssumption, StringsAssumption
  <2>2. 128^4 \in Nat
    BY SMT
  <2> DEFINE q == 128^4
  <2> HIDE DEF q, L
  <2>3. MaxString < q /\ q \in Nat
    BY <2>1, <2>2 DEF q
  <2>4. L < q
    BY ONLY <1>2, <1>4, <2>1, <2>3
  <2> QED
    BY <2>4 DEF q
<1> HIDE DEF L
<1>7. /\ IntegerAt(buf, at, 7) = {n} /\ Len(i) \in Nat \ {0}
      /\ U8(buf, at) \in pattern .. pattern + 2^7 - 1
  <2>1. L \in Nat /\ Prefix(7, pattern) /\ Within(Integer(L, 7, pattern), buf, at)
    BY <1>2, <1>5
  <2> QED
    BY ONLY <1>6, <2>1, IntegerIsRead, buf \in Seq(Octet), at \in Nat
<1> HIDE DEF i
<1>8. here \in Nat
  BY <1>5
<1>9. Fits(buf, here, L) /\ Take(buf, here, L) = o
  BY <1>2, <1>5, <1>8, TakeOfWithin DEF L
<1>10. n.value = L /\ n.next = here
  OBVIOUS
<1> HIDE DEF here, n
<1>11. lengths = {n}
  BY <1>4, <1>7, <1>9, <1>10
<1>12. plain(n) = {bytes}
  <2>1. octets(n) = o
    BY <1>9, <1>10
  <2>2. 2^7 = 128
    BY SMT
  <2>3. U8(buf, at) >= 128 <=> huffman
    <3> DEFINE u == U8(buf, at)
               p == 2^7
    <3>1. p = 128 /\ u \in pattern .. pattern + p - 1
      BY <1>7, <2>2
    <3> HIDE DEF p, u
    <3>2. CASE huffman
      <4>1. pattern = 128
        BY <3>2 DEF pattern, SentPattern
      <4>2. u >= 128
        BY <3>1, <4>1
      <4> QED
        BY <3>2, <4>2 DEF u
    <3>3. CASE ~huffman
      <4>1. pattern = 0
        BY <3>3 DEF pattern, SentPattern
      <4>2. ~(u >= 128)
        BY <3>1, <4>1
      <4> QED
        BY <3>3, <4>2 DEF u
    <3> QED
      BY <3>2, <3>3
  <2>4. HuffmanDecode(HuffmanEncode(bytes)) = {bytes}
    BY HuffmanIsDecoded
  <2> HIDE DEF octets
  <2>5. CASE huffman
    BY <2>1, <2>3, <2>4, <2>5 DEF o, Sent
  <2>6. CASE ~huffman
    BY <2>1, <2>3, <2>6 DEF o, Sent, Some
  <2> QED
    BY <2>5, <2>6
<1> HIDE DEF plain, lengths
<1>13. Lossy(bytes) = bytes
  BY <1>4, TextIsKept
<1>14. found(n) = {[value |-> bytes, next |-> n.next + n.value]}
  BY <1>12, <1>13
<1>15. n.next + n.value = at + Len(s)
  BY <1>2, <1>5, <1>10 DEF here
<1> HIDE DEF found
<1>16. StringAt(buf, at) = {[value |-> bytes, next |-> at + Len(s)]}
  BY <1>1, <1>11, <1>14, <1>15
<1>17. Len(s) \in Nat \ {0}
  BY <1>2, <1>5, <1>7
<1> QED
  BY <1>16, <1>17 DEF s

(* The entry at an index of both tables is found, and no other. *)
LEMMA LookupFinds ==
  ASSUME NEW es \in Seq(Entry), NEW index \in Nat
  PROVE  LET table == StaticTable \o es
         IN  /\ Lookup(index, es) = IF index \in 1 .. Len(table) THEN {table[index]} ELSE {}
             /\ table \in Seq(Entry) /\ Len(table) = Len(StaticTable) + Len(es) /\ Len(table) \in Nat
             /\ index \in 1 .. Len(table) => table[index] \in Entry
<1> DEFINE table == StaticTable \o es
<1>1. StaticTable \in Seq(Entry) /\ Len(StaticTable) \in Nat /\ Len(es) \in Nat
  BY StringsAssumption
<1>2. table \in Seq(Entry) /\ Len(table) = Len(StaticTable) + Len(es)
  BY <1>1
<1>3. Lookup(index, es) = {table[n] : n \in {index} \cap 1 .. Len(table)}
  BY DEF Lookup
<1> HIDE DEF table
<1>4. Len(table) \in Nat /\ \A n \in 1 .. Len(table) : table[n] \in Entry
  BY <1>2
<1>5. Lookup(index, es) = IF index \in 1 .. Len(table) THEN {table[index]} ELSE {}
  BY <1>3
<1> QED
  BY <1>2, <1>4, <1>5 DEF table

(* A literal: an integer, a name unless that is an index, and a value. *)
NamePart(w) == IF w.index = 0 THEN PeerString(w.name, w.huffman) ELSE <<>>
Literal(w, bits, pattern) ==
  Integer(w.index, bits, pattern) \o (NamePart(w) \o PeerString(w.value, w.huffman))
LiteralLies(w, bits, pattern, buf, at, es) ==
  /\ w \in WriteType /\ Prefix(bits, pattern)
  /\ IsRead(w.name, w.huffman) /\ IsRead(w.value, w.huffman)
  /\ buf \in Seq(Octet) /\ at \in Nat /\ Within(Literal(w, bits, pattern), buf, at)
  /\ es \in Seq(Entry) /\ Len(StaticTable \o es) < 128^4

(* A literal is read as it was written, and not at all where its index is   *)
(* in neither table.                                                        *)
LEMMA LiteralIsRead ==
  ASSUME NEW w, NEW bits, NEW pattern, NEW buf, NEW at, NEW es,
         LiteralLies(w, bits, pattern, buf, at, es)
  PROVE  LiteralAt(buf, at, bits, es) =
           IF w.index # 0 /\ w.index \notin 1 .. Len(StaticTable \o es) THEN {}
           ELSE {[field |-> Field(IF w.index = 0 THEN w.name ELSE (StaticTable \o es)[w.index].name,
                                  w.value),
                  next |-> at + Len(Literal(w, bits, pattern))]}
<1> DEFINE table == StaticTable \o es
           i == Integer(w.index, bits, pattern)
           a == NamePart(w)
           b == PeerString(w.value, w.huffman)
           s == Literal(w, bits, pattern)
           behind == at + Len(i)
           named(m) == IF m.value = 0 THEN StringAt(buf, m.next)
                       ELSE {[value |-> e.name, next |-> m.next] : e \in Lookup(m.value, es)}
           whole(n) == {[field |-> Field(n.value, v.value), next |-> v.next] :
                          v \in StringAt(buf, n.next)}
           here == [value |-> w.index, next |-> behind]
           name == IF w.index = 0 THEN w.name ELSE table[w.index].name
           given == [value |-> name, next |-> behind + Len(a)]
           all == IntegerAt(buf, at, bits)
<1>1. /\ w \in WriteType /\ Prefix(bits, pattern)
      /\ IsRead(w.name, w.huffman) /\ IsRead(w.value, w.huffman)
      /\ buf \in Seq(Octet) /\ at \in Nat /\ Within(s, buf, at)
      /\ es \in Seq(Entry) /\ Len(table) < 128^4
  BY DEF LiteralLies
<1>2. /\ w.index \in Nat /\ w.name \in Seq(Octet) /\ w.value \in Seq(Octet)
      /\ w.huffman \in BOOLEAN
  BY <1>1 DEF WriteType
<1>3. LiteralAt(buf, at, bits, es) = UNION {whole(n) : n \in UNION {named(m) : m \in all}}
  BY DEF LiteralAt
<1>4. i \in Seq(Octet)
  BY <1>1, <1>2, IntegerType
<1>5. PeerString(w.name, w.huffman) \in Seq(Octet) /\ b \in Seq(Octet)
  BY <1>2, StringsAreBytes
<1>6. a \in Seq(Octet)
  <2>1. <<>> \in Seq(Octet)
    OBVIOUS
  <2> QED
    BY <1>5, <2>1 DEF NamePart
<1>7. s = i \o (a \o b)
  BY DEF Literal
<1> HIDE DEF i, a, b, s
<1>8. a \o b \in Seq(Octet)
  BY <1>5, <1>6, ConcatType
<1>9. /\ Within(i, buf, at) /\ Within(a \o b, buf, behind) /\ Len(i) \in Nat
      /\ Len(s) = Len(i) + Len(a \o b)
  <2> DEFINE c == a \o b
  <2>1. c \in Seq(Octet) /\ s = i \o c
    BY <1>7, <1>8
  <2> HIDE DEF c
  <2>2. /\ i \in Seq(Octet) /\ c \in Seq(Octet) /\ buf \in Seq(Octet) /\ at \in Nat
        /\ Within(i \o c, buf, at)
    BY ONLY <1>1, <1>4, <2>1
  <2>3. /\ Within(i, buf, at) /\ Within(c, buf, at + Len(i))
        /\ Len(i \o c) = Len(i) + Len(c) /\ Len(i) \in Nat
    BY ONLY <2>2, PartsWithin
  <2> QED
    BY ONLY <2>1, <2>3 DEF c, behind
<1>10. behind \in Nat
  BY <1>1, <1>9
<1> HIDE DEF behind
<1>11. /\ Within(a, buf, behind) /\ Within(b, buf, behind + Len(a))
       /\ Len(a \o b) = Len(a) + Len(b) /\ Len(a) \in Nat /\ Len(b) \in Nat
  BY <1>1, <1>5, <1>6, <1>9, <1>10, PartsWithin
<1>12. all \subseteq {here} /\ (w.index < 128^4 => all = {here})
  <2>1. w.index \in Nat /\ Prefix(bits, pattern) /\ buf \in Seq(Octet) /\ at \in Nat
        /\ Within(Integer(w.index, bits, pattern), buf, at)
    BY <1>1, <1>2, <1>9 DEF i
  <2> QED
    BY ONLY <2>1, IntegerIsRead DEF i, behind
<1>13. /\ Lookup(w.index, es) = IF w.index \in 1 .. Len(table) THEN {table[w.index]} ELSE {}
       /\ Len(table) \in Nat
  BY <1>1, <1>2, LookupFinds
<1> HIDE DEF table, all
<1>14. here.value = w.index /\ here.next = behind
  OBVIOUS
<1>15. given.value = name /\ given.next = behind + Len(a)
  OBVIOUS
<1> HIDE DEF here, given
<1>16. CASE w.index # 0 /\ w.index \notin 1 .. Len(table)
  <2>1. Lookup(w.index, es) = {}
    BY <1>13, <1>16
  <2>2. named(here) = {}
    BY <1>14, <1>16, <2>1
  <2> HIDE DEF named, whole
  <2>3. LiteralAt(buf, at, bits, es) = {}
    BY <1>3, <1>12, <2>2
  <2> QED
    BY <1>16, <2>3 DEF table
<1>17. CASE ~(w.index # 0 /\ w.index \notin 1 .. Len(table))
  <2>1. w.index < 128^4
    <3>1. 128^4 \in Nat /\ 0 < 128^4
      BY SMT
    <3> DEFINE q == 128^4
    <3> HIDE DEF q
    <3>2. Len(table) < q /\ q \in Nat /\ 0 < q
      BY <1>1, <3>1 DEF q, table
    <3>3. w.index < q
      BY <1>2, <1>13, <1>17, <3>2
    <3> QED
      BY <3>3 DEF q
  <2>2. all = {here}
    BY <1>12, <2>1
  <2>3. named(here) = {given}
    <3>1. CASE w.index = 0
      <4>1. a = PeerString(w.name, w.huffman)
        BY <3>1 DEF a, NamePart
      <4>2. StringAt(buf, behind) = {[value |-> w.name, next |-> behind + Len(a)]}
        <5>1. /\ w.name \in Seq(Octet) /\ w.huffman \in BOOLEAN /\ IsRead(w.name, w.huffman)
              /\ buf \in Seq(Octet) /\ behind \in Nat
              /\ Within(PeerString(w.name, w.huffman), buf, behind)
          BY ONLY <1>1, <1>2, <1>10, <1>11, <4>1
        <5>2. StringAt(buf, behind) =
                {[value |-> w.name, next |-> behind + Len(PeerString(w.name, w.huffman))]}
          BY ONLY <5>1, StringIsRead
        <5> QED
          BY ONLY <4>1, <5>2
      <4> QED
        BY <1>14, <3>1, <4>2 DEF given
    <3>2. CASE w.index # 0
      <4>1. Len(a) = 0
        BY <3>2 DEF a, NamePart
      <4>2. behind + Len(a) = behind
        BY <1>10, <4>1
      <4>3. Lookup(w.index, es) = {table[w.index]}
        BY <1>13, <1>17, <3>2
      <4> QED
        BY <1>14, <3>2, <4>2, <4>3 DEF given
    <3> QED
      BY <3>1, <3>2
  <2>4. StringAt(buf, behind + Len(a)) = {[value |-> w.value, next |-> behind + Len(a) + Len(b)]}
    <3>1. behind + Len(a) \in Nat
      BY <1>10, <1>11
    <3> QED
      BY <1>1, <1>2, <1>11, <3>1, StringIsRead DEF b
  <2>5. whole(given) = {[field |-> Field(name, w.value), next |-> behind + Len(a) + Len(b)]}
    <3> DEFINE v == [value |-> w.value, next |-> behind + Len(a) + Len(b)]
    <3>1. v.value = w.value /\ v.next = behind + Len(a) + Len(b)
      OBVIOUS
    <3>2. StringAt(buf, given.next) = {v}
      BY <1>15, <2>4
    <3> HIDE DEF v, name
    <3> QED
      BY ONLY <1>15, <3>1, <3>2
  <2>6. behind + Len(a) + Len(b) = at + Len(s)
    BY <1>1, <1>9, <1>11 DEF behind
  <2> HIDE DEF named, whole, name
  <2>7. LiteralAt(buf, at, bits, es) = {[field |-> Field(name, w.value), next |-> at + Len(s)]}
    BY <1>3, <2>2, <2>3, <2>5, <2>6
  <2> QED
    BY <1>17, <2>7 DEF name, table, s
<1> QED
  BY <1>16, <1>17

(* What a write means to one who keeps the peer's table. *)
RefersToNothing(peer, w) == ~Known(peer, w.index) /\ (w.do = "index" \/ w.index # 0)
KindOf(do) == IF do = "index" THEN "indexed" ELSE IF do = "insert" THEN "inserted" ELSE "plain"
Meaning(peer, w, next) ==
  IF w.do = "size" THEN {[kind |-> "resized", next |-> next, size |-> w.index]}
  ELSE IF RefersToNothing(peer, w) THEN {}
  ELSE {[kind |-> KindOf(w.do), next |-> next, field |-> MeantField(peer, w)]}

(* A write lies in a buffer at an offset, and is within the limits. *)
WriteLies(peer, w, buf, at) ==
  /\ w \in WriteType /\ buf \in Seq(Octet) /\ at \in Nat
  /\ Within(WriteRepresentation(w), buf, at)
  /\ peer.entries \in Seq(Entry) /\ Len(StaticTable \o peer.entries) < 128^4
  /\ IF w.do = "size" THEN w.index < 128^4
     ELSE IsRead(w.name, w.huffman) /\ IsRead(w.value, w.huffman)

(* A representation is read as it was written, and not at all where its     *)
(* index is in neither table.                                               *)
LEMMA RepresentationIsRead ==
  ASSUME NEW peer, NEW w, NEW buf, NEW at, WriteLies(peer, w, buf, at)
  PROVE  /\ RepresentationAt(buf, at, peer.entries)
              = Meaning(peer, w, at + Len(WriteRepresentation(w)))
         /\ Len(WriteRepresentation(w)) \in Nat \ {0}
<1> DEFINE es == peer.entries
           table == StaticTable \o es
           bits == PrefixBits(w.do)
           pattern == Pattern(w.do)
           i == Integer(w.index, bits, pattern)
           tail == IF w.do \in {"index", "size"} THEN <<>>
                   ELSE NamePart(w) \o PeerString(w.value, w.huffman)
           s == WriteRepresentation(w)
           next == at + Len(s)
           first == U8(buf, at)
           literal(kind, b) ==
             {[kind |-> kind, next |-> l.next, field |-> l.field] : l \in LiteralAt(buf, at, b, es)}
           indexed(m) == {[kind |-> "indexed", next |-> m.next, field |-> e] : e \in Lookup(m.value, es)}
           resized == {[kind |-> "resized", next |-> m.next, size |-> m.value] :
                         m \in IntegerAt(buf, at, 5)}
           reps == RepresentationAt(buf, at, es)
<1>1. /\ w \in WriteType /\ buf \in Seq(Octet) /\ at \in Nat /\ Within(s, buf, at)
      /\ es \in Seq(Entry) /\ Len(table) < 128^4
      /\ IF w.do = "size" THEN w.index < 128^4
         ELSE IsRead(w.name, w.huffman) /\ IsRead(w.value, w.huffman)
  BY DEF WriteLies
<1>2. /\ w.do \in {"index", "insert", "plain", "never", "size"} /\ w.index \in Nat
      /\ w.name \in Seq(Octet) /\ w.value \in Seq(Octet) /\ w.huffman \in BOOLEAN
  BY <1>1 DEF WriteType
<1>3. Prefix(bits, pattern)
  BY <1>2 DEF Prefix, PrefixBits, Pattern
<1>4. i \in Seq(Octet)
  BY <1>2, <1>3, IntegerType
<1>5. tail \in Seq(Octet)
  <2>1. <<>> \in Seq(Octet)
    OBVIOUS
  <2>2. PeerString(w.name, w.huffman) \in Seq(Octet) /\ PeerString(w.value, w.huffman) \in Seq(Octet)
    BY <1>2, StringsAreBytes
  <2>3. NamePart(w) \in Seq(Octet)
    BY <2>1, <2>2 DEF NamePart
  <2>4. NamePart(w) \o PeerString(w.value, w.huffman) \in Seq(Octet)
    BY <2>2, <2>3, ConcatType
  <2> QED
    BY <2>1, <2>4
<1>6. s = i \o tail
  BY DEF WriteRepresentation, NamePart
<1> HIDE DEF i, tail, s, table
<1>7. /\ Within(i, buf, at) /\ Within(tail, buf, at + Len(i))
      /\ Len(s) = Len(i) + Len(tail) /\ Len(i) \in Nat /\ Len(tail) \in Nat
  <2>1. Within(i \o tail, buf, at) /\ i \in Seq(Octet) /\ tail \in Seq(Octet)
        /\ buf \in Seq(Octet) /\ at \in Nat
    BY ONLY <1>1, <1>4, <1>5, <1>6
  <2>2. /\ Within(i, buf, at) /\ Within(tail, buf, at + Len(i))
        /\ Len(i \o tail) = Len(i) + Len(tail) /\ Len(i) \in Nat /\ Len(tail) \in Nat
    BY ONLY <2>1, PartsWithin
  <2> QED
    BY ONLY <1>6, <2>2
<1> DEFINE all == IntegerAt(buf, at, bits)
           here == [value |-> w.index, next |-> at + Len(i)]
<1>8. /\ all \subseteq {here} /\ (w.index < 128^4 => all = {here})
      /\ Len(i) \in Nat \ {0} /\ first \in pattern .. pattern + 2^bits - 1
  <2>1. w.index \in Nat /\ Prefix(bits, pattern) /\ buf \in Seq(Octet) /\ at \in Nat
        /\ Within(Integer(w.index, bits, pattern), buf, at)
    BY ONLY <1>1, <1>2, <1>3, <1>7 DEF i
  <2>2. LET only == {[value |-> w.index, next |-> at + Len(Integer(w.index, bits, pattern))]}
        IN  /\ IntegerAt(buf, at, bits) \subseteq only
            /\ w.index < 128^4 => IntegerAt(buf, at, bits) = only
            /\ Len(Integer(w.index, bits, pattern)) \in Nat \ {0}
            /\ U8(buf, at) \in pattern .. pattern + 2^bits - 1
    BY ONLY <2>1, IntegerIsRead
  <2> QED
    BY ONLY <2>2 DEF i
<1>9. Len(s) \in Nat \ {0}
  BY <1>7, <1>8
<1>10. /\ Lookup(w.index, es) = IF w.index \in 1 .. Len(table) THEN {table[w.index]} ELSE {}
       /\ Len(table) \in Nat
  BY <1>1, <1>2, LookupFinds DEF table
<1>11. Known(peer, w.index) <=> w.index \in 1 .. Len(table)
  BY DEF Known, table
<1>12. reps = CASE first >= 128 -> UNION {indexed(m) : m \in IntegerAt(buf, at, 7)}
                [] first \in 64 .. 127 -> literal("inserted", 6)
                [] first \in 32 .. 63 -> resized
                [] OTHER -> literal("plain", 4)
  BY DEF RepresentationAt
<1>13. here.value = w.index /\ here.next = at + Len(i)
  OBVIOUS
<1> HIDE DEF here, reps, first
<1>14. 2^7 = 128 /\ 2^6 = 64 /\ 2^5 = 32 /\ 2^4 = 16
  BY SMT
<1>15. CASE w.do = "index"
  <2>1. bits = 7 /\ pattern = 128
    BY <1>15 DEF PrefixBits, Pattern
  <2>2. first >= 128
    <3>1. first \in 128 .. 128 + 2^7 - 1
      BY <1>8, <2>1
    <3> QED
      BY <1>14, <3>1
  <2>3. reps = UNION {indexed(m) : m \in all}
    <3> HIDE DEF indexed, literal, resized
    <3> QED
      BY <1>12, <2>1, <2>2
  <2>4. tail = <<>> /\ Len(tail) = 0
    BY <1>15 DEF tail
  <2>5. next = at + Len(i)
    BY <1>7, <2>4
  <2> HIDE DEF all, next, bits, pattern
  <2>6. CASE Known(peer, w.index)
    <3>1. w.index < 128^4
      <4>1. 128^4 \in Nat
        BY SMT
      <4> DEFINE q == 128^4
      <4> HIDE DEF q
      <4>2. w.index < q
        BY <1>1, <1>2, <1>10, <1>11, <2>6, <4>1 DEF q
      <4> QED
        BY <4>2 DEF q
    <3>2. all = {here}
      BY <1>8, <3>1
    <3>3. indexed(here) = {[kind |-> "indexed", next |-> next, field |-> table[w.index]]}
      BY <1>10, <1>11, <1>13, <2>5, <2>6
    <3>4. MeantField(peer, w) = table[w.index]
      BY <1>15 DEF MeantField, table
    <3> HIDE DEF indexed
    <3>5. reps = {[kind |-> "indexed", next |-> next, field |-> table[w.index]]}
      BY <2>3, <3>2, <3>3
    <3>6. reps = Meaning(peer, w, next)
      BY <1>15, <2>6, <3>4, <3>5 DEF Meaning, RefersToNothing, KindOf
    <3> QED
      BY <1>9, <3>6 DEF next, s, reps
  <2>7. CASE ~Known(peer, w.index)
    <3>1. indexed(here) = {}
      BY <1>10, <1>11, <1>13, <2>7
    <3> HIDE DEF indexed
    <3>2. reps = {}
      BY <1>8, <2>3, <3>1
    <3>3. reps = Meaning(peer, w, next)
      BY <1>15, <2>7, <3>2 DEF Meaning, RefersToNothing
    <3> QED
      BY <1>9, <3>3 DEF next, s, reps
  <2> QED
    BY <2>6, <2>7
<1>16. CASE w.do = "size"
  <2>1. bits = 5 /\ pattern = 32
    BY <1>16 DEF PrefixBits, Pattern
  <2>2. first \in 32 .. 63
    <3>1. first \in 32 .. 32 + 2^5 - 1
      BY <1>8, <2>1
    <3> QED
      BY <1>14, <3>1
  <2>3. reps = resized
    <3>1. ~(first >= 128) /\ ~(first \in 64 .. 127)
      BY <2>2
    <3> HIDE DEF indexed, literal, resized
    <3> QED
      BY <1>12, <2>2, <3>1
  <2>4. tail = <<>> /\ Len(tail) = 0
    BY <1>16 DEF tail
  <2>5. next = at + Len(i)
    BY <1>7, <2>4
  <2>6. IntegerAt(buf, at, 5) = {here}
    BY <1>1, <1>8, <1>16, <2>1
  <2> HIDE DEF next
  <2>7. resized = {[kind |-> "resized", next |-> next, size |-> w.index]}
    BY <1>13, <2>5, <2>6
  <2> HIDE DEF resized
  <2>8. reps = Meaning(peer, w, next)
    BY <1>16, <2>3, <2>7 DEF Meaning
  <2> QED
    BY <1>9, <2>8 DEF next, s, reps
<1>17. CASE w.do \in {"insert", "plain", "never"}
  <2>1. tail = NamePart(w) \o PeerString(w.value, w.huffman)
    BY <1>17 DEF tail
  <2>2. s = Literal(w, bits, pattern)
    BY <1>6, <2>1 DEF Literal, i
  <2> DEFINE kind == KindOf(w.do)
             lits == LiteralAt(buf, at, bits, es)
             f == Field(IF w.index = 0 THEN w.name ELSE table[w.index].name, w.value)
  <2>3. LiteralLies(w, bits, pattern, buf, at, es)
    BY <1>1, <1>3, <1>17, <2>2 DEF LiteralLies, table
  <2>4. lits = IF w.index # 0 /\ w.index \notin 1 .. Len(table) THEN {}
               ELSE {[field |-> f, next |-> next]}
    <3> HIDE DEF bits, pattern, es
    <3>1. LiteralAt(buf, at, bits, es) =
            IF w.index # 0 /\ w.index \notin 1 .. Len(StaticTable \o es) THEN {}
            ELSE {[field |-> Field(IF w.index = 0 THEN w.name ELSE (StaticTable \o es)[w.index].name,
                                   w.value),
                   next |-> at + Len(Literal(w, bits, pattern))]}
      BY ONLY <2>3, LiteralIsRead
    <3> QED
      BY ONLY <2>2, <3>1 DEF table
  <2>5. reps = literal(kind, bits)
    <3>1. CASE w.do = "insert"
      <4>1. bits = 6 /\ pattern = 64 /\ kind = "inserted"
        BY <3>1 DEF PrefixBits, Pattern, KindOf
      <4>2. first \in 64 .. 64 + 2^6 - 1
        BY <1>8, <4>1
      <4>3. first \in 64 .. 127 /\ ~(first >= 128)
        BY <1>14, <4>2
      <4> HIDE DEF indexed, literal, resized, bits, kind
      <4> QED
        BY <1>12, <4>1, <4>3
    <3>2. CASE w.do \in {"plain", "never"}
      <4>1. bits = 4 /\ pattern \in {0, 16} /\ kind = "plain"
        BY <3>2 DEF PrefixBits, Pattern, KindOf
      <4>2. first \in pattern .. pattern + 2^4 - 1
        BY <1>8, <4>1
      <4> HIDE DEF indexed, literal, resized, bits, kind, pattern
      <4>3. first \in 0 .. 31
        BY <1>14, <4>1, <4>2
      <4>4. ~(first >= 128) /\ ~(first \in 64 .. 127) /\ ~(first \in 32 .. 63)
        BY <4>3
      <4> QED
        BY <1>12, <4>1, <4>4
    <3> QED
      BY <1>17, <3>1, <3>2
  <2>6. MeantField(peer, w) = f
    BY <1>17 DEF MeantField, table
  <2>7. reps = IF w.index # 0 /\ w.index \notin 1 .. Len(table) THEN {}
               ELSE {[kind |-> kind, next |-> next, field |-> f]}
    <3> HIDE DEF f, next, kind, bits
    <3>1. CASE w.index # 0 /\ w.index \notin 1 .. Len(table)
      BY <2>4, <2>5, <3>1
    <3>2. CASE ~(w.index # 0 /\ w.index \notin 1 .. Len(table))
      <4> DEFINE l == [field |-> f, next |-> next]
      <4>1. l.field = f /\ l.next = next
        OBVIOUS
      <4>2. lits = {l}
        BY <2>4, <3>2
      <4> HIDE DEF l, lits
      <4>3. literal(kind, bits) = {[kind |-> kind, next |-> l.next, field |-> l.field]}
        BY <4>2 DEF lits
      <4> QED
        BY <2>5, <3>2, <4>1, <4>3
    <3> QED
      BY <3>1, <3>2
  <2>8. w.do # "size" /\ w.do # "index"
    BY <1>17
  <2> HIDE DEF f, next, kind
  <2>9. reps = Meaning(peer, w, next)
    BY <1>11, <2>6, <2>7, <2>8 DEF Meaning, RefersToNothing, kind
  <2> QED
    BY <1>9, <2>9 DEF next, s, reps
<1> QED
  BY <1>2, <1>15, <1>16, <1>17

-----------------------------------------------------------------------------
(* What a table keeps *)

(* The peer and the decoder count the same. *)
LEMMA SameCost == \A e \in Entry : PeerCost(e) = Cost(e)
BY HpackAssumption DEF PeerCost, Cost

(* A running total of the peer's costs is what the beginning of a table holds. *)
LEMMA BeginningCosts ==
  ASSUME NEW es \in Seq(Entry), NEW f, Totals(f, 0, PeerCosts(es), 0 .. Len(es)),
         NEW m \in 0 .. Len(es)
  PROVE  SubSeq(es, 1, m) \in Seq(Entry) /\ f[m] = TotalCost(SubSeq(es, 1, m))
<1> DEFINE n == Len(es)
           t == SubSeq(es, 1, m)
           w == PeerCosts(es)
           u == CostsOf(t)
<1>1. /\ t \in Seq(Entry) /\ Len(t) = m /\ m \in Nat /\ n \in Nat /\ m <= n
      /\ \A k \in 1 .. m : t[k] = es[k] /\ es[k] \in Entry
  BY PrefixFacts
<1>2. \A k \in 1 .. m : w[k] = u[k]
  <2> HIDE DEF t
  <2>1. \A k \in 1 .. m : w[k] = PeerCost(es[k]) /\ u[k] = Cost(t[k])
    BY <1>1 DEF PeerCosts, CostsOf
  <2> QED
    BY <1>1, <2>1, SameCost
<1> HIDE DEF t, u, w
<1>3. PICK g : Totals(g, 0, u, 0 .. m) /\ TotalCost(t) = g[m]
  BY <1>1, TotalCostIs DEF u
<1>4. Totals(f, 0, w, 0 .. n)
  BY DEF w
<1> HIDE DEF n
<1>5. \A k \in 0 .. n : f[k] = IF k = 0 THEN 0 ELSE f[k - 1] + w[k]
  BY <1>4 DEF Totals
<1>6. \A k \in 0 .. m : g[k] = IF k = 0 THEN 0 ELSE g[k - 1] + u[k]
  BY <1>3 DEF Totals
<1> DEFINE G == {k \in Nat : k <= m => f[k] = g[k]}
<1>7. 0 \in G
  <2>1. 0 \in 0 .. n /\ 0 \in 0 .. m
    BY <1>1
  <2> QED
    BY <1>5, <1>6, <2>1
<1>8. ASSUME NEW k \in Nat, k \in G PROVE k + 1 \in G
  <2> SUFFICES ASSUME k + 1 <= m PROVE f[k + 1] = g[k + 1]
    OBVIOUS
  <2> DEFINE q == k + 1
  <2>1. q \in 0 .. n /\ q \in 0 .. m /\ q # 0 /\ q - 1 = k /\ k <= m /\ q \in 1 .. m
    BY <1>1
  <2>2. f[k] = g[k]
    BY <1>8, <2>1
  <2> HIDE DEF q, G
  <2>3. f[q] = f[k] + w[q] /\ g[q] = g[k] + u[q]
    BY <1>5, <1>6, <2>1
  <2>4. f[q] = g[q]
    BY <1>2, <2>1, <2>2, <2>3
  <2> QED
    BY <2>4 DEF q
<1>9. Nat \subseteq G
  <2> HIDE DEF G
  <2> QED
    BY <1>7, <1>8, SetInduction
<1>10. f[m] = g[m]
  BY <1>1, <1>9
<1> QED
  BY <1>1, <1>3, <1>10 DEF t

(* How many of a table's newest entries fit. *)
FitsUpTo(es, max, n) ==
  /\ n \in 0 .. Len(es) /\ TotalCost(SubSeq(es, 1, n)) <= max
  /\ \A m \in n + 1 .. Len(es) : TotalCost(SubSeq(es, 1, m)) > max

(* Those that fit are kept. *)
LEMMA FittingIs ==
  ASSUME NEW es \in Seq(Entry), NEW max \in Nat
  PROVE  \E n : FitsUpTo(es, max, n) /\ Fitting(es, max) = SubSeq(es, 1, n)
<1> DEFINE n == Len(es)
           V(g) == g = [k \in 0 .. n |-> IF k = 0 THEN 0 ELSE g[k - 1] + PeerCost(es[k])]
           f == CHOOSE g : V(g)
           last == CHOOSE k \in 0 .. n : f[k] <= max /\ \A m \in k + 1 .. n : f[m] > max
<1>1. n \in Nat /\ \A k \in 1 .. n : es[k] \in Entry
  OBVIOUS
<1>2. Fitting(es, max) = SubSeq(es, 1, last)
  BY DEF Fitting
<1>3. ASSUME NEW g PROVE V(g) <=> Totals(g, 0, PeerCosts(es), 0 .. n)
  <2>1. \A k \in 0 .. n : k # 0 => PeerCosts(es)[k] = PeerCost(es[k])
    BY DEF PeerCosts
  <2> HIDE DEF n
  <2>2. [k \in 0 .. n |-> IF k = 0 THEN 0 ELSE g[k - 1] + PeerCost(es[k])]
          = [k \in 0 .. n |-> IF k = 0 THEN 0 ELSE g[k - 1] + PeerCosts(es)[k]]
    BY <2>1
  <2> QED
    BY <2>2 DEF Totals
<1>4. \E g : V(g)
  <2>1. \E g : Totals(g, 0, PeerCosts(es), 0 .. n)
    BY <1>1, TotalsUpTo
  <2> HIDE DEF V, n
  <2> QED
    BY <1>3, <2>1
<1>5. V(f)
  <2> HIDE DEF V
  <2> QED
    BY <1>4
<1>6. Totals(f, 0, PeerCosts(es), 0 .. n)
  <2> HIDE DEF f, V
  <2> QED
    BY <1>3, <1>5
<1> HIDE DEF f, V
<1>7. \A m \in 0 .. n : /\ SubSeq(es, 1, m) \in Seq(Entry)
                        /\ f[m] = TotalCost(SubSeq(es, 1, m))
  BY <1>6, BeginningCosts
<1>8. \A m \in 0 .. n : f[m] \in Nat
  BY <1>7, TotalCostType
<1> HIDE DEF n
<1>9. f[0] = 0
  BY <1>1, <1>6 DEF Totals
<1>10. \E k \in 0 .. n : Fits2(max, k, f, n)
  BY <1>1, <1>8, <1>9, LastThatFits
<1>11. last \in 0 .. n /\ f[last] <= max /\ \A m \in last + 1 .. n : f[m] > max
  BY <1>10 DEF Fits2
<1> HIDE DEF last
<1>12. FitsUpTo(es, max, last)
  <2>1. \A m \in last + 1 .. n : m \in 0 .. n
    BY <1>1, <1>11
  <2> QED
    BY <1>7, <1>11, <2>1 DEF FitsUpTo, n
<1> QED
  BY <1>2, <1>12

(* What fits as a whole is kept as a whole. *)
LEMMA FittingWhole ==
  ASSUME NEW es \in Seq(Entry), NEW max \in Nat, TotalCost(es) <= max
  PROVE  Fitting(es, max) = es
<1>1. PICK n : FitsUpTo(es, max, n) /\ Fitting(es, max) = SubSeq(es, 1, n)
  BY FittingIs
<1>2. Len(es) \in Nat /\ SubSeq(es, 1, Len(es)) = es
  OBVIOUS
<1> DEFINE l == Len(es)
           cost(m) == TotalCost(SubSeq(es, 1, m))
<1>3. n \in 0 .. l /\ \A m \in n + 1 .. l : cost(m) > max
  BY ONLY <1>1 DEF FitsUpTo
<1>4. cost(l) = TotalCost(es) /\ TotalCost(es) \in Nat
  BY <1>2, TotalCostType
<1> HIDE DEF l, cost
<1>5. n = l
  <2> SUFFICES ASSUME n # l PROVE FALSE
    OBVIOUS
  <2>1. l \in Nat
    BY <1>2 DEF l
  <2>2. l \in n + 1 .. l
    BY ONLY n # l, <1>3, <2>1
  <2> QED
    BY <1>3, <1>4, <2>2
<1> QED
  BY <1>1, <1>2, <1>5 DEF l

(* Of a table that does not fit, what fits is what fits without the oldest. *)
LEMMA FittingOfFront ==
  ASSUME NEW es \in Seq(Entry), es # <<>>, NEW max \in Nat, TotalCost(es) > max
  PROVE  Fitting(Front(es), max) = Fitting(es, max)
<1>1. PICK n : FitsUpTo(es, max, n) /\ Fitting(es, max) = SubSeq(es, 1, n)
  BY FittingIs
<1> DEFINE t == Front(es)
<1>2. /\ t \in Seq(Entry) /\ Len(es) \in Nat \ {0} /\ Len(t) = Len(es) - 1
      /\ \A k \in 0 .. Len(t) : SubSeq(t, 1, k) = SubSeq(es, 1, k)
  <2>1. Len(es) # 0 /\ Len(es) \in Nat
    OBVIOUS
  <2> DEFINE m == Len(es) - 1
  <2>2. m \in Nat /\ m <= Len(es) /\ Len(es) = m + 1
    BY <2>1
  <2> HIDE DEF m
  <2>3. t = SubSeq(es, 1, m)
    BY DEF Front, m
  <2>4. t \in Seq(Entry) /\ Len(t) = m /\ \A i \in 1 .. m : t[i] = es[i]
    BY <2>2, <2>3, PrefixFacts
  <2> HIDE DEF t
  <2>5. ASSUME NEW k \in 0 .. m PROVE SubSeq(t, 1, k) = SubSeq(es, 1, k)
    <3>1. /\ SubSeq(t, 1, k) \in Seq(Entry) /\ Len(SubSeq(t, 1, k)) = k
          /\ \A i \in 1 .. k : SubSeq(t, 1, k)[i] = t[i]
      BY <2>2, <2>4, PrefixFacts
    <3>2. /\ SubSeq(es, 1, k) \in Seq(Entry) /\ Len(SubSeq(es, 1, k)) = k
          /\ \A i \in 1 .. k : SubSeq(es, 1, k)[i] = es[i]
      BY <2>2, PrefixFacts
    <3>3. \A i \in 1 .. k : t[i] = es[i]
      BY <2>2, <2>4
    <3> DEFINE a == SubSeq(t, 1, k)
               b == SubSeq(es, 1, k)
    <3> HIDE DEF a, b
    <3>4. a \in Seq(Entry) /\ b \in Seq(Entry) /\ Len(a) = Len(b) /\ \A i \in 1 .. Len(a) : a[i] = b[i]
      BY <3>1, <3>2, <3>3 DEF a, b
    <3>5. a = b
      BY <3>4
    <3> QED
      BY <3>5 DEF a, b
  <2> QED
    BY <2>1, <2>2, <2>4, <2>5
<1> HIDE DEF t
<1>3. PICK k : FitsUpTo(t, max, k) /\ Fitting(t, max) = SubSeq(t, 1, k)
  BY <1>2, FittingIs
<1>4. n # Len(es)
  <2>1. SubSeq(es, 1, Len(es)) = es /\ TotalCost(es) \in Nat
    BY TotalCostType
  <2>2. TotalCost(SubSeq(es, 1, n)) <= max
    BY ONLY <1>1 DEF FitsUpTo
  <2> SUFFICES ASSUME n = Len(es) PROVE FALSE
    OBVIOUS
  <2>3. TotalCost(es) <= max
    BY ONLY n = Len(es), <2>1, <2>2
  <2> QED
    BY <2>1, <2>3
<1>5. n \in 0 .. Len(t) /\ k \in 0 .. Len(t) /\ Len(t) \in Nat
  BY <1>1, <1>2, <1>3, <1>4 DEF FitsUpTo
<1> DEFINE cost(m) == TotalCost(SubSeq(es, 1, m))
<1>6. \A m \in 0 .. Len(t) : TotalCost(SubSeq(t, 1, m)) = cost(m) /\ cost(m) \in Nat
  <2>1. \A m \in 0 .. Len(t) : SubSeq(es, 1, m) \in Seq(Entry)
    BY <1>2, PrefixFacts
  <2> QED
    BY <1>2, <2>1, TotalCostType
<1> HIDE DEF cost
<1>7. cost(n) <= max /\ \A m \in n + 1 .. Len(es) : cost(m) > max
  BY <1>1 DEF FitsUpTo, cost
<1>8. cost(k) <= max /\ \A m \in k + 1 .. Len(t) : cost(m) > max
  <2>1. \A m \in k + 1 .. Len(t) : m \in 0 .. Len(t)
    BY <1>5
  <2> QED
    BY <1>3, <1>5, <1>6, <2>1 DEF FitsUpTo
<1>9. n = k
  <2>1. ~(k < n)
    <3> SUFFICES ASSUME k < n PROVE FALSE
      OBVIOUS
    <3>1. n \in k + 1 .. Len(t)
      BY <1>5
    <3> QED
      BY <1>5, <1>6, <1>7, <1>8, <3>1
  <2>2. ~(n < k)
    <3> SUFFICES ASSUME n < k PROVE FALSE
      OBVIOUS
    <3>1. k \in n + 1 .. Len(es)
      BY <1>2, <1>5
    <3> QED
      BY <1>5, <1>6, <1>7, <1>8, <3>1
  <2> QED
    BY <1>5, <2>1, <2>2
<1> QED
  BY <1>1, <1>2, <1>3, <1>5, <1>9 DEF t

(* Nothing is kept behind an entry that is too dear. *)
LEMMA FittingOfDear ==
  ASSUME NEW es \in Seq(Entry), NEW e \in Entry, NEW max \in Nat, Cost(e) > max
  PROVE  Fitting(<<e>> \o es, max) = <<>>
<1> DEFINE t == <<e>> \o es
<1>1. t \in Seq(Entry) /\ t # <<>> /\ Len(t) \in Nat \ {0} /\ t[1] = e
  <2>1. <<e>> \in Seq(Entry) /\ Len(<<e>>) = 1 /\ <<e>>[1] = e
    OBVIOUS
  <2> DEFINE s == <<e>>
  <2> HIDE DEF s
  <2>2. s \in Seq(Entry) /\ Len(s) = 1 /\ s[1] = e /\ t = s \o es
    BY <2>1 DEF s
  <2> QED
    BY <2>2
<1> HIDE DEF t
<1>2. PICK n : FitsUpTo(t, max, n) /\ Fitting(t, max) = SubSeq(t, 1, n)
  BY <1>1, FittingIs
<1>3. n = 0
  <2> SUFFICES ASSUME n # 0 PROVE FALSE
    OBVIOUS
  <2> DEFINE s == SubSeq(t, 1, n)
  <2>1. n \in Nat \ {0} /\ n <= Len(t)
    BY <1>1, <1>2 DEF FitsUpTo
  <2>2. s \in Seq(Entry) /\ Len(s) = n /\ \A i \in 1 .. n : s[i] = t[i]
    BY <1>1, <2>1, PrefixFacts
  <2>3. TotalCost(s) <= max
    BY <1>2 DEF FitsUpTo
  <2> HIDE DEF s
  <2> DEFINE r == Tail(s)
  <2>4. r \in Seq(Entry) /\ s = <<e>> \o r
    <3>1. s \in Seq(Entry) /\ Len(s) # 0 /\ s[1] = e
      BY <1>1, <2>1, <2>2
    <3> QED
      BY <3>1
  <2> HIDE DEF r
  <2>5. TotalCost(s) = Cost(e) + TotalCost(r)
    BY <2>4, TotalCostOfNew
  <2>6. TotalCost(s) \in Nat /\ TotalCost(r) \in Nat /\ Cost(e) \in Nat
    BY <2>2, <2>4, TotalCostType, CostType
  <2> QED
    BY <2>3, <2>5, <2>6
<1>4. SubSeq(t, 1, 0) = <<>>
  BY <1>1
<1> QED
  BY <1>2, <1>3, <1>4 DEF t

(* A table has no more entries than it costs. *)
LEMMA EntriesCost == \A es \in Seq(Entry) : Len(es) <= TotalCost(es)
<1> DEFINE G == {es \in Seq(Entry) : Len(es) <= TotalCost(es)}
<1>1. <<>> \in G
  BY TotalCostOfNone
<1>2. ASSUME NEW es \in Seq(Entry), NEW e \in Entry, es \in G PROVE Append(es, e) \in G
  <2> DEFINE t == Append(es, e)
  <2>1. t \in Seq(Entry) /\ t # <<>> /\ Len(t) = Len(es) + 1 /\ Len(es) \in Nat
        /\ Front(t) = es /\ Last(t) = e
    <3>1. /\ t \in Seq(Entry) /\ Len(t) = Len(es) + 1 /\ Len(es) \in Nat
          /\ t[Len(es) + 1] = e /\ \A i \in 1 .. Len(es) : t[i] = es[i]
      BY AppendFacts
    <3> DEFINE l == Len(es)
    <3> HIDE DEF t, l
    <3>2. l \in Nat /\ t \in Seq(Entry) /\ Len(t) = l + 1 /\ l <= Len(t) /\ Len(t) - 1 = l
      BY <3>1 DEF l
    <3>3. /\ SubSeq(t, 1, l) \in Seq(Entry) /\ Len(SubSeq(t, 1, l)) = l
          /\ \A i \in 1 .. l : SubSeq(t, 1, l)[i] = t[i]
      BY <3>2, PrefixFacts
    <3> DEFINE s == SubSeq(t, 1, l)
    <3> HIDE DEF s
    <3>4. s \in Seq(Entry) /\ es \in Seq(Entry) /\ Len(s) = Len(es)
          /\ \A i \in 1 .. Len(es) : s[i] = es[i]
      BY <3>1, <3>3 DEF l, s
    <3>5. s = es
      BY ONLY <3>4
    <3>6. Front(t) = es
      BY <3>2, <3>5 DEF Front, s
    <3>7. Last(t) = e /\ t # <<>>
      BY <3>1 DEF Last
    <3> QED
      BY <3>1, <3>6, <3>7
  <2> HIDE DEF t
  <2>2. TotalCost(t) = TotalCost(es) + Cost(e)
    BY <2>1, TotalCostOfFront
  <2>3. Cost(e) >= 1
    <3>1. Len(e.name) \in Nat /\ Len(e.value) \in Nat
      BY DEF Entry
    <3>2. EntryOverhead \in Nat /\ EntryOverhead > 0
      BY TableAssumption
    <3> DEFINE a == Len(e.name)
               b == Len(e.value)
    <3>3. Cost(e) = a + b + EntryOverhead
      BY DEF Cost
    <3> HIDE DEF a, b
    <3>4. a \in Nat /\ b \in Nat
      BY <3>1 DEF a, b
    <3> QED
      BY <3>2, <3>3, <3>4
  <2>4. TotalCost(es) \in Nat /\ Cost(e) \in Nat /\ Len(es) <= TotalCost(es)
    BY <1>2, TotalCostType, CostType
  <2>5. Len(t) <= TotalCost(t)
    BY <2>1, <2>2, <2>3, <2>4
  <2> QED
    BY <2>1, <2>5 DEF t
<1>3. Seq(Entry) \subseteq G
  <2> HIDE DEF G
  <2> QED
    BY <1>1, <1>2, SequenceInduction
<1> QED
  BY <1>3

-----------------------------------------------------------------------------
(* The peer, write by write *)

IsLegal(peer) == peer.legal

(* What a write does to the peer's table. *)
PeerDoes(p, w, q) ==
  /\ w.do = "size" => /\ q.meant = p.meant /\ q.entries = Fitting(p.entries, w.index)
                      /\ q.max = w.index
                      /\ IsLegal(q) <=> IsLegal(p)
  /\ w.do # "size" /\ RefersToNothing(p, w) => q.meant = p.meant /\ q.max = p.max /\ ~IsLegal(q)
  /\ w.do # "size" /\ ~RefersToNothing(p, w) =>
       /\ q.meant = Append(p.meant, MeantField(p, w)) /\ q.max = p.max
       /\ q.entries = IF w.do = "insert" THEN Fitting(<<MeantField(p, w)>> \o p.entries, p.max)
                      ELSE p.entries
       /\ IsLegal(q) <=> IsLegal(p)

LEMMA PeerDoesSo ==
  ASSUME NEW peer \in PeerType, NEW w \in WriteType
  PROVE  PeerDoes(peer, w, PeerWrites(peer, w))
<1> DEFINE E == Seq(Entry)
           q == PeerWrites(peer, w)
<1>0. PeerType = [meant : E, entries : E, max : Nat, legal : BOOLEAN]
  BY DEF PeerType
<1> HIDE DEF E
<1>1. CASE w.do = "size"
  <2> DEFINE k == Fitting(peer.entries, w.index)
  <2>1. q = [peer EXCEPT !.max = w.index, !.entries = k]
    BY <1>1 DEF PeerWrites
  <2> HIDE DEF k, q
  <2>2. /\ q.meant = peer.meant /\ q.entries = k /\ q.max = w.index
        /\ q.legal = peer.legal
    BY <1>0, <2>1, ZenonT(40)
  <2>3. IsLegal(q) <=> IsLegal(peer)
    BY ONLY <2>2, Zenon DEF IsLegal
  <2> QED
    BY <1>1, <2>2, <2>3 DEF PeerDoes, k, q
<1>2. CASE w.do # "size" /\ RefersToNothing(peer, w)
  <2>1. q = [peer EXCEPT !.legal = FALSE]
    BY <1>2 DEF PeerWrites, RefersToNothing
  <2> HIDE DEF q
  <2>2. q.meant = peer.meant /\ q.max = peer.max
    BY <1>0, <2>1, ZenonT(40)
  <2>3. ~IsLegal(q)
    <3>1. q.legal = FALSE
      BY <1>0, <2>1, ZenonT(40)
    <3> QED
      BY ONLY <3>1, Zenon DEF IsLegal
  <2> QED
    BY <1>2, <2>2, <2>3 DEF PeerDoes, q
<1>3. CASE w.do # "size" /\ ~RefersToNothing(peer, w)
  <2> DEFINE m == MeantField(peer, w)
             a == Append(peer.meant, m)
             b == IF w.do = "insert" THEN Fitting(<<m>> \o peer.entries, peer.max) ELSE peer.entries
  <2>1. q = [peer EXCEPT !.meant = a, !.entries = b]
    BY <1>3 DEF PeerWrites, RefersToNothing
  <2> HIDE DEF a, b, q
  <2>2. q.meant = a /\ q.entries = b /\ q.max = peer.max /\ q.legal = peer.legal
    BY <1>0, <2>1, ZenonT(40)
  <2>3. IsLegal(q) <=> IsLegal(peer)
    BY ONLY <2>2, Zenon DEF IsLegal
  <2> QED
    BY <1>3, <2>2, <2>3 DEF PeerDoes, a, b, q
<1> QED
  BY <1>1, <1>2, <1>3

(* A plan that is sent within the limits. *)
Sendable(plan) == plan \in Seq(WriteType) /\ WithinLimits(plan)

(* As a block is written, what it means grows, what is not legal remains    *)
(* so, and the limit is never above the first one.                          *)
Grows(f, j, k) ==
  /\ Len(f[j].meant) <= Len(f[k].meant)
  /\ IsLegal(f[k]) => IsLegal(f[j])

LEMMA PeerGrows ==
  ASSUME NEW plan, Sendable(plan), NEW f, PeerRun(f, plan)
  PROVE  /\ \A k \in 0 .. Len(plan) : f[k].max <= PeerMax /\ Grows(f, k, Len(plan))
         /\ \A k \in 1 .. Len(plan) : Grows(f, k - 1, k)
<1> DEFINE n == Len(plan)
<1>1. n \in Nat /\ \A k \in 1 .. n : plan[k] \in WriteType
  BY DEF Sendable
<1>2. /\ \A k \in 0 .. n : f[k] \in PeerType
      /\ f[0] = NewPeer
      /\ \A k \in 1 .. n : f[k] = PeerWrites(f[k - 1], plan[k])
  BY DEF PeerRun
<1>3. \A k \in 1 .. n : plan[k].do = "size" => plan[k].index <= PeerMax
  BY <1>1 DEF Sendable, WithinLimits
<1> HIDE DEF n
<1>4. \A p \in PeerType : Len(p.meant) \in Nat /\ p.meant \in Seq(Entry) /\ p.max \in Nat
  <2>1. \A p \in PeerType : p.meant \in Seq(Entry) /\ p.max \in Nat
    BY DEF PeerType
  <2> QED
    BY <2>1
<1>5. ASSUME NEW k \in 1 .. n
      PROVE  /\ k - 1 \in 0 .. n /\ k \in 0 .. n /\ PeerDoes(f[k - 1], plan[k], f[k])
             /\ f[k - 1] \in PeerType /\ f[k] \in PeerType /\ plan[k] \in WriteType
  <2>1. k - 1 \in 0 .. n /\ k \in 0 .. n
    BY <1>1
  <2> QED
    BY <1>1, <1>2, <2>1, PeerDoesSo
<1>6. ASSUME NEW k \in 1 .. n
      PROVE  Grows(f, k - 1, k) /\ (f[k - 1].max <= PeerMax => f[k].max <= PeerMax)
  <2> DEFINE p == f[k - 1]
             q == f[k]
             w == plan[k]
  <2>1. PeerDoes(p, w, q) /\ p \in PeerType /\ q \in PeerType /\ w \in WriteType
    BY <1>5
  <2>2. w.do = "size" => w.index <= PeerMax
    BY <1>3
  <2>3. /\ Len(p.meant) \in Nat /\ p.meant \in Seq(Entry) /\ p.max \in Nat
        /\ q.max \in Nat /\ q.meant \in Seq(Entry)
    BY <1>4, <2>1
  <2> HIDE DEF p, q, w
  <2>4. CASE w.do = "size"
    <3>1. q.meant = p.meant /\ q.max = w.index /\ (IsLegal(q) <=> IsLegal(p))
      BY <2>1, <2>4 DEF PeerDoes
    <3> QED
      BY <2>2, <2>3, <2>4, <3>1 DEF Grows, p, q
  <2>5. CASE w.do # "size" /\ RefersToNothing(p, w)
    <3>1. q.meant = p.meant /\ q.max = p.max /\ ~IsLegal(q)
      BY <2>1, <2>5 DEF PeerDoes
    <3> QED
      BY <2>3, <3>1 DEF Grows, p, q
  <2>6. CASE w.do # "size" /\ ~RefersToNothing(p, w)
    <3> DEFINE m == MeantField(p, w)
    <3>1. q.meant = Append(p.meant, m) /\ q.max = p.max /\ (IsLegal(q) <=> IsLegal(p))
      BY <2>1, <2>6 DEF PeerDoes
    <3> HIDE DEF m
    <3>2. Len(q.meant) = Len(p.meant) + 1
      BY <2>3, <3>1
    <3> QED
      BY <2>3, <3>1, <3>2 DEF Grows, p, q
  <2> QED
    BY <2>4, <2>5, <2>6
<1> DEFINE G == {k \in Nat : k <= n => f[k].max <= PeerMax}
<1>7. 0 \in G
  <2>1. f[0].max = PeerMax
    BY <1>2 DEF NewPeer
  <2> QED
    BY <2>1, PeerAssumption
<1>8. ASSUME NEW k \in Nat, k \in G PROVE k + 1 \in G
  <2> SUFFICES ASSUME k + 1 <= n PROVE f[k + 1].max <= PeerMax
    OBVIOUS
  <2> DEFINE q == k + 1
  <2>1. q \in 1 .. n /\ q - 1 = k /\ k <= n
    BY <1>1
  <2>2. f[k].max <= PeerMax
    BY <1>8, <2>1
  <2> HIDE DEF q, G
  <2>3. f[q].max <= PeerMax
    BY <1>6, <2>1, <2>2
  <2> QED
    BY <2>3 DEF q
<1>9. Nat \subseteq G
  <2> HIDE DEF G
  <2> QED
    BY <1>7, <1>8, SetInduction
<1> DEFINE H == {d \in Nat : d <= n => Grows(f, n - d, n)}
<1>10. 0 \in H
  <2>1. n - 0 = n /\ n \in 0 .. n
    BY <1>1
  <2>2. Len(f[n].meant) \in Nat
    BY <1>2, <1>4, <2>1
  <2> QED
    BY <2>1, <2>2 DEF Grows
<1>11. ASSUME NEW d \in Nat, d \in H PROVE d + 1 \in H
  <2> SUFFICES ASSUME d + 1 <= n PROVE Grows(f, n - (d + 1), n)
    OBVIOUS
  <2> DEFINE k == n - d
  <2>1. k \in 1 .. n /\ n - (d + 1) = k - 1 /\ d <= n /\ k \in 0 .. n /\ k - 1 \in 0 .. n /\ n \in 0 .. n
    BY <1>1
  <2>2. Grows(f, k, n)
    BY <1>11, <2>1
  <2> HIDE DEF k
  <2>3. Grows(f, k - 1, k)
    BY <1>6, <2>1
  <2>4. Len(f[k].meant) \in Nat /\ Len(f[k - 1].meant) \in Nat /\ Len(f[n].meant) \in Nat
    BY <1>2, <1>4, <2>1
  <2>5. Grows(f, k - 1, n)
    BY <2>2, <2>3, <2>4 DEF Grows
  <2> QED
    BY <2>1, <2>5
<1>12. Nat \subseteq H
  <2> HIDE DEF H
  <2> QED
    BY <1>10, <1>11, SetInduction
<1>13. ASSUME NEW k \in 0 .. n PROVE f[k].max <= PeerMax /\ Grows(f, k, n)
  <2> DEFINE d == n - k
  <2>1. d \in Nat /\ d <= n /\ n - d = k /\ k \in Nat /\ k <= n
    BY <1>1
  <2>2. d \in H /\ k \in G
    BY <1>9, <1>12, <2>1
  <2> HIDE DEF d
  <2>3. Grows(f, n - d, n)
    BY <2>1, <2>2
  <2>4. f[k].max <= PeerMax
    BY <2>1, <2>2
  <2> QED
    BY <2>1, <2>3, <2>4
<1> QED
  BY <1>6, <1>13 DEF n

-----------------------------------------------------------------------------
(* The decoder follows the peer *)

(* The decoder is where the peer was after k writes: it has read what they  *)
(* are written as and what they mean, and its table is the peer's but for   *)
(* what is still to be evicted.                                             *)
Writes(plan) == [n \in DOMAIN plan |-> WriteRepresentation(plan[n])]
InStep(plan, f, g, k) ==
  /\ PeerRun(f, plan) /\ Joined(g, Writes(plan), Octet) /\ k \in 0 .. Len(plan)
  /\ IsLegal(f[k])
  /\ pos = Len(g[k]) /\ fields = f[k].meant /\ maxSize = f[k].max
  /\ Fitting(entries, maxSize) = f[k].entries
  /\ decoding \in {"reading", "evicting", "done"}
  /\ decoding = "evicting" => size > maxSize
  /\ decoding = "done" => k = Len(plan)
GivesUp(plan) == decoding = "failed" /\ fields = <<>> /\ ~IsLegal(Peer(plan))
FollowsPlan(plan) ==
  /\ block = WriteBlock(plan)
  /\ GivesUp(plan) \/ \E f, g, k : InStep(plan, f, g, k)

(* What the writes of a plan make, one behind the other. *)
LEMMA WritesJoin ==
  ASSUME NEW plan \in Seq(WriteType)
  PROVE  /\ Writes(plan) \in Seq(Seq(Octet)) /\ Len(Writes(plan)) = Len(plan)
         /\ \A k \in 1 .. Len(plan) : Writes(plan)[k] = WriteRepresentation(plan[k])
         /\ WriteBlock(plan) = FlattenSeq(Writes(plan))
<1>1. /\ Len(plan) \in Nat /\ DOMAIN plan = 1 .. Len(plan)
      /\ \A n \in 1 .. Len(plan) : plan[n] \in WriteType
  OBVIOUS
<1>2. \A n \in 1 .. Len(plan) : WriteRepresentation(plan[n]) \in Seq(Octet)
  BY <1>1, WriteRepresentationType
<1> DEFINE n == Len(plan)
           B == Seq(Octet)
<1>3. /\ Writes(plan) \in [1 .. n -> B]
      /\ \A k \in 1 .. n : Writes(plan)[k] = WriteRepresentation(plan[k])
  BY <1>1, <1>2 DEF Writes
<1>4. WriteBlock(plan) = FlattenSeq(Writes(plan))
  BY DEF WriteBlock, Writes
<1> HIDE DEF n, B
<1>5. n \in Nat
  BY <1>1 DEF n
<1>6. Writes(plan) \in Seq(B) /\ Len(Writes(plan)) = n
  BY <1>3, <1>5
<1> QED
  BY <1>3, <1>4, <1>6 DEF n, B

(* A block that is opened is read from where the peer begins. *)
LEMMA PlanOpens ==
  ASSUME NEW plan, Sendable(plan), OpenBlock(WriteBlock(plan))
  PROVE  FollowsPlan(plan)'
<1>1. /\ block' = WriteBlock(plan) /\ pos' = 0 /\ fields' = <<>> /\ entries' = <<>> /\ size' = 0
      /\ maxSize' = DefaultMax /\ decoding' = "reading"
  BY DEF OpenBlock
<1>2. plan \in Seq(WriteType)
  BY DEF Sendable
<1>3. PICK f : PeerRun(f, plan)
  BY <1>2, PeerRuns
<1>4. Writes(plan) \in Seq(Seq(Octet)) /\ Len(plan) \in Nat
  BY <1>2, WritesJoin
<1>5. PICK g : Joined(g, Writes(plan), Octet)
  BY <1>4, FlattenJoins
<1>6. g[0] = <<>> /\ 0 \in 0 .. Len(plan)
  BY <1>4, <1>5 DEF Joined
<1>7. f[0] = NewPeer
  BY <1>3 DEF PeerRun
<1>8. /\ NewPeer.meant = <<>> /\ NewPeer.entries = <<>> /\ NewPeer.max = PeerMax
  BY DEF NewPeer
<1>9. IsLegal(NewPeer)
  BY Zenon DEF IsLegal, NewPeer
<1>10. DefaultMax = PeerMax /\ PeerMax \in Nat
  BY HpackAssumption, PeerAssumption
<1>11. Fitting(<<>>, PeerMax) = <<>>
  <2>1. <<>> \in Seq(Entry) /\ TotalCost(<<>>) <= PeerMax
    BY <1>10, TotalCostOfNone
  <2> QED
    BY <1>10, <2>1, FittingWhole
<1>12. InStep(plan, f, g, 0)'
  BY <1>1, <1>3, <1>5, <1>6, <1>7, <1>8, <1>9, <1>10, <1>11 DEF InStep
<1> QED
  BY <1>1, <1>12 DEF FollowsPlan

Following(plan, f, g, k) ==
  Sendable(plan) /\ DecoderInv /\ block = WriteBlock(plan) /\ InStep(plan, f, g, k)

(* While the decoder reads, its table is the peer's, and what lies ahead of *)
(* it is the next write.                                                    *)
LEMMA ReadsTheNext ==
  ASSUME NEW plan, NEW f, NEW g, NEW k, Following(plan, f, g, k), decoding = "reading"
  PROVE  /\ entries = f[k].entries /\ (k = Len(plan) => pos = Len(block))
         /\ k # Len(plan) =>
              LET w == plan[k + 1]
              IN  /\ pos < Len(g[k + 1]) /\ Len(g[k + 1]) <= Len(block)
                  /\ RepresentationAt(block, pos, entries) = Meaning(f[k], w, Len(g[k + 1]))
<1> DEFINE n == Len(plan)
           ss == Writes(plan)
<1>1. /\ PeerRun(f, plan) /\ Joined(g, ss, Octet) /\ k \in 0 .. n
      /\ pos = Len(g[k]) /\ maxSize = f[k].max /\ Fitting(entries, maxSize) = f[k].entries
      /\ block = WriteBlock(plan) /\ Sendable(plan)
  BY DEF Following, InStep
<1>2. /\ entries \in Seq(Entry) /\ maxSize \in Nat /\ size = TotalCost(entries)
      /\ size <= maxSize /\ block \in Seq(Octet)
  <2>1. maxSize \in 0 .. AbsoluteMax /\ AbsoluteMax \in Nat
    BY TableAssumption DEF Following, DecoderInv, DecoderTypeOK
  <2> QED
    BY <2>1 DEF Following, DecoderInv, DecoderTypeOK, TableAccounts
<1>3. entries = f[k].entries
  BY <1>1, <1>2, FittingWhole
<1>4. /\ plan \in Seq(WriteType) /\ n \in Nat
      /\ ss \in Seq(Seq(Octet)) /\ Len(ss) = n
      /\ \A j \in 1 .. n : ss[j] = WriteRepresentation(plan[j])
      /\ block = FlattenSeq(ss)
  <2>1. plan \in Seq(WriteType)
    BY <1>1 DEF Sendable
  <2> QED
    BY <1>1, <2>1, WritesJoin
<1>5. /\ \A j \in 1 .. n : Within(ss[j], block, Len(g[j - 1])) /\ Len(g[j]) = Len(g[j - 1]) + Len(ss[j])
      /\ Len(g[n]) = Len(block)
  <2>1. ss \in Seq(Seq(Octet)) /\ Joined(g, ss, Octet)
    BY <1>1, <1>4
  <2> HIDE DEF ss
  <2>2. /\ \A j \in 1 .. Len(ss) : /\ Within(ss[j], FlattenSeq(ss), Len(g[j - 1]))
                                  /\ Len(g[j]) = Len(g[j - 1]) + Len(ss[j])
        /\ Len(g[0]) = 0 /\ Len(g[Len(ss)]) = Len(FlattenSeq(ss))
    BY ONLY <2>1, FlattenLies
  <2>3. block = FlattenSeq(ss) /\ Len(ss) = n
    BY <1>4 DEF ss
  <2> QED
    BY ONLY <2>2, <2>3
<1>6. k = n => pos = Len(block)
  <2>1. pos = Len(g[k]) /\ Len(g[n]) = Len(block)
    BY ONLY <1>1, <1>5
  <2> HIDE DEF n
  <2> QED
    BY ONLY <2>1
<1>7. CASE k # n
  <2> DEFINE q == k + 1
             w == plan[q]
             s == WriteRepresentation(w)
             p == f[k]
             at == pos
  <2>1. q \in 1 .. n /\ q - 1 = k
    BY <1>1, <1>4, <1>7
  <2> HIDE DEF n, ss, q
  <2>2. Within(s, block, at) /\ Len(g[q]) = at + Len(s)
    BY <1>1, <1>4, <1>5, <2>1
  <2>3. w \in WriteType
    BY <1>4, <2>1 DEF n
  <2>4. at \in Nat
    BY DEF Following, DecoderInv, DecoderTypeOK
  <2>5. Len(StaticTable \o p.entries) < 128^4
    <3> DEFINE l == Len(entries)
               t == Len(StaticTable)
               m == 128^4
    <3>1. StaticTable \in Seq(Entry) /\ t \in Nat /\ l \in Nat
      BY <1>2, StringsAssumption
    <3>2. Len(StaticTable \o entries) = t + l
      BY <1>2, <3>1, ConcatLength
    <3>3. l <= size
      BY <1>2, EntriesCost
    <3>4. maxSize <= PeerMax
      <4>1. p.max <= PeerMax
        BY <1>1, PeerGrows DEF n
      <4> QED
        BY <1>1, <4>1
    <3>5. t + PeerMax < m /\ PeerMax \in Nat
      BY HpackAssumption, PeerAssumption
    <3>6. m \in Nat /\ size \in Nat
      <4>1. m \in Nat
        BY SMT
      <4> QED
        BY <1>2, <4>1, TotalCostType
    <3> HIDE DEF l, t, m
    <3>7. t + l < m
      BY <1>2, <3>1, <3>3, <3>4, <3>5, <3>6
    <3> QED
      BY <1>3, <3>2, <3>7 DEF m
  <2>6. IF w.do = "size" THEN w.index < 128^4
        ELSE IsRead(w.name, w.huffman) /\ IsRead(w.value, w.huffman)
    <3>1. q \in DOMAIN plan
      BY <1>4, <2>1 DEF n
    <3>2. IF w.do = "size" THEN w.index <= PeerMax
          ELSE IsRead(w.name, w.huffman) /\ IsRead(w.value, w.huffman)
      BY <1>1, <3>1 DEF Sendable, WithinLimits
    <3> DEFINE t == Len(StaticTable)
               m == 128^4
    <3>3. t \in Nat /\ t + PeerMax < m /\ PeerMax \in Nat
      BY StringsAssumption, HpackAssumption, PeerAssumption
    <3>4. m \in Nat
      BY SMT
    <3>5. w.index \in Nat
      BY <2>3 DEF WriteType
    <3> HIDE DEF t, m, w
    <3>6. w.do = "size" => w.index < m
      BY <3>2, <3>3, <3>4, <3>5
    <3> QED
      BY <3>2, <3>6 DEF m
  <2>7. WriteLies(p, w, block, at)
    <3>1. p.entries \in Seq(Entry)
      BY <1>2, <1>3
    <3> HIDE DEF p, w, at
    <3> QED
      BY <1>2, <2>2, <2>3, <2>4, <2>5, <2>6, <3>1 DEF WriteLies
  <2>8. /\ RepresentationAt(block, at, p.entries) = Meaning(p, w, at + Len(s))
        /\ Len(s) \in Nat \ {0}
    <3> HIDE DEF p, w, at
    <3> QED
      BY <2>7, RepresentationIsRead
  <2>9. at + Len(s) <= Len(block)
    BY <2>2 DEF Within
  <2>10. pos < Len(g[q]) /\ Len(g[q]) <= Len(block)
         /\ RepresentationAt(block, pos, entries) = Meaning(f[k], w, Len(g[q]))
    <3> DEFINE r == Meaning(p, w, at + Len(s))
    <3>1. at < at + Len(s)
      BY <2>4, <2>8
    <3>2. RepresentationAt(block, at, entries) = r
      BY <1>3, <2>8
    <3>3. r = Meaning(p, w, Len(g[q]))
      BY <2>2
    <3> HIDE DEF r, w, s
    <3> QED
      BY <2>2, <2>9, <3>1, <3>2, <3>3
  <2> QED
    BY <1>3, <1>6, <1>7, <2>10 DEF q, n
<1> QED
  BY <1>3, <1>6, <1>7 DEF n

(* What is read is the next write, as the peer means it. *)
Takes(plan, f, g, k, rep) ==
  LET w == plan[k + 1]
  IN  /\ k + 1 \in 0 .. Len(plan) /\ rep.next = Len(g[k + 1])
      /\ w.do \in {"index", "insert", "plain", "never", "size"} /\ w.index \in Nat
      /\ PeerDoes(f[k], w, f[k + 1])
      /\ IF w.do = "size" THEN rep.kind = "resized" /\ rep.size = w.index /\ w.index <= PeerMax
         ELSE /\ ~RefersToNothing(f[k], w) /\ rep.kind = KindOf(w.do)
              /\ rep.field = MeantField(f[k], w)

(* The peer's next write, as long as there is one. *)
LEMMA NextWrite ==
  ASSUME NEW plan, NEW f, NEW g, NEW k, Following(plan, f, g, k), k # Len(plan)
  PROVE  /\ k \in Nat /\ k + 1 \in 1 .. Len(plan) /\ k + 1 \in 0 .. Len(plan)
         /\ plan[k + 1] \in WriteType /\ PeerDoes(f[k], plan[k + 1], f[k + 1])
         /\ f[k] \in PeerType
         /\ plan[k + 1].do = "size" => plan[k + 1].index <= PeerMax
<1> DEFINE n == Len(plan)
           q == k + 1
<1>1. PeerRun(f, plan) /\ k \in 0 .. n /\ Sendable(plan) /\ WithinLimits(plan)
  BY DEF Following, InStep, Sendable
<1>2. plan \in Seq(WriteType) /\ n \in Nat /\ \A j \in 1 .. n : j \in DOMAIN plan /\ plan[j] \in WriteType
  BY <1>1 DEF Sendable
<1>3. q \in 1 .. n /\ q \in 0 .. n /\ k \in Nat /\ q - 1 = k
  BY <1>1, <1>2
<1> HIDE DEF n, q
<1>4. f[k] \in PeerType /\ f[q] = PeerWrites(f[k], plan[q])
  BY <1>1, <1>3 DEF PeerRun, n
<1>5. q \in DOMAIN plan /\ plan[q] \in WriteType
  BY <1>2, <1>3
<1>6. PeerDoes(f[k], plan[q], f[q])
  BY <1>4, <1>5, PeerDoesSo
<1>7. plan[q].do = "size" => plan[q].index <= PeerMax
  BY <1>1, <1>5 DEF WithinLimits
<1> QED
  BY <1>3, <1>4, <1>5, <1>6, <1>7 DEF n, q

LEMMA ReadsWrite ==
  ASSUME NEW plan, NEW f, NEW g, NEW k, Following(plan, f, g, k), Reading,
         NEW rep \in RepresentationAt(block, pos, entries)
  PROVE  Takes(plan, f, g, k, rep)
<1> DEFINE w == plan[k + 1]
           next == Len(g[k + 1])
<1>1. decoding = "reading" /\ pos < Len(block)
  BY DEF Reading
<1>2. pos \in Nat /\ Len(block) \in Nat
  BY DEF Following, DecoderInv, DecoderTypeOK
<1>3. k # Len(plan)
  BY <1>1, <1>2, ReadsTheNext
<1>4. RepresentationAt(block, pos, entries) = Meaning(f[k], w, next)
  BY <1>1, <1>3, ReadsTheNext
<1>5. /\ k + 1 \in 0 .. Len(plan)
      /\ w \in WriteType /\ PeerDoes(f[k], w, f[k + 1])
      /\ w.do = "size" => w.index <= PeerMax
  BY <1>3, NextWrite
<1>6. w.do \in {"index", "insert", "plain", "never", "size"} /\ w.index \in Nat
  BY <1>5 DEF WriteType
<1>7. rep \in Meaning(f[k], w, next)
  BY <1>4
<1> HIDE DEF w, next
<1>8. CASE w.do = "size"
  <2> DEFINE r == [kind |-> "resized", next |-> next, size |-> w.index]
  <2>1. rep = r
    BY <1>7, <1>8 DEF Meaning
  <2>2. r.kind = "resized" /\ r.next = next /\ r.size = w.index
    OBVIOUS
  <2> HIDE DEF r
  <2> QED
    BY <1>5, <1>6, <1>8, <2>1, <2>2 DEF Takes, w, next
<1>9. CASE w.do # "size"
  <2> DEFINE r == [kind |-> KindOf(w.do), next |-> next, field |-> MeantField(f[k], w)]
  <2>1. rep = r /\ ~RefersToNothing(f[k], w)
    BY <1>7, <1>9 DEF Meaning
  <2>2. r.kind = KindOf(w.do) /\ r.next = next /\ r.field = MeantField(f[k], w)
    OBVIOUS
  <2> HIDE DEF r
  <2> QED
    BY <1>5, <1>6, <1>9, <2>1, <2>2 DEF Takes, w, next
<1> QED
  BY <1>8, <1>9

(* What does not change while the decoder takes a write. *)
LEMMA StepsOn ==
  ASSUME NEW plan, NEW f, NEW g, NEW k, NEW rep, Following(plan, f, g, k),
         Takes(plan, f, g, k, rep), pos' = rep.next,
         fields' = f[k + 1].meant, maxSize' = f[k + 1].max,
         Fitting(entries', maxSize') = f[k + 1].entries, IsLegal(f[k + 1]),
         decoding' \in {"reading", "evicting"}, decoding' = "evicting" => size' > maxSize'
  PROVE  InStep(plan, f, g, k + 1)'
<1> DEFINE q == k + 1
<1>1. /\ PeerRun(f, plan) /\ Joined(g, Writes(plan), Octet)
  BY DEF Following, InStep
<1>2. q \in 0 .. Len(plan) /\ rep.next = Len(g[q])
  BY DEF Takes
<1> HIDE DEF q
<1>3. /\ fields' = f[q].meant /\ maxSize' = f[q].max /\ Fitting(entries', maxSize') = f[q].entries
      /\ IsLegal(f[q])
  BY DEF q
<1>4. decoding' # "done"
  OBVIOUS
<1>5. pos' = Len(g[q])
  BY <1>2
<1>6. InStep(plan, f, g, q)'
  BY <1>1, <1>2, <1>3, <1>4, <1>5 DEF InStep
<1> QED
  BY <1>6 DEF q

(* A field that is read is the one the peer means. *)
LEMMA ReadFieldFollows ==
  ASSUME NEW plan, NEW f, NEW g, NEW k, NEW rep, Following(plan, f, g, k),
         Reading, Takes(plan, f, g, k, rep), ReadField(rep)
  PROVE  InStep(plan, f, g, k + 1)'
<1> DEFINE w == plan[k + 1]
           p == f[k]
           q == f[k + 1]
<1>1. /\ rep.kind \in {"indexed", "plain"} /\ pos' = rep.next
      /\ fields' = Append(fields, rep.field)
      /\ entries' = entries /\ size' = size /\ maxSize' = maxSize /\ decoding' = decoding
  BY DEF ReadField, Reads, tableVars
<1>2. decoding = "reading"
  BY DEF Reading
<1>3. entries = p.entries /\ fields = p.meant /\ maxSize = p.max
      /\ Fitting(entries, maxSize) = p.entries /\ IsLegal(p)
  BY <1>2, ReadsTheNext DEF Following, InStep
<1>4. /\ PeerDoes(p, w, q)
      /\ IF w.do = "size" THEN rep.kind = "resized" /\ rep.size = w.index /\ w.index <= PeerMax
         ELSE ~RefersToNothing(p, w) /\ rep.kind = KindOf(w.do) /\ rep.field = MeantField(p, w)
  BY DEF Takes
<1> HIDE DEF w, p, q
<1>5. /\ w.do # "size" /\ ~RefersToNothing(p, w) /\ rep.field = MeantField(p, w)
      /\ rep.kind = KindOf(w.do)
  BY <1>1, <1>4
<1>6. w.do # "insert"
  BY <1>1, <1>5 DEF KindOf
<1>7. /\ q.meant = Append(p.meant, rep.field) /\ q.max = p.max
      /\ q.entries = p.entries /\ (IsLegal(q) <=> IsLegal(p))
  BY <1>4, <1>5, <1>6 DEF PeerDoes
<1>8. /\ fields' = q.meant /\ maxSize' = q.max /\ Fitting(entries', maxSize') = q.entries
      /\ IsLegal(q)
  BY <1>1, <1>3, <1>7
<1> QED
  BY <1>1, <1>2, <1>8, StepsOn DEF q

(* An entry that is inserted is the one the peer inserts. *)
LEMMA InsertFollows ==
  ASSUME NEW plan, NEW f, NEW g, NEW k, NEW rep, Following(plan, f, g, k),
         Reading, Takes(plan, f, g, k, rep), Represents(rep), Insert(rep)
  PROVE  InStep(plan, f, g, k + 1)'
<1> DEFINE w == plan[k + 1]
           p == f[k]
           q == f[k + 1]
           e == rep.field
<1>1. /\ rep.kind = "inserted" /\ pos' = rep.next /\ fields' = Append(fields, e)
      /\ maxSize' = maxSize
      /\ IF Cost(e) > maxSize THEN entries' = <<>> /\ size' = 0
         ELSE entries' = <<e>> \o entries /\ size' = size + Cost(e)
      /\ decoding' = IF size' > maxSize' THEN "evicting" ELSE "reading"
  BY DEF Insert, Reads, Evicts
<1>2. decoding = "reading"
  BY DEF Reading
<1>3. entries = p.entries /\ fields = p.meant /\ maxSize = p.max /\ IsLegal(p)
  BY <1>2, ReadsTheNext DEF Following, InStep
<1>4. /\ PeerDoes(p, w, q)
      /\ w.do \in {"index", "insert", "plain", "never", "size"}
      /\ IF w.do = "size" THEN rep.kind = "resized" /\ rep.size = w.index /\ w.index <= PeerMax
         ELSE ~RefersToNothing(p, w) /\ rep.kind = KindOf(w.do) /\ rep.field = MeantField(p, w)
  BY DEF Takes
<1>5. e \in Entry
  BY <1>1 DEF Represents
<1>6. entries \in Seq(Entry) /\ maxSize \in Nat
  <2>1. maxSize \in 0 .. AbsoluteMax /\ AbsoluteMax \in Nat
    BY TableAssumption DEF Following, DecoderInv, DecoderTypeOK
  <2> QED
    BY <2>1 DEF Following, DecoderInv, DecoderTypeOK
<1> HIDE DEF w, p, q
<1>7. w.do # "size" /\ ~RefersToNothing(p, w) /\ e = MeantField(p, w) /\ rep.kind = KindOf(w.do)
  BY <1>1, <1>4
<1>8. w.do = "insert"
  BY <1>1, <1>7 DEF KindOf
<1>9. /\ q.meant = Append(p.meant, e) /\ q.max = p.max
      /\ q.entries = Fitting(<<e>> \o p.entries, p.max) /\ (IsLegal(q) <=> IsLegal(p))
  BY <1>4, <1>7, <1>8 DEF PeerDoes
<1> HIDE DEF e
<1>10. Fitting(entries', maxSize') = q.entries
  <2>1. CASE Cost(e) > maxSize
    <3>1. Fitting(<<e>> \o entries, maxSize) = <<>>
      BY <1>5, <1>6, <2>1, FittingOfDear
    <3>2. <<>> \in Seq(Entry) /\ TotalCost(<<>>) <= maxSize
      BY <1>6, TotalCostOfNone
    <3>3. Fitting(<<>>, maxSize) = <<>>
      BY <1>6, <3>2, FittingWhole
    <3> QED
      BY <1>1, <1>3, <1>9, <2>1, <3>1, <3>3
  <2>2. CASE ~(Cost(e) > maxSize)
    BY <1>1, <1>3, <1>9, <2>2
  <2> QED
    BY <2>1, <2>2
<1>11. /\ fields' = q.meant /\ maxSize' = q.max /\ IsLegal(q)
       /\ decoding' \in {"reading", "evicting"} /\ (decoding' = "evicting" => size' > maxSize')
  BY <1>1, <1>3, <1>9
<1> QED
  BY <1>1, <1>10, <1>11, StepsOn DEF q

(* A limit that is set is the peer's. *)
LEMMA ResizeFollows ==
  ASSUME NEW plan, NEW f, NEW g, NEW k, NEW rep, Following(plan, f, g, k),
         Reading, Takes(plan, f, g, k, rep), Resize(rep)
  PROVE  InStep(plan, f, g, k + 1)'
<1> DEFINE w == plan[k + 1]
           p == f[k]
           q == f[k + 1]
<1>1. /\ rep.kind = "resized" /\ pos' = rep.next
      /\ maxSize' = (IF rep.size < AbsoluteMax THEN rep.size ELSE AbsoluteMax)
      /\ fields' = fields /\ entries' = entries /\ size' = size
      /\ decoding' = IF size' > maxSize' THEN "evicting" ELSE "reading"
  BY DEF Resize, Reads, Evicts
<1>2. decoding = "reading"
  BY DEF Reading
<1>3. entries = p.entries /\ fields = p.meant /\ IsLegal(p)
  BY <1>2, ReadsTheNext DEF Following, InStep
<1>4. /\ PeerDoes(p, w, q)
      /\ w.do \in {"index", "insert", "plain", "never", "size"} /\ w.index \in Nat
      /\ IF w.do = "size" THEN rep.kind = "resized" /\ rep.size = w.index /\ w.index <= PeerMax
         ELSE ~RefersToNothing(p, w) /\ rep.kind = KindOf(w.do) /\ rep.field = MeantField(p, w)
  BY DEF Takes
<1> HIDE DEF w, p, q
<1>5. w.do = "size"
  BY <1>1, <1>4 DEF KindOf
<1>6. rep.size = w.index /\ w.index <= PeerMax /\ w.index \in Nat
  BY <1>4, <1>5
<1>7. maxSize' = w.index
  <2>1. PeerMax <= AbsoluteMax /\ AbsoluteMax \in Nat /\ PeerMax \in Nat
    BY HpackAssumption, TableAssumption, PeerAssumption
  <2> QED
    BY <1>1, <1>6, <2>1
<1>8. q.meant = p.meant /\ q.entries = Fitting(p.entries, w.index) /\ q.max = w.index
      /\ (IsLegal(q) <=> IsLegal(p))
  BY <1>4, <1>5 DEF PeerDoes
<1>9. /\ fields' = q.meant /\ maxSize' = q.max /\ IsLegal(q)
      /\ Fitting(entries', maxSize') = q.entries
      /\ decoding' \in {"reading", "evicting"} /\ (decoding' = "evicting" => size' > maxSize')
  BY <1>1, <1>3, <1>7, <1>8
<1> QED
  BY <1>1, <1>9, StepsOn DEF q

(* An eviction does not disturb what the peer keeps. *)
LEMMA EvictFollows ==
  ASSUME NEW plan, NEW f, NEW g, NEW k, Following(plan, f, g, k), Evict
  PROVE  InStep(plan, f, g, k)'
<1>1. /\ decoding = "evicting"
      /\ IF entries = <<>> THEN entries' = entries ELSE entries' = Front(entries)
      /\ pos' = pos /\ fields' = fields /\ maxSize' = maxSize
      /\ decoding' = IF size' > maxSize' THEN "evicting" ELSE "reading"
  BY DEF Evict, Evicts
<1>2. /\ entries \in Seq(Entry) /\ maxSize \in Nat /\ size = TotalCost(entries)
  <2>1. maxSize \in 0 .. AbsoluteMax /\ AbsoluteMax \in Nat
    BY TableAssumption DEF Following, DecoderInv, DecoderTypeOK
  <2> QED
    BY <2>1 DEF Following, DecoderInv, DecoderTypeOK, TableAccounts
<1>3. /\ PeerRun(f, plan) /\ Joined(g, Writes(plan), Octet) /\ k \in 0 .. Len(plan)
      /\ IsLegal(f[k]) /\ pos = Len(g[k]) /\ fields = f[k].meant /\ maxSize = f[k].max
      /\ Fitting(entries, maxSize) = f[k].entries /\ size > maxSize
  BY <1>1 DEF Following, InStep
<1>4. Fitting(entries', maxSize') = f[k].entries
  <2>1. CASE entries = <<>>
    BY <1>1, <1>3, <2>1
  <2>2. CASE entries # <<>>
    <3>1. Fitting(Front(entries), maxSize) = Fitting(entries, maxSize)
      BY <1>2, <1>3, <2>2, FittingOfFront
    <3> QED
      BY <1>1, <1>3, <2>2, <3>1
  <2> QED
    BY <2>1, <2>2
<1>5. decoding' \in {"reading", "evicting"} /\ (decoding' = "evicting" => size' > maxSize')
  BY <1>1
<1>6. decoding' # "done"
  BY <1>5
<1> QED
  BY <1>1, <1>3, <1>4, <1>5, <1>6 DEF InStep

(* The decoder is done when the peer is. *)
LEMMA FinishFollows ==
  ASSUME NEW plan, NEW f, NEW g, NEW k, Following(plan, f, g, k), Finish
  PROVE  InStep(plan, f, g, k)'
<1>1. /\ decoding = "reading" /\ pos = Len(block) /\ decoding' = "done"
      /\ pos' = pos /\ fields' = fields /\ entries' = entries /\ size' = size
      /\ maxSize' = maxSize
  BY DEF Finish, tableVars
<1>2. pos \in Nat /\ Len(block) \in Nat
  BY DEF Following, DecoderInv, DecoderTypeOK
<1>3. k = Len(plan)
  <2> SUFFICES ASSUME k # Len(plan) PROVE FALSE
    OBVIOUS
  <2> DEFINE l == Len(g[k + 1])
  <2>1. pos < l /\ l <= Len(block)
    BY <1>1, ReadsTheNext
  <2>2. l \in Nat
    <3>1. k + 1 \in 0 .. Len(plan)
      BY NextWrite
    <3>2. Joined(g, Writes(plan), Octet) /\ plan \in Seq(WriteType)
      BY DEF Following, InStep, Sendable
    <3>3. Len(Writes(plan)) = Len(plan)
      BY <3>2, WritesJoin
    <3>4. g[k + 1] \in Seq(Octet)
      BY <3>1, <3>2, <3>3 DEF Joined
    <3> QED
      BY <3>4
  <2> HIDE DEF l
  <2> QED
    BY <1>1, <1>2, <2>1, <2>2
<1> QED
  BY <1>1, <1>3 DEF Following, InStep

(* The decoder fails where the peer writes what is not legal. *)
LEMMA FailFollows ==
  ASSUME NEW plan, NEW f, NEW g, NEW k, Following(plan, f, g, k), Fail
  PROVE  GivesUp(plan)'
<1> DEFINE n == Len(plan)
           w == plan[k + 1]
<1>1. /\ decoding = "reading" /\ pos < Len(block) /\ fields' = <<>> /\ decoding' = "failed"
      /\ Len(fields) >= MaxHeaders \/ RepresentationAt(block, pos, entries) = None
  BY DEF Fail, Reading
<1>2. pos \in Nat /\ Len(block) \in Nat /\ fields \in Seq(Entry)
  BY DEF Following, DecoderInv, DecoderTypeOK
<1>3. k # n
  BY <1>1, <1>2, ReadsTheNext
<1>4. /\ PeerRun(f, plan) /\ Sendable(plan) /\ k \in 0 .. n /\ IsLegal(f[k])
      /\ fields = f[k].meant
  BY DEF Following, InStep
<1>5. f[n] = Peer(plan)
  BY <1>4 DEF PeerRun
<1>6. ~(Len(fields) >= MaxHeaders)
  <2>1. Len(f[k].meant) <= Len(f[n].meant)
    BY <1>4, PeerGrows DEF Grows
  <2>2. Len(f[n].meant) < MaxHeaders
    BY <1>4, <1>5 DEF Sendable, WithinLimits
  <2>3. f[n].meant \in Seq(Entry)
    <3>1. plan \in Seq(WriteType)
      BY <1>4 DEF Sendable
    <3>2. f[n] \in PeerType
      BY <1>5, <3>1, PeerIs
    <3> QED
      BY <3>2 DEF PeerType
  <2>4. MaxHeaders \in Nat
    BY TableAssumption
  <2> DEFINE a == Len(fields)
             b == Len(f[n].meant)
  <2>5. a \in Nat /\ b \in Nat /\ a <= b /\ b < MaxHeaders
    BY <1>2, <1>4, <2>1, <2>2, <2>3
  <2> HIDE DEF a, b
  <2>6. ~(a >= MaxHeaders)
    BY <2>4, <2>5
  <2> QED
    BY <2>6 DEF a
<1>7. Meaning(f[k], w, Len(g[k + 1])) = {}
  <2>1. RepresentationAt(block, pos, entries) = {}
    BY <1>1, <1>6 DEF None
  <2>2. RepresentationAt(block, pos, entries) = Meaning(f[k], w, Len(g[k + 1]))
    BY <1>1, <1>3, ReadsTheNext
  <2> QED
    BY <2>1, <2>2
<1>8. w.do # "size" /\ RefersToNothing(f[k], w)
  <2> HIDE DEF w
  <2> QED
    BY <1>7 DEF Meaning
<1>9. ~IsLegal(f[k + 1]) /\ k + 1 \in 0 .. n
  <2>1. PeerDoes(f[k], w, f[k + 1]) /\ k + 1 \in 0 .. n
    BY <1>3, NextWrite
  <2> HIDE DEF w
  <2> QED
    BY <1>8, <2>1 DEF PeerDoes
<1>10. ~IsLegal(f[n])
  BY <1>4, <1>9, PeerGrows DEF Grows
<1> QED
  BY <1>1, <1>5, <1>10 DEF GivesUp

(* No step of the decoder leaves the plan. *)
LEMMA DecodeFollows ==
  ASSUME NEW plan, Sendable(plan), DecoderInv, FollowsPlan(plan), Decode
  PROVE  FollowsPlan(plan)'
<1>1. decoding \in {"reading", "evicting"} /\ block' = block
  BY DEF Decode, Reading, ReadField, Insert, Resize, Reads, Fail, Evict, Finish
<1>2. block = WriteBlock(plan) /\ ~GivesUp(plan)
  BY <1>1 DEF FollowsPlan, GivesUp
<1>3. PICK f, g, k : InStep(plan, f, g, k)
  BY <1>2 DEF FollowsPlan
<1>4. Following(plan, f, g, k)
  BY <1>2, <1>3 DEF Following
<1>5. CASE \E rep \in RepresentationAt(block, pos, entries) :
             Reading /\ (ReadField(rep) \/ Insert(rep) \/ Resize(rep))
  <2>1. PICK rep \in RepresentationAt(block, pos, entries) :
               Reading /\ (ReadField(rep) \/ Insert(rep) \/ Resize(rep))
    BY <1>5
  <2>2. Takes(plan, f, g, k, rep) /\ Represents(rep)
    BY <1>4, <2>1, ReadsWrite, RepresentationsRepresent
  <2>3. InStep(plan, f, g, k + 1)'
    BY <1>4, <2>1, <2>2, ReadFieldFollows, InsertFollows, ResizeFollows
  <2> QED
    BY <1>1, <1>2, <2>3 DEF FollowsPlan
<1>6. CASE Fail
  <2>1. GivesUp(plan)'
    BY <1>4, <1>6, FailFollows
  <2> QED
    BY <1>1, <1>2, <2>1 DEF FollowsPlan
<1>7. CASE Evict
  <2>1. InStep(plan, f, g, k)'
    BY <1>4, <1>7, EvictFollows
  <2> QED
    BY <1>1, <1>2, <2>1 DEF FollowsPlan
<1>8. CASE Finish
  <2>1. InStep(plan, f, g, k)'
    BY <1>4, <1>8, FinishFollows
  <2> QED
    BY <1>1, <1>2, <2>1 DEF FollowsPlan
<1> QED
  BY <1>5, <1>6, <1>7, <1>8 DEF Decode

(* A decoder that follows the plan to its end has read what the peer meant. *)
LEMMA FollowedToTheEnd ==
  ASSUME NEW plan, Sendable(plan), DecoderInv, FollowsPlan(plan), decoding \in {"done", "failed"}
  PROVE  IF IsLegal(Peer(plan))
         THEN decoding = "done" /\ fields = Peer(plan).meant /\ entries = Peer(plan).entries
         ELSE decoding = "failed" /\ fields = <<>>
<1>1. CASE GivesUp(plan)
  BY <1>1 DEF GivesUp
<1>2. CASE ~GivesUp(plan)
  <2>1. PICK f, g, k : InStep(plan, f, g, k)
    BY <1>2 DEF FollowsPlan
  <2>2. /\ decoding = "done" /\ k = Len(plan) /\ PeerRun(f, plan) /\ IsLegal(f[k])
        /\ fields = f[k].meant /\ Fitting(entries, maxSize) = f[k].entries
    BY <2>1 DEF InStep
  <2>3. f[k] = Peer(plan)
    BY <2>2 DEF PeerRun
  <2>4. /\ entries \in Seq(Entry) /\ maxSize \in Nat /\ TotalCost(entries) <= maxSize
    <3>1. maxSize \in 0 .. AbsoluteMax /\ AbsoluteMax \in Nat
      BY TableAssumption DEF DecoderInv, DecoderTypeOK
    <3> QED
      BY <2>2, <3>1 DEF DecoderInv, DecoderTypeOK, TableAccounts
  <2>5. Fitting(entries, maxSize) = entries
    BY <2>4, FittingWhole
  <2> QED
    BY <2>2, <2>3, <2>5
<1> QED
  BY <1>1, <1>2

-----------------------------------------------------------------------------
(* Profiles that agree *)

(* Nothing is kept that was not there, and all of it only of what passes.   *)
LEMMA KeepingLength ==
  ASSUME NEW T, NEW s \in Seq(T), NEW S
  PROVE  /\ Len(Keeping(s, S)) \in 0 .. Len(s)
         /\ Len(Keeping(s, S)) = Len(s) <=> \A n \in 1 .. Len(s) : s[n] \in S
<1> DEFINE K(u) == Keeping(u, S)
           All(u) == \A n \in 1 .. Len(u) : u[n] \in S
           G == {u \in Seq(T) : Len(K(u)) \in 0 .. Len(u) /\ (Len(K(u)) = Len(u) <=> All(u))}
<1>1. K(<<>>) = <<>>
  BY ONLY KeepingEmpty
<1>2. \A u \in Seq(T) : K(u) \in Seq(T)
  BY ONLY KeepingType
<1>3. \A u \in Seq(T), x \in T : K(Append(u, x)) = IF x \in S THEN Append(K(u), x) ELSE K(u)
  BY ONLY KeepingAppend
<1> HIDE DEF K
<1>4. <<>> \in G
  <2>1. <<>> \in Seq(T) /\ Len(<<>>) = 0 /\ 1 .. 0 = {}
    OBVIOUS
  <2> QED
    BY ONLY <1>1, <2>1
<1>5. ASSUME NEW u \in Seq(T), NEW x \in T, u \in G PROVE Append(u, x) \in G
  <2> DEFINE t == Append(u, x)
  <2>1. /\ t \in Seq(T) /\ Len(t) = Len(u) + 1 /\ Len(u) \in Nat /\ t[Len(u) + 1] = x
        /\ \A n \in 1 .. Len(u) : t[n] = u[n]
    OBVIOUS
  <2>2. K(u) \in Seq(T) /\ Len(K(u)) \in 0 .. Len(u) /\ (Len(K(u)) = Len(u) <=> All(u))
    BY ONLY <1>2, <1>5
  <2>3. Len(K(t)) = IF x \in S THEN Len(K(u)) + 1 ELSE Len(K(u))
    <3>1. Len(Append(K(u), x)) = Len(K(u)) + 1
      BY ONLY <2>2, x \in T
    <3> QED
      BY ONLY <1>3, <3>1, u \in Seq(T), x \in T
  <2> HIDE DEF t
  <2>4. All(t) <=> All(u) /\ x \in S
    <3>1. \A n \in 1 .. Len(t) : n \in 1 .. Len(u) \/ n = Len(u) + 1
      BY ONLY <2>1
    <3>2. Len(u) + 1 \in 1 .. Len(t) /\ \A n \in 1 .. Len(u) : n \in 1 .. Len(t)
      BY ONLY <2>1
    <3> QED
      BY ONLY <2>1, <3>1, <3>2
  <2> HIDE DEF All
  <2>5. Len(K(t)) \in 0 .. Len(t) /\ (Len(K(t)) = Len(t) <=> All(t))
    BY ONLY <2>1, <2>2, <2>3, <2>4
  <2> QED
    BY ONLY <2>1, <2>5 DEF t
<1> HIDE DEF G
<1>6. Seq(T) \subseteq G
  BY ONLY <1>4, <1>5, SequenceInduction
<1> QED
  BY ONLY <1>6, s \in Seq(T) DEF G, K

(* What is kept and what is not are all there is. *)
LEMMA KeepingCounts ==
  ASSUME NEW T, NEW s \in Seq(T), NEW S
  PROVE  LET others == {n \in DOMAIN s : s[n] \notin S}
         IN  /\ IsFiniteSet(others) /\ Cardinality(others) \in Nat
             /\ Cardinality(others) + Len(Keeping(s, S)) = Len(s)
<1> DEFINE K(u) == Keeping(u, S)
           O(u) == {n \in DOMAIN u : u[n] \notin S}
           Counts(u) == /\ IsFiniteSet(O(u)) /\ Cardinality(O(u)) \in Nat
                        /\ Cardinality(O(u)) + Len(K(u)) = Len(u)
           G == {u \in Seq(T) : Counts(u)}
<1>1. K(<<>>) = <<>>
  BY ONLY KeepingEmpty
<1>2. \A u \in Seq(T) : K(u) \in Seq(T)
  BY ONLY KeepingType
<1>3. \A u \in Seq(T), x \in T : K(Append(u, x)) = IF x \in S THEN Append(K(u), x) ELSE K(u)
  BY ONLY KeepingAppend
<1> HIDE DEF K
<1>4. <<>> \in G
  <2>1. <<>> \in Seq(T) /\ Len(<<>>) = 0 /\ O(<<>>) = {}
    OBVIOUS
  <2>2. IsFiniteSet({}) /\ Cardinality({}) = 0
    BY ONLY FS_EmptySet
  <2> QED
    BY ONLY <1>1, <2>1, <2>2
<1>5. ASSUME NEW u \in Seq(T), NEW x \in T, u \in G PROVE Append(u, x) \in G
  <2> DEFINE t == Append(u, x)
             k == Len(u)
  <2>1. /\ t \in Seq(T) /\ Len(t) = k + 1 /\ k \in Nat /\ t[k + 1] = x
        /\ \A n \in 1 .. k : t[n] = u[n]
        /\ DOMAIN t = 1 .. k + 1 /\ DOMAIN u = 1 .. k
    OBVIOUS
  <2>2. K(u) \in Seq(T) /\ Len(K(u)) \in Nat /\ Counts(u)
    BY ONLY <1>2, <1>5
  <2>3. Len(K(t)) = IF x \in S THEN Len(K(u)) + 1 ELSE Len(K(u))
    <3>1. Len(Append(K(u), x)) = Len(K(u)) + 1
      BY ONLY <2>2, x \in T
    <3> QED
      BY ONLY <1>3, <3>1, u \in Seq(T), x \in T
  <2> HIDE DEF t, k
  <2>4. O(t) = IF x \in S THEN O(u) ELSE O(u) \cup {k + 1}
    <3>1. \A n \in 1 .. k + 1 : n \in 1 .. k \/ n = k + 1
      BY ONLY <2>1
    <3>2. k + 1 \in 1 .. k + 1 /\ k + 1 \notin 1 .. k /\ \A n \in 1 .. k : n \in 1 .. k + 1
      BY ONLY <2>1
    <3> QED
      BY ONLY <2>1, <3>1, <3>2
  <2>5. k + 1 \notin O(u)
    BY ONLY <2>1
  <2> HIDE DEF O
  <2>6. CASE x \in S
    <3>1. O(t) = O(u) /\ Len(K(t)) = Len(K(u)) + 1
      BY ONLY <2>3, <2>4, <2>6
    <3>2. Len(K(u)) \in Nat /\ Cardinality(O(u)) \in Nat /\ Cardinality(O(u)) + Len(K(u)) = k
      BY ONLY <2>2 DEF k
    <3>3. IsFiniteSet(O(t)) /\ Cardinality(O(t)) \in Nat
      BY ONLY <2>2, <3>1
    <3>4. Cardinality(O(t)) + Len(K(t)) = Len(t)
      BY ONLY <2>1, <3>1, <3>2
    <3> QED
      BY ONLY <2>1, <3>3, <3>4 DEF t
  <2>7. CASE x \notin S
    <3>1. IsFiniteSet(O(t)) /\ Cardinality(O(t)) = Cardinality(O(u)) + 1
      BY ONLY <2>2, <2>4, <2>5, <2>7, FS_AddElement
    <3>2. Len(K(t)) = Len(K(u)) /\ Cardinality(O(u)) \in Nat /\ Cardinality(O(u)) + Len(K(u)) = k
      BY ONLY <2>2, <2>3, <2>7 DEF k
    <3>3. Cardinality(O(t)) \in Nat /\ Cardinality(O(t)) + Len(K(t)) = Len(t)
      BY ONLY <2>1, <2>2, <3>1, <3>2
    <3> QED
      BY ONLY <2>1, <3>1, <3>3 DEF t
  <2> QED
    BY ONLY <2>6, <2>7 DEF t
<1> HIDE DEF G
<1>6. Seq(T) \subseteq G
  BY ONLY <1>4, <1>5, SequenceInduction
<1> QED
  BY ONLY <1>6, s \in Seq(T) DEF G, K, O

(* A comparison is clean when each of its fields agrees. *)
LEMMA CleanMeans ==
  ASSUME NEW d, IsSequence(d)
  PROVE  /\ Agreeing(d) \in 0 .. Len(d)
         /\ IsClean(d) <=> \A n \in DOMAIN d : d[n].ok
<1>1. PICK T : d \in Seq(T)
  BY DEF IsSequence
<1> DEFINE S == {f \in T : f.ok}
<1>2. DOMAIN d = 1 .. Len(d) /\ \A n \in DOMAIN d : d[n] \in T
  BY ONLY <1>1
<1>3. \A n \in DOMAIN d : d[n].ok <=> d[n] \in S
  BY ONLY <1>2
<1>4. Keep(d, LAMBDA f : f.ok) = Keeping(d, S)
  <2>1. {n \in DOMAIN d : d[n].ok} = {n \in DOMAIN d : d[n] \in S}
    BY ONLY <1>3
  <2> QED
    BY ONLY <2>1 DEF Keep, Keeping
<1> HIDE DEF S
<1>5. /\ Len(Keeping(d, S)) \in 0 .. Len(d)
      /\ Len(Keeping(d, S)) = Len(d) <=> \A n \in 1 .. Len(d) : d[n] \in S
  BY ONLY <1>1, KeepingLength
<1>6. Agreeing(d) = Len(Keeping(d, S))
  BY ONLY <1>4 DEF Agreeing
<1> QED
  BY ONLY <1>2, <1>3, <1>5, <1>6 DEF IsClean

(* A comparison always looks at something. *)
LEMMA DiffIsLong ==
  ASSUME NEW r, NEW p
  PROVE  /\ IsSequence(Diff(r, p))
         /\ Len(Diff(r, p)) \in Nat /\ Len(Diff(r, p)) > 0
<1> DEFINE a == DiffTls(r, p)
           b == DiffH2(r, p) \o DiffHttp(r, p)
<1>1. IsSequence(Diff(r, p))
  BY DiffIsSequence
<1>2. IsSequence(a) /\ IsSequence(DiffH2(r, p)) /\ IsSequence(DiffHttp(r, p))
  BY DiffPartsAre
<1>3. Len(a) = 5
  BY ONLY DEF DiffTls
<1>4. PICK T : a \in Seq(T)
  BY ONLY <1>2 DEF IsSequence
<1>5. PICK U : DiffH2(r, p) \in Seq(U)
  BY ONLY <1>2 DEF IsSequence
<1>6. PICK V : DiffHttp(r, p) \in Seq(V)
  BY ONLY <1>2 DEF IsSequence
<1>7. Diff(r, p) = (a \o DiffH2(r, p)) \o DiffHttp(r, p)
  BY ONLY DEF Diff
<1> HIDE DEF a
<1>8. Len(Diff(r, p)) = Len(a) + Len(DiffH2(r, p)) + Len(DiffHttp(r, p))
  BY ONLY <1>4, <1>5, <1>6, <1>7
<1>9. Len(DiffH2(r, p)) \in Nat /\ Len(DiffHttp(r, p)) \in Nat
  BY ONLY <1>5, <1>6
<1> QED
  BY ONLY <1>1, <1>3, <1>8, <1>9

(* What is clean scores above what is not, and not above what is. *)
LEMMA CleanScores ==
  ASSUME NEW c, NEW d, IsSequence(c), IsSequence(d), Len(c) > 0, Len(d) > 0, IsClean(c)
  PROVE  /\ Above(Score(c), Score(d)) <=> ~IsClean(d)
         /\ ~Above(Score(d), Score(c))
         /\ ~Above(MatchFloor, Score(c))
<1> DEFINE k == Len(c)
           l == Len(d)
           a == Agreeing(d)
<1>1. k \in Nat /\ l \in Nat /\ k > 0 /\ l > 0 /\ a \in 0 .. l /\ Agreeing(c) = k
  BY SequenceLength, CleanMeans DEF IsClean
<1>2. Score(c) = <<k, k>> /\ Score(d) = <<a, l>> /\ (IsClean(d) <=> a = l)
  BY ONLY <1>1 DEF Score, IsClean
<1>3. /\ Above(Score(c), Score(d)) <=> k * l > a * k
      /\ Above(Score(d), Score(c)) <=> a * k > k * l
      /\ Above(MatchFloor, Score(c)) <=> 6 * k > k * 10
  BY ONLY <1>2 DEF Above, MatchFloor
<1> HIDE DEF k, l, a
<1>4. 6 * k <= k * 10
  BY ONLY <1>1
<1>5. a * k <= k * l
  <2>1. PICK m \in Nat : l = a + m
    <3>1. l - a \in Nat /\ l = a + (l - a)
      BY ONLY <1>1
    <3> QED
      BY ONLY <3>1
  <2>2. k * l = a * k + k * m /\ k * m \in Nat /\ a * k \in Nat
    BY ONLY <1>1, <2>1
  <2> QED
    BY ONLY <2>2
<1>6. k * l > a * k <=> a # l
  <2>1. CASE a = l
    <3>1. k * l = a * k /\ k * l \in Nat
      BY ONLY <1>1, <2>1
    <3> QED
      BY ONLY <2>1, <3>1
  <2>2. CASE a # l
    <3>1. PICK m \in Nat : l = a + (m + 1)
      <4>1. l - a - 1 \in Nat /\ l = a + ((l - a - 1) + 1)
        BY ONLY <1>1, <2>2
      <4> QED
        BY ONLY <4>1
    <3>2. k * l = (a * k + k * m) + k /\ k * m \in Nat /\ a * k \in Nat
      BY ONLY <1>1, <3>1
    <3> QED
      BY ONLY <1>1, <2>2, <3>2
  <2> QED
    BY ONLY <2>1, <2>2
<1>7. a * k \in Nat /\ k * l \in Nat /\ 6 * k \in Nat /\ k * 10 \in Nat
  BY ONLY <1>1
<1> QED
  BY ONLY <1>2, <1>3, <1>4, <1>5, <1>6, <1>7

(* When profiles agree with a report in everything, the first of them is    *)
(* named.                                                                   *)
LEMMA CleanIsBest ==
  ASSUME NEW r, NEW base, DOMAIN base \subseteq Nat, NEW n \in DOMAIN base, IsClean(Diff(r, base[n]))
  PROVE  \E m \in DOMAIN base : /\ IsClean(Diff(r, base[m]))
                                /\ Best(r, base) = {Candidate(r, base[m])}
<1> DEFINE clean == {m \in DOMAIN base : IsClean(Diff(r, base[m]))}
           d(m) == Diff(r, base[m])
           firsts == {k \in DOMAIN base : \A m \in DOMAIN base \ {k} : RanksBefore(r, base, k, m)}
<1>1. clean \subseteq Nat /\ clean # {}
  BY ONLY DOMAIN base \subseteq Nat, n \in DOMAIN base, IsClean(Diff(r, base[n]))
<1>2. PICK k \in clean : \A m \in clean : k <= m
  BY ONLY <1>1, LeastElement
<1>3. \A m \in DOMAIN base : IsSequence(d(m)) /\ Len(d(m)) > 0
  BY DiffIsLong
<1>4. k \in DOMAIN base /\ IsClean(d(k)) /\ k \in Nat
  BY ONLY <1>1, <1>2
<1>5. k \in firsts
  <2>1. ASSUME NEW m \in DOMAIN base, m # k PROVE RanksBefore(r, base, k, m)
    <3>1. /\ Above(Score(d(k)), Score(d(m))) <=> ~IsClean(d(m))
          /\ ~Above(Score(d(m)), Score(d(k)))
      BY ONLY <1>3, <1>4, CleanScores, m \in DOMAIN base
    <3>2. IsClean(d(m)) => k < m
      <4>1. IsClean(d(m)) => k <= m /\ m \in Nat
        BY ONLY <1>1, <1>2, m \in DOMAIN base
      <4> QED
        BY ONLY <1>4, <4>1, <2>1
    <3> QED
      BY ONLY <3>1, <3>2 DEF RanksBefore
  <2>2. \A m \in DOMAIN base \ {k} : RanksBefore(r, base, k, m)
    BY ONLY <2>1
  <2> QED
    BY ONLY <1>4, <2>2
<1>6. \A m \in firsts : m = k
  <2> SUFFICES ASSUME NEW m \in firsts, m # k PROVE FALSE
    OBVIOUS
  <2>1. m \in DOMAIN base /\ k \in DOMAIN base /\ RanksBefore(r, base, m, k) /\ RanksBefore(r, base, k, m)
    BY ONLY <1>4, <1>5, m \in firsts, m # k
  <2> QED
    BY ONLY <2>1, DOMAIN base \subseteq Nat, m # k, OneRanksFirst
<1> DEFINE c == Candidate(r, base[k])
<1>7. ~Above(MatchFloor, c.score) /\ TlsLayerAgrees(c.diff)
  <2>1. c.score = Score(d(k)) /\ c.diff = d(k)
    BY ONLY DEF Candidate
  <2>2. ~Above(MatchFloor, Score(d(k)))
    BY ONLY <1>3, <1>4, CleanScores
  <2>3. \A i \in DOMAIN d(k) : d(k)[i].ok
    BY ONLY <1>3, <1>4, CleanMeans
  <2>4. TlsLayerAgrees(d(k))
    BY ONLY <2>3 DEF TlsLayerAgrees
  <2> QED
    BY ONLY <2>1, <2>2, <2>4
<1>8. Best(r, base) = {b \in {Candidate(r, base[m]) : m \in firsts} :
                         ~Above(MatchFloor, b.score) /\ TlsLayerAgrees(b.diff)}
  BY ONLY DEF Best
<1> HIDE DEF firsts
<1>9. {Candidate(r, base[m]) : m \in firsts} = {c}
  BY ONLY <1>5, <1>6
<1> HIDE DEF c
<1>10. Best(r, base) = {c}
  BY ONLY <1>7, <1>8, <1>9
<1> QED
  BY ONLY <1>4, <1>10 DEF c

(* Findings that are all good. *)
Agrees(f) == f.ok
AllAgree(T) == \A f \in T : Agrees(f)
Good(s) == \E T : s \in Seq(T) /\ AllAgree(T)

LEMMA GoodOf ==
  ASSUME NEW T, NEW s \in Seq(T), AllAgree(T)
  PROVE  Good(s)
BY Zenon DEF Good

LEMMA GoodConcat ==
  ASSUME NEW s, NEW t, Good(s), Good(t)
  PROVE  Good(s \o t)
<1>1. PICK T : s \in Seq(T) /\ AllAgree(T)
  BY DEF Good
<1>2. PICK U : t \in Seq(U) /\ AllAgree(U)
  BY DEF Good
<1> DEFINE V == T \cup U
<1>3. AllAgree(V)
  BY ONLY <1>1, <1>2 DEF AllAgree
<1>4. T \subseteq V /\ U \subseteq V
  OBVIOUS
<1> HIDE DEF V
<1>5. s \in Seq(V) /\ t \in Seq(V)
  BY ONLY <1>1, <1>2, <1>4, WiderType
<1>6. s \o t \in Seq(V)
  BY ONLY <1>5, ConcatType
<1> QED
  BY ONLY <1>3, <1>6 DEF Good

(* A report that has what a profile asks for agrees with it in every field. *)
TlsAgrees(r, p) ==
  /\ SameOrdered(Strip(r.tls.ciphers), p.ciphers, p.cipherOrder)
  /\ SameOrdered(WithoutPsk(r.tls.extensions), WithoutPsk(p.extensions), p.extensionOrder)
  /\ Cardinality(r.tls.greaseCiphers) = Cardinality(p.greaseCiphers)
  /\ Cardinality(r.tls.greaseExts) = Cardinality(p.greaseExts)
  /\ r.tls.alpn = p.alpn
  /\ r.tls.hasSni = p.hasSni
H2Agrees(r, p) ==
  p.h2 # None =>
    /\ r.h2 # None
    /\ The(r.h2).settings = The(p.h2).settings
    /\ The(r.h2).window = The(p.h2).window
    /\ The(r.h2).pseudo = The(p.h2).pseudo
HttpAgrees(r, p) ==
  r.h2 # None /\ p.http # None =>
    /\ Comparable(The(r.h2).http.names) = The(p.http).names
    /\ The(r.h2).http.language = The(p.http).language

LEMMA DiffIsClean ==
  ASSUME NEW r, NEW p, TlsAgrees(r, p), H2Agrees(r, p), HttpAgrees(r, p)
  PROVE  IsClean(Diff(r, p))
<1>0. <<>> \in Seq({}) /\ AllAgree({})
  BY ONLY DEF AllAgree
<1>1. Good(DiffTls(r, p))
  <2> DEFINE a == Compared("ciphers", SameOrdered(Strip(r.tls.ciphers), p.ciphers, p.cipherOrder))
             b == Compared("extensions", SameOrdered(WithoutPsk(r.tls.extensions),
                                                     WithoutPsk(p.extensions), p.extensionOrder))
             c == Compared("GREASE",
                    /\ Cardinality(r.tls.greaseCiphers) = Cardinality(p.greaseCiphers)
                    /\ Cardinality(r.tls.greaseExts) = Cardinality(p.greaseExts))
             d == Compared("ALPN", r.tls.alpn = p.alpn)
             e == Compared("SNI", r.tls.hasSni = p.hasSni)
             T == {a, b, c, d, e}
  <2>1. DiffTls(r, p) = <<a, b, c, d, e>>
    BY ONLY DEF DiffTls
  <2>2. Agrees(a) /\ Agrees(b) /\ Agrees(c) /\ Agrees(d) /\ Agrees(e)
    BY DEF Agrees, Compared, TlsAgrees
  <2> HIDE DEF a, b, c, d, e
  <2>3. <<a, b, c, d, e>> \in Seq(T)
    OBVIOUS
  <2>4. AllAgree(T)
    BY ONLY <2>2 DEF AllAgree
  <2> QED
    BY ONLY <2>1, <2>3, <2>4, GoodOf
<1>2. Good(DiffH2(r, p))
  <2> DEFINE got == The(r.h2)
             kept == The(p.h2)
             a == Compared("SETTINGS", got.settings = kept.settings)
             b == Compared("WINDOW_UPDATE", got.window = kept.window)
             c == Compared("pseudo-header", got.pseudo = kept.pseudo)
             T == {a, b, c}
  <2>1. CASE p.h2 = None
    <3>1. DiffH2(r, p) = <<>>
      BY ONLY <2>1 DEF DiffH2
    <3> QED
      BY ONLY <1>0, <3>1, GoodOf
  <2>2. CASE p.h2 # None
    <3>1. DiffH2(r, p) = <<a, b, c>>
      BY <2>2 DEF DiffH2, H2Agrees
    <3>2. Agrees(a) /\ Agrees(b) /\ Agrees(c)
      BY <2>2 DEF Agrees, Compared, H2Agrees
    <3> HIDE DEF a, b, c
    <3>3. <<a, b, c>> \in Seq(T)
      OBVIOUS
    <3>4. AllAgree(T)
      BY ONLY <3>2 DEF AllAgree
    <3> QED
      BY ONLY <3>1, <3>3, <3>4, GoodOf
  <2> QED
    BY ONLY <2>1, <2>2
<1>3. Good(DiffHttp(r, p))
  <2> DEFINE got == The(r.h2).http
             kept == The(p.http)
             a == Compared("header order", Comparable(got.names) = kept.names)
             b == Compared("accept-language", got.language = kept.language)
             T == {a, b}
  <2>1. CASE r.h2 = None \/ p.http = None
    <3>1. DiffHttp(r, p) = <<>>
      BY ONLY <2>1 DEF DiffHttp
    <3> QED
      BY ONLY <1>0, <3>1, GoodOf
  <2>2. CASE ~(r.h2 = None \/ p.http = None)
    <3>1. DiffHttp(r, p) = <<a, b>>
      BY ONLY <2>2 DEF DiffHttp
    <3>2. Agrees(a) /\ Agrees(b)
      BY <2>2 DEF Agrees, Compared, HttpAgrees
    <3> HIDE DEF a, b
    <3>3. <<a, b>> \in Seq(T)
      OBVIOUS
    <3>4. AllAgree(T)
      BY ONLY <3>2 DEF AllAgree
    <3> QED
      BY ONLY <3>1, <3>3, <3>4, GoodOf
  <2> QED
    BY ONLY <2>1, <2>2
<1>4. Good((DiffTls(r, p) \o DiffH2(r, p)) \o DiffHttp(r, p))
  BY ONLY <1>1, <1>2, <1>3, GoodConcat
<1> DEFINE d == Diff(r, p)
<1>5. d = (DiffTls(r, p) \o DiffH2(r, p)) \o DiffHttp(r, p)
  BY ONLY DEF Diff
<1> HIDE DEF d
<1>6. PICK T : d \in Seq(T) /\ AllAgree(T)
  BY ONLY <1>4, <1>5 DEF Good
<1>7. IsSequence(d) /\ \A n \in DOMAIN d : Agrees(d[n])
  <2>1. \A n \in DOMAIN d : d[n] \in T
    BY ONLY <1>6
  <2> QED
    BY ONLY <1>6, <2>1 DEF AllAgree, IsSequence
<1> QED
  BY ONLY <1>7, CleanMeans DEF Agrees, d

====
