--------------------------- MODULE SequenceLemmas ----------------------------
(***************************************************************************)
(* Induction and recursion over the naturals, in the form in which the     *)
(* proofs of this project use them: about sets of naturals and about       *)
(* functions, without an operator as a parameter.  And what the operators  *)
(* on sequences do that the model of the fingerprints is built from: Keep  *)
(* and ElementsAt of Selection, and FlattenSeq of the community modules.   *)
(* All of them are recursive functions of how much of the sequence they    *)
(* have seen, so each gets its two equations first, for the empty sequence *)
(* and for one element more, and the rest is induction over a set of       *)
(* sequences.                                                              *)
(***************************************************************************)
EXTENDS Integers, Selection, SequencesExt, WellFoundedInduction, TLAPS

(* A set of naturals that is not empty has a least element. *)
LEMMA LeastElement ==
  ASSUME NEW S, S \subseteq Nat, S # {}
  PROVE  \E n \in S : \A m \in S : n <= m
<1>1. PICK n \in S : \A m \in S : ~ (<<m, n>> \in OpToRel(<, Nat))
  BY NatLessThanWellFounded, WFMin
<1>2. ASSUME NEW m \in S PROVE n <= m
  <2>1. ~ (m < n)
    BY <1>1, <1>2 DEF OpToRel
  <2>2. QED
    BY <2>1
<1>3. QED
  BY <1>2

(* A set that has 0, and with a number its successor, has every natural. *)
LEMMA SetInduction ==
  ASSUME NEW S, 0 \in S, \A n \in Nat : n \in S => n + 1 \in S
  PROVE  Nat \subseteq S
<1>1. SUFFICES ASSUME Nat \ S # {} PROVE FALSE
  OBVIOUS
<1>2. PICK n \in Nat \ S : \A m \in Nat \ S : n <= m
  BY <1>1, LeastElement
<1>3. n # 0 /\ n - 1 \in Nat
  BY <1>2
<1>4. n - 1 \in S
  BY <1>2, <1>3
<1>5. QED
  BY <1>2, <1>3, <1>4

(***************************************************************************)
(* Running totals.  Totals(f, b, w, d) says that on the domain d the       *)
(* function f starts from b and adds w[n] at each n.                       *)
(***************************************************************************)
Totals(f, b, w, d) == f = [n \in d |-> IF n = 0 THEN b ELSE f[n - 1] + w[n]]

LEMMA TotalsUpTo ==
  ASSUME NEW b, NEW w
  PROVE  \A n \in Nat : \E f : Totals(f, b, w, 0 .. n)
<1> DEFINE Good == {n \in Nat : \E f : Totals(f, b, w, 0 .. n)}
<1>1. 0 \in Good
  <2> DEFINE f == [n \in 0 .. 0 |-> b]
  <2>1. f = [n \in 0 .. 0 |-> IF n = 0 THEN b ELSE f[n - 1] + w[n]]
    OBVIOUS
  <2>2. QED
    BY <2>1 DEF Totals
<1>2. ASSUME NEW n \in Nat, n \in Good PROVE n + 1 \in Good
  <2>1. PICK f : Totals(f, b, w, 0 .. n)
    BY <1>2
  <2> DEFINE g == [m \in 0 .. n + 1 |-> IF m \in 0 .. n THEN f[m] ELSE f[n] + w[n + 1]]
  <2>2. ASSUME NEW m \in 0 .. n + 1
        PROVE  g[m] = IF m = 0 THEN b ELSE g[m - 1] + w[m]
    <3>1. CASE m = 0
      BY <2>1, <3>1 DEF Totals
    <3>2. CASE m \in 1 .. n
      <4>1. f[m] = f[m - 1] + w[m]
        BY <2>1, <3>2 DEF Totals
      <4>2. m - 1 \in 0 .. n + 1 /\ m - 1 \in 0 .. n /\ m \in 0 .. n
        BY <3>2
      <4>3. g[m] = f[m] /\ g[m - 1] = f[m - 1]
        BY <4>2
      <4>4. QED
        BY <3>2, <4>1, <4>3
    <3>3. CASE m = n + 1
      <4>1. g[m] = f[n] + w[m] /\ g[m - 1] = f[n]
        BY <3>3
      <4>2. QED
        BY <3>3, <4>1
    <3>4. QED
      BY <3>1, <3>2, <3>3
  <2>3. g = [m \in 0 .. n + 1 |-> IF m = 0 THEN b ELSE g[m - 1] + w[m]]
    BY <2>2
  <2>4. Totals(g, b, w, 0 .. n + 1)
    BY <2>3 DEF Totals
  <2>5. \E x : Totals(x, b, w, 0 .. n + 1)
    BY <2>4
  <2>6. QED
    BY <2>5
<1>3. Nat \subseteq Good
  BY <1>1, <1>2, SetInduction
<1>4. QED
  BY <1>3

LEMMA TotalsAgree ==
  ASSUME NEW b, NEW w, NEW n \in Nat, NEW m \in Nat, n <= m,
         NEW f, Totals(f, b, w, 0 .. n),
         NEW g, Totals(g, b, w, 0 .. m)
  PROVE  f[n] = g[n]
<1> DEFINE Same == {k \in Nat : k <= n => f[k] = g[k]}
<1>1. 0 \in Same
  BY DEF Totals
<1>2. ASSUME NEW k \in Nat, k \in Same PROVE k + 1 \in Same
  <2>1. CASE k + 1 <= n
    <3>1. f[k + 1] = f[k] + w[k + 1] /\ g[k + 1] = g[k] + w[k + 1]
      <4>1. k + 1 \in 0 .. n /\ k + 1 \in 0 .. m /\ k + 1 # 0 /\ k + 1 - 1 = k
        BY <2>1
      <4>2. QED
        BY <4>1 DEF Totals
    <3>2. QED
      BY <1>2, <2>1, <3>1
  <2>2. QED
    BY <2>1
<1>3. Nat \subseteq Same
  BY <1>1, <1>2, SetInduction
<1>4. QED
  BY <1>3

(* So there are totals over all naturals, and CHOOSE finds them. *)
LEMMA TotalsExist ==
  ASSUME NEW b, NEW w
  PROVE  \E f : Totals(f, b, w, Nat)
<1> DEFINE h(n) == CHOOSE f : Totals(f, b, w, 0 .. n)
           f == [n \in Nat |-> h(n)[n]]
<1>1. \A n \in Nat : Totals(h(n), b, w, 0 .. n)
  BY TotalsUpTo
<1>2. ASSUME NEW n \in Nat
      PROVE  f[n] = IF n = 0 THEN b ELSE f[n - 1] + w[n]
  <2>1. h(n)[n] = IF n = 0 THEN b ELSE h(n)[n - 1] + w[n]
    <3> HIDE DEF h
    <3>1. h(n) = [m \in 0 .. n |-> IF m = 0 THEN b ELSE h(n)[m - 1] + w[m]]
      BY <1>1 DEF Totals
    <3>2. n \in 0 .. n
      OBVIOUS
    <3>3. QED
      BY <3>1, <3>2
  <2>2. CASE n = 0
    BY <2>1, <2>2
  <2>3. CASE n # 0
    <3>1. n - 1 \in Nat /\ n - 1 <= n
      BY <2>3
    <3>2. h(n)[n - 1] = h(n - 1)[n - 1]
      <4> HIDE DEF h
      <4>1. Totals(h(n - 1), b, w, 0 .. n - 1) /\ Totals(h(n), b, w, 0 .. n)
        BY <1>1, <3>1
      <4>2. QED
        BY <3>1, <4>1, TotalsAgree
    <3>3. f[n - 1] = h(n - 1)[n - 1]
      BY <3>1
    <3>4. QED
      BY <2>1, <2>3, <3>2, <3>3
  <2>4. QED
    BY <2>2, <2>3
<1>3. f = [n \in Nat |-> IF n = 0 THEN b ELSE f[n - 1] + w[n]]
  <2> HIDE DEF h
  <2>1. QED
    BY <1>2
<1>4. QED
  BY <1>3 DEF Totals

-----------------------------------------------------------------------------
(* Sequences *)

LEMMA AppendFacts ==
  ASSUME NEW T, NEW s \in Seq(T), NEW x \in T
  PROVE  /\ Append(s, x) \in Seq(T) /\ Len(Append(s, x)) = Len(s) + 1 /\ Len(s) \in Nat
         /\ \A i \in 1 .. Len(s) : Append(s, x)[i] = s[i]
         /\ Append(s, x)[Len(s) + 1] = x
OBVIOUS

LEMMA PrefixFacts ==
  ASSUME NEW T, NEW s \in Seq(T), NEW n \in Nat, n <= Len(s)
  PROVE  /\ SubSeq(s, 1, n) \in Seq(T) /\ Len(SubSeq(s, 1, n)) = n
         /\ \A i \in 1 .. n : SubSeq(s, 1, n)[i] = s[i]
OBVIOUS

LEMMA FrontFacts ==
  ASSUME NEW T, NEW s \in Seq(T), Len(s) # 0
  PROVE  /\ SubSeq(s, 1, Len(s) - 1) \in Seq(T)
         /\ Len(SubSeq(s, 1, Len(s) - 1)) = Len(s) - 1
         /\ s[Len(s)] \in T
         /\ s = Append(SubSeq(s, 1, Len(s) - 1), s[Len(s)])
<1> DEFINE t == SubSeq(s, 1, Len(s) - 1)
           x == s[Len(s)]
<1>1. Len(s) \in Nat \ {0}
  OBVIOUS
<1>2. t \in Seq(T) /\ Len(t) = Len(s) - 1 /\ \A i \in 1 .. Len(t) : t[i] = s[i]
  <2>1. Len(s) - 1 \in Nat /\ Len(s) - 1 <= Len(s)
    BY <1>1
  <2> QED
    BY <2>1, PrefixFacts, ZenonT(40)
<1>3. x \in T
  BY <1>1
<1>4. /\ Append(t, x) \in Seq(T) /\ Len(Append(t, x)) = Len(s)
      /\ \A i \in 1 .. Len(s) : Append(t, x)[i] = s[i]
  <2> HIDE DEF t, x
  <2>1. /\ Append(t, x) \in Seq(T) /\ Len(Append(t, x)) = Len(t) + 1
        /\ \A i \in 1 .. Len(t) : Append(t, x)[i] = t[i]
        /\ Append(t, x)[Len(t) + 1] = x
    BY <1>2, <1>3, AppendFacts
  <2>2. ASSUME NEW i \in 1 .. Len(s) PROVE Append(t, x)[i] = s[i]
    <3>1. CASE i = Len(s)
      <4>1. Append(t, x)[i] = x
        BY <1>1, <1>2, <2>1, <3>1
      <4> QED
        BY <3>1, <4>1 DEF x
    <3>2. CASE i # Len(s)
      BY <1>1, <1>2, <2>1, <3>2
    <3> QED
      BY <3>1, <3>2
  <2> QED
    BY <1>1, <1>2, <2>1, <2>2
<1>5. s = Append(t, x)
  <2> HIDE DEF t, x
  <2> QED
    BY <1>4
<1> QED
  BY <1>2, <1>3, <1>5

(* Induction: a set of sequences that has the empty one, and with a        *)
(* sequence every one that is longer by an element, has them all.          *)
LEMMA SequenceInduction ==
  ASSUME NEW T, NEW G, <<>> \in G,
         \A s \in Seq(T), x \in T : s \in G => Append(s, x) \in G
  PROVE  Seq(T) \subseteq G
<1> DEFINE Good == {n \in Nat : \A s \in Seq(T) : Len(s) = n => s \in G}
<1>1. 0 \in Good
  <2>1. \A s \in Seq(T) : Len(s) = 0 => s = <<>>
    OBVIOUS
  <2> QED
    BY <2>1
<1>2. ASSUME NEW n \in Nat, n \in Good PROVE n + 1 \in Good
  <2> SUFFICES ASSUME NEW s \in Seq(T), Len(s) = n + 1 PROVE s \in G
    BY <1>2
  <2> DEFINE t == SubSeq(s, 1, Len(s) - 1)
             x == s[Len(s)]
  <2>1. t \in Seq(T) /\ Len(t) = n /\ x \in T /\ s = Append(t, x)
    <3>1. Len(s) # 0 /\ Len(s) - 1 = n
      OBVIOUS
    <3> QED
      BY <3>1, FrontFacts
  <2> HIDE DEF t, x
  <2>2. t \in G
    BY <1>2, <2>1
  <2> QED
    BY <2>1, <2>2
<1>3. Nat \subseteq Good
  BY <1>1, <1>2, SetInduction
<1>4. \A s \in Seq(T) : Len(s) \in Nat
  OBVIOUS
<1> QED
  BY <1>3, <1>4

-----------------------------------------------------------------------------
(* ElementsAt.  Picks(f, s, at, n) says of a function f that it is what     *)
(* ElementsAt builds from the first n elements of s.                        *)

Picks(f, s, at, n) ==
  f = [k \in 0 .. n |-> IF k = 0 THEN <<>>
                        ELSE IF k \in at THEN Append(f[k - 1], s[k]) ELSE f[k - 1]]

LEMMA PicksUnfold ==
  ASSUME NEW f, NEW s, NEW at, NEW n \in Nat, Picks(f, s, at, n)
  PROVE  /\ f[0] = <<>>
         /\ \A k \in 1 .. n : f[k] = IF k \in at THEN Append(f[k - 1], s[k]) ELSE f[k - 1]
<1> DEFINE Step(k, e) == IF k \in at THEN Append(e, s[k]) ELSE e
<1>1. f = [k \in 0 .. n |-> IF k = 0 THEN <<>> ELSE Step(k, f[k - 1])]
  BY DEF Picks
<1> HIDE DEF Step
<1>2. f[0] = <<>>
  BY <1>1
<1>3. ASSUME NEW k \in 1 .. n PROVE f[k] = Step(k, f[k - 1])
  <2>1. k \in 0 .. n /\ k # 0
    OBVIOUS
  <2> QED
    BY <1>1, <2>1
<1> QED
  BY <1>2, <1>3 DEF Step

LEMMA PicksExist ==
  ASSUME NEW s, NEW at
  PROVE  \A n \in Nat : \E f : Picks(f, s, at, n)
<1> DEFINE Good == {n \in Nat : \E f : Picks(f, s, at, n)}
           Step(k, e) == IF k \in at THEN Append(e, s[k]) ELSE e
<1>1. 0 \in Good
  <2> DEFINE f == [k \in 0 .. 0 |-> <<>>]
  <2>1. Picks(f, s, at, 0)
    BY DEF Picks
  <2> QED
    BY <2>1
<1>2. ASSUME NEW n \in Nat, n \in Good PROVE n + 1 \in Good
  <2>1. PICK f : Picks(f, s, at, n)
    BY <1>2
  <2> DEFINE g == [k \in 0 .. n + 1 |-> IF k \in 0 .. n THEN f[k] ELSE Step(n + 1, f[n])]
  <2>2. ASSUME NEW k \in 0 .. n + 1
        PROVE  g[k] = IF k = 0 THEN <<>> ELSE Step(k, g[k - 1])
    <3>1. CASE k = 0
      <4>1. f[k] = <<>> /\ g[k] = f[k]
        BY <2>1, <3>1, PicksUnfold
      <4> QED
        BY <3>1, <4>1
    <3>2. CASE k \in 1 .. n
      <4>1. k - 1 \in 0 .. n /\ k \in 0 .. n /\ k - 1 \in 0 .. n + 1
        BY <3>2
      <4>2. f[k] = Step(k, f[k - 1])
        BY <2>1, <3>2, PicksUnfold
      <4>3. g[k] = f[k] /\ g[k - 1] = f[k - 1]
        BY <4>1
      <4> HIDE DEF g, Step
      <4> QED
        BY <3>2, <4>2, <4>3
    <3>3. CASE k = n + 1
      <4>1. k - 1 = n /\ n \in 0 .. n /\ n \in 0 .. n + 1 /\ k \notin 0 .. n
        BY <3>3
      <4>2. g[n] = f[n]
        BY <4>1
      <4>3. g[k] = Step(n + 1, f[n])
        <5> HIDE DEF Step
        <5> QED
          BY <4>1
      <4> HIDE DEF g, Step
      <4> QED
        BY <3>3, <4>1, <4>2, <4>3
    <3> QED
      BY <3>1, <3>2, <3>3
  <2>3. g = [k \in 0 .. n + 1 |-> IF k = 0 THEN <<>> ELSE Step(k, g[k - 1])]
    <3> HIDE DEF Step
    <3> QED
      BY <2>2
  <2>4. Picks(g, s, at, n + 1)
    BY <2>3 DEF Picks
  <2> HIDE DEF g
  <2> QED
    BY <2>4
<1>3. Nat \subseteq Good
  BY <1>1, <1>2, SetInduction
<1> QED
  BY <1>3

LEMMA PicksAgree ==
  ASSUME NEW s, NEW t, NEW at, NEW bt, NEW n \in Nat, NEW m \in Nat, n <= m,
         \A k \in 1 .. n : s[k] = t[k] /\ (k \in at <=> k \in bt),
         NEW f, Picks(f, s, at, n),
         NEW g, Picks(g, t, bt, m)
  PROVE  f[n] = g[n]
<1> DEFINE Same == {k \in Nat : k <= n => f[k] = g[k]}
<1>1. 0 \in Same
  BY PicksUnfold
<1>2. ASSUME NEW k \in Nat, k \in Same, k + 1 <= n PROVE f[k + 1] = g[k + 1]
  <2>1. k + 1 \in 1 .. n /\ k + 1 \in 1 .. m /\ k + 1 - 1 = k
    BY <1>2
  <2>2. f[k + 1] = IF k + 1 \in at THEN Append(f[k], s[k + 1]) ELSE f[k]
    BY <2>1, PicksUnfold
  <2>3. g[k + 1] = IF k + 1 \in bt THEN Append(g[k], t[k + 1]) ELSE g[k]
    BY <2>1, PicksUnfold
  <2>4. f[k] = g[k]
    BY <1>2
  <2> QED
    BY <2>1, <2>2, <2>3, <2>4
<1>3. \A k \in Nat : k \in Same => k + 1 \in Same
  BY <1>2
<1>4. Nat \subseteq Same
  <2> HIDE DEF Same
  <2> QED
    BY <1>1, <1>3, SetInduction
<1> QED
  BY <1>4

LEMMA ElementsArePicked ==
  ASSUME NEW T, NEW s \in Seq(T), NEW at
  PROVE  \E f : Picks(f, s, at, Len(s)) /\ ElementsAt(s, at) = f[Len(s)]
<1> DEFINE f == CHOOSE f : Picks(f, s, at, Len(s))
<1>1. Picks(f, s, at, Len(s))
  <2>0. Len(s) \in Nat
    OBVIOUS
  <2>1. \E g : Picks(g, s, at, Len(s))
    BY <2>0, PicksExist
  <2> QED
    BY <2>1
<1>2. ElementsAt(s, at) = f[Len(s)]
  BY DEF ElementsAt, Picks
<1> HIDE DEF f
<1> QED
  BY <1>1, <1>2

LEMMA ElementsOfEmpty == ASSUME NEW at PROVE ElementsAt(<<>>, at) = <<>>
<1>1. <<>> \in Seq({}) /\ Len(<<>>) = 0
  OBVIOUS
<1>2. PICK f : Picks(f, <<>>, at, 0) /\ ElementsAt(<<>>, at) = f[0]
  BY <1>1, ElementsArePicked
<1> QED
  BY <1>2 DEF Picks

LEMMA ElementsOfAppend ==
  ASSUME NEW T, NEW s \in Seq(T), NEW x \in T, NEW at, NEW bt,
         \A k \in 1 .. Len(s) : k \in at <=> k \in bt
  PROVE  ElementsAt(Append(s, x), bt) =
           IF Len(s) + 1 \in bt THEN Append(ElementsAt(s, at), x) ELSE ElementsAt(s, at)
<1> DEFINE t == Append(s, x)
           n == Len(s)
<1>1. /\ t \in Seq(T) /\ Len(t) = n + 1 /\ n \in Nat /\ t[n + 1] = x
      /\ \A k \in 1 .. n : s[k] = t[k]
  BY AppendFacts
<1> HIDE DEF t
<1>2. PICK f : Picks(f, s, at, n) /\ ElementsAt(s, at) = f[n]
  BY ElementsArePicked
<1>3. PICK g : Picks(g, t, bt, n + 1) /\ ElementsAt(t, bt) = g[n + 1]
  BY <1>1, ElementsArePicked
<1>4. f[n] = g[n]
  <2>1. n + 1 \in Nat /\ n <= n + 1
    BY <1>1
  <2> HIDE DEF n
  <2> QED
    BY <1>1, <1>2, <1>3, <2>1, PicksAgree DEF n
<1>5. g[n + 1] = IF n + 1 \in bt THEN Append(g[n], x) ELSE g[n]
  <2>1. n + 1 \in Nat /\ n + 1 \in 1 .. n + 1 /\ n + 1 - 1 = n
    BY <1>1
  <2> HIDE DEF n
  <2>2. \A k \in 1 .. n + 1 : g[k] = IF k \in bt THEN Append(g[k - 1], t[k]) ELSE g[k - 1]
    BY <1>3, <2>1, PicksUnfold
  <2> DEFINE k == n + 1
  <2>3. k \in 1 .. n + 1 /\ k - 1 = n /\ t[k] = x
    BY <1>1, <2>1
  <2> HIDE DEF k
  <2>4. g[k] = IF k \in bt THEN Append(g[k - 1], t[k]) ELSE g[k - 1]
    BY ONLY <2>2, <2>3
  <2> QED
    BY ONLY <2>3, <2>4 DEF k
<1> QED
  BY <1>2, <1>3, <1>4, <1>5 DEF t

-----------------------------------------------------------------------------
(* Keep, with the test given as the set S of what passes it.                *)

Keeping(s, S) == ElementsAt(s, {n \in DOMAIN s : s[n] \in S})

LEMMA KeepingEmpty == ASSUME NEW S PROVE Keeping(<<>>, S) = <<>>
BY ElementsOfEmpty DEF Keeping

LEMMA KeepingAppend ==
  ASSUME NEW T, NEW s \in Seq(T), NEW x \in T, NEW S
  PROVE  Keeping(Append(s, x), S) =
           IF x \in S THEN Append(Keeping(s, S), x) ELSE Keeping(s, S)
<1> DEFINE t == Append(s, x)
           at == {n \in DOMAIN s : s[n] \in S}
           bt == {n \in DOMAIN t : t[n] \in S}
<1>1. /\ Len(t) = Len(s) + 1 /\ Len(s) \in Nat /\ t[Len(s) + 1] = x
      /\ \A i \in 1 .. Len(s) : t[i] = s[i]
      /\ DOMAIN s = 1 .. Len(s) /\ DOMAIN t = 1 .. Len(t)
  OBVIOUS
<1>2. Keeping(t, S) = ElementsAt(t, bt) /\ Keeping(s, S) = ElementsAt(s, at)
  BY DEF Keeping
<1>3. \A k \in 1 .. Len(s) : k \in at <=> k \in bt
  <2> HIDE DEF t
  <2> QED
    BY <1>1
<1>4. Len(s) + 1 \in bt <=> x \in S
  <2> HIDE DEF t
  <2> QED
    BY <1>1
<1>5. ElementsAt(t, bt) =
        IF Len(s) + 1 \in bt THEN Append(ElementsAt(s, at), x) ELSE ElementsAt(s, at)
  <2> HIDE DEF at, bt
  <2> QED
    BY <1>3, ElementsOfAppend
<1> HIDE DEF at, bt
<1> QED
  BY <1>2, <1>4, <1>5

LEMMA KeepingSame ==
  ASSUME NEW T, NEW s \in Seq(T), NEW S, NEW U, \A x \in T : x \in S <=> x \in U
  PROVE  Keeping(s, S) = Keeping(s, U)
<1>1. \A n \in DOMAIN s : s[n] \in T
  OBVIOUS
<1>2. {n \in DOMAIN s : s[n] \in S} = {n \in DOMAIN s : s[n] \in U}
  BY <1>1
<1> QED
  BY <1>2 DEF Keeping

(* What is kept passes the test. *)
LEMMA KeepingType ==
  ASSUME NEW T, NEW s \in Seq(T), NEW S, NEW W, \A x \in T : x \in S => x \in W
  PROVE  Keeping(s, S) \in Seq(W)
<1> DEFINE K(u) == Keeping(u, S)
           G == {u \in Seq(T) : K(u) \in Seq(W)}
<1>0. K(<<>>) = <<>> /\ <<>> \in Seq(W) /\ <<>> \in Seq(T)
  BY KeepingEmpty
<1>0a. \A u \in Seq(T), x \in T : K(Append(u, x)) = IF x \in S THEN Append(K(u), x) ELSE K(u)
  BY KeepingAppend
<1> HIDE DEF K
<1>1. <<>> \in G
  BY <1>0
<1>2. ASSUME NEW u \in Seq(T), NEW x \in T, u \in G PROVE Append(u, x) \in G
  <2>1. K(u) \in Seq(W) /\ Append(u, x) \in Seq(T)
    BY <1>2, AppendFacts
  <2>2. K(Append(u, x)) \in Seq(W)
    <3>1. CASE x \in S
      <4>1. x \in W
        BY <3>1
      <4>2. Append(K(u), x) \in Seq(W)
        BY <2>1, <4>1, AppendFacts
      <4> QED
        BY <1>0a, <3>1, <4>2
    <3>2. CASE x \notin S
      BY <1>0a, <2>1, <3>2
    <3> QED
      BY <3>1, <3>2
  <2> QED
    BY <2>1, <2>2
<1>3. Seq(T) \subseteq G
  <2> HIDE DEF G
  <2> QED
    BY <1>1, <1>2, SequenceInduction
<1> QED
  BY <1>3 DEF K

LEMMA ConcatAppend ==
  ASSUME NEW T, NEW s \in Seq(T), NEW t \in Seq(T), NEW x \in T
  PROVE  s \o Append(t, x) = Append(s \o t, x) /\ s \o t \in Seq(T)
OBVIOUS

LEMMA KeepingConcat ==
  ASSUME NEW T, NEW s \in Seq(T), NEW t \in Seq(T), NEW S
  PROVE  Keeping(s \o t, S) = Keeping(s, S) \o Keeping(t, S)
<1> DEFINE K(u) == Keeping(u, S)
           G == {u \in Seq(T) : K(s \o u) = K(s) \o K(u)}
<1>1. \A u \in Seq(T) : K(u) \in Seq(T)
  BY KeepingType
<1>2. \A u \in Seq(T), x \in T : K(Append(u, x)) = IF x \in S THEN Append(K(u), x) ELSE K(u)
  BY KeepingAppend
<1>3. K(<<>>) = <<>>
  BY KeepingEmpty
<1> HIDE DEF K
<1>4. <<>> \in G
  <2>1. s \o <<>> = s /\ K(s) \o <<>> = K(s) /\ <<>> \in Seq(T)
    BY <1>1
  <2>2. K(s \o <<>>) = K(s) \o K(<<>>)
    BY <1>3, <2>1
  <2> QED
    BY <2>1, <2>2
<1>5. ASSUME NEW u \in Seq(T), NEW x \in T, u \in G PROVE Append(u, x) \in G
  <2>1. /\ s \o Append(u, x) = Append(s \o u, x) /\ s \o u \in Seq(T)
        /\ Append(u, x) \in Seq(T)
    BY ConcatAppend, AppendFacts
  <2>2. K(s \o u) = K(s) \o K(u)
    BY <1>5
  <2>3. CASE x \in S
    <3>1. K(Append(s \o u, x)) = Append(K(s \o u), x) /\ K(Append(u, x)) = Append(K(u), x)
      BY <1>2, <2>1, <2>3
    <3>2. K(s) \o Append(K(u), x) = Append(K(s) \o K(u), x)
      BY <1>1, ConcatAppend, SMTT(30)
    <3>3. K(s \o Append(u, x)) = K(s) \o K(Append(u, x))
      BY <2>1, <2>2, <3>1, <3>2
    <3> QED
      BY <2>1, <3>3
  <2>4. CASE x \notin S
    <3>1. K(Append(s \o u, x)) = K(s \o u) /\ K(Append(u, x)) = K(u)
      BY <1>2, <2>1, <2>4
    <3>2. K(s \o Append(u, x)) = K(s) \o K(Append(u, x))
      BY <2>1, <2>2, <3>1
    <3> QED
      BY <2>1, <3>2
  <2> QED
    BY <2>3, <2>4
<1>6. Seq(T) \subseteq G
  <2> HIDE DEF G
  <2> QED
    BY <1>4, <1>5, SequenceInduction
<1> QED
  BY <1>6 DEF K

LEMMA KeepingAll ==
  ASSUME NEW T, NEW s \in Seq(T), NEW S, T \subseteq S
  PROVE  Keeping(s, S) = s
<1> DEFINE G == {u \in Seq(T) : Keeping(u, S) = u}
<1>1. <<>> \in G
  BY KeepingEmpty
<1>2. ASSUME NEW u \in Seq(T), NEW x \in T, u \in G PROVE Append(u, x) \in G
  <2>1. x \in S /\ Keeping(u, S) = u
    BY <1>2
  <2> QED
    BY <2>1, KeepingAppend
<1> HIDE DEF G
<1>3. Seq(T) \subseteq G
  BY <1>1, <1>2, SequenceInduction
<1> QED
  BY <1>3 DEF G

LEMMA KeepingNone ==
  ASSUME NEW T, NEW s \in Seq(T), NEW S, T \cap S = {}
  PROVE  Keeping(s, S) = <<>>
<1> DEFINE G == {u \in Seq(T) : Keeping(u, S) = <<>>}
<1>1. <<>> \in G
  BY KeepingEmpty
<1>2. ASSUME NEW u \in Seq(T), NEW x \in T, u \in G PROVE Append(u, x) \in G
  <2>1. x \notin S /\ Keeping(u, S) = <<>>
    BY <1>2
  <2> QED
    BY <2>1, KeepingAppend
<1> HIDE DEF G
<1>3. Seq(T) \subseteq G
  BY <1>1, <1>2, SequenceInduction
<1> QED
  BY <1>3 DEF G

LEMMA KeepingTwice ==
  ASSUME NEW T, NEW s \in Seq(T), NEW S, NEW U, NEW V,
         \A x \in T : x \in V <=> x \in S /\ x \in U
  PROVE  Keeping(Keeping(s, S), U) = Keeping(s, V)
<1> DEFINE K(u) == Keeping(u, S)
           L(u) == Keeping(u, U)
           M(u) == Keeping(u, V)
           G == {u \in Seq(T) : L(K(u)) = M(u)}
<1>1. \A u \in Seq(T) : K(u) \in Seq(T)
  BY KeepingType
<1>2. /\ \A u \in Seq(T), x \in T : K(Append(u, x)) = IF x \in S THEN Append(K(u), x) ELSE K(u)
      /\ \A u \in Seq(T), x \in T : L(Append(u, x)) = IF x \in U THEN Append(L(u), x) ELSE L(u)
      /\ \A u \in Seq(T), x \in T : M(Append(u, x)) = IF x \in V THEN Append(M(u), x) ELSE M(u)
  BY KeepingAppend
<1>3. K(<<>>) = <<>> /\ L(<<>>) = <<>> /\ M(<<>>) = <<>>
  BY KeepingEmpty
<1> HIDE DEF K, L, M
<1>4. <<>> \in G
  BY <1>3
<1>5. ASSUME NEW u \in Seq(T), NEW x \in T, u \in G PROVE Append(u, x) \in G
  <2>1. Append(u, x) \in Seq(T) /\ K(u) \in Seq(T)
    BY <1>1, AppendFacts
  <2>2. L(K(u)) = M(u)
    BY <1>5
  <2>3. L(K(Append(u, x))) = M(Append(u, x))
    BY <1>2, <2>1, <2>2, ZenonT(40)
  <2> QED
    BY <2>1, <2>3
<1>6. Seq(T) \subseteq G
  <2> HIDE DEF G
  <2> QED
    BY <1>4, <1>5, SequenceInduction
<1> QED
  BY <1>6 DEF K, L, M

(* And every element that passes is among what is kept. *)
LEMMA KeepingHas ==
  ASSUME NEW T, NEW s \in Seq(T), NEW S
  PROVE  \A n \in 1 .. Len(s) : s[n] \in S => \E k \in DOMAIN Keeping(s, S) : Keeping(s, S)[k] = s[n]
<1> DEFINE Has(u) == \A n \in 1 .. Len(u) :
                       u[n] \in S => \E k \in DOMAIN Keeping(u, S) : Keeping(u, S)[k] = u[n]
           G == {u \in Seq(T) : Has(u)}
<1>1. <<>> \in G
  OBVIOUS
<1>2. ASSUME NEW u \in Seq(T), NEW x \in T, u \in G PROVE Append(u, x) \in G
  <2>1. /\ Append(u, x) \in Seq(T) /\ Len(Append(u, x)) = Len(u) + 1 /\ Len(u) \in Nat
        /\ \A i \in 1 .. Len(u) : Append(u, x)[i] = u[i]
        /\ Append(u, x)[Len(u) + 1] = x
    BY AppendFacts
  <2>2. Keeping(u, S) \in Seq(T)
    BY KeepingType
  <2>3. Keeping(Append(u, x), S) = IF x \in S THEN Append(Keeping(u, S), x) ELSE Keeping(u, S)
    BY KeepingAppend
  <2>4. x \in S => /\ Keeping(Append(u, x), S)[Len(Keeping(u, S)) + 1] = x
                   /\ Len(Keeping(u, S)) + 1 \in DOMAIN Keeping(Append(u, x), S)
    BY <2>2, <2>3
  <2>5. \A k \in DOMAIN Keeping(u, S) : /\ k \in DOMAIN Keeping(Append(u, x), S)
                                        /\ Keeping(Append(u, x), S)[k] = Keeping(u, S)[k]
    BY <2>2, <2>3
  <2>6. ASSUME NEW n \in 1 .. Len(Append(u, x)), Append(u, x)[n] \in S
        PROVE  \E k \in DOMAIN Keeping(Append(u, x), S) :
                 Keeping(Append(u, x), S)[k] = Append(u, x)[n]
    <3>1. CASE n = Len(u) + 1
      BY <2>1, <2>4, <2>6, <3>1
    <3>2. CASE n \in 1 .. Len(u)
      <4>1. PICK k \in DOMAIN Keeping(u, S) : Keeping(u, S)[k] = u[n]
        BY <1>2, <2>1, <2>6, <3>2
      <4> QED
        BY <2>1, <2>5, <3>2, <4>1
    <3> QED
      BY <2>1, <3>1, <3>2
  <2> QED
    BY <2>1, <2>6
<1> HIDE DEF G
<1>3. Seq(T) \subseteq G
  BY <1>1, <1>2, SequenceInduction
<1> QED
  BY <1>3 DEF G

LEMMA ElementsAtType ==
  ASSUME NEW T, NEW s \in Seq(T), NEW at
  PROVE  ElementsAt(s, at) \in Seq(T)
<1> DEFINE K(u) == ElementsAt(u, at)
           G == {u \in Seq(T) : K(u) \in Seq(T)}
<1>1. K(<<>>) = <<>> /\ <<>> \in Seq(T)
  BY ElementsOfEmpty
<1>2. \A u \in Seq(T), x \in T :
        K(Append(u, x)) = IF Len(u) + 1 \in at THEN Append(K(u), x) ELSE K(u)
  BY ElementsOfAppend
<1> HIDE DEF K
<1>3. <<>> \in G
  BY <1>1
<1>4. ASSUME NEW u \in Seq(T), NEW x \in T, u \in G PROVE Append(u, x) \in G
  <2>1. K(u) \in Seq(T) /\ Append(u, x) \in Seq(T)
    BY <1>4, AppendFacts
  <2>2. Append(K(u), x) \in Seq(T)
    BY <2>1, AppendFacts
  <2>3. K(Append(u, x)) \in Seq(T)
    BY <1>2, <2>1, <2>2
  <2> QED
    BY <2>1, <2>3
<1>5. Seq(T) \subseteq G
  <2> HIDE DEF G
  <2> QED
    BY <1>3, <1>4, SequenceInduction
<1> QED
  BY <1>5 DEF K

-----------------------------------------------------------------------------
(* Runs(f, b, step, n): f starts from b and takes a step at each number up  *)
(* to n.  What takes the elements of a sequence one by one runs like this.  *)

Runs(f, b, step, n) == f = [k \in 0 .. n |-> IF k = 0 THEN b ELSE step[<<f[k - 1], k>>]]

Unfolded(f, b, step, n) ==
  DOMAIN f = 0 .. n /\ f[0] = b /\ \A k \in 1 .. n : f[k] = step[<<f[k - 1], k>>]

LEMMA RunsUnfold ==
  ASSUME NEW b, NEW step, NEW n \in Nat, NEW f, Runs(f, b, step, n)
  PROVE  Unfolded(f, b, step, n)
<1>1. f = [k \in 0 .. n |-> IF k = 0 THEN b ELSE step[<<f[k - 1], k>>]]
  BY DEF Runs
<1>2. 0 \in 0 .. n /\ \A k \in 1 .. n : k \in 0 .. n /\ k # 0
  OBVIOUS
<1> QED
  BY <1>1, <1>2 DEF Unfolded

LEMMA RunsType ==
  ASSUME NEW X, NEW b \in X, NEW n \in Nat, NEW step \in [X \X (1 .. n) -> X],
         NEW f, Runs(f, b, step, n)
  PROVE  f \in [0 .. n -> X]
<1>0. DOMAIN f = 0 .. n /\ f[0] = b /\ \A k \in 1 .. n : f[k] = step[<<f[k - 1], k>>]
  <2>1. Unfolded(f, b, step, n)
    BY RunsUnfold
  <2> QED
    BY <2>1 DEF Unfolded
<1> DEFINE G == {k \in Nat : k <= n => f[k] \in X}
<1>1. 0 \in G
  BY <1>0
<1>2. ASSUME NEW k \in Nat, k \in G PROVE k + 1 \in G
  <2> SUFFICES ASSUME k + 1 <= n PROVE f[k + 1] \in X
    OBVIOUS
  <2>1. k + 1 \in 1 .. n /\ k + 1 - 1 = k /\ f[k] \in X
    BY <1>2
  <2>2. f[k + 1] = step[<<f[k], k + 1>>]
    BY <1>0, <2>1
  <2> QED
    BY <2>1, <2>2
<1>3. Nat \subseteq G
  <2> HIDE DEF G
  <2> QED
    BY <1>1, <1>2, SetInduction
<1>4. \A k \in 0 .. n : f[k] \in X
  BY <1>3
<1> QED
  BY <1>0, <1>4 DEF Runs

LEMMA RunsExist ==
  ASSUME NEW X, NEW b \in X, NEW n \in Nat, NEW step \in [X \X (1 .. n) -> X]
  PROVE  \E f \in [0 .. n -> X] : Runs(f, b, step, n)
<1> DEFINE G == {m \in Nat : m <= n => \E f : Runs(f, b, step, m)}
<1>1. 0 \in G
  <2>1. Runs([k \in 0 .. 0 |-> b], b, step, 0)
    BY DEF Runs
  <2> QED
    BY <2>1
<1>2. ASSUME NEW m \in Nat, m \in G PROVE m + 1 \in G
  <2> SUFFICES ASSUME m + 1 <= n PROVE \E f : Runs(f, b, step, m + 1)
    OBVIOUS
  <2>1. PICK f : Runs(f, b, step, m)
    BY <1>2
  <2> DEFINE g == [k \in 0 .. m + 1 |-> IF k \in 0 .. m THEN f[k] ELSE step[<<f[m], m + 1>>]]
  <2>2. f[0] = b /\ \A k \in 1 .. m : f[k] = step[<<f[k - 1], k>>]
    <3>1. Unfolded(f, b, step, m)
      BY <2>1, RunsUnfold
    <3> QED
      BY <3>1 DEF Unfolded
  <2>3. ASSUME NEW k \in 0 .. m + 1
        PROVE  g[k] = IF k = 0 THEN b ELSE step[<<g[k - 1], k>>]
    <3>1. CASE k = 0
      BY <2>2, <3>1
    <3>2. CASE k \in 1 .. m
      <4>1. k - 1 \in 0 .. m /\ k \in 0 .. m /\ k - 1 \in 0 .. m + 1
        BY <3>2
      <4>2. g[k] = f[k] /\ g[k - 1] = f[k - 1]
        BY <4>1
      <4> HIDE DEF g
      <4> QED
        BY <2>2, <3>2, <4>2
    <3>3. CASE k = m + 1
      <4>1. k - 1 = m /\ m \in 0 .. m /\ m \in 0 .. m + 1 /\ k \notin 0 .. m
        BY <3>3
      <4>2. g[m] = f[m] /\ g[k] = step[<<f[m], m + 1>>]
        BY <4>1
      <4> HIDE DEF g
      <4> QED
        BY <3>3, <4>1, <4>2
    <3> QED
      BY <3>1, <3>2, <3>3
  <2>4. g = [k \in 0 .. m + 1 |-> IF k = 0 THEN b ELSE step[<<g[k - 1], k>>]]
    BY <2>3
  <2>5. Runs(g, b, step, m + 1)
    BY <2>4 DEF Runs
  <2> HIDE DEF g
  <2> QED
    BY <2>5
<1>3. Nat \subseteq G
  <2> HIDE DEF G
  <2> QED
    BY <1>1, <1>2, SetInduction
<1>4. PICK f : Runs(f, b, step, n)
  BY <1>3
<1> QED
  BY <1>4, RunsType

-----------------------------------------------------------------------------
(* FlattenSeq *)

(* The beginnings of what a sequence of sequences flattens to. *)
Joined(g, ss, T) ==
  /\ g \in [0 .. Len(ss) -> Seq(T)]
  /\ g[0] = <<>> /\ g[Len(ss)] = FlattenSeq(ss)
  /\ \A i \in 1 .. Len(ss) : g[i] = g[i - 1] \o ss[i]

LEMMA FlattenJoins ==
  ASSUME NEW T, NEW ss \in Seq(Seq(T))
  PROVE  \E g : Joined(g, ss, T)
<1> DEFINE N == Len(ss)
           Joins(f) == f = [i \in 1 .. N |-> IF i = 1 THEN ss[i] ELSE f[i - 1] \o ss[i]]
<1>1. N \in Nat /\ \A i \in 1 .. N : ss[i] \in Seq(T)
  OBVIOUS
<1>2. CASE N = 0
  <2> DEFINE g == [k \in 0 .. 0 |-> <<>>]
  <2>1. <<>> \in Seq(T) /\ FlattenSeq(ss) = <<>>
    BY <1>2 DEF FlattenSeq
  <2>2. g \in [0 .. 0 -> Seq(T)] /\ g[0] = <<>>
    BY <2>1
  <2> HIDE DEF g
  <2>3. Joined(g, ss, T)
    BY <1>1, <1>2, <2>1, <2>2 DEF Joined
  <2> QED
    BY <2>3
<1>3. CASE N # 0
  <2> DEFINE step == [p \in Seq(T) \X (1 .. N) |-> p[1] \o ss[p[2]]]
  <2>1. step \in [Seq(T) \X (1 .. N) -> Seq(T)]
    <3>1. \A p \in Seq(T) \X (1 .. N) : p[1] \in Seq(T) /\ ss[p[2]] \in Seq(T)
      BY <1>1
    <3>2. \A u, v \in Seq(T) : u \o v \in Seq(T)
      OBVIOUS
    <3> QED
      BY <3>1, <3>2
  <2>2. \A u \in Seq(T), i \in 1 .. N : step[<<u, i>>] = u \o ss[i]
    OBVIOUS
  <2>3. <<>> \in Seq(T) /\ \A u \in Seq(T) : <<>> \o u = u
    OBVIOUS
  <2> HIDE DEF step, N
  <2>4. PICK g \in [0 .. N -> Seq(T)] : Runs(g, <<>>, step, N)
    BY <1>1, <2>1, <2>3, RunsExist
  <2>5. g[0] = <<>> /\ \A i \in 1 .. N : g[i] = step[<<g[i - 1], i>>]
    <3>1. Unfolded(g, <<>>, step, N)
      BY <1>1, <2>4, RunsUnfold
    <3> QED
      BY <3>1 DEF Unfolded
  <2> DEFINE f == [i \in 1 .. N |-> g[i]]
  <2>6. ASSUME NEW i \in 1 .. N
        PROVE  f[i] = IF i = 1 THEN ss[i] ELSE f[i - 1] \o ss[i]
    <3>1. i - 1 \in 0 .. N /\ g[i - 1] \in Seq(T) /\ g[i] = g[i - 1] \o ss[i]
      <4>1. i - 1 \in 0 .. N
        BY <1>1
      <4>2. g[i - 1] \in Seq(T) /\ g[i] = step[<<g[i - 1], i>>]
        BY <2>4, <2>5, <4>1
      <4> QED
        BY <2>2, <4>1, <4>2
    <3>2. CASE i = 1
      <4>1. g[i - 1] = <<>>
        BY <2>5, <3>2
      <4> QED
        BY <1>1, <2>3, <3>1, <3>2, <4>1
    <3>3. CASE i # 1
      <4>1. i - 1 \in 1 .. N
        BY <1>1, <3>3
      <4> QED
        BY <3>1, <3>3, <4>1
    <3> QED
      BY <3>2, <3>3
  <2>7. Joins(f)
    BY <2>6
  <2> DEFINE h == CHOOSE h : Joins(h)
  <2>8. Joins(h)
    <3> HIDE DEF f, Joins
    <3> QED
      BY <2>7
  <2>9. FlattenSeq(ss) = h[N]
    BY <1>3 DEF FlattenSeq, N
  <2> HIDE DEF f, h
  <2>10. h[1] = ss[1] /\ \A i \in 1 .. N : i # 1 => h[i] = h[i - 1] \o ss[i]
    <3>1. 1 \in 1 .. N
      BY <1>1, <1>3
    <3> QED
      BY <2>8, <3>1
  <2> HIDE DEF Joins
  <2> DEFINE G == {k \in Nat : k + 1 <= N => h[k + 1] \in Seq(T)}
  <2>11. 0 \in G
    BY <1>1, <1>3, <2>10
  <2>12. ASSUME NEW k \in Nat, k \in G PROVE k + 1 \in G
    <3> SUFFICES ASSUME k + 2 <= N PROVE h[k + 2] \in Seq(T)
      OBVIOUS
    <3>1. k + 2 \in 1 .. N /\ k + 2 # 1 /\ k + 2 - 1 = k + 1 /\ h[k + 1] \in Seq(T)
      BY <1>1, <2>12
    <3> DEFINE i == k + 2
    <3>2. i \in 1 .. N /\ i # 1 /\ i - 1 = k + 1
      BY <3>1
    <3> HIDE DEF i
    <3>3. h[i] = h[i - 1] \o ss[i] /\ ss[i] \in Seq(T)
      BY <1>1, <2>10, <3>2
    <3>4. h[i] = h[k + 1] \o ss[i]
      BY <3>2, <3>3
    <3>5. h[i] \in Seq(T)
      BY <3>1, <3>3, <3>4
    <3> QED
      BY <3>5 DEF i
  <2>13. Nat \subseteq G
    <3> HIDE DEF G
    <3> QED
      BY <2>11, <2>12, SetInduction
  <2>14. \A i \in 1 .. N : h[i] \in Seq(T)
    <3> SUFFICES ASSUME NEW i \in 1 .. N PROVE h[i] \in Seq(T)
      OBVIOUS
    <3>1. i - 1 \in Nat /\ (i - 1) + 1 = i /\ i <= N
      BY <1>1
    <3>2. i - 1 \in G
      BY <2>13, <3>1
    <3> DEFINE m == i - 1
    <3>3. m + 1 <= N => h[m + 1] \in Seq(T)
      BY <3>2
    <3> QED
      BY <3>1, <3>3
  <2> DEFINE j == [i \in 0 .. N |-> IF i = 0 THEN <<>> ELSE h[i]]
  <2>15. j[0] = <<>> /\ \A i \in 1 .. N : j[i] = h[i]
    BY <1>1
  <2>16. j \in [0 .. N -> Seq(T)]
    BY <1>1, <2>3, <2>14
  <2> HIDE DEF j
  <2>17. ASSUME NEW i \in 1 .. N PROVE j[i] = j[i - 1] \o ss[i]
    <3>1. CASE i = 1
      <4>1. j[i] = ss[i] /\ j[i - 1] = <<>>
        BY <2>10, <2>15, <3>1
      <4> QED
        BY <1>1, <2>3, <4>1
    <3>2. CASE i # 1
      <4>1. i - 1 \in 1 .. N
        BY <1>1, <3>2
      <4> QED
        BY <2>10, <2>15, <3>2, <4>1
    <3> QED
      BY <3>1, <3>2
  <2>18. j[N] = FlattenSeq(ss)
    <3>1. N \in 1 .. N
      BY <1>1, <1>3
    <3> QED
      BY <2>9, <2>15, <3>1
  <2>19. Joined(j, ss, T)
    BY <2>15, <2>16, <2>17, <2>18 DEF Joined, N
  <2> QED
    BY <2>19
<1> QED
  BY <1>2, <1>3

LEMMA FlattenType ==
  ASSUME NEW T, NEW ss \in Seq(Seq(T))
  PROVE  FlattenSeq(ss) \in Seq(T)
<1>1. PICK g : Joined(g, ss, T)
  BY FlattenJoins
<1>2. Len(ss) \in 0 .. Len(ss)
  OBVIOUS
<1> QED
  BY <1>1, <1>2 DEF Joined

(* The bytes of c are those of s behind the first off. *)
Within(c, s, off) == off + Len(c) <= Len(s) /\ \A i \in 1 .. Len(c) : c[i] = s[off + i]

LEMMA PartsOfConcat ==
  ASSUME NEW T, NEW p \in Seq(T), NEW q \in Seq(T)
  PROVE  /\ p \o q \in Seq(T) /\ Len(p \o q) = Len(p) + Len(q)
         /\ Within(p, p \o q, 0) /\ Within(q, p \o q, Len(p))
<1>1. /\ p \o q \in Seq(T) /\ Len(p \o q) = Len(p) + Len(q) /\ Len(p) \in Nat /\ Len(q) \in Nat
      /\ \A i \in 1 .. Len(p) : (p \o q)[i] = p[i] /\ 0 + i = i
      /\ \A i \in 1 .. Len(q) : (p \o q)[Len(p) + i] = q[i]
  OBVIOUS
<1> DEFINE r == p \o q
<1> HIDE DEF r
<1>2. /\ Len(r) = Len(p) + Len(q)
      /\ \A i \in 1 .. Len(p) : r[0 + i] = p[i]
      /\ \A i \in 1 .. Len(q) : r[Len(p) + i] = q[i]
  BY <1>1 DEF r
<1>3. Within(p, r, 0) /\ Within(q, r, Len(p))
  BY <1>1, <1>2 DEF Within
<1> QED
  BY <1>1, <1>3 DEF r

LEMMA WithinWithin ==
  ASSUME NEW T, NEW b \in Seq(T), NEW c \in Seq(T), NEW s \in Seq(T),
         NEW m \in Nat, NEW n \in Nat, Within(b, c, m), Within(c, s, n)
  PROVE  Within(b, s, n + m)
<1>1. Len(b) \in Nat /\ Len(c) \in Nat /\ Len(s) \in Nat
  OBVIOUS
<1>2. /\ m + Len(b) <= Len(c) /\ \A i \in 1 .. Len(b) : b[i] = c[m + i]
      /\ n + Len(c) <= Len(s) /\ \A i \in 1 .. Len(c) : c[i] = s[n + i]
  BY DEF Within
<1>3. (n + m) + Len(b) <= Len(s)
  BY <1>1, <1>2
<1>4. \A i \in 1 .. Len(b) : b[i] = s[(n + m) + i]
  <2> SUFFICES ASSUME NEW i \in 1 .. Len(b) PROVE b[i] = s[(n + m) + i]
    OBVIOUS
  <2>1. m + i \in 1 .. Len(c) /\ (n + m) + i = n + (m + i)
    BY <1>1, <1>2
  <2>2. c[m + i] = s[n + (m + i)]
    BY <1>2, <2>1
  <2> QED
    BY <1>2, <2>1, <2>2
<1> QED
  BY <1>3, <1>4 DEF Within

(* Where the parts of what is flattened lie. *)
LEMMA FlattenLies ==
  ASSUME NEW T, NEW ss \in Seq(Seq(T)), NEW g, Joined(g, ss, T)
  PROVE  /\ \A k \in 1 .. Len(ss) : /\ Within(ss[k], FlattenSeq(ss), Len(g[k - 1]))
                                   /\ Len(g[k]) = Len(g[k - 1]) + Len(ss[k])
         /\ Len(g[0]) = 0 /\ Len(g[Len(ss)]) = Len(FlattenSeq(ss))
<1> DEFINE N == Len(ss)
           G == {m \in Nat : m <= N => \A k \in 1 .. m : Within(ss[k], g[m], Len(g[k - 1]))}
<1>1. N \in Nat /\ \A k \in 1 .. N : ss[k] \in Seq(T)
  OBVIOUS
<1>2. /\ \A k \in 0 .. N : g[k] \in Seq(T)
      /\ g[0] = <<>> /\ g[N] = FlattenSeq(ss)
      /\ \A k \in 1 .. N : g[k] = g[k - 1] \o ss[k]
  BY DEF Joined
<1> HIDE DEF N
<1>3. ASSUME NEW k \in 1 .. N
      PROVE  /\ g[k] \in Seq(T) /\ g[k - 1] \in Seq(T) /\ ss[k] \in Seq(T)
             /\ Len(g[k]) = Len(g[k - 1]) + Len(ss[k])
             /\ Within(g[k - 1], g[k], 0) /\ Within(ss[k], g[k], Len(g[k - 1]))
  <2>1. k - 1 \in 0 .. N /\ k \in 0 .. N
    BY <1>1
  <2>2. g[k] \in Seq(T) /\ g[k - 1] \in Seq(T) /\ ss[k] \in Seq(T) /\ g[k] = g[k - 1] \o ss[k]
    BY <1>1, <1>2, <2>1
  <2> QED
    BY <2>2, PartsOfConcat
<1>4. 0 \in G
  OBVIOUS
<1>5. ASSUME NEW m \in Nat, m \in G PROVE m + 1 \in G
  <2> SUFFICES ASSUME m + 1 <= N, NEW k \in 1 .. m + 1
               PROVE  Within(ss[k], g[m + 1], Len(g[k - 1]))
    OBVIOUS
  <2>1. m + 1 \in 1 .. N /\ (m + 1) - 1 = m
    BY <1>1
  <2>2. CASE k = m + 1
    BY <1>3, <2>1, <2>2
  <2>3. CASE k # m + 1
    <3>1. k \in 1 .. m /\ k \in 1 .. N /\ m <= N
      BY <1>1, <2>1, <2>3
    <3>2. Within(ss[k], g[m], Len(g[k - 1]))
      BY <1>5, <3>1
    <3>3. Within(g[m], g[m + 1], 0) /\ g[m] \in Seq(T) /\ g[m + 1] \in Seq(T)
      BY <1>3, <2>1
    <3>4. ss[k] \in Seq(T) /\ Len(g[k - 1]) \in Nat
      <4>1. ss[k] \in Seq(T) /\ g[k - 1] \in Seq(T)
        BY <1>3, <3>1
      <4> QED
        BY ONLY <4>1
    <3> DEFINE d == Len(g[k - 1])
               part == ss[k]
               here == g[m]
               on == g[m + 1]
    <3>5. 0 + d = d /\ 0 \in Nat
      BY <3>4
    <3>6. Within(part, on, 0 + d)
      <4>1. /\ part \in Seq(T) /\ here \in Seq(T) /\ on \in Seq(T) /\ d \in Nat /\ 0 \in Nat
            /\ Within(part, here, d) /\ Within(here, on, 0)
        BY <3>2, <3>3, <3>4
      <4> HIDE DEF d, part, here, on
      <4> QED
        BY ONLY <4>1, WithinWithin
    <3> QED
      BY <3>5, <3>6
  <2> QED
    BY <2>2, <2>3
<1>6. Nat \subseteq G
  <2> HIDE DEF G
  <2> QED
    BY <1>4, <1>5, SetInduction
<1>7. \A k \in 1 .. N : Within(ss[k], g[N], Len(g[k - 1]))
  BY <1>1, <1>6
<1> QED
  BY <1>2, <1>3, <1>7 DEF N

-----------------------------------------------------------------------------
(* Walks(f, n, stop, a, x, next): from an offset at which to stop, f gives  *)
(* what a says; from any other, the element there in front of what it gives *)
(* from the next.                                                           *)

Further(x, at, rests) == {<<x[at]>> \o rest : rest \in rests}
Walks(f, lo, n, stop, a, x, next) ==
  f = [at \in lo .. n |-> IF at \in stop THEN a[at] ELSE Further(x, at, f[next[at]])]

LEMMA WalkExists ==
  ASSUME NEW n \in Nat, NEW stop, NEW a, NEW x, NEW next,
         \A at \in 0 .. n : at \notin stop => next[at] \in at + 1 .. n
  PROVE  \E f : Walks(f, 0, n, stop, a, x, next)
<1> DEFINE G == {k \in Nat : k <= n => \E f : Walks(f, n - k, n, stop, a, x, next)}
<1>1. 0 \in G
  <2>1. n \in stop /\ n - 0 = n
    OBVIOUS
  <2> DEFINE f == [at \in n .. n |-> a[n]]
  <2>2. \A at \in n .. n : f[at] = IF at \in stop THEN a[at] ELSE Further(x, at, f[next[at]])
    BY <2>1
  <2>3. Walks(f, n, n, stop, a, x, next)
    BY <2>2 DEF Walks
  <2> HIDE DEF f
  <2> QED
    BY <2>1, <2>3
<1>2. ASSUME NEW k \in Nat, k \in G PROVE k + 1 \in G
  <2> SUFFICES ASSUME k + 1 <= n PROVE \E f : Walks(f, n - (k + 1), n, stop, a, x, next)
    OBVIOUS
  <2>1. PICK f : Walks(f, n - k, n, stop, a, x, next)
    BY <1>2
  <2> DEFINE lo == n - (k + 1)
             new == IF lo \in stop THEN a[lo] ELSE Further(x, lo, f[next[lo]])
             g == [at \in lo .. n |-> IF at \in n - k .. n THEN f[at] ELSE new]
  <2>2. lo \in Nat /\ n - k = lo + 1 /\ lo \in 0 .. n /\ lo \notin lo + 1 .. n
    OBVIOUS
  <2>3. \A at \in lo + 1 .. n :
          f[at] = IF at \in stop THEN a[at] ELSE Further(x, at, f[next[at]])
    <3>1. f = [at \in lo + 1 .. n |-> IF at \in stop THEN a[at] ELSE Further(x, at, f[next[at]])]
      BY <2>1, <2>2 DEF Walks
    <3> QED
      BY <3>1
  <2>4. (\A at \in lo + 1 .. n : g[at] = f[at]) /\ g[lo] = new
    <3> HIDE DEF new
    <3> QED
      BY <2>2
  <2>5. \A at \in lo .. n : at \notin stop => next[at] \in lo + 1 .. n /\ next[at] \in lo .. n
    BY <2>2
  <2> HIDE DEF g
  <2>6. ASSUME NEW at \in lo .. n
        PROVE  g[at] = IF at \in stop THEN a[at] ELSE Further(x, at, g[next[at]])
    <3>1. at \notin stop => g[next[at]] = f[next[at]]
      BY <2>4, <2>5
    <3>2. CASE at = lo
      BY <2>4, <3>1, <3>2
    <3>3. CASE at # lo
      <4>1. at \in lo + 1 .. n
        BY <2>2, <3>3
      <4> QED
        BY <2>3, <2>4, <3>1, <4>1
    <3> QED
      BY <3>2, <3>3
  <2>7. g = [at \in lo .. n |-> IF at \in stop THEN a[at] ELSE Further(x, at, g[next[at]])]
    BY <2>6 DEF g
  <2>8. Walks(g, lo, n, stop, a, x, next)
    BY <2>7 DEF Walks
  <2> QED
    BY <2>8
<1>3. Nat \subseteq G
  <2> HIDE DEF G
  <2> QED
    BY <1>1, <1>2, SetInduction
<1>4. n - n = 0
  OBVIOUS
<1> QED
  BY <1>3, <1>4

(* A walk whose stops answer with one sequence at most, and whose steps go   *)
(* on, finds one sequence at most.                                           *)
Advances(n, stop, a, x, next, T) ==
  /\ \A at \in 0 .. n : at \notin stop => next[at] \in at + 1 .. n /\ x[at] \in T
  /\ \A at \in 0 .. n : at \in stop => a[at] \subseteq Seq(T) /\ \A p, q \in a[at] : p = q
FindsOne(f, n, T) ==
  \A at \in 0 .. n : f[at] \subseteq Seq(T) /\ \A p, q \in f[at] : p = q

LEMMA WalkFindsOne ==
  ASSUME NEW n \in Nat, NEW stop, NEW a, NEW x, NEW next, NEW T,
         Advances(n, stop, a, x, next, T),
         NEW f, Walks(f, 0, n, stop, a, x, next)
  PROVE  FindsOne(f, n, T)
<1>0. /\ \A at \in 0 .. n : at \notin stop => next[at] \in at + 1 .. n /\ x[at] \in T
      /\ \A at \in 0 .. n : at \in stop => a[at] \subseteq Seq(T) /\ \A p, q \in a[at] : p = q
  BY DEF Advances
<1> DEFINE One(s) == s \subseteq Seq(T) /\ \A p, q \in s : p = q
           G == {k \in Nat : \A at \in 0 .. n : n - k <= at => One(f[at])}
<1>1. \A at \in 0 .. n : f[at] = IF at \in stop THEN a[at] ELSE Further(x, at, f[next[at]])
  <2>1. f = [at \in 0 .. n |-> IF at \in stop THEN a[at] ELSE Further(x, at, f[next[at]])]
    BY DEF Walks
  <2> QED
    BY <2>1
<1>2. ASSUME NEW at \in 0 .. n, at \notin stop, One(f[next[at]]) PROVE One(f[at])
  <2>1. f[at] = {<<x[at]>> \o rest : rest \in f[next[at]]} /\ x[at] \in T
    BY <1>0, <1>1, <1>2 DEF Further
  <2> DEFINE y == x[at]
  <2>2. \A rest \in Seq(T) : <<y>> \o rest \in Seq(T)
    <3>1. y \in T
      BY <2>1
    <3> HIDE DEF y
    <3> QED
      BY <3>1
  <2>3. f[at] \subseteq Seq(T)
    <3>1. \A rest \in f[next[at]] : rest \in Seq(T)
      BY <1>2
    <3>2. f[at] = {<<y>> \o rest : rest \in f[next[at]]}
      BY <2>1
    <3> HIDE DEF y
    <3> SUFFICES ASSUME NEW p \in f[at] PROVE p \in Seq(T)
      OBVIOUS
    <3>3. PICK rest \in f[next[at]] : p = <<y>> \o rest
      BY <3>2
    <3> QED
      BY <2>2, <3>1, <3>3
  <2>4. \A p, q \in f[at] : p = q
    BY <1>2, <2>1
  <2> QED
    BY <2>3, <2>4
<1>3. \A at \in 0 .. n : at \in stop => One(f[at])
  BY <1>0, <1>1
<1>4. 0 \in G
  <2> HIDE DEF One
  <2>1. \A at \in 0 .. n : n - 0 <= at => at \in stop
    BY <1>0
  <2> QED
    BY <1>3, <2>1
<1>5. ASSUME NEW k \in Nat, k \in G PROVE k + 1 \in G
  <2> HIDE DEF One
  <2> SUFFICES ASSUME NEW at \in 0 .. n, n - (k + 1) <= at PROVE One(f[at])
    OBVIOUS
  <2>1. CASE at \in stop
    BY <1>3, <2>1
  <2>2. CASE at \notin stop
    <3>1. next[at] \in 0 .. n /\ n - k <= next[at]
      BY <1>0, <2>2
    <3>2. One(f[next[at]])
      BY <1>5, <3>1
    <3> QED
      BY <1>2, <2>2, <3>2
  <2> QED
    BY <2>1, <2>2
<1>6. Nat \subseteq G
  <2> HIDE DEF G
  <2> QED
    BY <1>4, <1>5, SetInduction
<1>7. \A at \in 0 .. n : n - n <= at
  OBVIOUS
<1>8. \A at \in 0 .. n : One(f[at])
  BY <1>6, <1>7
<1> QED
  BY <1>8 DEF FindsOne

(* The places a walk has been at, when it found s from at on.               *)
Follows(p, s, at, n, stop, a, x, next) ==
  /\ p[0] = at
  /\ \A k \in 0 .. Len(s) : p[k] \in 0 .. n
  /\ \A k \in 1 .. Len(s) : p[k - 1] \notin stop /\ s[k] = x[p[k - 1]] /\ p[k] = next[p[k - 1]]
  /\ p[Len(s)] \in stop /\ <<>> \in a[p[Len(s)]]

LEMMA FollowsOn ==
  ASSUME NEW n \in Nat, NEW stop, NEW a, NEW x, NEW next, NEW T,
         NEW at \in 0 .. n, at \notin stop, x[at] \in T, NEW rest \in Seq(T),
         NEW q, Follows(q, rest, next[at], n, stop, a, x, next)
  PROVE  \E p : Follows(p, <<x[at]>> \o rest, at, n, stop, a, x, next)
<1> DEFINE y == x[at]
           s == <<y>> \o rest
           p == [k \in Nat |-> IF k = 0 THEN at ELSE q[k - 1]]
<1>1. /\ Len(rest) \in Nat /\ Len(s) = Len(rest) + 1 /\ s[1] = y
      /\ \A k \in 1 .. Len(rest) : s[k + 1] = rest[k]
  <2>1. y \in T
    OBVIOUS
  <2> HIDE DEF y
  <2> QED
    BY <2>1
<1>2. p[0] = at /\ \A k \in Nat : k # 0 => p[k] = q[k - 1]
  OBVIOUS
<1>3. /\ q[0] = next[at]
      /\ \A k \in 0 .. Len(rest) : q[k] \in 0 .. n
      /\ \A k \in 1 .. Len(rest) :
            q[k - 1] \notin stop /\ rest[k] = x[q[k - 1]] /\ q[k] = next[q[k - 1]]
      /\ q[Len(rest)] \in stop /\ <<>> \in a[q[Len(rest)]]
  BY DEF Follows
<1> HIDE DEF s, p
<1>4. \A k \in 0 .. Len(s) : p[k] \in 0 .. n
  <2> SUFFICES ASSUME NEW k \in 0 .. Len(s) PROVE p[k] \in 0 .. n
    OBVIOUS
  <2>1. CASE k = 0
    BY <1>2, <2>1
  <2>2. CASE k # 0
    <3>1. k - 1 \in 0 .. Len(rest) /\ k \in Nat
      BY <1>1, <2>2
    <3> QED
      BY <1>2, <1>3, <2>2, <3>1
  <2> QED
    BY <2>1, <2>2
<1>5. ASSUME NEW k \in 1 .. Len(s)
      PROVE  p[k - 1] \notin stop /\ s[k] = x[p[k - 1]] /\ p[k] = next[p[k - 1]]
  <2>1. CASE k = 1
    <3>1. k - 1 = 0 /\ k \in Nat /\ k # 0
      BY <2>1
    <3> QED
      BY <1>1, <1>2, <1>3, <2>1, <3>1
  <2>2. CASE k # 1
    <3> DEFINE m == k - 1
    <3>1. m \in 1 .. Len(rest) /\ m \in Nat /\ m # 0 /\ k = m + 1 /\ k \in Nat /\ k # 0
      BY <1>1, <2>2
    <3>2. p[k] = q[m] /\ p[m] = q[m - 1]
      BY <1>2, <3>1
    <3> HIDE DEF m
    <3>3. s[k] = rest[m]
      BY <1>1, <3>1
    <3>4. q[m - 1] \notin stop /\ rest[m] = x[q[m - 1]] /\ q[m] = next[q[m - 1]]
      BY <1>3, <3>1
    <3> QED
      BY <3>2, <3>3, <3>4 DEF m
  <2> QED
    BY <2>1, <2>2
<1>6. p[Len(s)] = q[Len(rest)]
  <2>1. Len(s) \in Nat /\ Len(s) # 0 /\ Len(s) - 1 = Len(rest)
    BY <1>1
  <2> QED
    BY <1>2, <2>1
<1>7. Follows(p, s, at, n, stop, a, x, next)
  BY <1>2, <1>3, <1>4, <1>5, <1>6 DEF Follows
<1> QED
  BY <1>7 DEF s

LEMMA WalkFollows ==
  ASSUME NEW n \in Nat, NEW stop, NEW a, NEW x, NEW next, NEW T,
         Advances(n, stop, a, x, next, T),
         \A at \in 0 .. n : at \in stop => a[at] \subseteq {<<>>},
         NEW f, Walks(f, 0, n, stop, a, x, next)
  PROVE  \A at \in 0 .. n : \A s \in f[at] : \E p : Follows(p, s, at, n, stop, a, x, next)
<1>0. \A at \in 0 .. n : at \notin stop => next[at] \in at + 1 .. n /\ x[at] \in T
  BY DEF Advances
<1> DEFINE Good(at) == \A s \in f[at] : \E p : Follows(p, s, at, n, stop, a, x, next)
           G == {k \in Nat : \A at \in 0 .. n : n - k <= at => Good(at)}
<1>1. \A at \in 0 .. n : f[at] = IF at \in stop THEN a[at] ELSE Further(x, at, f[next[at]])
  <2>1. f = [at \in 0 .. n |-> IF at \in stop THEN a[at] ELSE Further(x, at, f[next[at]])]
    BY DEF Walks
  <2> QED
    BY <2>1
<1>2. FindsOne(f, n, T)
  BY WalkFindsOne
<1>3. ASSUME NEW at \in 0 .. n, at \in stop PROVE Good(at)
  <2> SUFFICES ASSUME NEW s \in f[at] PROVE \E p : Follows(p, s, at, n, stop, a, x, next)
    OBVIOUS
  <2>1. s = <<>> /\ s \in a[at]
    BY <1>1, <1>3
  <2> DEFINE p == [k \in {0} |-> at]
  <2>2. p[0] = at /\ Len(s) = 0
    BY <2>1
  <2> HIDE DEF p
  <2>3. Follows(p, s, at, n, stop, a, x, next)
    BY <1>3, <2>1, <2>2 DEF Follows
  <2> QED
    BY <2>3
<1>4. ASSUME NEW at \in 0 .. n, at \notin stop, Good(next[at]) PROVE Good(at)
  <2> SUFFICES ASSUME NEW s \in f[at] PROVE \E p : Follows(p, s, at, n, stop, a, x, next)
    OBVIOUS
  <2>1. PICK rest \in f[next[at]] : s = <<x[at]>> \o rest
    BY <1>1, <1>4 DEF Further
  <2>2. next[at] \in 0 .. n /\ x[at] \in T
    BY <1>0, <1>4
  <2>3. rest \in Seq(T)
    BY <1>2, <2>2 DEF FindsOne
  <2>4. PICK q : Follows(q, rest, next[at], n, stop, a, x, next)
    BY <1>4
  <2> QED
    BY <1>4, <2>1, <2>2, <2>3, <2>4, FollowsOn
<1> HIDE DEF Good
<1>5. 0 \in G
  <2>1. \A at \in 0 .. n : n - 0 <= at => at \in stop
    BY <1>0
  <2> QED
    BY <1>3, <2>1
<1>6. ASSUME NEW k \in Nat, k \in G PROVE k + 1 \in G
  <2> SUFFICES ASSUME NEW at \in 0 .. n, n - (k + 1) <= at PROVE Good(at)
    OBVIOUS
  <2>1. CASE at \in stop
    BY <1>3, <2>1
  <2>2. CASE at \notin stop
    <3>1. next[at] \in 0 .. n /\ n - k <= next[at]
      BY <1>0, <2>2
    <3>2. Good(next[at])
      BY <1>6, <3>1
    <3> QED
      BY <1>4, <2>2, <3>2
  <2> QED
    BY <2>1, <2>2
<1>7. Nat \subseteq G
  <2> HIDE DEF G
  <2> QED
    BY <1>5, <1>6, SetInduction
<1>8. \A at \in 0 .. n : n - n <= at
  OBVIOUS
<1>9. \A at \in 0 .. n : Good(at)
  BY <1>7, <1>8
<1> QED
  BY <1>9 DEF Good

==============================================================================
