--------------------------- MODULE TuiViewProofs ---------------------------
(***************************************************************************)
(* Proofs about TuiView, for every capacity of the view, every set of      *)
(* kinds of rows and both bounds.                                          *)
(***************************************************************************)
EXTENDS TuiView, SequenceLemmas, FiniteSetTheorems

----------------------------------------------------------------------------
(* Counting the elements of a set of numbers below each of them *)

\* The elements of a set have the places 0, 1, ... up to one below their number.
LEMMA PlacesAreTaken ==
  \A n \in Nat : \A S \in SUBSET (1 .. n) : \A h \in Nat :
    h < Cardinality(S) => \E i \in S : Cardinality({j \in S : j < i}) = h
<1> DEFINE Taken(S) == \A h \in Nat :
             h < Cardinality(S) => \E i \in S : Cardinality({j \in S : j < i}) = h
           Good == {n \in Nat : \A S \in SUBSET (1 .. n) : Taken(S)}
<1>1. 0 \in Good
  <2>1. 1 .. 0 = {}
    OBVIOUS
  <2>2. Cardinality({}) = 0
    BY FS_EmptySet
  <2>3. Taken({})
    BY <2>2
  <2>4. QED
    BY <2>1, <2>3
<1>2. ASSUME NEW n \in Nat, n \in Good PROVE n + 1 \in Good
  <2>1. SUFFICES ASSUME NEW S \in SUBSET (1 .. n + 1), NEW h \in Nat, h < Cardinality(S)
                 PROVE  \E i \in S : Cardinality({j \in S : j < i}) = h
    OBVIOUS
  <2> DEFINE T == S \ {n + 1}
  <2>2. T \in SUBSET (1 .. n)
    OBVIOUS
  <2>3. IsFiniteSet(S)
    <3>1. IsFiniteSet(1 .. n + 1)
      BY FS_Interval
    <3>2. QED
      BY <3>1, FS_Subset
  <2>4. Cardinality(T) = IF n + 1 \in S THEN Cardinality(S) - 1 ELSE Cardinality(S)
    BY <2>3, FS_RemoveElement
  <2>5. Cardinality(S) \in Nat
    BY <2>3, FS_CardinalityType
  <2>6. CASE h < Cardinality(T)
    <3>1. PICK i \in T : Cardinality({j \in T : j < i}) = h
      BY <1>2, <2>2, <2>6
    <3>2. {j \in T : j < i} = {j \in S : j < i}
      BY <2>2
    <3>3. QED
      BY <3>1, <3>2
  <2>7. CASE ~ (h < Cardinality(T))
    <3>1. n + 1 \in S /\ h = Cardinality(T)
      BY <2>1, <2>4, <2>5, <2>7
    <3>2. \A j \in S : j < n + 1 <=> j # n + 1
      <4>1. \A j \in S : j \in 1 .. n + 1
        OBVIOUS
      <4>2. QED
        BY <4>1
    <3>3. {j \in S : j < n + 1} = T
      BY <3>2
    <3>4. QED
      BY <3>1, <3>3
  <2>8. QED
    BY <2>6, <2>7
<1>3. Nat \subseteq Good
  <2> HIDE DEF Good
  <2>1. QED
    BY <1>1, <1>2, SetInduction
<1>4. QED
  BY <1>3

\* The numbers from 1 to n.
LEMMA IntervalSize ==
  ASSUME NEW n \in Nat
  PROVE  IsFiniteSet(1 .. n) /\ Cardinality(1 .. n) = n
<1>1. 1 \in Int /\ n \in Int
  OBVIOUS
<1>2. /\ IsFiniteSet(1 .. n)
      /\ Cardinality(1 .. n) = IF 1 <= n THEN n - 1 + 1 ELSE 0
  BY <1>1, FS_Interval
<1>3. QED
  BY <1>2

\* No two elements have the same place.
LEMMA PlacesDiffer ==
  ASSUME NEW n \in Nat, NEW S \in SUBSET (1 .. n), NEW i \in S, NEW k \in S,
         Cardinality({j \in S : j < i}) = Cardinality({j \in S : j < k})
  PROVE  i = k
<1>1. \A j \in S : j \in Int
  OBVIOUS
<1>2. ASSUME NEW a \in S, NEW b \in S, a < b,
             Cardinality({j \in S : j < a}) = Cardinality({j \in S : j < b})
      PROVE  FALSE
  <2> DEFINE Below(x) == {j \in S : j < x}
  <2>1. IsFiniteSet(Below(b))
    <3>1. IsFiniteSet(1 .. n) /\ 1 \in Int /\ n \in Int
      BY FS_Interval
    <3>2. Below(b) \subseteq S
      OBVIOUS
    <3>3. QED
      BY <3>1, <3>2, FS_Subset
  <2>2. Below(a) \subseteq Below(b)
    <3>1. \A j \in S : j < a => j < b
      BY <1>1, <1>2
    <3>2. QED
      BY <3>1
  <2>3. a \in Below(b) /\ a \notin Below(a)
    BY <1>1, <1>2
  <2>4. Below(a) = Below(b)
    <3>1. Cardinality(Below(b)) = Cardinality(Below(a))
      BY <1>2
    <3> HIDE DEF Below
    <3>2. QED
      BY <3>1, <2>1, <2>2, FS_Subset
  <2>5. QED
    BY <2>3, <2>4
<1>3. QED
  BY <1>1, <1>2

----------------------------------------------------------------------------
(* The visible rows *)

\* There are at most as many as rows.
LEMMA VisibleCount ==
  rows \in Seq(Row) =>
    /\ Len(rows) \in Nat /\ Visible \in SUBSET (1 .. Len(rows))
    /\ Cardinality(Visible) \in 0 .. Len(rows)
    /\ Cardinality(Visible) = 0 <=> Visible = {}
    /\ LastVisible \in Nat
    /\ Visible # {} => LastVisible = Cardinality(Visible) - 1
    /\ Visible = {} => LastVisible = 0
<1> SUFFICES ASSUME rows \in Seq(Row)
             PROVE  /\ Len(rows) \in Nat /\ Visible \in SUBSET (1 .. Len(rows))
                    /\ Cardinality(Visible) \in 0 .. Len(rows)
                    /\ Cardinality(Visible) = 0 <=> Visible = {}
                    /\ LastVisible \in Nat
                    /\ Visible # {} => LastVisible = Cardinality(Visible) - 1
                    /\ Visible = {} => LastVisible = 0
  OBVIOUS
<1>1. Len(rows) \in Nat /\ Visible \in SUBSET (1 .. Len(rows))
  BY DEF Visible
<1>2. IsFiniteSet(Visible) /\ Cardinality(Visible) \in 0 .. Len(rows)
  <2>1. IsFiniteSet(1 .. Len(rows)) /\ Cardinality(1 .. Len(rows)) = Len(rows)
    BY <1>1, IntervalSize
  <2>2. IsFiniteSet(Visible) /\ Cardinality(Visible) <= Cardinality(1 .. Len(rows))
    BY <1>1, <2>1, FS_Subset
  <2>3. Cardinality(Visible) \in Nat
    BY <2>2, FS_CardinalityType
  <2>4. QED
    BY <1>1, <2>1, <2>2, <2>3
<1>3. Cardinality(Visible) = 0 <=> Visible = {}
  BY <1>2, FS_EmptySet
<1>4. LastVisible \in Nat /\ (Visible # {} => LastVisible = Cardinality(Visible) - 1)
  <2>1. ASSUME Visible # {} PROVE Cardinality(Visible) - 1 \in Nat
    <3>1. Cardinality(Visible) \in Nat
      BY <1>1, <1>2
    <3>2. Cardinality(Visible) # 0
      BY <1>3, <2>1
    <3>3. QED
      BY <3>1, <3>2
  <2>2. QED
    BY <2>1 DEF LastVisible
<1>5. QED
  BY <1>1, <1>2, <1>3, <1>4 DEF LastVisible

LEMMA VisibleCountNext ==
  (rows \in Seq(Row) =>
    /\ Len(rows) \in Nat /\ Visible \in SUBSET (1 .. Len(rows))
    /\ Cardinality(Visible) \in 0 .. Len(rows)
    /\ Cardinality(Visible) = 0 <=> Visible = {}
    /\ LastVisible \in Nat
    /\ Visible # {} => LastVisible = Cardinality(Visible) - 1
    /\ Visible = {} => LastVisible = 0)'
BY VisibleCount, PTL

\* `current` is the row at the highlighted place, if any is visible.
LEMMA CurrentRow ==
  rows \in Seq(Row) /\ selected \in Nat =>
    /\ Highlighted \in Nat
    /\ Visible = {} => Current = NoRow
    /\ Visible # {} => \E i \in Visible : Place(i) = Highlighted /\ Current = rows[i]
    /\ Current \in Row \cup {NoRow}
<1> SUFFICES ASSUME rows \in Seq(Row), selected \in Nat
             PROVE  /\ Highlighted \in Nat
                    /\ Visible = {} => Current = NoRow
                    /\ Visible # {} => \E i \in Visible : Place(i) = Highlighted /\ Current = rows[i]
                    /\ Current \in Row \cup {NoRow}
  OBVIOUS
<1>1. Len(rows) \in Nat /\ Visible \in SUBSET (1 .. Len(rows))
  BY VisibleCount
<1>2. Highlighted \in Nat
  BY VisibleCount DEF Highlighted
<1>3. ASSUME Visible # {}
      PROVE  \E i \in Visible : Place(i) = Highlighted /\ Current = rows[i]
  <2>1. Highlighted < Cardinality(Visible)
    <3>1. LastVisible = Cardinality(Visible) - 1 /\ LastVisible \in Nat
      BY <1>3, VisibleCount
    <3>2. Cardinality(Visible) \in Nat
      BY <1>1, VisibleCount
    <3>3. Highlighted <= LastVisible
      BY <3>1 DEF Highlighted
    <3>4. QED
      BY <1>2, <3>1, <3>2, <3>3
  <2>2. \E i \in Visible : Place(i) = Highlighted
    <3>1. \A h \in Nat : h < Cardinality(Visible) =>
            \E i \in Visible : Cardinality({j \in Visible : j < i}) = h
      BY <1>1, PlacesAreTaken
    <3>2. \E i \in Visible : Cardinality({j \in Visible : j < i}) = Highlighted
      BY <1>2, <2>1, <3>1
    <3>3. QED
      BY <3>2 DEF Place
  <2>3. QED
    BY <1>3, <2>2 DEF Current
<1>4. Visible = {} => Current = NoRow
  BY DEF Current
<1>5. Current \in Row \cup {NoRow}
  BY <1>1, <1>3, <1>4
<1>6. QED
  BY <1>2, <1>3, <1>4, <1>5

LEMMA CurrentRowNext ==
  (rows \in Seq(Row) /\ selected \in Nat =>
    /\ Highlighted \in Nat
    /\ Visible = {} => Current = NoRow
    /\ Visible # {} => \E i \in Visible : Place(i) = Highlighted /\ Current = rows[i]
    /\ Current \in Row \cup {NoRow})'
BY CurrentRow, PTL

----------------------------------------------------------------------------
(* The window *)

\* Evicting what is too much leaves a view of rows that ends as it did.
LEMMA NewestIsView ==
  ASSUME NEW q \in Seq(Row), Len(q) \in 1 .. ViewCapacity + 1
  PROVE  /\ Newest(q) \in Seq(Row)
         /\ Len(Newest(q)) \in 1 .. ViewCapacity
         /\ Len(Newest(q)) >= Len(q) - 1
         /\ Newest(q)[Len(Newest(q))] = q[Len(q)]
         /\ Len(q) <= ViewCapacity => Newest(q) = q
<1> USE ViewCapacityAssumption
<1>1. CASE Len(q) <= ViewCapacity
  <2>1. Newest(q) = q
    BY <1>1 DEF Newest
  <2>2. QED
    BY <1>1, <2>1
<1>2. CASE Len(q) > ViewCapacity
  <2>1. Len(q) = ViewCapacity + 1 /\ Newest(q) = SubSeq(q, 2, Len(q))
    BY <1>2 DEF Newest
  <2>2. Newest(q) \in Seq(Row) /\ Len(Newest(q)) = ViewCapacity
    BY <2>1
  <2>3. Newest(q)[ViewCapacity] = q[ViewCapacity + 1]
    BY <2>1
  <2>4. QED
    BY <1>2, <2>1, <2>2, <2>3
<1>3. QED
  BY <1>1, <1>2

\* What Receive makes of the rows.
LEMMA Received ==
  ASSUME rows \in Seq(Row), Len(rows) <= ViewCapacity, NEW row \in Row
  PROVE  LET q == Newest(Append(rows, row)) IN
         /\ q \in Seq(Row) /\ Len(q) \in 1 .. ViewCapacity /\ Len(q) >= Len(rows)
         /\ q[Len(q)] = row
         /\ Len(rows) < ViewCapacity => q = Append(rows, row)
<1>1. Append(rows, row) \in Seq(Row) /\ Len(Append(rows, row)) = Len(rows) + 1
  OBVIOUS
<1>2. Append(rows, row)[Len(rows) + 1] = row
  OBVIOUS
<1>3. ASSUME NEW a \in Seq(Row), Len(a) = Len(rows) + 1, a[Len(rows) + 1] = row
      PROVE  /\ Newest(a) \in Seq(Row) /\ Len(Newest(a)) \in 1 .. ViewCapacity
             /\ Len(Newest(a)) >= Len(rows)
             /\ Newest(a)[Len(Newest(a))] = row
             /\ Len(rows) < ViewCapacity => Newest(a) = a
  <2>1. Len(rows) \in Nat /\ Len(a) \in 1 .. ViewCapacity + 1
    BY <1>3, ViewCapacityAssumption
  <2>2. /\ Newest(a) \in Seq(Row) /\ Len(Newest(a)) \in 1 .. ViewCapacity
        /\ Len(Newest(a)) >= Len(a) - 1
        /\ Newest(a)[Len(Newest(a))] = a[Len(a)]
        /\ Len(a) <= ViewCapacity => Newest(a) = a
    BY <2>1, NewestIsView
  <2>3. QED
    BY <1>3, <2>1, <2>2, ViewCapacityAssumption
<1>4. QED
  BY <1>1, <1>2, <1>3

----------------------------------------------------------------------------
(* Types *)

LEMMA InitType == Init => TypeOK
<1> SUFFICES ASSUME Init PROVE TypeOK
  OBVIOUS
<1>1. rows \in Seq(Row) /\ Len(rows) <= ViewCapacity /\ selected \in Nat
  BY ViewCapacityAssumption DEF Init
<1>2. search \in Seq(SUBSET Kinds)
  BY DEF Init
<1>3. Visible = {} /\ Current = NoRow
  <2>1. Visible = {}
    BY DEF Init, Visible
  <2>2. QED
    BY <2>1 DEF Current
<1>4. screen = [table |-> {}, current |-> NoRow, dropped |-> FALSE,
                typing |-> <<>>, wrote |-> -1]
  BY <1>3 DEF Init, Picture
<1>5. screen \in [table : SUBSET Row, current : Row \cup {NoRow}, dropped : BOOLEAN,
                  typing : Seq(SUBSET Kinds), wrote : Nat \cup {-1}]
  <2>1. <<>> \in Seq(SUBSET Kinds) /\ {} \in SUBSET Row
    OBVIOUS
  <2> HIDE DEF Init
  <2>2. QED
    BY <1>4, <2>1
<1>6. {follow, searching, dropped, dirty, due} \subseteq BOOLEAN
  BY DEF Init
<1>7. exported \in Nat \cup {-1} /\ loop \in {"top", "select", "quit"} /\ received \subseteq Nat
  BY DEF Init
<1>8. QED
  BY <1>1, <1>2, <1>5, <1>6, <1>7 DEF TypeOK

\* What is drawn is a picture.
LEMMA PictureType ==
  ASSUME TypeOK
  PROVE  Picture \in [table : SUBSET Row, current : Row \cup {NoRow}, dropped : BOOLEAN,
                      typing : Seq(SUBSET Kinds), wrote : Nat \cup {-1}]
<1>1. {rows[i] : i \in Visible} \subseteq Row
  BY VisibleCount DEF TypeOK
<1>2. Current \in Row \cup {NoRow}
  BY CurrentRow DEF TypeOK
<1>3. (IF searching THEN search ELSE <<>>) \in Seq(SUBSET Kinds)
  BY DEF TypeOK
<1>4. (IF searching THEN -1 ELSE exported) \in Nat \cup {-1}
  BY DEF TypeOK
<1>5. QED
  BY <1>1, <1>2, <1>3, <1>4 DEF Picture, TypeOK

\* A row leaves a view, and a selection that follows is of a visible row.
LEMMA ReceiveType ==
  ASSUME TypeOK, NEW row \in Row, Receive(row)
  PROVE  TypeOK'
<1>1. /\ rows' \in Seq(Row) /\ Len(rows') <= ViewCapacity
  <2>1. /\ rows \in Seq(Row) /\ Len(rows) <= ViewCapacity
        /\ rows' = Newest(Append(rows, row))
    BY DEF TypeOK, Receive
  <2>2. QED
    BY <2>1, Received, ViewCapacityAssumption
<1>2. LastVisible' \in Nat
  BY <1>1, VisibleCountNext
<1>3. selected' \in Nat
  BY <1>2 DEF TypeOK, Receive
<1>4. received' \subseteq Nat
  BY DEF TypeOK, Receive, Row
<1>5. {follow', searching', dropped', dirty', due'} \subseteq BOOLEAN
  BY DEF TypeOK, Receive, Select
<1>6. QED
  BY <1>1, <1>3, <1>4, <1>5 DEF TypeOK, Receive, Select

\* A key does not put the selection, the search or the note out of their types.
LEMMA KeyType ==
  ASSUME TypeOK, SomeKey
  PROVE  TypeOK'
<1> USE DEF TypeOK, Key, Select, stateVars
<1>1. CASE Quit
  BY <1>1 DEF Quit
<1>2. CASE BeginSearch
  BY <1>2 DEF BeginSearch
<1>3. CASE ToggleFollow
  BY <1>3 DEF ToggleFollow
<1>4. CASE Export
  <2>1. Current = NoRow \/ Current.seq \in Nat
    BY CurrentRow DEF Row
  <2>2. exported' \in Nat \cup {-1}
    BY <1>4, <2>1 DEF Export
  <2>3. QED
    BY <1>4, <2>2 DEF Export
<1>5. CASE Up
  <2>1. selected' \in Nat
    BY <1>5 DEF Up
  <2>2. {follow', searching', dropped', dirty', due'} \subseteq BOOLEAN
    BY <1>5 DEF Up
  <2>3. QED
    BY <1>5, <2>1, <2>2 DEF Up
<1>6. CASE Down
  <2>1. LastVisible \in Nat
    BY VisibleCount
  <2>2. selected' \in Nat
    BY <1>6, <2>1 DEF Down
  <2>3. {follow', searching', dropped', dirty', due'} \subseteq BOOLEAN
    BY <1>6 DEF Down
  <2>4. QED
    BY <1>6, <2>2, <2>3 DEF Down
<1>7. CASE UnboundKey
  BY <1>7 DEF UnboundKey
<1>8. CASE AbandonSearch
  <2>1. search' \in Seq(SUBSET Kinds) /\ selected' \in Nat
    BY <1>8 DEF AbandonSearch, SearchKey
  <2>2. {follow', searching', dropped', dirty', due'} \subseteq BOOLEAN
    BY <1>8 DEF AbandonSearch, SearchKey
  <2>3. QED
    BY <1>8, <2>1, <2>2 DEF AbandonSearch, SearchKey
<1>9. CASE KeepSearch
  BY <1>9 DEF KeepSearch, SearchKey
<1>10. CASE Backspace
  <2>1. search' \in Seq(SUBSET Kinds)
    BY <1>10 DEF Backspace
  <2>2. QED
    BY <1>10, <2>1 DEF Backspace, SearchKey
<1>11. CASE Type
  <2>1. (IF search = <<>> THEN Kinds ELSE search[Len(search)]) \subseteq Kinds
    OBVIOUS
  <2>2. search' \in Seq(SUBSET Kinds)
    BY <1>11, <2>1 DEF Type
  <2>3. QED
    BY <1>11, <2>2 DEF Type, SearchKey
<1>12. CASE UnboundSearchKey
  BY <1>12 DEF UnboundSearchKey
<1>13. QED
  BY <1>1, <1>2, <1>3, <1>4, <1>5, <1>6, <1>7, <1>8, <1>9, <1>10, <1>11, <1>12
  DEF SomeKey

LEMMA NextType ==
  ASSUME TypeOK, [Next]_vars
  PROVE  TypeOK'
<1>1. CASE Draw
  BY <1>1, PictureType DEF Draw, TypeOK, stateVars
<1>2. CASE FramePasses
  BY <1>2 DEF FramePasses, TypeOK, stateVars
<1>3. CASE Tick \/ Resize
  BY <1>3 DEF Tick, Resize, Select, TypeOK, stateVars
<1>4. CASE SomeRow
  <2>1. PICK row \in Row : Receive(row)
    BY <1>4 DEF SomeRow, Row
  <2>2. QED
    BY <2>1, ReceiveType
<1>5. CASE SomeKey
  BY <1>5, KeyType
<1>6. CASE UNCHANGED vars
  BY <1>6 DEF vars, stateVars, TypeOK
<1>7. QED
  BY <1>1, <1>2, <1>3, <1>4, <1>5, <1>6 DEF Next

(* Every reachable state of the viewer has the types of TypeOK: the view never
   holds more than VIEW_CAPACITY rows (run). *)
THEOREM TypeCorrect == Spec => []TypeOK
<1>1. QED
  BY InitType, NextType, PTL DEF Spec

----------------------------------------------------------------------------
(* Gaps *)

\* The last row is the newest of all that arrived.
Arrivals ==
  /\ received \subseteq 0 .. MaxSeq
  /\ rows = <<>> <=> received = {}
  /\ rows # <<>> => /\ rows[Len(rows)].seq \in received
                    /\ \A n \in received : n <= rows[Len(rows)].seq

LEMMA ReceiveGaps ==
  ASSUME TypeOK, Arrivals, GapsAreShown,
         NEW row \in [seq : 0 .. MaxSeq, kind : Kinds],
         \A n \in received : n < row.seq, Receive(row)
  PROVE  Arrivals' /\ GapsAreShown'
<1> USE BoundsAssumption
<1>1. row \in Row /\ row.seq \in 0 .. MaxSeq
  BY DEF Row
<1>2. rows' # <<>> /\ rows'[Len(rows')] = row
  <2>1. /\ rows \in Seq(Row) /\ Len(rows) <= ViewCapacity
        /\ rows' = Newest(Append(rows, row))
    BY DEF TypeOK, Receive
  <2>2. /\ rows' \in Seq(Row) /\ Len(rows') \in 1 .. ViewCapacity
        /\ rows'[Len(rows')] = row
    BY <1>1, <2>1, Received
  <2>3. QED
    BY <2>2
<1>3. received' = received \cup {row.seq}
  BY DEF Receive
<1>4. Arrivals'
  <2>1. \A n \in received' : n \in 0 .. MaxSeq /\ n <= row.seq
    BY <1>1, <1>3 DEF Arrivals
  <2>2. QED
    BY <1>2, <1>3, <2>1 DEF Arrivals
<1> DEFINE Gap(n) == n \notin received /\ \E a, b \in received : a < n /\ n < b
           GapNext(n) == n \notin received' /\ \E a, b \in received' : a < n /\ n < b
<1>5. CASE rows = <<>>
  <2>1. received = {} /\ (dropped' <=> dropped)
    BY <1>5 DEF Arrivals, Receive
  <2>2. ~ \E n \in 0 .. MaxSeq : GapNext(n)
    BY <1>1, <1>3, <2>1
  <2>3. ~ dropped
    BY <2>1 DEF GapsAreShown
  <2>4. QED
    BY <1>4, <2>1, <2>2, <2>3 DEF GapsAreShown
<1>6. CASE rows # <<>>
  <2> DEFINE last == rows[Len(rows)].seq
  <2>1. last \in received /\ last \in 0 .. MaxSeq /\ \A n \in received : n <= last
    BY <1>6 DEF Arrivals
  <2>2. last < row.seq
    BY <2>1
  <2>3. dropped' <=> dropped \/ row.seq > last + 1
    BY <1>6 DEF Receive
  <2> HIDE DEF last
  <2>4. ASSUME NEW n \in 0 .. MaxSeq, Gap(n) PROVE GapNext(n)
    <3>1. n < last
      BY <2>1, <2>4 DEF Arrivals
    <3>2. n \notin received'
      BY <1>1, <1>3, <2>1, <2>2, <2>4, <3>1
    <3>3. QED
      BY <1>3, <2>4, <3>2
  <2>5. ASSUME row.seq > last + 1 PROVE last + 1 \in 0 .. MaxSeq /\ GapNext(last + 1)
    <3>1. last + 1 \in 0 .. MaxSeq /\ last + 1 \notin received' /\ last < last + 1
      BY <1>1, <1>3, <2>1, <2>5
    <3>2. QED
      BY <1>3, <2>1, <2>5, <3>1
  <2>6. ASSUME NEW n \in 0 .. MaxSeq, GapNext(n), ~ (row.seq > last + 1) PROVE Gap(n)
    <3>1. PICK a \in received', b \in received' : a < n /\ n < b
      BY <2>6
    <3>2. \A m \in received' : m \in Int /\ m <= row.seq
      BY <1>1, <1>3 DEF Arrivals
    <3>3. row.seq = last + 1
      BY <1>1, <2>1, <2>2, <2>6
    <3>4. n <= last /\ n # last
      BY <1>3, <2>1, <2>6, <3>1, <3>2, <3>3
    <3>5. a \in received /\ n < last
      BY <1>1, <1>3, <2>1, <2>2, <3>1, <3>2, <3>4
    <3>6. QED
      BY <1>3, <2>1, <2>6, <3>1, <3>5
  <2>7. dropped' <=> \E n \in 0 .. MaxSeq : GapNext(n)
    <3>1. dropped <=> \E n \in 0 .. MaxSeq : Gap(n)
      BY DEF GapsAreShown
    <3> HIDE DEF Gap, GapNext
    <3>2. QED
      BY <2>3, <2>4, <2>5, <2>6, <3>1
  <2>8. QED
    BY <1>4, <2>7 DEF GapsAreShown
<1>7. QED
  BY <1>5, <1>6

LEMMA NextGaps ==
  ASSUME TypeOK, Arrivals, GapsAreShown, [Next]_vars
  PROVE  Arrivals' /\ GapsAreShown'
<1>1. CASE SomeRow
  BY <1>1, ReceiveGaps DEF SomeRow
<1>2. CASE ~ SomeRow
  <2>1. UNCHANGED <<rows, received, dropped>>
    <3>1. CASE Draw \/ FramePasses \/ Tick \/ Resize \/ UNCHANGED vars
      BY <3>1 DEF Draw, FramePasses, Tick, Resize, vars, stateVars
    <3>2. CASE SomeKey
      BY <3>2 DEF SomeKey, Quit, BeginSearch, ToggleFollow, Export, Up, Down, UnboundKey,
         AbandonSearch, KeepSearch, Backspace, Type, UnboundSearchKey, SearchKey, Key, stateVars
    <3>3. QED
      BY <1>2, <3>1, <3>2 DEF Next
  <2>2. QED
    BY <2>1 DEF Arrivals, GapsAreShown
<1>3. QED
  BY <1>1, <1>2

(* The header says "records dropped" exactly when a number is missing between
   two that arrived, whatever the view evicted since (run, State::dropped). *)
THEOREM GapsAreAdmitted == Spec => []GapsAreShown
<1>1. Init => Arrivals /\ GapsAreShown
  BY DEF Init, Arrivals, GapsAreShown
<1>2. QED
  BY <1>1, TypeCorrect, NextGaps, PTL DEF Spec

----------------------------------------------------------------------------
(* The selection *)

\* Without a search every row is visible.
LEMMA AllVisible ==
  rows \in Seq(Row) /\ search = <<>> =>
    LastVisible = IF rows = <<>> THEN 0 ELSE Len(rows) - 1
<1> SUFFICES ASSUME rows \in Seq(Row), search = <<>>
             PROVE  LastVisible = IF rows = <<>> THEN 0 ELSE Len(rows) - 1
  OBVIOUS
<1>1. Len(rows) \in Nat /\ (rows = <<>> <=> Len(rows) = 0)
  OBVIOUS
<1>2. Cardinality(1 .. Len(rows)) = Len(rows)
  BY <1>1, IntervalSize
<1>3. Visible = 1 .. Len(rows)
  BY <1>1 DEF Visible, Matches
<1>4. Visible = {} <=> rows = <<>>
  <2>1. rows # <<>> => 1 \in 1 .. Len(rows)
    BY <1>1
  <2>2. rows = <<>> => 1 .. Len(rows) = {}
    BY <1>1
  <2>3. QED
    BY <1>3, <2>1, <2>2
<1>5. QED
  BY <1>2, <1>3, <1>4 DEF LastVisible

LEMMA AllVisibleNext ==
  (rows \in Seq(Row) /\ search = <<>> =>
    LastVisible = IF rows = <<>> THEN 0 ELSE Len(rows) - 1)'
BY AllVisible, PTL

\* While nothing is evicted, a row that arrives comes after those there are.
LEMMA RoomyGrowth ==
  ASSUME TypeOK, NEW row \in Row, Receive(row), Len(rows) < ViewCapacity
  PROVE  /\ Visible \subseteq Visible'
         /\ \A i \in Visible : Place(i)' = Place(i) /\ rows'[i] = rows[i]
         /\ LastVisible <= LastVisible'
<1>1. /\ rows \in Seq(Row) /\ rows' = Append(rows, row) /\ search' = search
      /\ rows' \in Seq(Row)
  <2>1. /\ rows \in Seq(Row) /\ Len(rows) <= ViewCapacity /\ search' = search
        /\ rows' = Newest(Append(rows, row))
    BY DEF TypeOK, Receive
  <2>2. QED
    BY <2>1, Received
<1>2. Len(rows) \in Nat /\ \A i \in 1 .. Len(rows) : rows'[i] = rows[i]
  BY <1>1
<1>3. \A i \in 1 .. Len(rows) : i \in Visible' <=> i \in Visible
  BY <1>1, <1>2 DEF Visible, Matches
<1>4. Visible \subseteq 1 .. Len(rows)
  BY <1>1, VisibleCount
<1>5. Visible' \subseteq 1 .. Len(rows) + 1
  BY <1>1, VisibleCountNext
<1>6. ASSUME NEW i \in Visible PROVE Place(i)' = Place(i)
  <2>1. i \in 1 .. Len(rows)
    BY <1>4
  <2>2. \A j \in 1 .. Len(rows) + 1 : j < i => j \in 1 .. Len(rows)
    BY <1>2, <2>1
  <2>3. {j \in Visible' : j < i} = {j \in Visible : j < i}
    BY <1>3, <1>4, <1>5, <2>2
  <2>4. QED
    BY <2>3 DEF Place
<1>7. LastVisible <= LastVisible'
  <2>1. CASE Visible = {}
    BY <1>1, <2>1, VisibleCount, VisibleCountNext
  <2>2. CASE Visible # {}
    <3>1. Visible' # {} /\ Visible \subseteq Visible'
      BY <1>3, <1>4, <2>2
    <3>2. IsFiniteSet(Visible')
      <4>1. IsFiniteSet(1 .. Len(rows) + 1)
        BY <1>2, FS_Interval
      <4>2. QED
        BY <1>5, <4>1, FS_Subset
    <3>3. Cardinality(Visible) <= Cardinality(Visible')
      BY <3>1, <3>2, FS_Subset
    <3>4. /\ LastVisible = Cardinality(Visible) - 1
          /\ Cardinality(Visible) \in Nat
      BY <1>1, <1>2, <2>2, VisibleCount
    <3>5. LastVisible' = Cardinality(Visible') - 1 /\ Cardinality(Visible') \in 0 .. Len(rows')
      BY <1>1, <3>1, VisibleCountNext
    <3>6. Len(rows') \in Nat
      BY <1>1
    <3>7. QED
      BY <3>3, <3>4, <3>5, <3>6
  <2>3. QED
    BY <2>1, <2>2
<1>8. QED
  BY <1>2, <1>3, <1>4, <1>6, <1>7

\* `selected` never exceeds the rows, and while nothing was evicted it does not
\* exceed the visible ones: only an eviction can take matching rows away.
WithinRows ==
  /\ selected <= IF rows = <<>> THEN 0 ELSE Len(rows) - 1
  /\ Len(rows) < ViewCapacity => selected <= LastVisible

LEMMA ReceiveWithin ==
  ASSUME TypeOK, WithinRows, NEW row \in Row, Receive(row)
  PROVE  WithinRows'
<1>1. /\ rows \in Seq(Row) /\ Len(rows) <= ViewCapacity /\ selected \in Nat
      /\ rows' = Newest(Append(rows, row))
      /\ selected' = IF follow THEN LastVisible' ELSE selected
  BY DEF TypeOK, Receive
<1>2. /\ rows' \in Seq(Row) /\ Len(rows') \in 1 .. ViewCapacity
      /\ Len(rows') >= Len(rows)
  BY <1>1, Received
<1>3. Len(rows) \in Nat /\ Len(rows') \in Nat /\ rows' # <<>>
  BY <1>1, <1>2
<1>4. CASE follow
  <2>1. LastVisible' \in Nat /\ LastVisible' <= Len(rows') - 1
    <3>1. Cardinality(Visible') \in 0 .. Len(rows')
      BY <1>2, VisibleCountNext
    <3>2. QED
      BY <1>2, <1>3, <3>1, VisibleCountNext
  <2>2. QED
    BY <1>1, <1>3, <1>4, <2>1 DEF WithinRows
<1>5. CASE ~ follow
  <2>1. selected' = selected
    BY <1>1, <1>5
  <2>2. selected <= Len(rows') - 1
    BY <1>1, <1>2, <1>3 DEF WithinRows
  <2>3. ASSUME Len(rows') < ViewCapacity PROVE selected <= LastVisible'
    <3>1. Len(rows) < ViewCapacity
      BY <1>2, <1>3, <2>3, ViewCapacityAssumption
    <3>2. LastVisible <= LastVisible' /\ selected <= LastVisible
      BY <3>1, RoomyGrowth DEF WithinRows
    <3>3. LastVisible \in Nat /\ LastVisible' \in Nat
      BY <1>1, <1>2, VisibleCount, VisibleCountNext
    <3>4. QED
      BY <1>1, <3>2, <3>3
  <2>4. QED
    BY <1>3, <2>1, <2>2, <2>3 DEF WithinRows
<1>6. QED
  BY <1>4, <1>5

LEMMA NextWithin ==
  ASSUME TypeOK, TypeOK', WithinRows, [Next]_vars
  PROVE  WithinRows'
<1>1. CASE SomeRow
  <2>1. PICK row \in Row : Receive(row)
    BY <1>1 DEF SomeRow, Row
  <2>2. QED
    BY <2>1, ReceiveWithin
<1>2. rows \in Seq(Row) /\ selected \in Nat /\ LastVisible \in Nat
  BY VisibleCount DEF TypeOK
<1>3. ASSUME UNCHANGED <<rows, search>>, selected' = selected \/ selected' <= LastVisible
      PROVE  WithinRows'
  <2>1. LastVisible' = LastVisible /\ rows' = rows
    BY <1>3 DEF LastVisible, Visible, Matches
  <2>2. LastVisible <= IF rows = <<>> THEN 0 ELSE Len(rows) - 1
    <3>1. Len(rows) \in Nat /\ Cardinality(Visible) \in 0 .. Len(rows)
      BY <1>2, VisibleCount
    <3>2. CASE Visible = {}
      BY <1>2, <3>1, <3>2, VisibleCount
    <3>3. CASE Visible # {}
      <4>1. rows # <<>>
        BY <3>3 DEF Visible
      <4>2. LastVisible = Cardinality(Visible) - 1
        BY <1>2, <3>3, VisibleCount
      <4>3. QED
        BY <3>1, <4>1, <4>2
    <3>4. QED
      BY <3>2, <3>3
  <2>3. Len(rows) \in Nat /\ selected' \in Nat
    BY <1>2 DEF TypeOK
  <2>4. QED
    BY <1>2, <1>3, <2>1, <2>2, <2>3 DEF WithinRows
<1>4. ASSUME rows' = rows, selected' = 0 \/ (search' = <<>> /\ selected' = selected)
      PROVE  WithinRows'
  <2>1. rows' \in Seq(Row) /\ LastVisible' \in Nat /\ Len(rows) \in Nat
    BY <1>2, <1>4, VisibleCountNext
  <2>2. CASE selected' = 0
    BY <1>4, <2>1, <2>2 DEF WithinRows
  <2>3. CASE search' = <<>> /\ selected' = selected
    <3>1. LastVisible' = IF rows = <<>> THEN 0 ELSE Len(rows) - 1
      BY <1>4, <2>1, <2>3, AllVisibleNext
    <3>2. QED
      BY <1>4, <2>3, <3>1 DEF WithinRows
  <2>4. QED
    BY <1>4, <2>2, <2>3
<1>5. CASE Draw \/ FramePasses \/ Tick \/ Resize \/ UNCHANGED vars
  <2>1. UNCHANGED <<rows, search, selected>>
    BY <1>5 DEF Draw, FramePasses, Tick, Resize, vars, stateVars
  <2>2. QED
    BY <1>3, <2>1
<1>6. CASE Quit \/ ToggleFollow \/ Export \/ UnboundKey \/ UnboundSearchKey
  <2>1. UNCHANGED <<rows, search, selected>>
    BY <1>6 DEF Quit, ToggleFollow, Export, UnboundKey, UnboundSearchKey, stateVars
  <2>2. QED
    BY <1>3, <2>1
<1>7. CASE Up
  <2>1. UNCHANGED <<rows, search>> /\ selected' = IF selected = 0 THEN 0 ELSE selected - 1
    BY <1>7 DEF Up
  <2>2. LastVisible' = LastVisible
    BY <2>1 DEF LastVisible, Visible, Matches
  <2>3. Len(rows) \in Nat
    BY <1>2
  <2>4. QED
    BY <1>2, <2>1, <2>2, <2>3 DEF WithinRows
<1>8. CASE Down
  <2>1. UNCHANGED <<rows, search>> /\ selected' <= LastVisible
    BY <1>2, <1>8 DEF Down
  <2>2. QED
    BY <1>3, <2>1
<1>9. CASE BeginSearch
  BY <1>4, <1>9 DEF BeginSearch
<1>10. CASE AbandonSearch \/ KeepSearch \/ Backspace \/ Type
  <2>1. rows' = rows /\ selected' = 0
    BY <1>10 DEF AbandonSearch, KeepSearch, Backspace, Type, SearchKey
  <2>2. QED
    BY <1>4, <2>1
<1>11. QED
  BY <1>1, <1>5, <1>6, <1>7, <1>8, <1>9, <1>10 DEF Next, SomeKey

LEMMA WithinAlways == Spec => [](TypeOK /\ WithinRows)
<1>1. Init => WithinRows
  <2>1. ASSUME Init PROVE WithinRows
    <3>1. rows \in Seq(Row) /\ LastVisible \in Nat /\ rows = <<>> /\ selected = 0
      BY <2>1, VisibleCount DEF Init
    <3>2. QED
      BY <3>1 DEF WithinRows
  <2>2. QED
    BY <2>1
<1>2. TypeOK /\ TypeOK' /\ WithinRows /\ [Next]_vars => WithinRows'
  BY NextWithin
<1>3. QED
  BY <1>1, <1>2, TypeCorrect, PTL DEF Spec

(* Without a search the selection is a row of the list, or 0 when there is
   none, whatever was evicted or searched for before (run, on_key). *)
THEOREM SelectionIsARow == Spec => []SelectionInRange
<1>1. TypeOK /\ WithinRows => SelectionInRange
  <2>1. ASSUME TypeOK, WithinRows, search = <<>> PROVE selected <= LastVisible
    <3>1. rows \in Seq(Row)
      BY <2>1 DEF TypeOK
    <3>2. QED
      BY <2>1, <3>1, AllVisible DEF WithinRows
  <2>2. QED
    BY <2>1 DEF SelectionInRange
<1>2. QED
  BY <1>1, WithinAlways, PTL

(* Until the view is full, a connection that arrives does not move the
   selection of a reader who has stopped following (run). *)
THEOREM ReadersAreLeftAlone == Spec => RoomyArrival
<1>1. ASSUME TypeOK, TypeOK', WithinRows, [Next]_vars,
             rows' # rows, ~ follow, Len(rows) < ViewCapacity, Current # NoRow
      PROVE  Current' = Current
  <2>1. PICK row \in Row : Receive(row)
    <3>1. SomeRow
      BY <1>1 DEF Next, Draw, FramePasses, Tick, Resize, vars, SomeKey, Quit, BeginSearch,
         ToggleFollow, Export, Up, Down, UnboundKey, AbandonSearch, KeepSearch, Backspace,
         Type, UnboundSearchKey, SearchKey, stateVars
    <3>2. QED
      BY <3>1 DEF SomeRow, Row
  <2>2. /\ rows \in Seq(Row) /\ rows' \in Seq(Row)
        /\ selected \in Nat /\ selected' = selected
    BY <1>1, <2>1 DEF TypeOK, Receive
  <2>3. /\ Visible \subseteq Visible'
        /\ \A i \in Visible : Place(i)' = Place(i) /\ rows'[i] = rows[i]
        /\ LastVisible <= LastVisible'
    BY <1>1, <2>1, RoomyGrowth
  <2>4. Highlighted = selected /\ Highlighted' = selected
    <3>1. LastVisible \in Nat /\ LastVisible' \in Nat
      BY <2>2, VisibleCount, VisibleCountNext
    <3>2. selected <= LastVisible
      BY <1>1 DEF WithinRows
    <3>3. QED
      BY <2>2, <2>3, <3>1, <3>2 DEF Highlighted
  <2>5. PICK i \in Visible : Place(i) = Highlighted /\ Current = rows[i]
    BY <1>1, <2>2, CurrentRow
  <2>6. PICK k \in Visible' : Place(k)' = Highlighted' /\ Current' = rows'[k]
    BY <2>2, <2>3, CurrentRowNext
  <2>7. k = i
    <3>1. i \in Visible' /\ Place(i)' = Place(k)'
      BY <2>3, <2>4, <2>5, <2>6
    <3>2. Visible' \in SUBSET (1 .. Len(rows')) /\ Len(rows') \in Nat
      BY <2>2, VisibleCountNext
    <3>3. Cardinality({j \in Visible' : j < i}) = Cardinality({j \in Visible' : j < k})
      BY <3>1 DEF Place
    <3> DEFINE S == Visible'
               n == Len(rows')
    <3>4. n \in Nat /\ S \in SUBSET (1 .. n) /\ i \in S /\ k \in S
      BY <2>6, <3>1, <3>2
    <3>5. Cardinality({j \in S : j < i}) = Cardinality({j \in S : j < k})
      BY <3>3
    <3> HIDE DEF S, n
    <3>6. QED
      BY <3>4, <3>5, PlacesDiffer
  <2>8. QED
    BY <2>3, <2>5, <2>6, <2>7
<1>2. TypeOK /\ TypeOK' /\ WithinRows /\ [Next]_vars =>
        [rows' # rows /\ ~follow /\ Len(rows) < ViewCapacity /\ Current # NoRow
           => Current' = Current]_vars
  BY <1>1
<1>3. QED
  BY <1>2, WithinAlways, PTL DEF Spec, RoomyArrival

----------------------------------------------------------------------------
(* The screen *)

\* What there is to see depends on the state only.
LEMMA PictureOfState ==
  ASSUME UNCHANGED stateVars
  PROVE  Picture' = Picture
BY DEF stateVars, Picture, Current, Highlighted, LastVisible, Visible, Place, Matches

LEMMA NextScreen ==
  ASSUME ScreenIsCurrent, [Next]_vars
  PROVE  ScreenIsCurrent'
<1>1. CASE Draw
  <2>1. Picture' = Picture
    BY <1>1, PictureOfState DEF Draw
  <2>2. QED
    BY <1>1, <2>1 DEF Draw, ScreenIsCurrent
<1>2. CASE FramePasses \/ Tick \/ UnboundKey \/ UnboundSearchKey \/ UNCHANGED vars
  <2>1. UNCHANGED stateVars /\ screen' = screen
    BY <1>2 DEF FramePasses, Tick, UnboundKey, UnboundSearchKey, Key, Select, vars
  <2>2. Picture' = Picture
    BY <2>1, PictureOfState
  <2>3. (loop # "quit" /\ (dirty' <=> dirty)) \/ UNCHANGED vars
    BY <1>2 DEF FramePasses, Tick, UnboundKey, UnboundSearchKey, Key, Select
  <2>4. QED
    BY <2>1, <2>2, <2>3 DEF ScreenIsCurrent, vars
<1>3. CASE Quit
  BY <1>3 DEF Quit, ScreenIsCurrent
<1>4. ASSUME Select(TRUE) PROVE ScreenIsCurrent'
  BY <1>4 DEF Select, ScreenIsCurrent
<1>5. CASE SomeRow \/ Resize
  BY <1>4, <1>5 DEF SomeRow, Receive, Resize
<1>6. CASE SomeKey
  BY <1>2, <1>3, <1>4, <1>6 DEF SomeKey, BeginSearch, ToggleFollow, Export, Up, Down,
     AbandonSearch, KeepSearch, Backspace, Type, SearchKey, Key
<1>7. QED
  BY <1>1, <1>2, <1>3, <1>5, <1>6 DEF Next

(* With no redraw asked for, the screen shows the state as it is: everything
   that changes what render shows sets `dirty` (run, Action). *)
THEOREM ScreenIsNeverStale == Spec => []ScreenIsCurrent
<1>1. Init => ScreenIsCurrent
  BY DEF Init, ScreenIsCurrent
<1>2. QED
  BY <1>1, NextScreen, PTL DEF Spec

=============================================================================
