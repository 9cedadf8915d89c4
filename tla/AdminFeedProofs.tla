-------------------------- MODULE AdminFeedProofs --------------------------
(***************************************************************************)
(* Proofs about AdminFeed, for every log capacity, channel depth and set   *)
(* of connections and viewers.                                             *)
(***************************************************************************)
EXTENDS AdminFeed, TLAPS

\* Invariants need no fairness, and hold of the feed as a part of a larger
\* system that schedules it otherwise.
Safely == Init /\ [][Next]_vars
LEMMA SpecIsSafe == Spec => Safely
BY PTL DEF Spec, Safely

(* What push_back and pop_front do to the log's queue. *)

\* The evicting push keeps a queue of records, of at most Capacity of them,
\* each one the new record or one that was there.
LEMMA NewestOfType ==
  ASSUME NEW R, NEW q \in Seq(R), NEW r \in R
  PROVE  /\ NewestOf(Append(q, r)) \in Seq(R)
         /\ \A i \in 1 .. Len(NewestOf(Append(q, r))) :
              \/ NewestOf(Append(q, r))[i] = r
              \/ \E j \in 1 .. Len(q) : NewestOf(Append(q, r))[i] = q[j]
<1> DEFINE a == Append(q, r)
<1>0. Capacity \in Nat \ {0}
  BY LogCapacityAssumption DEF Capacity
<1>1. /\ a \in Seq(R)
      /\ Len(a) = Len(q) + 1
      /\ \A i \in 1 .. Len(a) : a[i] = r \/ \E j \in 1 .. Len(q) : a[i] = q[j]
  OBVIOUS
<1>2. CASE Len(a) <= Capacity
  BY <1>0, <1>1, <1>2 DEF NewestOf
<1>3. CASE Len(a) > Capacity
  <2> DEFINE m == Len(a) - Capacity + 1
             n == SubSeq(a, m, Len(a))
  <2>1. m \in 1 .. Len(a) /\ Len(a) \in Nat
    BY <1>0, <1>1, <1>3
  <2>2. NewestOf(a) = n
    BY <1>3 DEF NewestOf
  <2>3. n \in Seq(R)
    BY <1>1, <2>1
  <2>4. \A i \in 1 .. Len(n) : n[i] = a[m + i - 1] /\ m + i - 1 \in 1 .. Len(a)
    <3> HIDE DEF a
    <3> QED
      BY <1>1, <2>1
  <2>5. \A i \in 1 .. Len(n) : n[i] = r \/ \E j \in 1 .. Len(q) : n[i] = q[j]
    <3> HIDE DEF a, m, n
    <3> QED
      BY <1>1, <2>4
  <2> HIDE DEF n
  <2> QED
    BY <2>2, <2>3, <2>5
<1> QED
  BY <1>0, <1>1, <1>2, <1>3

\* After a push the log is again a window, its number is next_seq - 1 and
\* every record it holds was there or is the new one.
LEMMA PushedIsWindow ==
  ASSUME NEW l \in [records : Seq(Record), next_seq : Nat], NEW c \in Conns, IsWindow(l)
  PROVE  IsWindow(Pushed(l, c))
<1> DEFINE r == [seq |-> l.next_seq, conn |-> c]
           q == l.records
           a == Append(q, r)
           p == Pushed(l, c)
<1> SUFFICES IsWindow(p)
  OBVIOUS
<1>0. Capacity \in Nat \ {0}
  BY LogCapacityAssumption DEF Capacity
<1>1. q \in Seq(Record) /\ r \in Record /\ l.next_seq \in Nat
  BY DEF Record
<1>2. p.records = NewestOf(a) /\ p.next_seq = l.next_seq + 1
  BY DEF Pushed
<1>3. a \in Seq(Record) /\ Len(a) = Len(q) + 1 /\ Len(q) \in Nat
  BY <1>1
<1>4. \A i \in 1 .. Len(a) : a[i].seq = p.next_seq - Len(a) + i - 1
  <2>1. \A i \in 1 .. Len(q) : a[i] = q[i]
    BY <1>1
  <2>2. a[Len(a)] = r /\ r.seq = l.next_seq
    BY <1>1
  <2> HIDE DEF a, q, r, p
  <2> TAKE i \in 1 .. Len(a)
  <2>3. CASE i = Len(a)
    BY <1>1, <1>2, <1>3, <2>2, <2>3, SMTT(30)
  <2>4. CASE i \in 1 .. Len(q)
    BY <1>1, <1>2, <1>3, <2>1, <2>4, SMTT(30) DEF q, IsWindow
  <2> QED
    BY <1>3, <2>3, <2>4
<1>5. CASE Len(a) <= Capacity
  <2>1. p.records = a
    BY <1>0, <1>2, <1>3, <1>5 DEF NewestOf
  <2> HIDE DEF a, p
  <2> QED
    BY <1>0, <1>1, <1>2, <1>3, <1>4, <1>5, <2>1 DEF q, IsWindow
<1>6. CASE Len(a) > Capacity
  <2> DEFINE m == Len(a) - Capacity + 1
             n == SubSeq(a, m, Len(a))
  <2>1. p.records = n
    BY <1>2, <1>6 DEF NewestOf
  <2> HIDE DEF a, p, q, r
  <2>2. m \in 1 .. Len(a) /\ Len(a) \in Nat /\ Len(a) - m + 1 = Capacity
    BY <1>0, <1>3, <1>6
  <2>3. Len(n) = Len(a) - m + 1 /\ \A i \in 1 .. Len(n) : n[i] = a[m + i - 1]
    BY <1>3, <2>2, SMTT(30)
  <2> HIDE DEF n, m
  <2>4. \A i \in 1 .. Len(n) : m + i - 1 \in 1 .. Len(a)
    BY <2>2, <2>3
  <2>5. \A i \in 1 .. Len(n) : n[i].seq = p.next_seq - Len(a) + (m + i - 1) - 1
    BY <1>4, <2>3, <2>4
  <2>6. p.next_seq \in Nat
    BY <1>1, <1>2
  <2>7. Len(n) = Capacity
    BY <2>2, <2>3
  <2>8. \A i \in 1 .. Len(n) : n[i].seq = p.next_seq - Len(n) + i - 1
    BY <2>2, <2>3, <2>5, <2>6, SMTT(30)
  <2> QED
    BY <1>0, <2>1, <2>7, <2>8 DEF IsWindow
<1> QED
  BY <1>0, <1>3, <1>5, <1>6

----------------------------------------------------------------------------
(* Types *)

\* Every variable keeps its type: in particular a receiver's position is a
\* position of the channel, and `flushed` and `highest` are numbers.
LEMMA SafelyTyped == Safely => []TypeOK
<1>1. Init => TypeOK
  BY DEF Init, TypeOK, NewLog, PushSteps, ClientSteps
<1>2. TypeOK /\ [Next]_vars => TypeOK'
  <2> SUFFICES ASSUME TypeOK, [Next]_vars PROVE TypeOK'
    OBVIOUS
  <2> USE DEF TypeOK, PushSteps, ClientSteps, publisherVars, clientVars
  <2>1. ASSUME NEW c \in Conns, Store(c) PROVE TypeOK'
    <3>1. [seq |-> log.next_seq, conn |-> c] \in Record /\ log.records \in Seq(Record)
      BY DEF Record
    <3>2. log' \in [records : Seq(Record), next_seq : Nat]
      BY <2>1, <3>1, NewestOfType, SMTT(30) DEF Store, Pushed
    <3> QED
      BY <2>1, <3>2 DEF Store
  <2>2. ASSUME NEW c \in Conns, Send(c) PROVE TypeOK'
    <3>1. [seq |-> seq[c], conn |-> c] \in Record
      BY DEF Record
    <3> QED
      BY <2>2, <3>1 DEF Send, SentTo
  <2>3. ASSUME NEW v \in Viewers, Subscribe(v) PROVE TypeOK'
    BY <2>3, SMTT(30) DEF Subscribe, Tip
  <2>4. ASSUME NEW v \in Viewers, TakeSnapshot(v) PROVE TypeOK'
    BY <2>4 DEF TakeSnapshot
  <2>5. ASSUME NEW v \in Viewers, WriteSnapshot(v) PROVE TypeOK'
    <3>1. snapshot[v][Len(lines[v]) + 1] \in Record
      BY <2>5 DEF WriteSnapshot
    <3>2. snapshot[v][Len(lines[v]) + 1].seq \in Nat
      BY <3>1 DEF Record
    <3>3. /\ lines' = [lines EXCEPT ![v] = Append(lines[v], snapshot[v][Len(lines[v]) + 1])]
          /\ highest' = [highest EXCEPT ![v] = snapshot[v][Len(lines[v]) + 1].seq]
          /\ UNCHANGED <<publisherVars, pc, rx, snapshot, marker, flushed, gone, overrun>>
      BY <2>5 DEF WriteSnapshot, WriteLine
    <3>4. lines' \in [Viewers -> Seq(Record)]
      BY <3>1, <3>3
    <3>5. highest' \in [Viewers -> Nat \cup {-1}]
      BY <3>2, <3>3
    <3> QED
      BY <3>3, <3>4, <3>5
  <2>6. ASSUME NEW v \in Viewers, WriteMarker(v) PROVE TypeOK'
    BY <2>6 DEF WriteMarker
  <2>7. ASSUME NEW v \in Viewers, Flush(v) PROVE TypeOK'
    BY <2>7, SMTT(30) DEF Flush
  <2>8. ASSUME NEW v \in Viewers, ReceiveRecord(v) PROVE TypeOK'
    <3>1. sent[rx[v]] \in Record
      BY <2>8, DepthAssumption DEF ReceiveRecord, HasValue, Oldest
    <3>2. sent[rx[v]].seq \in Nat
      BY <3>1 DEF Record
    <3>3. /\ lines' \in [Viewers -> Seq(Record)]
          /\ highest' \in [Viewers -> Nat \cup {-1}]
          /\ pc' \in [Viewers -> ClientSteps]
      <4>1. CASE sent[rx[v]].seq <= highest[v]
        BY <2>8, <4>1 DEF ReceiveRecord
      <4>2. CASE ~(sent[rx[v]].seq <= highest[v])
        <5>1. WriteLine(v, sent[rx[v]]) /\ pc' = [pc EXCEPT ![v] = "flush"]
          BY <2>8, <4>2 DEF ReceiveRecord
        <5>2. /\ lines' = [lines EXCEPT ![v] = Append(lines[v], sent[rx[v]])]
              /\ highest' = [highest EXCEPT ![v] = sent[rx[v]].seq]
          BY <5>1 DEF WriteLine
        <5>3. Append(lines[v], sent[rx[v]]) \in Seq(Record)
          BY <3>1
        <5> QED
          BY <3>2, <5>1, <5>2, <5>3
      <4> QED
        BY <4>1, <4>2
    <3>4. rx' = [rx EXCEPT ![v] = rx[v] + 1]
      BY <2>8 DEF ReceiveRecord
    <3>5. rx' \in [Viewers -> Nat \ {0}]
      BY <2>8, <3>4
    <3>6. UNCHANGED <<publisherVars, snapshot, marker, flushed, gone, overrun>>
      BY <2>8 DEF ReceiveRecord
    <3> QED
      BY <3>3, <3>5, <3>6
  <2>9. ASSUME NEW v \in Viewers, ReceiveLagged(v) PROVE TypeOK'
    <3>1. Oldest(sent) \in Nat \ {0} /\ Oldest(sent) - 1 <= Len(sent)
      BY DepthAssumption DEF Oldest
    <3>2. \A i \in rx[v] .. Oldest(sent) - 1 : sent[i] \in Record
      <4>1. rx[v] \in Nat \ {0} /\ Len(sent) \in Nat
        OBVIOUS
      <4>2. \A i \in rx[v] .. Oldest(sent) - 1 : i \in 1 .. Len(sent)
        BY <3>1, <4>1
      <4> QED
        BY <4>2
    <3>3. \A i \in rx[v] .. Oldest(sent) - 1 : sent[i].seq \in Nat
      BY <3>2 DEF Record
    <3>4. {sent[i].seq : i \in rx[v] .. Oldest(sent) - 1} \in SUBSET Nat
      BY <3>3
    <3>5. overrun' \in [Viewers -> SUBSET Nat]
      BY <2>9, <3>4 DEF ReceiveLagged
    <3>6. rx' \in [Viewers -> Nat \ {0}]
      BY <2>9, <3>1 DEF ReceiveLagged
    <3>7. UNCHANGED <<publisherVars, pc, snapshot, highest, lines, marker, flushed, gone>>
      BY <2>9 DEF ReceiveLagged
    <3> QED
      BY <3>5, <3>6, <3>7
  <2>10. ASSUME NEW v \in Viewers, Spill(v) PROVE TypeOK'
    BY <2>10, SMTT(30) DEF Spill
  <2>11. ASSUME NEW v \in Viewers, Leave(v) PROVE TypeOK'
    BY <2>11 DEF Leave
  <2>12. ASSUME NEW v \in Viewers, WriteFails(v) PROVE TypeOK'
    BY <2>12 DEF WriteFails
  <2>13. CASE UNCHANGED vars
    BY <2>13 DEF vars
  <2> QED
    BY <2>1, <2>2, <2>3, <2>4, <2>5, <2>6, <2>7, <2>8, <2>9, <2>10, <2>11, <2>12, <2>13
    DEF Next, PushStep, ClientStep
<1> QED
  BY <1>1, <1>2, PTL DEF Safely

\* The types, for the specification itself: fairness adds nothing to them.
THEOREM TypeCorrect == Spec => []TypeOK
BY SafelyTyped, SpecIsSafe, PTL

----------------------------------------------------------------------------
(* The log *)

\* Whatever is pushed, in whatever order, the log holds exactly the newest
\* Capacity connections, numbered without a gap (log.rs, push).
LEMMA SafelyWindow == Safely => []LogIsWindow
<1>1. Init => LogIsWindow
  BY LogCapacityAssumption DEF Init, LogIsWindow, IsWindow, NewLog, Capacity
<1>2. TypeOK /\ LogIsWindow /\ [Next]_vars => LogIsWindow'
  <2> SUFFICES ASSUME TypeOK, LogIsWindow, [Next]_vars PROVE LogIsWindow'
    OBVIOUS
  <2>1. ASSUME NEW c \in Conns, Store(c) PROVE LogIsWindow'
    <3>1. log \in [records : Seq(Record), next_seq : Nat] /\ IsWindow(log)
      BY DEF TypeOK, LogIsWindow
    <3>2. IsWindow(Pushed(log, c))
      BY <2>1, <3>1, PushedIsWindow
    <3>3. log' = Pushed(log, c)
      BY <2>1 DEF Store
    <3> QED
      BY <3>2, <3>3 DEF LogIsWindow, IsWindow
  <2>2. CASE UNCHANGED log
    BY <2>2 DEF LogIsWindow, IsWindow
  <2>3. (\E c \in Conns : Store(c)) \/ UNCHANGED log
    BY DEF Next, PushStep, ClientStep, Send, Subscribe, TakeSnapshot, WriteSnapshot, WriteMarker,
           Flush, Spill, ReceiveRecord, ReceiveLagged, Leave, WriteFails, vars, publisherVars
  <2> QED
    BY <2>1, <2>2, <2>3
<1> QED
  BY <1>1, <1>2, SafelyTyped, PTL DEF Safely

\* The log is the window of the newest records (log.rs, push).
THEOREM LogStaysWindow == Spec => []LogIsWindow
BY SafelyWindow, SpecIsSafe, PTL

----------------------------------------------------------------------------
(* What a viewer is shown *)

\* The strengthening that makes LinesIncrease inductive: `highest` bounds what
\* was written, and while the snapshot is being written it is below all that
\* is still to come, because a copy of the log is itself increasing.
SnapshotIncreases(v) ==
  \A i, j \in 1 .. Len(snapshot[v]) : i < j => snapshot[v][i].seq < snapshot[v][j].seq
HighestBoundsLines(v) ==
  \A i \in 1 .. Len(lines[v]) : lines[v][i].seq <= highest[v]
HighestBelowRest(v) ==
  pc[v] = "snapshot" =>
    \A j \in Len(lines[v]) + 1 .. Len(snapshot[v]) : highest[v] < snapshot[v][j].seq
NothingShownYet(v) ==
  pc[v] \in {"away", "subscribed"} => highest[v] = -1 /\ lines[v] = <<>>
Increasing(v) ==
  \A i, j \in 1 .. Len(lines[v]) : i < j => lines[v][i].seq < lines[v][j].seq

ViewerInv(v) ==
  /\ SnapshotIncreases(v)
  /\ HighestBoundsLines(v)
  /\ HighestBelowRest(v)
  /\ NothingShownYet(v)
  /\ Increasing(v)

\* A line above `highest`, appended with `highest` raised to it, keeps the
\* lines increasing and bounded.
LEMMA AppendAbove ==
  ASSUME NEW q \in Seq(Record), NEW h \in Nat \cup {-1}, NEW r \in Record, h < r.seq,
         \A i \in 1 .. Len(q) : q[i].seq <= h,
         \A i, j \in 1 .. Len(q) : i < j => q[i].seq < q[j].seq
  PROVE  LET a == Append(q, r)
         IN  /\ \A i \in 1 .. Len(a) : a[i].seq <= r.seq
             /\ \A i, j \in 1 .. Len(a) : i < j => a[i].seq < a[j].seq
<1> DEFINE a == Append(q, r)
<1>1. /\ Len(a) = Len(q) + 1 /\ Len(q) \in Nat
      /\ a[Len(a)] = r
      /\ \A i \in 1 .. Len(q) : a[i] = q[i] /\ q[i].seq \in Nat
      /\ r.seq \in Nat
  <2>1. \A i \in 1 .. Len(q) : q[i] \in Record
    OBVIOUS
  <2> QED
    BY <2>1 DEF Record
<1> SUFFICES /\ \A i \in 1 .. Len(a) : a[i].seq <= r.seq
             /\ \A i, j \in 1 .. Len(a) : i < j => a[i].seq < a[j].seq
  OBVIOUS
<1> HIDE DEF a
<1>2. \A i \in 1 .. Len(a) : i = Len(a) \/ i \in 1 .. Len(q)
  BY <1>1
<1>3. \A i \in 1 .. Len(q) : a[i].seq <= h /\ a[i].seq < r.seq
  BY <1>1
<1>4. \A i \in 1 .. Len(a) : a[i].seq <= r.seq
  BY <1>1, <1>2, <1>3
<1>5. ASSUME NEW i \in 1 .. Len(a), NEW j \in 1 .. Len(a), i < j PROVE a[i].seq < a[j].seq
  <2>1. i \in 1 .. Len(q)
    BY <1>1, <1>2, <1>5
  <2>2. CASE j = Len(a)
    BY <1>1, <1>3, <2>1, <2>2
  <2>3. CASE j \in 1 .. Len(q)
    BY <1>1, <1>5, <2>1, <2>3
  <2> QED
    BY <1>2, <2>2, <2>3
<1> QED
  BY <1>4, <1>5

\* The copy a viewer takes of a window is increasing.
LEMMA WindowIncreases ==
  ASSUME NEW l \in [records : Seq(Record), next_seq : Nat], IsWindow(l)
  PROVE  \A i, j \in 1 .. Len(l.records) : i < j => l.records[i].seq < l.records[j].seq
BY DEF IsWindow

\* Writing a line newer than `highest` keeps the invariant of its viewer,
\* provided nothing that is still to come is older.
LEMMA WriteLineKeeps ==
  ASSUME TypeOK, NEW v \in Viewers, NEW r \in Record, ViewerInv(v), highest[v] < r.seq,
         WriteLine(v, r)
  PROVE  /\ HighestBoundsLines(v)'
         /\ Increasing(v)'
         /\ Len(lines'[v]) = Len(lines[v]) + 1
         /\ highest'[v] = r.seq
<1>1. lines'[v] = Append(lines[v], r) /\ highest'[v] = r.seq
  BY DEF WriteLine, TypeOK
<1>2. lines[v] \in Seq(Record) /\ highest[v] \in Nat \cup {-1}
  BY DEF TypeOK
<1>3. /\ \A i \in 1 .. Len(lines[v]) : lines[v][i].seq <= highest[v]
      /\ \A i, j \in 1 .. Len(lines[v]) : i < j => lines[v][i].seq < lines[v][j].seq
  BY DEF ViewerInv, HighestBoundsLines, Increasing
<1>4. LET a == Append(lines[v], r)
      IN  /\ \A i \in 1 .. Len(a) : a[i].seq <= r.seq
          /\ \A i, j \in 1 .. Len(a) : i < j => a[i].seq < a[j].seq
  BY <1>2, <1>3, AppendAbove
<1>5. Len(Append(lines[v], r)) = Len(lines[v]) + 1
  BY <1>2
<1> QED
  BY <1>1, <1>4, <1>5 DEF HighestBoundsLines, Increasing

\* A step that leaves a viewer's variables alone leaves its invariant alone.
LEMMA OthersUntouched ==
  ASSUME NEW v \in Viewers, ViewerInv(v),
         pc'[v] = pc[v], snapshot'[v] = snapshot[v], highest'[v] = highest[v],
         lines'[v] = lines[v]
  PROVE  ViewerInv(v)'
BY DEF ViewerInv, SnapshotIncreases, HighestBoundsLines, HighestBelowRest, NothingShownYet,
       Increasing

LEMMA ViewerStepKeeps ==
  ASSUME TypeOK, LogIsWindow, NEW v \in Viewers, ViewerInv(v),
         Subscribe(v) \/ ClientStep(v) \/ Spill(v) \/ Leave(v)
  PROVE  ViewerInv(v)'
<1> USE DEF TypeOK
<1>1. CASE TakeSnapshot(v)
  <2>1. /\ snapshot'[v] = log.records /\ pc'[v] = "snapshot"
        /\ lines'[v] = <<>> /\ highest'[v] = -1
    BY <1>1 DEF TakeSnapshot, ViewerInv, NothingShownYet
  <2>2. \A i, j \in 1 .. Len(log.records) : i < j => log.records[i].seq < log.records[j].seq
    BY WindowIncreases DEF LogIsWindow
  <2>3. \A j \in 1 .. Len(log.records) : log.records[j].seq \in Nat
    <3>1. \A j \in 1 .. Len(log.records) : log.records[j] \in Record
      OBVIOUS
    <3> QED
      BY <3>1 DEF Record
  <2>4. SnapshotIncreases(v)'
    BY <2>1, <2>2 DEF SnapshotIncreases
  <2>5. HighestBelowRest(v)'
    BY <2>1, <2>3 DEF HighestBelowRest
  <2> QED
    BY <2>1, <2>4, <2>5 DEF ViewerInv, HighestBoundsLines, NothingShownYet, Increasing
<1>2. CASE WriteSnapshot(v)
  <2> DEFINE k == Len(lines[v]) + 1
             r == snapshot[v][k]
  <2>1. k \in 1 .. Len(snapshot[v]) /\ Len(lines[v]) \in Nat /\ r \in Record
    BY <1>2 DEF WriteSnapshot
  <2>2. highest[v] < r.seq
    BY <1>2, <2>1 DEF WriteSnapshot, ViewerInv, HighestBelowRest
  <2>3. WriteLine(v, r)
    BY <1>2 DEF WriteSnapshot
  <2>4. /\ HighestBoundsLines(v)'
        /\ Increasing(v)'
        /\ Len(lines'[v]) = k
        /\ highest'[v] = r.seq
    BY <2>1, <2>2, <2>3, WriteLineKeeps
  <2>5. pc'[v] = "snapshot" /\ snapshot'[v] = snapshot[v]
    BY <1>2 DEF WriteSnapshot
  <2>6. SnapshotIncreases(v)
    BY DEF ViewerInv
  <2>7. HighestBelowRest(v)'
    <3>1. \A j \in k + 1 .. Len(snapshot[v]) : snapshot[v][k].seq < snapshot[v][j].seq
      <4>1. \A j \in k + 1 .. Len(snapshot[v]) : j \in 1 .. Len(snapshot[v]) /\ k < j
        BY <2>1
      <4> HIDE DEF k
      <4> QED
        BY <2>1, <2>6, <4>1 DEF SnapshotIncreases
    <3> QED
      BY <2>4, <2>5, <3>1 DEF HighestBelowRest
  <2> QED
    BY <2>4, <2>5, <2>6, <2>7 DEF ViewerInv, NothingShownYet, SnapshotIncreases
<1>3. CASE ReceiveRecord(v)
  <2> DEFINE r == sent[rx[v]]
  <2>1. r \in Record
    BY <1>3, DepthAssumption DEF ReceiveRecord, HasValue, Oldest
  <2>2. pc[v] = "recv" /\ snapshot'[v] = snapshot[v]
    BY <1>3 DEF ReceiveRecord
  <2>3. CASE r.seq <= highest[v]
    <3>1. pc'[v] = pc[v] /\ lines'[v] = lines[v] /\ highest'[v] = highest[v]
      BY <1>3, <2>3 DEF ReceiveRecord
    <3> QED
      BY <2>2, <3>1, OthersUntouched
  <2>4. CASE ~(r.seq <= highest[v])
    <3>1. WriteLine(v, r) /\ pc'[v] = "flush"
      BY <1>3, <2>4 DEF ReceiveRecord
    <3>2. highest[v] < r.seq
      <4>1. r.seq \in Nat /\ highest[v] \in Nat \cup {-1}
        BY <2>1 DEF Record
      <4> QED
        BY <2>4, <4>1, SMTT(30)
    <3>3. HighestBoundsLines(v)' /\ Increasing(v)'
      BY <2>1, <3>1, <3>2, WriteLineKeeps
    <3>4. HighestBelowRest(v)' /\ NothingShownYet(v)'
      BY <3>1 DEF HighestBelowRest, NothingShownYet
    <3>5. SnapshotIncreases(v)'
      BY <2>2 DEF ViewerInv, SnapshotIncreases
    <3> QED
      BY <3>3, <3>4, <3>5 DEF ViewerInv
  <2> QED
    BY <2>3, <2>4
<1>4. CASE Subscribe(v)
  BY <1>4, ZenonT(40) DEF Subscribe, ViewerInv, SnapshotIncreases, HighestBoundsLines, HighestBelowRest,
              NothingShownYet, Increasing
<1>5. CASE WriteMarker(v)
  BY <1>5, ZenonT(40) DEF WriteMarker, ViewerInv, SnapshotIncreases, HighestBoundsLines, HighestBelowRest,
              NothingShownYet, Increasing
<1>6. CASE Flush(v)
  BY <1>6, ZenonT(40) DEF Flush, ViewerInv, SnapshotIncreases, HighestBoundsLines, HighestBelowRest,
              NothingShownYet, Increasing
<1>7. CASE WriteFails(v)
  BY <1>7 DEF WriteFails, ViewerInv, SnapshotIncreases, HighestBoundsLines, HighestBelowRest,
              NothingShownYet, Increasing
<1>8. CASE ReceiveLagged(v) \/ Spill(v) \/ Leave(v)
  BY <1>8, OthersUntouched DEF ReceiveLagged, Spill, Leave
<1> QED
  BY <1>1, <1>2, <1>3, <1>4, <1>5, <1>6, <1>7, <1>8 DEF ClientStep

\* No other task touches a viewer's variables.
LEMMA StepOfAnother ==
  ASSUME TypeOK, NEW v \in Viewers, NEW w \in Viewers, v # w,
         Subscribe(w) \/ ClientStep(w) \/ Spill(w) \/ Leave(w)
  PROVE  /\ pc'[v] = pc[v] /\ rx'[v] = rx[v] /\ snapshot'[v] = snapshot[v]
         /\ highest'[v] = highest[v] /\ lines'[v] = lines[v] /\ flushed'[v] = flushed[v]
BY SMTT(30) DEF TypeOK, ClientStep, Subscribe, TakeSnapshot, WriteSnapshot, WriteMarker, Flush, Spill,
       ReceiveRecord, ReceiveLagged, Leave, WriteFails, WriteLine

ViewersInv == \A v \in Viewers : ViewerInv(v)

LEMMA ViewersInvariant == Safely => []ViewersInv
<1> DEFINE Inv == ViewersInv
<1> USE DEF ViewersInv
<1>1. Init => Inv
  BY DEF Init, ViewerInv, SnapshotIncreases, HighestBoundsLines, HighestBelowRest,
         NothingShownYet, Increasing
<1>2. TypeOK /\ LogIsWindow /\ Inv /\ [Next]_vars => Inv'
  <2> SUFFICES ASSUME TypeOK, LogIsWindow, Inv, [Next]_vars, NEW v \in Viewers
               PROVE  ViewerInv(v)'
    OBVIOUS
  <2>0. ViewerInv(v)
    OBVIOUS
  <2>1. CASE \E c \in Conns : PushStep(c)
    BY <2>0, <2>1, OthersUntouched DEF PushStep, Store, Send, clientVars
  <2>2. CASE UNCHANGED vars
    BY <2>0, <2>2, OthersUntouched DEF vars, clientVars
  <2>3. ASSUME NEW w \in Viewers, Subscribe(w) \/ ClientStep(w) \/ Spill(w) \/ Leave(w)
        PROVE  ViewerInv(v)'
    <3>1. CASE v = w
      BY <2>0, <2>3, <3>1, ViewerStepKeeps
    <3>2. CASE v # w
      BY <2>0, <2>3, <3>2, StepOfAnother, OthersUntouched
    <3> QED
      BY <3>1, <3>2
  <2> QED
    BY <2>1, <2>2, <2>3 DEF Next
<1> QED
  BY <1>1, <1>2, SafelyTyped, SafelyWindow, PTL DEF Safely

\* A viewer is never shown a connection twice or out of order, across its
\* snapshot and the live feed, however they interleave with the pushes.
THEOREM ViewersSeeIncreasing == Spec => []LinesIncrease
<1>1. ViewersInv => LinesIncrease
  BY DEF LinesIncrease, ViewersInv, ViewerInv, Increasing
<1> QED
  BY <1>1, SpecIsSafe, ViewersInvariant, PTL

\* No line waits in a buffer for the next connection to push it out: a task
\* is back at recv only after a flush or after writing nothing.
THEOREM NothingIsHeldBack == Spec => []NothingHeldBack
<1>1. Init => NothingHeldBack
  BY DEF Init, NothingHeldBack
<1>2. TypeOK /\ NothingHeldBack /\ [Next]_vars => NothingHeldBack'
  <2> SUFFICES ASSUME TypeOK, NothingHeldBack, [Next]_vars, NEW v \in Viewers,
                      pc'[v] = "recv"
               PROVE  flushed'[v] = Len(lines'[v])
    BY DEF NothingHeldBack
  <2>1. CASE \E c \in Conns : PushStep(c)
    BY <2>1 DEF PushStep, Store, Send, clientVars, NothingHeldBack
  <2>2. CASE UNCHANGED vars
    BY <2>2 DEF vars, clientVars, NothingHeldBack
  <2>3. ASSUME NEW w \in Viewers, Subscribe(w) \/ ClientStep(w) \/ Spill(w) \/ Leave(w)
        PROVE  flushed'[v] = Len(lines'[v])
    <3>1. CASE v # w
      BY <2>3, <3>1, StepOfAnother DEF NothingHeldBack
    <3>2. CASE v = w /\ Flush(v)
      BY <3>2 DEF Flush, TypeOK
    <3>3. CASE v = w /\ ReceiveRecord(v)
      <4>1. CASE sent[rx[v]].seq <= highest[v]
        BY <3>3, <4>1 DEF ReceiveRecord, NothingHeldBack
      <4>2. CASE ~(sent[rx[v]].seq <= highest[v])
        BY <3>3, <4>2 DEF ReceiveRecord, TypeOK
      <4> QED
        BY <4>1, <4>2
    <3>4. CASE v = w /\ (ReceiveLagged(v) \/ Leave(v) \/ Spill(v))
      BY <3>4 DEF ReceiveLagged, Leave, Spill, TypeOK, NothingHeldBack
    <3>5. CASE v = w /\ (Subscribe(v) \/ TakeSnapshot(v) \/ WriteSnapshot(v) \/ WriteMarker(v)
                           \/ WriteFails(v))
      BY <3>5 DEF Subscribe, TakeSnapshot, WriteSnapshot, WriteMarker, WriteFails, TypeOK
    <3> QED
      BY <2>3, <3>1, <3>2, <3>3, <3>4, <3>5 DEF ClientStep
  <2> QED
    BY <2>1, <2>2, <2>3 DEF Next
<1> QED
  BY <1>1, <1>2, TypeCorrect, PTL DEF Spec

----------------------------------------------------------------------------
(* One number, one connection *)

\* The numbers handed out so far are below next_seq and all different.
Numbered ==
  /\ \A c \in Conns : push[c] # "idle" => seq[c] < log.next_seq
  /\ \A c, d \in Conns :
       push[c] # "idle" /\ push[d] # "idle" /\ seq[c] = seq[d] => c = d

\* A record carries the number the log gave its connection.
Genuine(r, p, n) == p[r.conn] # "idle" /\ n[r.conn] = r.seq
AllGenuineIn(q, p, n) == \A i \in 1 .. Len(q) : Genuine(q[i], p, n)

AllGenuine ==
  /\ AllGenuineIn(log.records, push, seq)
  /\ AllGenuineIn(sent, push, seq)
  /\ \A v \in Viewers : AllGenuineIn(snapshot[v], push, seq)
  /\ \A v \in Viewers : AllGenuineIn(lines[v], push, seq)

LEMMA NumberedInvariant == Safely => []Numbered
<1>1. Init => Numbered
  BY DEF Init, Numbered
<1>2. TypeOK /\ Numbered /\ [Next]_vars => Numbered'
  <2> SUFFICES ASSUME TypeOK, Numbered, [Next]_vars PROVE Numbered'
    OBVIOUS
  <2>1. ASSUME NEW c \in Conns, Store(c) PROVE Numbered'
    <3>1. /\ log'.next_seq = log.next_seq + 1
          /\ seq' = [seq EXCEPT ![c] = log.next_seq]
          /\ push' = [push EXCEPT ![c] = "stored"]
          /\ log.next_seq \in Nat
      BY <2>1 DEF Store, Pushed, TypeOK
    <3>2. \A d \in Conns : d # c => push'[d] = push[d] /\ seq'[d] = seq[d]
      BY <3>1 DEF TypeOK
    <3>3. seq'[c] = log.next_seq /\ push'[c] = "stored"
      BY <3>1 DEF TypeOK
    <3>4. \A d \in Conns : seq[d] \in Nat /\ (push[d] # "idle" => seq[d] < log.next_seq)
      BY DEF Numbered, TypeOK
    <3>5. \A d \in Conns : push'[d] # "idle" => seq'[d] < log'.next_seq
      BY <3>1, <3>2, <3>3, <3>4
    <3>6. ASSUME NEW d \in Conns, NEW e \in Conns,
                 push'[d] # "idle", push'[e] # "idle", seq'[d] = seq'[e]
          PROVE  d = e
      <4>1. CASE d = c /\ e # c
        BY <3>1, <3>2, <3>3, <3>4, <3>6, <4>1
      <4>2. CASE d # c /\ e = c
        BY <3>1, <3>2, <3>3, <3>4, <3>6, <4>2
      <4>3. CASE d # c /\ e # c
        BY <3>2, <3>6, <4>3 DEF Numbered
      <4> QED
        BY <4>1, <4>2, <4>3
    <3> QED
      BY <3>5, <3>6 DEF Numbered
  <2>2. ASSUME NEW c \in Conns, Send(c) PROVE Numbered'
    <3>1. \A d \in Conns : (push'[d] # "idle" <=> push[d] # "idle") /\ seq'[d] = seq[d]
      BY <2>2 DEF Send, TypeOK
    <3>2. log' = log
      BY <2>2 DEF Send
    <3> QED
      BY <3>1, <3>2 DEF Numbered
  <2>3. CASE UNCHANGED <<log, push, seq>>
    BY <2>3 DEF Numbered
  <2>4. (\E c \in Conns : Store(c) \/ Send(c)) \/ UNCHANGED <<log, push, seq>>
    BY DEF Next, PushStep, ClientStep, Subscribe, TakeSnapshot, WriteSnapshot, WriteMarker,
           Flush, Spill, ReceiveRecord, ReceiveLagged, Leave, WriteFails, vars, publisherVars
  <2> QED
    BY <2>1, <2>2, <2>3, <2>4
<1> QED
  BY <1>1, <1>2, SafelyTyped, PTL DEF Safely

\* A connection keeps the number it was given.
LEMMA GenuineStays ==
  ASSUME TypeOK, [Next]_vars, NEW q \in Seq(Record), AllGenuineIn(q, push, seq)
  PROVE  AllGenuineIn(q, push', seq')
<1> SUFFICES ASSUME NEW r \in Record, Genuine(r, push, seq) PROVE Genuine(r, push', seq')
  BY DEF AllGenuineIn
<1>0. r.conn \in Conns
  BY DEF Record
<1>1. ASSUME NEW c \in Conns, Store(c) PROVE Genuine(r, push', seq')
  BY <1>0, <1>1 DEF Store, Genuine, TypeOK
<1>2. ASSUME NEW c \in Conns, Send(c) PROVE Genuine(r, push', seq')
  BY <1>0, <1>2 DEF Send, Genuine, TypeOK
<1>3. CASE UNCHANGED <<push, seq>>
  BY <1>3 DEF Genuine
<1> QED
  BY <1>1, <1>2, <1>3
  DEF Next, PushStep, ClientStep, Subscribe, TakeSnapshot, WriteSnapshot, WriteMarker,
      Flush, Spill, ReceiveRecord, ReceiveLagged, Leave, WriteFails, vars, publisherVars

\* Appending a genuine record to a sequence of genuine ones.
LEMMA AppendGenuine ==
  ASSUME NEW q \in Seq(Record), NEW r \in Record, NEW p, NEW n,
         AllGenuineIn(q, p, n), Genuine(r, p, n)
  PROVE  AllGenuineIn(Append(q, r), p, n)
<1>1. \A i \in 1 .. Len(Append(q, r)) :
        Append(q, r)[i] = r \/ (i \in 1 .. Len(q) /\ Append(q, r)[i] = q[i])
  OBVIOUS
<1> QED
  BY <1>1 DEF AllGenuineIn

\* A viewer's copy is a copy of the log, and its lines come from that copy or
\* from the channel.
LEMMA ViewerStepGenuine ==
  ASSUME TypeOK, AllGenuine, NEW v \in Viewers,
         Subscribe(v) \/ ClientStep(v) \/ Spill(v) \/ Leave(v)
  PROVE  AllGenuineIn(snapshot'[v], push, seq) /\ AllGenuineIn(lines'[v], push, seq)
<1>0. /\ AllGenuineIn(snapshot[v], push, seq) /\ AllGenuineIn(lines[v], push, seq)
      /\ AllGenuineIn(log.records, push, seq) /\ AllGenuineIn(sent, push, seq)
  BY DEF AllGenuine
<1>1. CASE TakeSnapshot(v)
  <2>1. snapshot'[v] = log.records /\ lines'[v] = lines[v]
    BY <1>1 DEF TakeSnapshot, TypeOK
  <2> QED
    BY <1>0, <2>1
<1>2. CASE WriteSnapshot(v)
  <2> DEFINE k == Len(lines[v]) + 1
  <2>1. k \in 1 .. Len(snapshot[v]) /\ snapshot[v][k] \in Record /\ lines[v] \in Seq(Record)
    BY <1>2 DEF WriteSnapshot, TypeOK
  <2>2. snapshot'[v] = snapshot[v] /\ lines'[v] = Append(lines[v], snapshot[v][k])
    BY <1>2 DEF WriteSnapshot, WriteLine, TypeOK
  <2>3. Genuine(snapshot[v][k], push, seq)
    BY <1>0, <2>1 DEF AllGenuineIn
  <2> QED
    BY <1>0, <2>1, <2>2, <2>3, AppendGenuine
<1>3. CASE ReceiveRecord(v)
  <2>1. rx[v] \in 1 .. Len(sent) /\ sent[rx[v]] \in Record /\ lines[v] \in Seq(Record)
    BY <1>3, DepthAssumption DEF ReceiveRecord, HasValue, Oldest, TypeOK
  <2>2. snapshot'[v] = snapshot[v]
    BY <1>3 DEF ReceiveRecord
  <2>3. lines'[v] = lines[v] \/ lines'[v] = Append(lines[v], sent[rx[v]])
    BY <1>3, SMTT(30) DEF ReceiveRecord, WriteLine, TypeOK
  <2>4. Genuine(sent[rx[v]], push, seq)
    BY <1>0, <2>1 DEF AllGenuineIn
  <2> QED
    BY <1>0, <2>1, <2>2, <2>3, <2>4, AppendGenuine
<1>4. CASE snapshot'[v] = snapshot[v] /\ lines'[v] = lines[v]
  BY <1>0, <1>4
<1> QED
  BY <1>1, <1>2, <1>3, <1>4
  DEF ClientStep, Subscribe, WriteMarker, Flush, Spill, ReceiveLagged, Leave, WriteFails

LEMMA AllGenuineInvariant == Safely => []AllGenuine
<1>1. Init => AllGenuine
  BY DEF Init, AllGenuine, AllGenuineIn, NewLog
<1>2. TypeOK /\ AllGenuine /\ [Next]_vars => AllGenuine'
  <2> SUFFICES ASSUME TypeOK, AllGenuine, [Next]_vars PROVE AllGenuine'
    OBVIOUS
  <2>1. /\ AllGenuineIn(log.records, push', seq')
        /\ AllGenuineIn(sent, push', seq')
        /\ \A v \in Viewers : AllGenuineIn(snapshot[v], push', seq')
        /\ \A v \in Viewers : AllGenuineIn(lines[v], push', seq')
    <3>1. /\ log.records \in Seq(Record) /\ sent \in Seq(Record)
          /\ \A v \in Viewers : snapshot[v] \in Seq(Record) /\ lines[v] \in Seq(Record)
      BY DEF TypeOK
    <3> QED
      BY <3>1, GenuineStays DEF AllGenuine
  <2>2. ASSUME NEW c \in Conns, Store(c) PROVE AllGenuine'
    <3> DEFINE r == [seq |-> log.next_seq, conn |-> c]
               q == log.records
    <3>1. r \in Record /\ q \in Seq(Record)
      BY DEF TypeOK, Record
    <3>2. log'.records = NewestOf(Append(q, r))
      BY <2>2 DEF Store, Pushed
    <3>3. Genuine(r, push', seq')
      BY <2>2 DEF Store, Genuine, TypeOK
    <3>4. \A i \in 1 .. Len(log'.records) :
            log'.records[i] = r \/ \E j \in 1 .. Len(q) : log'.records[i] = q[j]
      <4> HIDE DEF r, q
      <4> DEFINE w == NewestOf(Append(q, r))
      <4>1. \A i \in 1 .. Len(w) : w[i] = r \/ \E j \in 1 .. Len(q) : w[i] = q[j]
        BY <3>1, NewestOfType
      <4> QED
        BY <3>2, <4>1
    <3>5. AllGenuineIn(q, push', seq')
      BY <2>1
    <3> HIDE DEF r, q
    <3>6. AllGenuineIn(log'.records, push', seq')
      BY <3>3, <3>4, <3>5 DEF AllGenuineIn
    <3>7. UNCHANGED <<sent, snapshot, lines>>
      BY <2>2 DEF Store, clientVars
    <3> QED
      BY <2>1, <3>6, <3>7 DEF AllGenuine
  <2>3. ASSUME NEW c \in Conns, Send(c) PROVE AllGenuine'
    <3> DEFINE r == [seq |-> seq[c], conn |-> c]
    <3>1. r \in Record /\ sent \in Seq(Record)
      BY DEF TypeOK, Record
    <3>2. Genuine(r, push', seq')
      BY <2>3 DEF Send, Genuine, TypeOK
    <3>3. sent' = sent \/ sent' = Append(sent, r)
      BY <2>3 DEF Send, SentTo
    <3> HIDE DEF r
    <3>4. AllGenuineIn(sent', push', seq')
      BY <2>1, <3>1, <3>2, <3>3, AppendGenuine
    <3>5. UNCHANGED <<log, snapshot, lines>>
      BY <2>3 DEF Send, clientVars
    <3> QED
      BY <2>1, <3>4, <3>5 DEF AllGenuine
  <2>4. ASSUME NEW w \in Viewers, Subscribe(w) \/ ClientStep(w) \/ Spill(w) \/ Leave(w)
        PROVE  AllGenuine'
    <3>1. UNCHANGED <<log, push, seq, sent>>
      BY <2>4 DEF ClientStep, Subscribe, TakeSnapshot, WriteSnapshot, WriteMarker, Flush, Spill,
                  ReceiveRecord, ReceiveLagged, Leave, WriteFails, publisherVars
    <3>2. AllGenuineIn(snapshot'[w], push, seq) /\ AllGenuineIn(lines'[w], push, seq)
      BY <2>4, ViewerStepGenuine
    <3>3. ASSUME NEW v \in Viewers, v # w
          PROVE  snapshot'[v] = snapshot[v] /\ lines'[v] = lines[v]
      BY <2>4, <3>3, StepOfAnother
    <3> QED
      BY <2>1, <3>1, <3>2, <3>3 DEF AllGenuine
  <2>5. CASE UNCHANGED vars
    BY <2>1, <2>5 DEF AllGenuine, vars, publisherVars, clientVars
  <2> QED
    BY <2>2, <2>3, <2>4, <2>5 DEF Next, PushStep
<1> QED
  BY <1>1, <1>2, SafelyTyped, PTL DEF Safely

\* Two records a viewer could meet, in the log, in the channel or on a socket,
\* have the same number exactly when they are of the same connection: the log
\* numbers under the mutex and the broadcast copy carries that number.
THEOREM OneRecordEach == Spec => []OneRecordPerConnection
<1>1. TypeOK /\ Numbered /\ AllGenuine => OneRecordPerConnection
  <2> SUFFICES ASSUME TypeOK, Numbered, AllGenuine PROVE OneRecordPerConnection
    OBVIOUS
  <2> DEFINE everywhere == Range(log.records) \cup Range(sent)
                             \cup UNION {Range(lines[v]) : v \in Viewers}
  <2>1. ASSUME NEW q \in Seq(Record), AllGenuineIn(q, push, seq), NEW r \in Range(q)
        PROVE  r.conn \in Conns /\ Genuine(r, push, seq)
    <3>1. r \in Record /\ \E i \in 1 .. Len(q) : r = q[i]
      BY DEF Range
    <3> QED
      BY <2>1, <3>1 DEF AllGenuineIn, Record
  <2>2. /\ log.records \in Seq(Record) /\ sent \in Seq(Record)
        /\ \A v \in Viewers : lines[v] \in Seq(Record)
    BY DEF TypeOK
  <2>3. \A r \in everywhere : r.conn \in Conns /\ Genuine(r, push, seq)
    BY <2>1, <2>2 DEF AllGenuine
  <2> HIDE DEF everywhere
  <2>4. \A r, s \in everywhere : (r.seq = s.seq) <=> (r.conn = s.conn)
    BY <2>3 DEF Numbered, Genuine
  <2> QED
    BY <2>4 DEF OneRecordPerConnection, everywhere
<1> QED
  BY <1>1, SpecIsSafe, SafelyTyped, NumberedInvariant, AllGenuineInvariant, PTL

----------------------------------------------------------------------------
(* The feed implements its promise *)

LEMMA NumbersAppend ==
  ASSUME NEW q \in Seq(Record), NEW r \in Record
  PROVE  /\ Numbers(q) \in Seq(Nat)
         /\ Len(Numbers(q)) = Len(q)
         /\ Numbers(Append(q, r)) = Append(Numbers(q), r.seq)
<1>1. \A i \in 1 .. Len(q) : q[i].seq \in Nat
  <2>1. \A i \in 1 .. Len(q) : q[i] \in Record
    OBVIOUS
  <2> QED
    BY <2>1 DEF Record
<1>2. r.seq \in Nat
  BY DEF Record
<1>3. Len(q) \in Nat
  OBVIOUS
<1>4. Numbers(q) \in Seq(Nat) /\ Len(Numbers(q)) = Len(q)
  BY <1>1, <1>3 DEF Numbers
<1>5. /\ Append(Numbers(q), r.seq) \in Seq(Nat)
      /\ Len(Append(Numbers(q), r.seq)) = Len(q) + 1
      /\ Append(Numbers(q), r.seq)[Len(q) + 1] = r.seq
      /\ \A i \in 1 .. Len(q) : Append(Numbers(q), r.seq)[i] = Numbers(q)[i]
  BY <1>2, <1>4
<1>6. /\ Append(q, r) \in Seq(Record)
      /\ Len(Append(q, r)) = Len(q) + 1
      /\ Append(q, r)[Len(q) + 1] = r
      /\ \A i \in 1 .. Len(q) : Append(q, r)[i] = q[i]
  OBVIOUS
<1>7. Numbers(Append(q, r)) = [i \in 1 .. Len(q) + 1 |-> Append(q, r)[i].seq]
  BY <1>6 DEF Numbers
<1>8. \A i \in 1 .. Len(q) + 1 : Append(q, r)[i].seq = Append(Numbers(q), r.seq)[i]
  <2> TAKE i \in 1 .. Len(q) + 1
  <2>1. CASE i = Len(q) + 1
    BY <1>5, <1>6, <2>1
  <2>2. CASE i \in 1 .. Len(q)
    BY <1>5, <1>6, <2>2 DEF Numbers
  <2>3. i = Len(q) + 1 \/ i \in 1 .. Len(q)
    BY <1>3
  <2> QED
    BY <2>1, <2>2, <2>3
<1>9. Append(Numbers(q), r.seq) = [i \in 1 .. Len(q) + 1 |-> Append(Numbers(q), r.seq)[i]]
  BY <1>5
<1> QED
  BY <1>4, <1>7, <1>8, <1>9

\* A step of a viewer's task shows it nothing, or one recorded connection
\* newer than all it was shown before.
LEMMA LineIsNewer ==
  ASSUME TypeOK, Numbered, AllGenuine, NEW v \in Viewers, ViewerInv(v),
         Subscribe(v) \/ ClientStep(v) \/ Spill(v) \/ Leave(v)
  PROVE  \/ lines' = lines
         \/ \E r \in Record :
              /\ lines' = [lines EXCEPT ![v] = Append(lines[v], r)]
              /\ r.seq < log.next_seq
              /\ \A i \in 1 .. Len(lines[v]) : lines[v][i].seq < r.seq
<1>1. ASSUME NEW q \in Seq(Record), AllGenuineIn(q, push, seq), NEW i \in 1 .. Len(q),
             highest[v] < q[i].seq, WriteLine(v, q[i])
      PROVE  \E r \in Record :
               /\ lines' = [lines EXCEPT ![v] = Append(lines[v], r)]
               /\ r.seq < log.next_seq
               /\ \A j \in 1 .. Len(lines[v]) : lines[v][j].seq < r.seq
  <2>1. q[i] \in Record /\ q[i].conn \in Conns /\ q[i].seq \in Nat
    <3>1. q[i] \in Record
      BY <1>1
    <3> QED
      BY <3>1 DEF Record
  <2>2. q[i].seq < log.next_seq
    BY <1>1, <2>1 DEF AllGenuineIn, Genuine, Numbered
  <2>3. lines' = [lines EXCEPT ![v] = Append(lines[v], q[i])]
    BY <1>1 DEF WriteLine
  <2>4. \A j \in 1 .. Len(lines[v]) : lines[v][j].seq \in Nat
    <3>1. \A j \in 1 .. Len(lines[v]) : lines[v][j] \in Record
      BY DEF TypeOK
    <3> QED
      BY <3>1 DEF Record
  <2>5. highest[v] \in Nat \cup {-1}
    BY DEF TypeOK
  <2>6. \A j \in 1 .. Len(lines[v]) : lines[v][j].seq <= highest[v]
    BY DEF ViewerInv, HighestBoundsLines
  <2>7. \A j \in 1 .. Len(lines[v]) : lines[v][j].seq < q[i].seq
    BY <1>1, <2>1, <2>4, <2>5, <2>6, SMTT(30)
  <2> QED
    BY ONLY <2>1, <2>2, <2>3, <2>7
<1>2. CASE WriteSnapshot(v)
  <2> DEFINE k == Len(lines[v]) + 1
  <2>1. k \in 1 .. Len(snapshot[v]) /\ snapshot[v] \in Seq(Record)
    BY <1>2 DEF WriteSnapshot, TypeOK
  <2>2. highest[v] < snapshot[v][k].seq /\ WriteLine(v, snapshot[v][k])
    BY <1>2, <2>1 DEF WriteSnapshot, ViewerInv, HighestBelowRest
  <2>3. AllGenuineIn(snapshot[v], push, seq)
    BY DEF AllGenuine
  <2> HIDE DEF k
  <2> QED
    BY <1>1, <2>1, <2>2, <2>3
<1>3. CASE ReceiveRecord(v)
  <2>1. rx[v] \in 1 .. Len(sent) /\ sent \in Seq(Record) /\ sent[rx[v]] \in Record
    BY <1>3, DepthAssumption DEF ReceiveRecord, HasValue, Oldest, TypeOK
  <2>2. sent[rx[v]].seq \in Nat /\ highest[v] \in Nat \cup {-1}
    BY <2>1 DEF Record, TypeOK
  <2>3. AllGenuineIn(sent, push, seq)
    BY DEF AllGenuine
  <2>4. CASE sent[rx[v]].seq <= highest[v]
    BY <1>3, <2>4 DEF ReceiveRecord
  <2>5. CASE ~(sent[rx[v]].seq <= highest[v])
    <3>1. WriteLine(v, sent[rx[v]])
      BY <1>3, <2>5 DEF ReceiveRecord
    <3>2. highest[v] < sent[rx[v]].seq
      BY <2>2, <2>5
    <3> QED
      BY <1>1, <2>1, <2>3, <3>1, <3>2
  <2> QED
    BY <2>4, <2>5
<1>4. CASE lines' = lines
  BY <1>4
<1> QED
  BY <1>2, <1>3, <1>4
  DEF ClientStep, Subscribe, TakeSnapshot, WriteMarker, Flush, Spill, ReceiveLagged, Leave,
      WriteFails

\* The feed implements FeedPromise: Publisher::push is Record, and a line of
\* the snapshot or of the live feed is Show; every other step stutters.
THEOREM FeedKeepsPromise == Spec => KeepsPromise
<1>1. Init => Promise!Init
  BY DEF Init, Promise!Init, NewLog, shownTo, Numbers
<1>2. TypeOK /\ Numbered /\ AllGenuine /\ ViewersInv /\ [Next]_vars
        => [Promise!Next]_(Promise!vars)
  <2> SUFFICES ASSUME TypeOK, Numbered, AllGenuine, ViewersInv, [Next]_vars
               PROVE  Promise!Next \/ (log.next_seq' = log.next_seq /\ shownTo' = shownTo)
    BY DEF Promise!vars
  <2>1. ASSUME NEW c \in Conns, Store(c) PROVE Promise!Next
    BY <2>1 DEF Store, Pushed, clientVars, shownTo, Promise!Next, Promise!Record
  <2>2. ASSUME NEW c \in Conns, Send(c)
        PROVE  log.next_seq' = log.next_seq /\ shownTo' = shownTo
    BY <2>2 DEF Send, clientVars, shownTo
  <2>3. ASSUME NEW v \in Viewers, Subscribe(v) \/ ClientStep(v) \/ Spill(v) \/ Leave(v)
        PROVE  Promise!Next \/ (log.next_seq' = log.next_seq /\ shownTo' = shownTo)
    <3>1. log' = log
      BY <2>3 DEF ClientStep, Subscribe, TakeSnapshot, WriteSnapshot, WriteMarker, Flush, Spill,
                  ReceiveRecord, ReceiveLagged, Leave, WriteFails, publisherVars
    <3>2. CASE lines' = lines
      BY <3>1, <3>2 DEF shownTo
    <3>3. ASSUME NEW r \in Record,
                 lines' = [lines EXCEPT ![v] = Append(lines[v], r)],
                 r.seq < log.next_seq,
                 \A i \in 1 .. Len(lines[v]) : lines[v][i].seq < r.seq
          PROVE  Promise!Next
      <4>1. /\ lines \in [Viewers -> Seq(Record)] /\ lines[v] \in Seq(Record)
            /\ log.next_seq \in Nat /\ r.seq \in Nat
        BY DEF TypeOK, Record
      <4>2. r.seq \in 0 .. log.next_seq - 1
        BY <3>3, <4>1
      <4>3. shownTo[v] = Numbers(lines[v])
        BY DEF shownTo
      <4>4. \A i \in 1 .. Len(shownTo[v]) : shownTo[v][i] < r.seq
        BY <3>3, <4>1, <4>3, NumbersAppend DEF Numbers
      <4>5. shownTo' = [shownTo EXCEPT ![v] = Append(shownTo[v], r.seq)]
        <5>1. \A w \in Viewers : lines'[w] = IF w = v THEN Append(lines[v], r) ELSE lines[w]
          BY <3>3, <4>1
        <5>2. Numbers(Append(lines[v], r)) = Append(shownTo[v], r.seq)
          BY <4>1, <4>3, NumbersAppend
        <5>3. shownTo' = [w \in Viewers |-> IF w = v THEN Append(shownTo[v], r.seq)
                                                     ELSE Numbers(lines[w])]
          BY <5>1, <5>2 DEF shownTo
        <5> QED
          BY <5>3 DEF shownTo
      <4> QED
        BY <3>1, <4>2, <4>4, <4>5 DEF Promise!Next, Promise!Show
    <3> QED
      BY <2>3, <3>2, <3>3, LineIsNewer DEF ViewersInv
  <2>4. CASE UNCHANGED vars
    BY <2>4 DEF vars, publisherVars, clientVars, shownTo
  <2> QED
    BY <2>1, <2>2, <2>3, <2>4 DEF Next, PushStep
<1> QED
  BY <1>1, <1>2, TypeCorrect, SpecIsSafe, NumberedInvariant, AllGenuineInvariant, ViewersInvariant,
     PTL
  DEF Spec, KeepsPromise, Promise!Spec

-----------------------------------------------------------------------------
(***************************************************************************)
(* What a viewer of the feed misses: where broadcasts happen in the order  *)
(* of the numbers, only what its own lag costs it.                         *)
(*                                                                         *)
(* Every connection that was broadcast, and is not older than the viewer's *)
(* snapshot, is accounted for: copied, written, waiting in the channel or  *)
(* overrun.  What is hard is the record that handle_client skips because   *)
(* it is not above `highest`.  `highest` comes from the snapshot, which    *)
(* has no gaps, so that the skipped record is in it; or from a record the  *)
(* channel delivered before, and then the skipped one had overtaken it.    *)
(***************************************************************************)

\* The task has its copy of the log.
Copying(v) == pc[v] \in {"snapshot", "flush", "recv"}

InSnapshot(v, n) == \E i \in 1 .. Len(snapshot[v]) : snapshot[v][i].seq = n
InLines(v, n) == \E i \in 1 .. Len(lines[v]) : lines[v][i].seq = n
Waiting(v, n) == \E i \in rx[v] .. Len(sent) : sent[i].seq = n
Delivered(v, n) == \E j \in 1 .. Len(sent) : j < rx[v] /\ sent[j].seq = n

Position(v) == rx[v] <= Len(sent) + 1
NoGaps(v) ==
  Copying(v) => \A i \in 1 .. Len(snapshot[v]) : snapshot[v][i].seq = Start(v) + i - 1
Copied(v) ==
  /\ Copying(v) => \A i \in 1 .. Len(lines[v]) :
                     i <= Len(snapshot[v]) => lines[v][i] = snapshot[v][i]
  /\ Live(v) => Len(snapshot[v]) <= Len(lines[v])
HighestSource(v) ==
  Copying(v) => highest[v] = -1 \/ InSnapshot(v, highest[v]) \/ Delivered(v, highest[v])
Accounted(v) ==
  \A c \in Conns :
    push[c] = "done" /\ seq[c] >= Start(v) =>
      InSnapshot(v, seq[c]) \/ InLines(v, seq[c]) \/ Waiting(v, seq[c]) \/ seq[c] \in overrun[v]

MissInv(v) ==
  /\ Position(v)
  /\ NoGaps(v)
  /\ Copied(v)
  /\ HighestSource(v)
  /\ Copying(v) /\ SentInOrder => Accounted(v)

\* Everything the invariant needs of the types.
LEMMA ViewerTypes ==
  ASSUME TypeOK, NEW v \in Viewers
  PROVE  /\ rx[v] \in Nat \ {0} /\ highest[v] \in Nat \cup {-1}
         /\ snapshot[v] \in Seq(Record) /\ lines[v] \in Seq(Record) /\ sent \in Seq(Record)
         /\ Len(sent) \in Nat /\ Len(snapshot[v]) \in Nat /\ Len(lines[v]) \in Nat
         /\ Start(v) \in Nat
         /\ \A i \in 1 .. Len(sent) : sent[i] \in Record /\ sent[i].seq \in Nat
         /\ \A i \in 1 .. Len(snapshot[v]) : snapshot[v][i].seq \in Nat
         /\ \A c \in Conns : seq[c] \in Nat
<1>1. /\ rx[v] \in Nat \ {0} /\ highest[v] \in Nat \cup {-1}
      /\ snapshot[v] \in Seq(Record) /\ lines[v] \in Seq(Record) /\ sent \in Seq(Record)
      /\ \A c \in Conns : seq[c] \in Nat
  BY DEF TypeOK
<1>2. ASSUME NEW q \in Seq(Record), NEW i \in 1 .. Len(q) PROVE q[i] \in Record /\ q[i].seq \in Nat
  <2>1. q[i] \in Record
    OBVIOUS
  <2> QED
    BY <2>1 DEF Record
<1>3. /\ \A i \in 1 .. Len(sent) : sent[i] \in Record /\ sent[i].seq \in Nat
      /\ \A i \in 1 .. Len(snapshot[v]) : snapshot[v][i].seq \in Nat
  BY <1>1, <1>2
<1>4. Len(sent) \in Nat /\ Len(snapshot[v]) \in Nat /\ Len(lines[v]) \in Nat
  BY <1>1
<1>5. Start(v) \in Nat
  <2>1. CASE snapshot[v] = <<>>
    BY <2>1 DEF Start
  <2>2. CASE snapshot[v] # <<>>
    <3>1. 1 \in 1 .. Len(snapshot[v])
      BY <1>1, <2>2
    <3> QED
      BY <1>3, <2>2, <3>1 DEF Start
  <2> QED
    BY <2>1, <2>2
<1> QED
  BY <1>1, <1>3, <1>4, <1>5

\* A step that leaves the viewer's variables alone keeps its invariant when
\* the channel keeps what it had, and accounts for what is broadcast.
LEMMA MissKept ==
  ASSUME TypeOK, NEW v \in Viewers, MissInv(v),
         pc'[v] = pc[v], rx'[v] = rx[v], snapshot'[v] = snapshot[v],
         highest'[v] = highest[v], lines'[v] = lines[v], overrun'[v] = overrun[v],
         Len(sent') \in Nat, Len(sent) <= Len(sent'),
         \A i \in 1 .. Len(sent) : sent'[i] = sent[i],
         \A c \in Conns : push'[c] = "done" =>
            \/ push[c] = "done" /\ seq'[c] = seq[c]
            \/ Copying(v) => \E i \in Len(sent) + 1 .. Len(sent') : sent'[i].seq = seq'[c]
  PROVE  MissInv(v)'
<1> USE ViewerTypes
<1>1. Position(v)' /\ NoGaps(v)' /\ Copied(v)'
  BY DEF MissInv, Position, NoGaps, Copied, Copying, Live, Start
<1>2. HighestSource(v)'
  <2>1. HighestSource(v) /\ (Copying(v)' <=> Copying(v))
    BY DEF MissInv, Copying
  <2>2. InSnapshot(v, highest[v]) => InSnapshot(v, highest[v])'
    BY DEF InSnapshot
  <2>3. Delivered(v, highest[v]) => Delivered(v, highest[v])'
    <3>1. \A j \in 1 .. Len(sent) : j \in 1 .. Len(sent')
      BY ViewerTypes
    <3> QED
      BY <3>1, SMTT(30) DEF Delivered
  <2> QED
    BY <2>1, <2>2, <2>3 DEF HighestSource
<1>3. ASSUME Copying(v)', SentInOrder' PROVE Accounted(v)'
  <2>1. Copying(v)
    BY <1>3 DEF Copying
  <2>2. SentInOrder
    BY <1>3, SMTT(30) DEF SentInOrder
  <2>3. Accounted(v) /\ Position(v)
    BY <2>1, <2>2 DEF MissInv
  <2> SUFFICES ASSUME NEW c \in Conns, push'[c] = "done", seq'[c] >= Start(v)'
               PROVE  \/ InSnapshot(v, seq[c])' \/ InLines(v, seq[c])' \/ Waiting(v, seq[c])'
                      \/ seq'[c] \in overrun'[v]
    BY DEF Accounted
  <2>4. Start(v)' = Start(v)
    BY DEF Start
  <2>5. CASE push[c] = "done" /\ seq'[c] = seq[c]
    <3>1. \/ InSnapshot(v, seq[c]) \/ InLines(v, seq[c]) \/ Waiting(v, seq[c])
          \/ seq[c] \in overrun[v]
      BY <2>3, <2>4, <2>5 DEF Accounted
    <3>2. Waiting(v, seq[c]) => Waiting(v, seq[c])'
      BY <2>5 DEF Waiting
    <3> QED
      BY <2>5, <3>1, <3>2 DEF InSnapshot, InLines
  <2>6. CASE \E i \in Len(sent) + 1 .. Len(sent') : sent'[i].seq = seq'[c]
    BY <2>3, <2>6 DEF Waiting, Position
  <2> QED
    BY <2>1, <2>5, <2>6
<1> QED
  BY <1>1, <1>2, <1>3 DEF MissInv

\* A task's own steps.  TakeSnapshot: the copy is the whole window, and what is
\* older than it is not asked for.
LEMMA SnapshotAccounts ==
  ASSUME TypeOK, LogIsWindow, Numbered, NEW v \in Viewers, ViewerInv(v), MissInv(v),
         TakeSnapshot(v)
  PROVE  MissInv(v)'
<1> DEFINE q == log.records
<1>1. /\ snapshot'[v] = q /\ lines'[v] = <<>> /\ highest'[v] = -1 /\ rx'[v] = rx[v]
      /\ pc'[v] = "snapshot" /\ sent' = sent /\ push' = push /\ seq' = seq
  BY DEF TakeSnapshot, publisherVars, TypeOK, ViewerInv, NothingShownYet
<1>2. /\ q \in Seq(Record) /\ Len(q) \in Nat /\ log.next_seq \in Nat
      /\ \A c \in Conns : seq[c] \in Nat /\ push[c] \in PushSteps
  BY DEF TypeOK
<1>3. /\ Len(q) <= Capacity
      /\ Len(q) < Capacity => Len(q) = log.next_seq
      /\ \A i \in 1 .. Len(q) : q[i].seq = log.next_seq - Len(q) + i - 1
  BY DEF LogIsWindow, IsWindow
<1>4. Capacity \in Nat \ {0}
  BY LogCapacityAssumption DEF Capacity
<1>5. Start(v)' = IF q = <<>> THEN 0 ELSE q[1].seq
  BY <1>1 DEF Start
<1>6. q # <<>> => Start(v)' = log.next_seq - Len(q)
  <2>1. q # <<>> => 1 \in 1 .. Len(q)
    BY <1>2
  <2> QED
    BY <1>2, <1>3, <1>5, <2>1
<1>7. Position(v)'
  BY <1>1 DEF MissInv, Position
<1>8. NoGaps(v)'
  <2> SUFFICES ASSUME NEW i \in 1 .. Len(q) PROVE q[i].seq = Start(v)' + i - 1
    BY <1>1 DEF NoGaps
  <2>1. q # <<>>
    BY <1>2
  <2> QED
    BY <1>2, <1>3, <1>6, <2>1
<1>9. Copied(v)' /\ HighestSource(v)'
  BY <1>1 DEF Copied, HighestSource, Live
<1>10. Accounted(v)'
  <2> SUFFICES ASSUME NEW c \in Conns, push[c] = "done", seq[c] >= Start(v)'
               PROVE  \E i \in 1 .. Len(q) : q[i].seq = seq[c]
    BY <1>1 DEF Accounted, InSnapshot
  <2>1. seq[c] < log.next_seq
    BY DEF Numbered
  <2>2. q # <<>>
    <3>1. q = <<>> => Len(q) = 0
      OBVIOUS
    <3> QED
      BY <1>2, <1>3, <1>4, <2>1, <3>1
  <2> DEFINE i == seq[c] - (log.next_seq - Len(q)) + 1
  <2>3. i \in 1 .. Len(q)
    BY <1>2, <1>6, <2>1, <2>2
  <2>4. q[i].seq = seq[c]
    BY <1>2, <1>3, <2>3, SMTT(30)
  <2> QED
    BY <2>3, <2>4
<1> QED
  BY <1>7, <1>8, <1>9, <1>10 DEF MissInv

\* What is accounted for stays so while the channel is left alone, and nothing
\* is taken from it that is not overrun, written or copied.
LEMMA AccountedStays ==
  ASSUME NEW v \in Viewers, Accounted(v), push' = push, seq' = seq,
         snapshot'[v] = snapshot[v],
         \A n \in Nat : InLines(v, n) => InLines(v, n)',
         \A n \in Nat : n >= Start(v) /\ Waiting(v, n) =>
            Waiting(v, n)' \/ InSnapshot(v, n) \/ InLines(v, n)' \/ n \in overrun'[v],
         overrun[v] \subseteq overrun'[v], TypeOK
  PROVE  Accounted(v)'
<1> SUFFICES ASSUME NEW c \in Conns, push[c] = "done", seq[c] >= Start(v)
             PROVE  \/ InSnapshot(v, seq[c])' \/ InLines(v, seq[c])' \/ Waiting(v, seq[c])'
                    \/ seq[c] \in overrun'[v]
  BY DEF Accounted, Start
<1>1. \/ InSnapshot(v, seq[c]) \/ InLines(v, seq[c]) \/ Waiting(v, seq[c])
      \/ seq[c] \in overrun[v]
  BY DEF Accounted
<1>2. seq[c] \in Nat
  BY DEF TypeOK
<1>3. InSnapshot(v, seq[c])' <=> InSnapshot(v, seq[c])
  BY DEF InSnapshot
<1>4. InLines(v, seq[c]) => InLines(v, seq[c])'
  BY <1>2 DEF InLines
<1>5. Waiting(v, seq[c]) => \/ Waiting(v, seq[c])' \/ InSnapshot(v, seq[c])
                            \/ InLines(v, seq[c])' \/ seq[c] \in overrun'[v]
  BY <1>2 DEF Waiting, InLines
<1> QED
  BY <1>1, <1>3, <1>4, <1>5

\* A line more: the lines that were there stay, and the new one is among them.
LEMMA LineAdded ==
  ASSUME TypeOK, NEW v \in Viewers, NEW r \in Record, WriteLine(v, r)
  PROVE  /\ highest'[v] = r.seq
         /\ Len(lines'[v]) = Len(lines[v]) + 1
         /\ lines'[v][Len(lines[v]) + 1] = r
         /\ \A i \in 1 .. Len(lines[v]) : lines'[v][i] = lines[v][i]
         /\ \A n \in Nat : InLines(v, n) => InLines(v, n)'
         /\ \E i \in 1 .. Len(lines'[v]) : lines'[v][i].seq = r.seq
<1>1. lines'[v] = Append(lines[v], r) /\ highest'[v] = r.seq
  BY DEF WriteLine, TypeOK
<1>2. lines[v] \in Seq(Record) /\ Len(lines[v]) \in Nat
  BY DEF TypeOK
<1>3. /\ Len(lines'[v]) = Len(lines[v]) + 1
      /\ lines'[v][Len(lines[v]) + 1] = r
      /\ \A i \in 1 .. Len(lines[v]) : lines'[v][i] = lines[v][i]
  BY <1>1, <1>2
<1>4. /\ Len(lines[v]) + 1 \in 1 .. Len(lines'[v])
      /\ \A i \in 1 .. Len(lines[v]) : i \in 1 .. Len(lines'[v])
  BY <1>2, <1>3
<1>5. ASSUME NEW n \in Nat, InLines(v, n) PROVE InLines(v, n)'
  BY <1>3, <1>4, <1>5 DEF InLines
<1>6. \E i \in 1 .. Len(lines'[v]) : lines'[v][i].seq = r.seq
  BY <1>3, <1>4
<1> QED
  BY <1>1, <1>3, <1>5, <1>6

LEMMA WriteSnapshotAccounts ==
  ASSUME TypeOK, NEW v \in Viewers, MissInv(v), WriteSnapshot(v)
  PROVE  MissInv(v)'
<1> DEFINE k == Len(lines[v]) + 1
           r == snapshot[v][k]
<1>1. /\ pc[v] = "snapshot" /\ pc'[v] = "snapshot" /\ snapshot'[v] = snapshot[v]
      /\ rx'[v] = rx[v] /\ overrun'[v] = overrun[v]
      /\ sent' = sent /\ push' = push /\ seq' = seq /\ WriteLine(v, r)
  BY DEF WriteSnapshot, publisherVars
<1>2. k \in 1 .. Len(snapshot[v]) /\ r \in Record /\ Len(lines[v]) \in Nat
  BY DEF WriteSnapshot, TypeOK
<1>3. /\ highest'[v] = r.seq
      /\ Len(lines'[v]) = k
      /\ lines'[v][k] = r
      /\ \A i \in 1 .. Len(lines[v]) : lines'[v][i] = lines[v][i]
      /\ \A n \in Nat : InLines(v, n) => InLines(v, n)'
  BY <1>1, <1>2, LineAdded
<1>4. Position(v)' /\ NoGaps(v)'
  BY <1>1 DEF MissInv, Position, NoGaps, Copying, Start
<1>5. Copied(v)'
  <2>1. \A i \in 1 .. Len(lines[v]) : i <= Len(snapshot[v]) => lines[v][i] = snapshot[v][i]
    BY <1>1 DEF MissInv, Copied, Copying
  <2>2. \A i \in 1 .. k : i = k \/ i \in 1 .. Len(lines[v])
    BY <1>2
  <2> HIDE DEF k
  <2> QED
    BY <1>1, <1>3, <2>1, <2>2 DEF Copied, Live
<1>6. HighestSource(v)'
  BY <1>1, <1>2, <1>3 DEF HighestSource, InSnapshot
<1>7. ASSUME SentInOrder' PROVE Accounted(v)'
  <2>1. Accounted(v)
    BY <1>1, <1>7 DEF MissInv, Copying, SentInOrder
  <2>2. \A n \in Nat : Waiting(v, n) => Waiting(v, n)'
    BY <1>1 DEF Waiting
  <2> QED
    BY <1>1, <1>3, <2>1, <2>2, AccountedStays
<1> QED
  BY <1>4, <1>5, <1>6, <1>7 DEF MissInv

\* The record handle_client skips: it is in the snapshot, or older than it.
LEMMA SkippedIsCopied ==
  ASSUME TypeOK, NEW v \in Viewers, Copying(v), NoGaps(v), HighestSource(v), SentInOrder,
         rx[v] \in 1 .. Len(sent), sent[rx[v]].seq <= highest[v], sent[rx[v]].seq >= Start(v)
  PROVE  InSnapshot(v, sent[rx[v]].seq)
<1> DEFINE n == sent[rx[v]].seq
<1>1. n \in Nat /\ Start(v) \in Nat /\ Len(snapshot[v]) \in Nat /\ highest[v] \in Nat \cup {-1}
  BY ViewerTypes
<1>2. highest[v] # -1
  BY <1>1
<1>3. ~Delivered(v, highest[v])
  <2> SUFFICES ASSUME NEW j \in 1 .. Len(sent), j < rx[v], sent[j].seq = highest[v] PROVE FALSE
    BY DEF Delivered
  <2>1. sent[j].seq < n
    BY DEF SentInOrder
  <2> QED
    BY <1>1, <2>1, SMTT(30)
<1>4. PICK m \in 1 .. Len(snapshot[v]) : snapshot[v][m].seq = highest[v]
  BY <1>2, <1>3 DEF HighestSource, InSnapshot
<1>5. highest[v] = Start(v) + m - 1
  BY <1>4 DEF NoGaps
<1> DEFINE i == n - Start(v) + 1
<1>6. i \in 1 .. Len(snapshot[v]) /\ Start(v) + i - 1 = n
  <2>1. Start(v) <= n /\ n <= Start(v) + m - 1
    BY <1>5
  <2>2. Start(v) \in Nat /\ n \in Nat /\ Len(snapshot[v]) \in Nat
    BY <1>1
  <2> HIDE DEF n
  <2> QED
    BY ONLY <2>1, <2>2, m \in 1 .. Len(snapshot[v]), SMTT(30)
<1>7. snapshot[v][i].seq = n
  <2>1. snapshot[v][i].seq = Start(v) + i - 1
    BY <1>6 DEF NoGaps
  <2> QED
    BY <1>6, <2>1
<1> QED
  BY <1>6, <1>7 DEF InSnapshot

LEMMA ReceiveRecordAccounts ==
  ASSUME TypeOK, NEW v \in Viewers, MissInv(v), ReceiveRecord(v)
  PROVE  MissInv(v)'
<1> DEFINE r == sent[rx[v]]
<1>1. /\ pc[v] = "recv" /\ pc'[v] \in {"recv", "flush"} /\ snapshot'[v] = snapshot[v]
      /\ rx'[v] = rx[v] + 1 /\ overrun'[v] = overrun[v]
      /\ sent' = sent /\ push' = push /\ seq' = seq
  BY DEF ReceiveRecord, publisherVars, TypeOK
<1>2. /\ rx[v] \in 1 .. Len(sent) /\ r \in Record /\ r.seq \in Nat
      /\ Len(sent) \in Nat /\ rx[v] \in Nat /\ Start(v) \in Nat
  BY ViewerTypes DEF ReceiveRecord, HasValue
<1>3. /\ Copying(v) /\ Copying(v)' /\ Live(v) /\ Live(v)' /\ Start(v)' = Start(v)
      /\ NoGaps(v) /\ Copied(v) /\ HighestSource(v)
  BY <1>1 DEF Copying, Live, MissInv, Start
<1>4. Position(v)' /\ NoGaps(v)'
  BY <1>1, <1>2, <1>3 DEF Position, NoGaps
<1>5. \A n \in Nat : Waiting(v, n) => Waiting(v, n)' \/ n = r.seq
  <2> SUFFICES ASSUME NEW n \in Nat, NEW i \in rx[v] .. Len(sent), sent[i].seq = n, i # rx[v]
               PROVE  Waiting(v, n)'
    BY DEF Waiting
  <2>1. i \in rx'[v] .. Len(sent')
    BY <1>1, <1>2
  <2> QED
    BY <1>1, <2>1 DEF Waiting
<1>6. SentInOrder' => SentInOrder /\ Accounted(v)
  BY <1>1, <1>3 DEF MissInv, SentInOrder
<1>7. CASE r.seq <= highest[v]
  <2>1. lines'[v] = lines[v] /\ highest'[v] = highest[v]
    BY <1>7 DEF ReceiveRecord
  <2>2. Copied(v)'
    BY <1>1, <1>3, <2>1 DEF Copied
  <2>3. HighestSource(v)'
    <3>1. Delivered(v, highest[v]) => Delivered(v, highest[v])'
      BY <1>1, <1>2, <2>1 DEF Delivered
    <3> QED
      BY <1>1, <1>3, <2>1, <3>1 DEF HighestSource, InSnapshot
  <2>4. ASSUME SentInOrder' PROVE Accounted(v)'
    <3>1. r.seq >= Start(v) => InSnapshot(v, r.seq)
      BY <1>2, <1>3, <1>6, <1>7, <2>4, SkippedIsCopied
    <3>2. \A n \in Nat : InLines(v, n) => InLines(v, n)'
      BY <2>1 DEF InLines
    <3>3. \A n \in Nat : n >= Start(v) /\ Waiting(v, n) => Waiting(v, n)' \/ InSnapshot(v, n)
      BY <1>5, <3>1
    <3> QED
      BY <1>1, <1>6, <2>4, <3>2, <3>3, AccountedStays
  <2> QED
    BY <1>3, <1>4, <2>2, <2>3, <2>4 DEF MissInv
<1>8. CASE ~(r.seq <= highest[v])
  <2>1. WriteLine(v, r)
    BY <1>8 DEF ReceiveRecord
  <2>2. /\ highest'[v] = r.seq
        /\ Len(lines'[v]) = Len(lines[v]) + 1
        /\ \A i \in 1 .. Len(lines[v]) : lines'[v][i] = lines[v][i]
        /\ \A n \in Nat : InLines(v, n) => InLines(v, n)'
        /\ \E i \in 1 .. Len(lines'[v]) : lines'[v][i].seq = r.seq
    BY <1>2, <2>1, LineAdded
  <2>3. Copied(v)'
    <3>1. /\ Len(snapshot[v]) <= Len(lines[v])
          /\ \A i \in 1 .. Len(lines[v]) : i <= Len(snapshot[v]) => lines[v][i] = snapshot[v][i]
          /\ Len(lines[v]) \in Nat /\ Len(snapshot[v]) \in Nat
      BY <1>3, ViewerTypes DEF Copied
    <3>2. \A i \in 1 .. Len(lines'[v]) : i <= Len(snapshot[v]) => i \in 1 .. Len(lines[v])
      BY <2>2, <3>1
    <3>3. Len(snapshot[v]) <= Len(lines'[v])
      BY <2>2, <3>1
    <3> QED
      BY <1>1, <2>2, <3>1, <3>2, <3>3 DEF Copied
  <2>4. HighestSource(v)'
    <3>1. rx[v] \in 1 .. Len(sent') /\ rx[v] < rx'[v] /\ sent'[rx[v]].seq = highest'[v]
      BY <1>1, <1>2, <2>2
    <3> QED
      BY <3>1 DEF HighestSource, Delivered
  <2>5. ASSUME SentInOrder' PROVE Accounted(v)'
    <3>1. \A n \in Nat : Waiting(v, n) => Waiting(v, n)' \/ InLines(v, n)'
      BY <1>5, <2>2 DEF InLines
    <3> QED
      BY <1>1, <1>6, <2>2, <2>5, <3>1, AccountedStays
  <2> QED
    BY <1>3, <1>4, <2>3, <2>4, <2>5 DEF MissInv
<1> QED
  BY <1>7, <1>8

\* Lag takes from the channel only what it adds to `overrun`.
LEMMA ReceiveLaggedAccounts ==
  ASSUME TypeOK, NEW v \in Viewers, MissInv(v), ReceiveLagged(v)
  PROVE  MissInv(v)'
<1>1. /\ pc'[v] = pc[v] /\ snapshot'[v] = snapshot[v] /\ lines'[v] = lines[v]
      /\ highest'[v] = highest[v] /\ rx'[v] = Oldest(sent)
      /\ overrun'[v] = overrun[v] \cup {sent[i].seq : i \in rx[v] .. Oldest(sent) - 1}
      /\ sent' = sent /\ push' = push /\ seq' = seq /\ pc[v] = "recv"
  BY DEF ReceiveLagged, publisherVars, TypeOK
<1>2. /\ Len(sent) \in Nat /\ rx[v] \in Nat \ {0} /\ Oldest(sent) \in Nat
      /\ rx[v] < Oldest(sent) /\ Oldest(sent) <= Len(sent)
  BY ViewerTypes, DepthAssumption DEF ReceiveLagged, HasLagged, Oldest
<1>3. Position(v)' /\ NoGaps(v)' /\ Copied(v)'
  <2>1. Position(v)'
    BY <1>1, <1>2 DEF Position
  <2>2. NoGaps(v)' /\ Copied(v)'
    BY <1>1 DEF MissInv, NoGaps, Copied, Copying, Live, Start
  <2> QED
    BY <2>1, <2>2
<1>4. HighestSource(v)'
  <2>1. Delivered(v, highest[v]) => Delivered(v, highest[v])'
    BY <1>1, <1>2 DEF Delivered
  <2> QED
    BY <1>1, <2>1 DEF MissInv, HighestSource, Copying, InSnapshot
<1>5. ASSUME SentInOrder' PROVE Accounted(v)'
  <2>1. Accounted(v)
    BY <1>1, <1>5 DEF MissInv, Copying, SentInOrder
  <2>2. \A n \in Nat : InLines(v, n) => InLines(v, n)'
    BY <1>1 DEF InLines
  <2>3. ASSUME NEW n \in Nat, NEW i \in rx[v] .. Len(sent), sent[i].seq = n
        PROVE  Waiting(v, n)' \/ n \in overrun'[v]
    <3>1. i \in rx[v] .. Oldest(sent) - 1 \/ i \in Oldest(sent) .. Len(sent)
      BY <1>2
    <3> QED
      BY <1>1, <2>3, <3>1 DEF Waiting
  <2>4. \A n \in Nat : Waiting(v, n) => Waiting(v, n)' \/ n \in overrun'[v]
    BY <2>3 DEF Waiting
  <2> QED
    BY <1>1, <2>1, <2>2, <2>4, AccountedStays
<1> QED
  BY <1>3, <1>4, <1>5 DEF MissInv

\* The steps that only move the task on, or the viewer.
LEMMA OtherStepsAccount ==
  ASSUME TypeOK, NEW v \in Viewers, ViewerInv(v), MissInv(v),
         \/ Subscribe(v) \/ WriteMarker(v) \/ Flush(v) \/ Spill(v) \/ Leave(v)
         \/ WriteFails(v)
  PROVE  MissInv(v)'
<1>1. /\ snapshot'[v] = snapshot[v] /\ lines'[v] = lines[v] /\ highest'[v] = highest[v]
      /\ overrun'[v] = overrun[v] /\ sent' = sent /\ push' = push /\ seq' = seq
      /\ rx'[v] = IF pc[v] = "away" THEN Len(sent) + 1 ELSE rx[v]
      /\ Copying(v)' => Copying(v) /\ rx'[v] = rx[v]
      /\ Live(v)' => Live(v) \/ Len(lines[v]) = Len(snapshot[v])
  BY DEF Subscribe, WriteMarker, Flush, Spill, Leave, WriteFails, publisherVars, TypeOK, Tip,
         Copying, Live, Subscribed
<1>2. Len(sent) \in Nat /\ Len(lines[v]) \in Nat
  BY ViewerTypes
<1>3. Position(v)' /\ NoGaps(v)' /\ Copied(v)' /\ HighestSource(v)'
  BY <1>1, <1>2 DEF MissInv, Position, NoGaps, Copied, HighestSource, InSnapshot, Delivered, Start
<1>4. ASSUME Copying(v)', SentInOrder' PROVE Accounted(v)'
  <2>1. Accounted(v)
    BY <1>1, <1>4 DEF MissInv, SentInOrder
  <2>2. \A n \in Nat : InLines(v, n) => InLines(v, n)'
    BY <1>1 DEF InLines
  <2>3. \A n \in Nat : Waiting(v, n) => Waiting(v, n)'
    BY <1>1, <1>4 DEF Waiting
  <2> QED
    BY <1>1, <2>1, <2>2, <2>3, AccountedStays
<1> QED
  BY <1>3, <1>4 DEF MissInv

\* A broadcast reaches the receiver of whoever is subscribed.
LEMMA PushAccounts ==
  ASSUME TypeOK, NEW v \in Viewers, MissInv(v), NEW c \in Conns, PushStep(c)
  PROVE  MissInv(v)'
<1>1. /\ pc'[v] = pc[v] /\ rx'[v] = rx[v] /\ snapshot'[v] = snapshot[v]
      /\ highest'[v] = highest[v] /\ lines'[v] = lines[v] /\ overrun'[v] = overrun[v]
  BY DEF PushStep, Store, Send, clientVars
<1>2. Len(sent) \in Nat /\ sent \in Seq(Record)
  BY ViewerTypes
<1>3. CASE Store(c)
  <2>1. sent' = sent /\ \A d \in Conns : push'[d] = "done" => push[d] = "done" /\ seq'[d] = seq[d]
    BY <1>3 DEF Store, TypeOK
  <2> QED
    BY <1>1, <1>2, <2>1, MissKept
<1>4. CASE Send(c)
  <2> DEFINE r == [seq |-> seq[c], conn |-> c]
  <2>1. /\ seq' = seq
        /\ \A d \in Conns : push'[d] = "done" => push[d] = "done" \/ d = c
    BY <1>4 DEF Send, TypeOK
  <2>2. CASE \E w \in Viewers : Subscribed(w)
    <3>1. r \in Record
      BY DEF Record, TypeOK
    <3>2. sent' = Append(sent, r)
      BY <1>4, <2>2 DEF Send, SentTo
    <3>3. /\ Len(sent') = Len(sent) + 1 /\ sent'[Len(sent) + 1] = r
          /\ \A i \in 1 .. Len(sent) : sent'[i] = sent[i]
      BY <1>2, <3>1, <3>2
    <3>4. Len(sent) + 1 \in Len(sent) + 1 .. Len(sent') /\ sent'[Len(sent) + 1].seq = seq'[c]
      BY <1>2, <2>1, <3>3
    <3>5. Len(sent') \in Nat /\ Len(sent) <= Len(sent')
      BY <1>2, <3>3
    <3> HIDE DEF r
    <3> QED
      BY <1>1, <2>1, <3>3, <3>4, <3>5, MissKept
  <2>3. CASE ~ \E w \in Viewers : Subscribed(w)
    <3>1. sent' = sent
      BY <1>4, <2>3 DEF Send, SentTo
    <3>2. ~Copying(v)
      BY <2>3 DEF Copying, Subscribed
    <3> QED
      BY <1>1, <1>2, <2>1, <3>1, <3>2, MissKept
  <2> QED
    BY <2>2, <2>3
<1> QED
  BY <1>3, <1>4 DEF PushStep

----------------------------------------------------------------------------

AllAccounted == \A v \in Viewers : MissInv(v)

LEMMA AllAccountedInvariant == Safely => []AllAccounted
<1>1. Init => AllAccounted
  <2> SUFFICES ASSUME Init, NEW v \in Viewers PROVE MissInv(v)
    BY DEF AllAccounted
  <2>1. /\ pc[v] = "away" /\ rx[v] = 1 /\ Len(sent) = 0
    BY DEF Init
  <2> QED
    BY <2>1 DEF MissInv, Position, NoGaps, Copied, HighestSource, Copying, Live
<1>2. TypeOK /\ LogIsWindow /\ Numbered /\ ViewersInv /\ AllAccounted /\ [Next]_vars
        => AllAccounted'
  <2> SUFFICES ASSUME TypeOK, LogIsWindow, Numbered, ViewersInv, AllAccounted, [Next]_vars,
                      NEW v \in Viewers
               PROVE  MissInv(v)'
    BY DEF AllAccounted
  <2>0. MissInv(v) /\ ViewerInv(v) /\ Len(sent) \in Nat
    BY ViewerTypes DEF AllAccounted, ViewersInv
  <2>1. CASE \E c \in Conns : PushStep(c)
    BY <2>0, <2>1, PushAccounts
  <2>2. CASE UNCHANGED vars
    BY <2>0, <2>2, MissKept DEF vars, clientVars, publisherVars
  <2>3. ASSUME NEW w \in Viewers, Subscribe(w) \/ ClientStep(w) \/ Spill(w) \/ Leave(w)
        PROVE  MissInv(v)'
    <3>1. CASE v = w
      <4>1. CASE TakeSnapshot(v)
        BY <2>0, <4>1, SnapshotAccounts
      <4>2. CASE WriteSnapshot(v)
        BY <2>0, <4>2, WriteSnapshotAccounts
      <4>3. CASE ReceiveRecord(v)
        BY <2>0, <4>3, ReceiveRecordAccounts
      <4>4. CASE ReceiveLagged(v)
        BY <2>0, <4>4, ReceiveLaggedAccounts
      <4>5. CASE \/ Subscribe(v) \/ WriteMarker(v) \/ Flush(v) \/ Spill(v) \/ Leave(v)
                 \/ WriteFails(v)
        BY <2>0, <4>5, OtherStepsAccount
      <4> QED
        BY <2>3, <3>1, <4>1, <4>2, <4>3, <4>4, <4>5 DEF ClientStep
    <3>2. CASE v # w
      <4>1. /\ pc'[v] = pc[v] /\ rx'[v] = rx[v] /\ snapshot'[v] = snapshot[v]
            /\ highest'[v] = highest[v] /\ lines'[v] = lines[v]
        BY <2>3, <3>2, StepOfAnother
      <4>2. /\ overrun'[v] = overrun[v] /\ sent' = sent /\ push' = push /\ seq' = seq
        BY <2>3, <3>2
        DEF TypeOK, ClientStep, Subscribe, TakeSnapshot, WriteSnapshot, WriteMarker, Flush, Spill,
            ReceiveRecord, ReceiveLagged, Leave, WriteFails, publisherVars
      <4> QED
        BY <2>0, <4>1, <4>2, MissKept
    <3> QED
      BY <3>1, <3>2
  <2> QED
    BY <2>1, <2>2, <2>3 DEF Next
<1> QED
  BY <1>1, <1>2, SafelyTyped, SafelyWindow, NumberedInvariant, ViewersInvariant, PTL DEF Safely

\* As long as broadcasts have kept the order of the numbers, a viewer with its
\* snapshot behind it misses nothing it did not lag past: neither a record
\* pushed between subscribing and copying, nor one whose push straddles
\* either, nor one that handle_client skips.
THEOREM OnlyLagLoses == Spec => []MissesOnlyWhenSlowInOrder
<1>1. TypeOK /\ AllAccounted => MissesOnlyWhenSlowInOrder
  <2> SUFFICES ASSUME TypeOK, AllAccounted, SentInOrder, NEW v \in Viewers, Live(v),
                      NEW n \in Missed(v)
               PROVE  FALSE
    BY DEF MissesOnlyWhenSlowInOrder, MissesOnlyWhenSlow
  <2>1. /\ n \in {seq[c] : c \in {d \in Conns : push[d] = "done"}}
        /\ n >= Start(v)
        /\ n \notin {r.seq : r \in Range(lines[v])}
        /\ n \notin {sent[i].seq : i \in rx[v] .. Len(sent)}
        /\ n \notin overrun[v]
    BY DEF Missed
  <2>2. PICK c \in Conns : push[c] = "done" /\ n = seq[c]
    BY <2>1
  <2>3. Copying(v) /\ MissInv(v)
    BY DEF Live, Copying, AllAccounted
  <2>4. InSnapshot(v, n) \/ InLines(v, n)
    BY <2>1, <2>2, <2>3 DEF MissInv, Accounted, Waiting
  <2>5. \A i \in 1 .. Len(lines[v]) : lines[v][i] \in Range(lines[v])
    <3>1. lines[v] \in Seq(Record)
      BY DEF TypeOK
    <3> QED
      BY <3>1 DEF Range
  <2>6. ~InLines(v, n)
    BY <2>1, <2>5 DEF InLines
  <2>7. InSnapshot(v, n) => InLines(v, n)
    <3>1. Len(snapshot[v]) \in Nat /\ Len(lines[v]) \in Nat
      BY ViewerTypes
    <3>2. /\ Len(snapshot[v]) <= Len(lines[v])
          /\ \A i \in 1 .. Len(lines[v]) : i <= Len(snapshot[v]) => lines[v][i] = snapshot[v][i]
      BY <2>3 DEF MissInv, Copied
    <3> QED
      BY <3>1, <3>2 DEF InSnapshot, InLines
  <2> QED
    BY <2>4, <2>6, <2>7
<1> QED
  BY <1>1, SpecIsSafe, SafelyTyped, AllAccountedInvariant, PTL

============================================================================
