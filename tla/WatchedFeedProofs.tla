------------------------- MODULE WatchedFeedProofs -------------------------
(***************************************************************************)
(* Proofs about WatchedFeed, for every log capacity, channel depth, view   *)
(* capacity and set of connections and viewers: what the feed sends is     *)
(* what TuiView takes for granted, and the note in its header is about lag *)
(* as long as broadcasts keep their order.                                 *)
(***************************************************************************)
EXTENDS WatchedFeed, AdminFeedProofs, FiniteSetTheorems

\* A step of the whole is a step of the feed or leaves it alone, so that what
\* is invariant in the feed is invariant here.
LEMMA WatchedIsSafe == WatchedSpec => Safely
<1>1. WatchedInit => Init
  BY DEF WatchedInit
<1>2. [WatchedNext]_watchedVars => [Next]_vars
  BY DEF WatchedNext, Feed, Watch, Deliver, watchedVars, vars
<1> QED
  BY <1>1, <1>2, PTL DEF WatchedSpec, Safely

----------------------------------------------------------------------------
(* More about the feed *)

\* Every number below next_seq names a connection, and none is above their
\* number.
Recorded == {c \in Conns : push[c] # "idle"}
EveryNumberNamed ==
  /\ \A n \in Nat : n < log.next_seq => \E c \in Recorded : seq[c] = n
  /\ log.next_seq = Cardinality(Recorded)

\* What a viewer was written after its snapshot came out of the channel, and
\* what left the BufWriter was written.
FromTheChannel(v) ==
  /\ \A i \in 1 .. Len(lines[v]) : i > Len(snapshot[v]) => Delivered(v, lines[v][i].seq)
  /\ flushed[v] <= Len(lines[v])
  /\ pc[v] = "closed" => gone[v]

LEMMA EveryNumberNamedInvariant == Safely => []EveryNumberNamed
<1>1. Init => EveryNumberNamed
  <2> SUFFICES ASSUME Init PROVE EveryNumberNamed
    OBVIOUS
  <2>1. Recorded = {} /\ log.next_seq = 0
    BY DEF Init, NewLog, Recorded
  <2> QED
    BY <2>1, FS_EmptySet DEF EveryNumberNamed
<1>2. TypeOK /\ EveryNumberNamed /\ [Next]_vars => EveryNumberNamed'
  <2> SUFFICES ASSUME TypeOK, EveryNumberNamed, [Next]_vars PROVE EveryNumberNamed'
    OBVIOUS
  <2>1. ASSUME NEW c \in Conns, Store(c) PROVE EveryNumberNamed'
    <3>1. /\ log'.next_seq = log.next_seq + 1 /\ log.next_seq \in Nat
          /\ push'[c] = "stored" /\ push[c] = "idle" /\ seq'[c] = log.next_seq
          /\ \A d \in Conns : d # c => push'[d] = push[d] /\ seq'[d] = seq[d]
      BY <2>1 DEF Store, Pushed, TypeOK
    <3>2. Recorded' = Recorded \cup {c} /\ c \notin Recorded
      BY <3>1 DEF Recorded
    <3>3. IsFiniteSet(Recorded)
      BY ConnsAssumption, FS_Subset DEF Recorded
    <3>4. Cardinality(Recorded') = Cardinality(Recorded) + 1
      BY <3>2, <3>3, FS_AddElement
    <3>5. ASSUME NEW n \in Nat, n < log'.next_seq
          PROVE  \E d \in Recorded' : seq'[d] = n
      <4>1. CASE n = log.next_seq
        BY <3>1, <3>2, <4>1
      <4>2. CASE n < log.next_seq
        <5>1. PICK d \in Recorded : seq[d] = n
          BY <4>2 DEF EveryNumberNamed
        <5>2. d \in Conns /\ d # c
          BY <3>2 DEF Recorded
        <5> QED
          BY <3>1, <3>2, <5>1, <5>2
      <4> QED
        BY <3>1, <3>5, <4>1, <4>2
    <3> QED
      BY <3>1, <3>4, <3>5 DEF EveryNumberNamed
  <2>2. ASSUME NEW c \in Conns, Send(c) PROVE EveryNumberNamed'
    <3>1. log' = log /\ seq' = seq /\ push' = [push EXCEPT ![c] = "done"] /\ push[c] = "stored"
      BY <2>2 DEF Send
    <3>2. Recorded' = Recorded
      BY <3>1 DEF Recorded, TypeOK
    <3> QED
      BY <3>1, <3>2 DEF EveryNumberNamed
  <2>3. CASE UNCHANGED publisherVars
    BY <2>3 DEF publisherVars, EveryNumberNamed, Recorded
  <2>4. \/ \E c \in Conns : Store(c) \/ Send(c)
        \/ UNCHANGED publisherVars
    BY DEF Next, PushStep, ClientStep, Subscribe, TakeSnapshot, WriteSnapshot, WriteMarker,
           Flush, Spill, ReceiveRecord, ReceiveLagged, Leave, WriteFails, vars, publisherVars
  <2> QED
    BY <2>1, <2>2, <2>3, <2>4
<1> QED
  BY <1>1, <1>2, SafelyTyped, PTL DEF Safely

\* Every number in the feed is that of a connection, and below next_seq.
LEMMA NumbersAreBounded ==
  ASSUME TypeOK, EveryNumberNamed, Numbered, AllGenuine, NEW v \in Viewers,
         NEW i \in 1 .. Len(lines[v])
  PROVE  lines[v][i].seq \in Nat /\ lines[v][i].seq < log.next_seq
         /\ log.next_seq \in Nat /\ Cardinality(Conns) \in Nat
         /\ log.next_seq <= Cardinality(Conns)
<1>1. lines[v][i] \in Record
  BY DEF TypeOK
<1>2. lines[v][i].conn \in Conns /\ lines[v][i].seq \in Nat
  BY <1>1 DEF Record
<1>3. Genuine(lines[v][i], push, seq)
  BY DEF AllGenuine, AllGenuineIn
<1>4. Recorded \subseteq Conns
  BY DEF Recorded
<1>5. /\ Cardinality(Recorded) <= Cardinality(Conns)
      /\ Cardinality(Conns) \in Nat
  BY <1>4, ConnsAssumption, FS_Subset, FS_CardinalityType
<1>6. lines[v][i].seq < log.next_seq
  BY <1>2, <1>3 DEF Genuine, Numbered
<1>7. log.next_seq \in Nat
  BY DEF TypeOK
<1> QED
  BY <1>2, <1>5, <1>6, <1>7 DEF EveryNumberNamed

----------------------------------------------------------------------------
(* What a viewer was written *)

\* Lines are only ever added, and none returns to the BufWriter.
LEMMA LinesGrow ==
  ASSUME TypeOK, [Next]_vars, NEW v \in Viewers, flushed[v] <= Len(lines[v])
  PROVE  /\ Len(lines[v]) \in Nat /\ Len(lines'[v]) \in Nat /\ Len(lines[v]) <= Len(lines'[v])
         /\ \A i \in 1 .. Len(lines[v]) : lines'[v][i] = lines[v][i]
         /\ flushed[v] \in Nat /\ flushed[v] <= flushed'[v] /\ flushed'[v] <= Len(lines'[v])
<1>1. lines[v] \in Seq(Record) /\ Len(lines[v]) \in Nat /\ flushed[v] \in Nat
  BY DEF TypeOK
<1>2. ASSUME lines'[v] = lines[v], flushed'[v] = flushed[v] \/ flushed'[v] = Len(lines[v])
                                     \/ flushed'[v] \in flushed[v] + 1 .. Len(lines[v])
      PROVE  /\ Len(lines'[v]) \in Nat /\ Len(lines[v]) <= Len(lines'[v])
             /\ \A i \in 1 .. Len(lines[v]) : lines'[v][i] = lines[v][i]
             /\ flushed[v] <= flushed'[v] /\ flushed'[v] <= Len(lines'[v])
  BY <1>1, <1>2
<1>3. ASSUME NEW r \in Record, WriteLine(v, r), flushed'[v] = flushed[v]
      PROVE  /\ Len(lines'[v]) \in Nat /\ Len(lines[v]) <= Len(lines'[v])
             /\ \A i \in 1 .. Len(lines[v]) : lines'[v][i] = lines[v][i]
             /\ flushed[v] <= flushed'[v] /\ flushed'[v] <= Len(lines'[v])
  BY <1>1, <1>3, LineAdded
<1>4. CASE UNCHANGED <<lines, flushed>>
  BY <1>1, <1>2, <1>4
<1>5. ASSUME NEW w \in Viewers, Subscribe(w) \/ ClientStep(w) \/ Spill(w) \/ Leave(w)
      PROVE  /\ Len(lines'[v]) \in Nat /\ Len(lines[v]) <= Len(lines'[v])
             /\ \A i \in 1 .. Len(lines[v]) : lines'[v][i] = lines[v][i]
             /\ flushed[v] <= flushed'[v] /\ flushed'[v] <= Len(lines'[v])
  <2>1. CASE v # w
    BY <1>2, <1>5, <2>1, StepOfAnother
  <2>2. CASE v = w /\ WriteSnapshot(v)
    <3>1. snapshot[v] \in Seq(Record) /\ Len(lines[v]) + 1 \in 1 .. Len(snapshot[v])
      BY <1>1, <2>2 DEF WriteSnapshot, TypeOK
    <3>2. snapshot[v][Len(lines[v]) + 1] \in Record
      BY <3>1
    <3> QED
      BY <1>3, <2>2, <3>2 DEF WriteSnapshot
  <2>3. CASE v = w /\ ReceiveRecord(v)
    <3>1. rx[v] \in 1 .. Len(sent) /\ sent \in Seq(Record)
      BY <2>3 DEF ReceiveRecord, HasValue, TypeOK
    <3>2. sent[rx[v]] \in Record
      BY <3>1
    <3> QED
      BY <1>2, <1>3, <2>3, <3>2 DEF ReceiveRecord
  <2>4. CASE v = w /\ (Flush(v) \/ Spill(v))
    BY <1>2, <2>4 DEF Flush, Spill, TypeOK
  <2>5. CASE v = w /\ (\/ Subscribe(v) \/ TakeSnapshot(v) \/ WriteMarker(v) \/ ReceiveLagged(v)
                       \/ Leave(v) \/ WriteFails(v))
    BY <1>2, <2>5 DEF Subscribe, TakeSnapshot, WriteMarker, ReceiveLagged, Leave, WriteFails
  <2> QED
    BY <1>5, <2>1, <2>2, <2>3, <2>4, <2>5 DEF ClientStep
<1>6. \/ \E w \in Viewers : Subscribe(w) \/ ClientStep(w) \/ Spill(w) \/ Leave(w)
      \/ UNCHANGED <<lines, flushed>>
  BY DEF Next, PushStep, Store, Send, vars, clientVars
<1> QED
  BY <1>1, <1>4, <1>5, <1>6

AllFromTheChannel == \A v \in Viewers : FromTheChannel(v)

LEMMA FromTheChannelInvariant == Safely => []AllFromTheChannel
<1>1. Init => AllFromTheChannel
  BY DEF Init, AllFromTheChannel, FromTheChannel
<1>2. TypeOK /\ TypeOK' /\ ViewersInv /\ AllFromTheChannel /\ [Next]_vars => AllFromTheChannel'
  <2> SUFFICES ASSUME TypeOK, TypeOK', ViewersInv, AllFromTheChannel, [Next]_vars,
                      NEW v \in Viewers
               PROVE  FromTheChannel(v)'
    BY DEF AllFromTheChannel
  <2>0. FromTheChannel(v) /\ ViewerInv(v)
    BY DEF AllFromTheChannel, ViewersInv
  <2>1. /\ Len(lines[v]) \in Nat /\ Len(lines'[v]) \in Nat
        /\ \A i \in 1 .. Len(lines[v]) : lines'[v][i] = lines[v][i]
        /\ flushed'[v] <= Len(lines'[v])
    BY <2>0, LinesGrow DEF FromTheChannel
  <2>2. /\ rx[v] \in Nat /\ rx'[v] \in Nat /\ Len(sent) \in Nat /\ Len(sent') \in Nat
        /\ \A i \in 1 .. Len(lines[v]) : lines[v][i].seq \in Nat
    <3>1. lines[v] \in Seq(Record)
      BY DEF TypeOK
    <3>2. \A i \in 1 .. Len(lines[v]) : lines[v][i] \in Record
      BY <3>1
    <3>3. \A i \in 1 .. Len(lines[v]) : lines[v][i].seq \in Nat
      BY <3>2 DEF Record
    <3>4. rx[v] \in Nat /\ rx'[v] \in Nat
      BY DEF TypeOK
    <3>5. sent \in Seq(Record) /\ sent' \in Seq(Record')
      BY DEF TypeOK
    <3> QED
      BY <3>3, <3>4, <3>5
  <2>3. ASSUME Len(lines'[v]) = Len(lines[v]), snapshot'[v] = snapshot[v], rx[v] <= rx'[v],
               Len(sent) <= Len(sent'), \A i \in 1 .. Len(sent) : sent'[i] = sent[i],
               pc'[v] = "closed" => gone'[v]
        PROVE  FromTheChannel(v)'
    <3>1. ASSUME NEW i \in 1 .. Len(lines'[v]), i > Len(snapshot'[v])
          PROVE  Delivered(v, lines[v][i].seq)'
      <4>1. i \in 1 .. Len(lines[v]) /\ i > Len(snapshot[v])
        BY <2>3, <3>1
      <4>2. Delivered(v, lines[v][i].seq) /\ lines[v][i].seq \in Nat
        BY <2>0, <2>2, <4>1 DEF FromTheChannel
      <4>3. PICK j \in 1 .. Len(sent) : j < rx[v] /\ sent[j].seq = lines[v][i].seq
        BY <4>2 DEF Delivered
      <4>4. j \in 1 .. Len(sent') /\ j < rx'[v]
        BY <2>2, <2>3, <4>3
      <4>5. sent'[j].seq = lines'[v][i].seq
        BY <2>1, <2>3, <4>1, <4>3
      <4> QED
        BY <4>4, <4>5 DEF Delivered
    <3> QED
      BY <2>1, <2>3, <3>1 DEF FromTheChannel
  <2>4. CASE \E c \in Conns : PushStep(c)
    <3>1. /\ lines' = lines /\ snapshot' = snapshot /\ rx' = rx /\ pc' = pc /\ gone' = gone
      BY <2>4 DEF PushStep, Store, Send, clientVars
    <3>2. Len(sent) <= Len(sent') /\ \A i \in 1 .. Len(sent) : sent'[i] = sent[i]
      <4>1. PICK c \in Conns : Store(c) \/ Send(c)
        BY <2>4 DEF PushStep
      <4>2. CASE Store(c)
        BY <2>2, <4>2 DEF Store
      <4>3. CASE Send(c)
        <5>1. sent' = sent \/ sent' = Append(sent, [seq |-> seq[c], conn |-> c])
          BY <4>3 DEF Send, SentTo
        <5>2. sent \in Seq(Record) /\ [seq |-> seq[c], conn |-> c] \in Record
          BY DEF TypeOK, Record
        <5> QED
          BY <5>1, <5>2
      <4> QED
        BY <4>1, <4>2, <4>3
    <3> QED
      BY <2>0, <2>2, <2>3, <3>1, <3>2 DEF FromTheChannel
  <2>5. CASE UNCHANGED vars
    BY <2>0, <2>2, <2>3, <2>5 DEF vars, clientVars, publisherVars, FromTheChannel
  <2>6. ASSUME NEW w \in Viewers, Subscribe(w) \/ ClientStep(w) \/ Spill(w) \/ Leave(w)
        PROVE  FromTheChannel(v)'
    <3>0. sent' = sent
      BY <2>6 DEF ClientStep, Subscribe, TakeSnapshot, WriteSnapshot, WriteMarker, Flush, Spill,
            ReceiveRecord, ReceiveLagged, Leave, WriteFails, publisherVars
    <3>1. CASE v # w
      <4>1. /\ pc'[v] = pc[v] /\ rx'[v] = rx[v] /\ snapshot'[v] = snapshot[v]
            /\ lines'[v] = lines[v]
        BY <2>6, <3>1, StepOfAnother
      <4>2. gone'[v] = gone[v]
        BY <2>6, <3>1
        DEF TypeOK, ClientStep, Subscribe, TakeSnapshot, WriteSnapshot, WriteMarker, Flush,
            Spill, ReceiveRecord, ReceiveLagged, Leave, WriteFails
      <4> QED
        BY <2>0, <2>2, <2>3, <3>0, <4>1, <4>2 DEF FromTheChannel
    <3>2. CASE v = w /\ (TakeSnapshot(v) \/ Subscribe(v))
      <4>1. Len(lines'[v]) = 0 /\ pc'[v] # "closed"
        BY <2>0, <3>2, SMTT(30) DEF TakeSnapshot, Subscribe, ViewerInv, NothingShownYet, TypeOK
      <4> QED
        BY <2>1, <4>1 DEF FromTheChannel
    <3>3. CASE v = w /\ WriteSnapshot(v)
      <4>1. Len(lines'[v]) <= Len(snapshot'[v]) /\ Len(snapshot'[v]) \in Nat
        <5>1. lines'[v] = Append(lines[v], snapshot[v][Len(lines[v]) + 1])
          BY <3>3 DEF WriteSnapshot, WriteLine, TypeOK
        <5>2. Len(lines[v]) < Len(snapshot[v]) /\ Len(snapshot[v]) \in Nat
              /\ snapshot'[v] = snapshot[v] /\ lines[v] \in Seq(Record)
          BY <3>3 DEF WriteSnapshot, TypeOK
        <5> QED
          BY <5>1, <5>2
      <4>2. pc'[v] # "closed"
        BY <3>3 DEF WriteSnapshot
      <4> QED
        BY <2>1, <4>1, <4>2 DEF FromTheChannel
    <3>4. CASE v = w /\ ReceiveRecord(v)
      <4>1. /\ rx'[v] = rx[v] + 1 /\ snapshot'[v] = snapshot[v] /\ rx[v] \in 1 .. Len(sent)
            /\ pc[v] = "recv" /\ pc'[v] \in {"recv", "flush"}
        BY <3>4, SMTT(30) DEF ReceiveRecord, HasValue, TypeOK
      <4>2. CASE sent[rx[v]].seq <= highest[v]
        BY <2>2, <2>3, <3>0, <3>4, <4>1, <4>2 DEF ReceiveRecord
      <4>3. CASE ~(sent[rx[v]].seq <= highest[v])
        <5>1. sent[rx[v]] \in Record
          BY <4>1, ViewerTypes
        <5>2. WriteLine(v, sent[rx[v]])
          BY <3>4, <4>3 DEF ReceiveRecord
        <5>3. /\ Len(lines'[v]) = Len(lines[v]) + 1
              /\ lines'[v][Len(lines[v]) + 1] = sent[rx[v]]
          BY <5>1, <5>2, LineAdded
        <5>4. ASSUME NEW i \in 1 .. Len(lines'[v]), i > Len(snapshot'[v])
              PROVE  \E j \in 1 .. Len(sent') : j < rx'[v] /\ sent'[j].seq = lines'[v][i].seq
          <6>1. CASE i = Len(lines[v]) + 1
            <7>1. rx[v] \in 1 .. Len(sent') /\ rx[v] < rx'[v]
              BY <2>2, <3>0, <4>1
            <7>2. sent'[rx[v]].seq = lines'[v][i].seq
              BY <3>0, <4>1, <5>3, <6>1
            <7> QED
              BY <7>1, <7>2
          <6>2. CASE i \in 1 .. Len(lines[v])
            <7>1. Delivered(v, lines[v][i].seq)
              BY <2>0, <4>1, <5>4, <6>2 DEF FromTheChannel
            <7> QED
              BY <2>1, <2>2, <3>0, <4>1, <6>2, <7>1, SMTT(30) DEF Delivered
          <6> QED
            BY <2>1, <5>3, <5>4, <6>1, <6>2
        <5>5. \A i \in 1 .. Len(lines'[v]) :
                i > Len(snapshot'[v]) => Delivered(v, lines[v][i].seq)'
          BY <5>4 DEF Delivered
        <5> QED
          BY <2>1, <4>1, <5>5 DEF FromTheChannel
      <4> QED
        BY <4>2, <4>3
    <3>5. CASE v = w /\ ReceiveLagged(v)
      <4>1. /\ rx'[v] = Oldest(sent) /\ rx[v] < Oldest(sent) /\ Oldest(sent) \in Nat
            /\ lines' = lines /\ snapshot' = snapshot /\ pc' = pc /\ gone' = gone
        BY <2>2, <3>5, DepthAssumption DEF ReceiveLagged, HasLagged, Oldest, TypeOK
      <4> QED
        BY <2>0, <2>2, <2>3, <3>0, <4>1 DEF FromTheChannel
    <3>6. CASE v = w /\ (WriteMarker(v) \/ Flush(v) \/ Spill(v) \/ Leave(v) \/ WriteFails(v))
      <4>1. /\ lines' = lines /\ snapshot' = snapshot /\ rx' = rx
            /\ pc'[v] = "closed" => gone'[v]
        BY <2>0, <3>6
        DEF WriteMarker, Flush, Spill, Leave, WriteFails, TypeOK, FromTheChannel
      <4> QED
        BY <2>2, <2>3, <3>0, <4>1
    <3> QED
      BY <2>6, <3>1, <3>2, <3>3, <3>4, <3>5, <3>6 DEF ClientStep
  <2> QED
    BY <2>4, <2>5, <2>6 DEF Next
<1> QED
  BY <1>1, <1>2, SafelyTyped, ViewersInvariant, PTL DEF Safely

----------------------------------------------------------------------------
(* What the terminal UI received *)

View == [seq : Nat, kind : {"row"}]
UIRow(i) == [seq |-> lines[Watcher][i].seq, kind |-> "row"]

\* The view keeps its newest row, whatever it evicts for it.
LEMMA NewestIsLast ==
  ASSUME NEW q \in Seq(View), NEW r \in View
  PROVE  LET n == UI!Newest(Append(q, r))
         IN  n \in Seq(View) /\ n # <<>> /\ n[Len(n)] = r
<1> DEFINE a == Append(q, r)
<1>1. a \in Seq(View) /\ Len(a) \in Nat \ {0} /\ a[Len(a)] = r
  OBVIOUS
<1>2. CASE Len(a) <= ViewCapacity
  BY <1>1, <1>2, ViewAssumption DEF UI!Newest
<1>3. CASE Len(a) > ViewCapacity
  <2> DEFINE m == Len(a) - ViewCapacity + 1
             n == SubSeq(a, m, Len(a))
  <2>1. m \in 1 .. Len(a) /\ Len(a) - m + 1 = ViewCapacity /\ ViewCapacity \in Nat \ {0}
    BY <1>1, <1>3, ViewAssumption
  <2>2. UI!Newest(a) = n
    BY <1>3 DEF UI!Newest
  <2> HIDE DEF a
  <2>3. /\ n \in Seq(View) /\ Len(n) = Len(a) - m + 1
        /\ \A i \in 1 .. Len(n) : n[i] = a[m + i - 1]
    BY <1>1, <2>1
  <2> HIDE DEF n
  <2>4. Len(n) \in 1 .. Len(n) /\ m + Len(n) - 1 = Len(a)
    BY <1>1, <2>1, <2>3
  <2>5. n[Len(n)] = a[Len(a)] /\ n # <<>>
    BY <2>3, <2>4
  <2> QED
    BY <1>1, <2>2, <2>3, <2>5 DEF a
<1> QED
  BY <1>1, <1>2, <1>3, ViewAssumption

\* Two lines next to each other with a number between theirs.
GapAt(i) == lines[Watcher][i + 1].seq > lines[Watcher][i].seq + 1

\* The UI has received the first lines that left the BufWriter and the last
\* row it holds is the last of them; `dropped` stands for a gap among them.
Shown == Cardinality(received)
InStep ==
  /\ IsFiniteSet(received) /\ Shown <= flushed[Watcher]
  /\ \A n \in received : \E i \in 1 .. Shown : n = lines[Watcher][i].seq
  /\ rows \in Seq(View)
  /\ rows # <<>> => Shown > 0 /\ rows[Len(rows)].seq = lines[Watcher][Shown].seq
  /\ dropped => \E i \in 1 .. Len(lines[Watcher]) - 1 : GapAt(i)

\* The row that Deliver hands over is of a line not received yet.
LEMMA NextRow ==
  ASSUME TypeOK, ViewersInv, AllFromTheChannel, InStep, Deliver
  PROVE  /\ Shown \in Nat /\ Shown + 1 \in 1 .. Len(lines[Watcher])
         /\ UIRow(Shown + 1) \in View
         /\ \A n \in received : n < lines[Watcher][Shown + 1].seq
<1>1. Shown \in Nat
  BY FS_CardinalityType DEF InStep, Shown
<1>2. /\ lines[Watcher] \in Seq(Record) /\ flushed[Watcher] \in Nat
      /\ flushed[Watcher] <= Len(lines[Watcher]) /\ Increasing(Watcher)
  BY WatcherAssumption DEF TypeOK, AllFromTheChannel, FromTheChannel, ViewersInv, ViewerInv
<1>3. Shown < flushed[Watcher]
  BY DEF Deliver, Shown
<1>4. Shown + 1 \in 1 .. Len(lines[Watcher])
  BY <1>1, <1>2, <1>3
<1>5. lines[Watcher][Shown + 1] \in Record
  BY <1>2, <1>4
<1>6. UIRow(Shown + 1) \in View
  BY <1>5 DEF Record, UIRow, View
<1>7. ASSUME NEW n \in received PROVE n < lines[Watcher][Shown + 1].seq
  <2>1. PICK i \in 1 .. Shown : n = lines[Watcher][i].seq
    BY DEF InStep
  <2>2. i \in 1 .. Len(lines[Watcher]) /\ i < Shown + 1
    BY <1>1, <1>2, <1>4
  <2> QED
    BY <1>2, <1>4, <2>1, <2>2 DEF Increasing
<1> QED
  BY <1>1, <1>4, <1>6, <1>7

LEMMA DeliverStaysInStep ==
  ASSUME TypeOK, ViewersInv, AllFromTheChannel, InStep, Deliver
  PROVE  InStep'
<1> DEFINE k == Shown
           r == UIRow(k + 1)
<1>1. /\ k \in Nat /\ k + 1 \in 1 .. Len(lines[Watcher]) /\ r \in View
      /\ \A n \in received : n < r.seq
  BY NextRow DEF UIRow
<1>2. /\ dropped' = (dropped \/ (rows # <<>> /\ r.seq > rows[Len(rows)].seq + 1))
      /\ rows' = UI!Newest(Append(rows, r))
      /\ received' = received \cup {r.seq}
      /\ lines' = lines /\ flushed' = flushed /\ k < flushed[Watcher]
  BY DEF Deliver, UI!Receive, UIRow, Shown, vars, clientVars
<1>3. r.seq = lines[Watcher][k + 1].seq /\ r.seq \in Nat
  BY <1>1 DEF UIRow, View
<1> HIDE DEF k, r
<1>4. IsFiniteSet(received') /\ Cardinality(received') = k + 1
  <2>1. IsFiniteSet(received) /\ r.seq \notin received
    BY <1>1, <1>3 DEF InStep
  <2> QED
    BY <1>2, <2>1, FS_AddElement DEF k, Shown
<1>5. flushed[Watcher] \in Nat /\ Len(lines[Watcher]) \in Nat
  BY WatcherAssumption DEF TypeOK
<1>6. Shown' = k + 1 /\ k + 1 <= flushed'[Watcher]
  BY <1>1, <1>2, <1>4, <1>5 DEF Shown
<1>7. ASSUME NEW n \in received' PROVE \E i \in 1 .. k + 1 : n = lines'[Watcher][i].seq
  <2>1. CASE n = r.seq
    BY <1>1, <1>2, <1>3, <2>1
  <2>2. CASE n \in received
    <3>1. PICK i \in 1 .. k : n = lines[Watcher][i].seq
      BY <2>2 DEF InStep, k
    <3> QED
      BY <1>1, <1>2, <3>1
  <2> QED
    BY <1>2, <1>7, <2>1, <2>2
<1>8. rows' \in Seq(View) /\ rows' # <<>> /\ rows'[Len(rows')] = r
  BY <1>1, <1>2, NewestIsLast DEF InStep
<1>9. dropped' => \E i \in 1 .. Len(lines'[Watcher]) - 1 : GapAt(i)'
  <2>1. CASE dropped
    BY <1>2, <2>1 DEF InStep, GapAt
  <2>2. CASE rows # <<>> /\ r.seq > rows[Len(rows)].seq + 1
    <3>1. k > 0 /\ rows[Len(rows)].seq = lines[Watcher][k].seq
      BY <2>2 DEF InStep, k
    <3>2. k \in 1 .. Len(lines[Watcher]) - 1 /\ GapAt(k)
      BY <1>1, <1>3, <1>5, <2>2, <3>1 DEF GapAt
    <3> QED
      BY <1>2, <3>2 DEF GapAt
  <2> QED
    BY <1>2, <2>1, <2>2
<1> QED
  BY <1>1, <1>2, <1>3, <1>4, <1>6, <1>7, <1>8, <1>9 DEF InStep

\* The feed adds to what was written, and that keeps the UI in step.
LEMMA FeedStaysInStep ==
  ASSUME TypeOK, TypeOK', AllFromTheChannel, InStep, [Next]_vars,
         rows' = rows, dropped' = dropped, received' = received
  PROVE  InStep'
<1>1. /\ Len(lines[Watcher]) \in Nat /\ Len(lines'[Watcher]) \in Nat
      /\ Len(lines[Watcher]) <= Len(lines'[Watcher])
      /\ \A i \in 1 .. Len(lines[Watcher]) : lines'[Watcher][i] = lines[Watcher][i]
      /\ flushed[Watcher] \in Nat /\ flushed[Watcher] <= flushed'[Watcher]
      /\ flushed'[Watcher] <= Len(lines'[Watcher])
      /\ flushed[Watcher] <= Len(lines[Watcher])
  BY WatcherAssumption, LinesGrow DEF AllFromTheChannel, FromTheChannel
<1>2. Shown' = Shown /\ Shown \in Nat
  BY FS_CardinalityType DEF InStep, Shown
<1>3. flushed'[Watcher] \in Nat
  BY <1>1, WatcherAssumption DEF TypeOK
<1>4. Shown <= flushed'[Watcher] /\ Shown <= Len(lines[Watcher])
  BY <1>1, <1>2, <1>3 DEF InStep
<1>5. \A i \in 1 .. Shown : i \in 1 .. Len(lines[Watcher])
  BY <1>1, <1>2, <1>4
<1>6. ASSUME NEW i \in 1 .. Len(lines[Watcher]) - 1, GapAt(i)
      PROVE  i \in 1 .. Len(lines'[Watcher]) - 1 /\ GapAt(i)'
  BY <1>1, <1>6, SMTT(30) DEF GapAt
<1> QED
  BY <1>1, <1>2, <1>4, <1>5, <1>6, SMTT(30) DEF InStep

\* A UI that shows rows in order, each the next line there was.
LEMMA InStepInvariant == WatchedSpec => []InStep
<1>1. WatchedInit => InStep
  <2> SUFFICES ASSUME WatchedInit PROVE InStep
    OBVIOUS
  <2>1. /\ received = {} /\ rows = <<>> /\ dropped = FALSE /\ flushed[Watcher] = 0
    BY WatcherAssumption DEF WatchedInit, UI!Init, Init
  <2> QED
    BY <2>1, FS_EmptySet DEF InStep, Shown
<1>2. TypeOK /\ TypeOK' /\ ViewersInv /\ AllFromTheChannel /\ InStep /\ [WatchedNext]_watchedVars
        => InStep'
  <2> SUFFICES ASSUME TypeOK, TypeOK', ViewersInv, AllFromTheChannel, InStep,
                      [WatchedNext]_watchedVars
               PROVE  InStep'
    OBVIOUS
  <2>1. CASE Deliver
    BY <2>1, DeliverStaysInStep
  <2>2. CASE Feed
    BY <2>2, FeedStaysInStep DEF Feed, viewVars
  <2>3. CASE Watch
    <3>1. /\ rows' = rows /\ dropped' = dropped /\ received' = received /\ UNCHANGED vars
      BY <2>3 DEF Watch, UI!Draw, UI!FramePasses, UI!Tick, UI!stateVars
    <3> QED
      BY <3>1, FeedStaysInStep
  <2>4. CASE UNCHANGED watchedVars
    BY <2>4, FeedStaysInStep DEF watchedVars, viewVars
  <2> QED
    BY <2>1, <2>2, <2>3, <2>4 DEF WatchedNext
<1> QED
  BY <1>1, <1>2, WatchedIsSafe, SafelyTyped, ViewersInvariant, FromTheChannelInvariant, PTL
  DEF WatchedSpec

----------------------------------------------------------------------------
(* What the note in the header means *)

\* A number that is missing between two lines was broadcast, since every
\* number is some connection's and one that is stored is not to be overtaken.
\* It is not in the snapshot, which has no gaps, nor waiting in the channel
\* behind the newer one: the receiver lagged past it.
LEMMA GapWasOverrun ==
  ASSUME TypeOK, EveryNumberNamed, Numbered, AllGenuine, ViewersInv, AllFromTheChannel,
         AllAccounted, NoneOvertaken, ~gone[Watcher],
         NEW i \in 1 .. Len(lines[Watcher]) - 1, GapAt(i)
  PROVE  overrun[Watcher] # {}
<1> DEFINE W == Watcher
           L == lines[W]
           n == L[i].seq + 1
<1>0. W \in Viewers
  BY WatcherAssumption
<1>1. /\ Len(L) \in Nat /\ Len(snapshot[W]) \in Nat /\ Start(W) \in Nat
      /\ rx[W] \in Nat /\ Len(sent) \in Nat
      /\ \A j \in 1 .. Len(sent) : sent[j].seq \in Nat
      /\ \A j \in 1 .. Len(snapshot[W]) : snapshot[W][j].seq \in Nat
  BY <1>0, ViewerTypes
<1>2. i \in 1 .. Len(L) /\ i + 1 \in 1 .. Len(L)
  BY <1>1
<1>3. \A j \in 1 .. Len(L) : L[j].seq \in Nat /\ L[j].seq < log.next_seq
  BY <1>0, NumbersAreBounded
<1>4. n \in Nat /\ n < L[i + 1].seq /\ L[i].seq < n /\ n < log.next_seq /\ log.next_seq \in Nat
  <2>1. L[i].seq \in Nat /\ L[i + 1].seq \in Nat /\ L[i + 1].seq < log.next_seq
    BY <1>2, <1>3
  <2>2. L[i].seq + 1 < L[i + 1].seq
    BY <2>1 DEF GapAt
  <2>3. log.next_seq \in Nat
    BY DEF TypeOK
  <2>4. n = L[i].seq + 1
    OBVIOUS
  <2> HIDE DEF n, L
  <2> QED
    BY ONLY <2>1, <2>2, <2>3, <2>4, SMTT(30)
<1>5. Copying(W)
  <2>1. L # <<>>
    BY <1>2
  <2>2. pc[W] \notin {"away", "subscribed"} /\ pc[W] # "closed" /\ pc[W] \in ClientSteps
    BY <1>0, <2>1
    DEF ViewersInv, ViewerInv, NothingShownYet, AllFromTheChannel, FromTheChannel, TypeOK
  <2> QED
    BY <2>2 DEF Copying, ClientSteps
<1>6. /\ \A j \in 1 .. Len(snapshot[W]) : snapshot[W][j].seq = Start(W) + j - 1
      /\ \A j \in 1 .. Len(L) : j <= Len(snapshot[W]) => L[j] = snapshot[W][j]
  BY <1>0, <1>5 DEF AllAccounted, MissInv, NoGaps, Copied
<1>7. \A j, k \in 1 .. Len(L) : j < k => L[j].seq < L[k].seq
  BY <1>0 DEF ViewersInv, ViewerInv, Increasing
<1>8. i + 1 > Len(snapshot[W])
  <2> SUFFICES ASSUME i + 1 <= Len(snapshot[W]) PROVE FALSE
    BY <1>1, <1>2
  <2>1. i \in 1 .. Len(snapshot[W]) /\ i + 1 \in 1 .. Len(snapshot[W])
    BY <1>1, <1>2
  <2>2. L[i] = snapshot[W][i] /\ L[i + 1] = snapshot[W][i + 1]
    BY <1>1, <1>2, <1>6, <2>1
  <2>3. L[i].seq = Start(W) + i - 1 /\ L[i + 1].seq = Start(W) + (i + 1) - 1
    BY <1>6, <2>1, <2>2
  <2> QED
    BY <1>1, <1>4, <2>3
<1>9. PICK j \in 1 .. Len(sent) : j < rx[W] /\ sent[j].seq = L[i + 1].seq
  BY <1>0, <1>2, <1>8, SMTT(30) DEF AllFromTheChannel, FromTheChannel, Delivered
<1>10. PICK c \in Conns : push[c] # "idle" /\ seq[c] = n
  BY <1>4 DEF EveryNumberNamed, Recorded
<1>11. push[c] = "done"
  <2>1. push[c] # "stored"
    <3> SUFFICES ASSUME push[c] = "stored" PROVE FALSE
      OBVIOUS
    <3>1. sent[j].seq < seq[c]
      BY DEF NoneOvertaken
    <3> QED
      BY <1>2, <1>3, <1>4, <1>9, <1>10, <3>1, SMTT(30)
  <2>2. push[c] \in PushSteps
    BY DEF TypeOK
  <2> QED
    BY <1>10, <2>1, <2>2 DEF PushSteps
<1>12. Start(W) <= n
  <2>1. CASE snapshot[W] = <<>>
    BY <1>4, <2>1 DEF Start
  <2>2. CASE snapshot[W] # <<>>
    <3>1. 1 \in 1 .. Len(snapshot[W]) /\ 1 \in 1 .. Len(L)
      BY <1>0, <1>1, <1>2, <2>2, SMTT(30) DEF TypeOK
    <3>2. Start(W) = L[1].seq
      <4>1. 1 <= Len(snapshot[W])
        BY <1>1, <3>1
      <4>2. L[1] = snapshot[W][1]
        BY <1>6, <3>1, <4>1
      <4>3. Start(W) = snapshot[W][1].seq
        BY <2>2 DEF Start
      <4> QED
        BY <4>2, <4>3
    <3>3. L[1].seq <= L[i].seq
      <4>1. L[1].seq \in Nat /\ L[i].seq \in Nat
        BY <1>2, <1>3, <3>1
      <4>2. i # 1 => L[1].seq < L[i].seq
        BY <1>2, <1>7, <3>1
      <4> QED
        BY <4>1, <4>2
    <3> QED
      BY <1>1, <1>2, <1>3, <1>4, <3>2, <3>3, SMTT(30)
  <2> QED
    BY <2>1, <2>2
<1>13. InSnapshot(W, n) \/ InLines(W, n) \/ Waiting(W, n) \/ n \in overrun[W]
  <2>1. Accounted(W)
    BY <1>0, <1>5 DEF AllAccounted, MissInv, NoneOvertaken
  <2> QED
    BY <1>1, <1>4, <1>10, <1>11, <1>12, <2>1 DEF Accounted
<1>14. ~InLines(W, n)
  <2> SUFFICES ASSUME NEW m \in 1 .. Len(L), L[m].seq = n PROVE FALSE
    BY DEF InLines
  <2>0. /\ L[i].seq \in Nat /\ L[i + 1].seq \in Nat /\ L[m].seq \in Nat
        /\ m < i => L[m].seq < L[i].seq
        /\ i + 1 < m => L[i + 1].seq < L[m].seq
    BY <1>2, <1>3, <1>7
  <2> HIDE DEF L
  <2>1. CASE m <= i
    <3>1. m = i \/ m < i
      BY <1>2, <2>1
    <3> QED
      BY <1>4, <2>0, <3>1
  <2>2. CASE m > i
    <3>1. m = i + 1 \/ i + 1 < m
      BY <1>1, <1>2, <2>2
    <3> QED
      BY <1>4, <2>0, <3>1
  <2> QED
    BY <1>1, <1>2, <2>1, <2>2
<1>15. ~InSnapshot(W, n)
  <2> SUFFICES ASSUME NEW m \in 1 .. Len(snapshot[W]), snapshot[W][m].seq = n PROVE FALSE
    BY DEF InSnapshot
  <2>1. m \in 1 .. Len(L) /\ m <= Len(snapshot[W])
    BY <1>1, <1>2, <1>8
  <2> QED
    BY <1>6, <1>14, <2>1 DEF InLines
<1>16. ~Waiting(W, n)
  <2> SUFFICES ASSUME NEW p \in rx[W] .. Len(sent), sent[p].seq = n PROVE FALSE
    BY DEF Waiting
  <2>1. p \in 1 .. Len(sent) /\ j < p
    BY <1>1, <1>9
  <2>2. sent[j].seq < sent[p].seq
    BY <2>1 DEF NoneOvertaken, SentInOrder
  <2> QED
    BY <1>2, <1>3, <1>4, <1>9, <2>2, SMTT(30)
<1> QED
  BY <1>13, <1>14, <1>15, <1>16

\* The note in the header of a viewer that kept up, and whose records were
\* broadcast in order, is never there: what it reports is lag, whatever was
\* evicted and however the snapshot met the pushes (app.rs:166).
THEOREM NoteMeansLag == WatchedSpec => []GapMeansLag
<1>1. InStep /\ TypeOK /\ EveryNumberNamed /\ Numbered /\ AllGenuine /\ ViewersInv
        /\ AllFromTheChannel /\ AllAccounted => GapMeansLag
  BY GapWasOverrun DEF GapMeansLag, InStep
<1> QED
  BY <1>1, WatchedIsSafe, InStepInvariant, SafelyTyped, EveryNumberNamedInvariant,
     NumberedInvariant, AllGenuineInvariant, ViewersInvariant, FromTheChannelInvariant,
     AllAccountedInvariant, PTL

\* What the feed sends is what TuiView takes for granted: rows with numbers
\* in the range of the connections, each newer than all before it.  So what
\* TuiViewProofs proves of every TuiView holds of this one.
THEOREM FeedFeedsTheView == WatchedSpec => FeedIsASource
<1>1. WatchedInit => UI!Init
  BY DEF WatchedInit
<1>2. TypeOK /\ EveryNumberNamed /\ Numbered /\ AllGenuine /\ ViewersInv /\ AllFromTheChannel
        /\ InStep /\ [WatchedNext]_watchedVars => [UI!Next]_viewVars
  <2> SUFFICES ASSUME TypeOK, EveryNumberNamed, Numbered, AllGenuine, ViewersInv,
                      AllFromTheChannel, InStep, [WatchedNext]_watchedVars
               PROVE  [UI!Next]_viewVars
    OBVIOUS
  <2>1. CASE Deliver
    <3> DEFINE row == UIRow(Shown + 1)
    <3>1. /\ Shown + 1 \in 1 .. Len(lines[Watcher]) /\ row \in View
          /\ \A n \in received : n < row.seq
      BY <2>1, NextRow DEF UIRow
    <3>2. row.seq = lines[Watcher][Shown + 1].seq
      BY DEF UIRow
    <3>3. row.seq \in 0 .. Cardinality(Conns)
      BY <3>1, <3>2, WatcherAssumption, NumbersAreBounded
    <3>4. row \in [seq : 0 .. Cardinality(Conns), kind : {"row"}]
      BY <3>3 DEF UIRow
    <3>5. UI!Receive(row)
      BY <2>1 DEF Deliver, UIRow, Shown
    <3> HIDE DEF row
    <3>6. UI!SomeRow
      BY <3>1, <3>4, <3>5 DEF UI!SomeRow
    <3> QED
      BY <3>6 DEF UI!Next
  <2>2. CASE Watch
    BY <2>2 DEF Watch, UI!Next
  <2>3. CASE Feed \/ UNCHANGED watchedVars
    BY <2>3 DEF Feed, watchedVars
  <2> QED
    BY <2>1, <2>2, <2>3 DEF WatchedNext
<1> QED
  BY <1>1, <1>2, WatchedIsSafe, InStepInvariant, SafelyTyped, EveryNumberNamedInvariant,
     NumberedInvariant, AllGenuineInvariant, ViewersInvariant, FromTheChannelInvariant, PTL
  DEF WatchedSpec, FeedIsASource

============================================================================
