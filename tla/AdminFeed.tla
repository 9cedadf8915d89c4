----------------------------- MODULE AdminFeed -----------------------------
(***************************************************************************)
(* The observability feed of `fpd serve`, fingerprint-probe/src/admin.rs.  *)
(*                                                                         *)
(* Connection tasks call Publisher::push.  Its two halves are separate     *)
(* steps because the mutex around the log is released before the record is *)
(* broadcast.  Every viewer of the admin socket has a task of its own that *)
(* runs handle_client: subscribe, copy the log, write the copy, write the  *)
(* snapshot_end marker, flush, then forward what the channel delivers.     *)
(* Other tasks run between any two of those.                               *)
(*                                                                         *)
(* A viewer that does not read blocks the write or the flush its task is   *)
(* in, and one that leaves is noticed by the next write that reaches the   *)
(* socket.  A line is a record, [seq, conn]; `flushed` says how many lines *)
(* of the BufWriter the viewer can have read.                              *)
(***************************************************************************)
EXTENDS ConnectionLog, Broadcast, Functions

CONSTANTS Conns,      \* connections whose hello parsed: each is pushed once
          Viewers,    \* clients of the admin socket
          Attentive   \* the viewers that keep reading

ASSUME AttentiveAssumption == Attentive \subseteq Viewers

VARIABLES
  log,        \* the ConnectionLog behind the mutex
  push,       \* progress of each connection's call of Publisher::push
  seq,        \* its `stored.seq`, once the log assigned it
  sent,       \* the broadcast channel
  pc,         \* where each viewer's handle_client is
  rx,         \* its receiver
  snapshot,   \* its copy of the log
  highest,    \* its `highest`; -1 is None
  lines,      \* the records it has written to the BufWriter
  marker,     \* the number in its snapshot_end line; -1 before it is written
  flushed,    \* how many of `lines` have left the BufWriter
  gone,       \* whether the viewer closed its end
  overrun     \* the numbers its receiver lagged past (history)

publisherVars == <<log, push, seq, sent>>
clientVars == <<pc, rx, snapshot, highest, lines, marker, flushed, gone, overrun>>
vars == <<publisherVars, clientVars>>

PushSteps == {"idle", "stored", "done"}
ClientSteps == {"away", "subscribed", "snapshot", "flush", "recv", "closed"}
Record == [seq : Nat, conn : Conns]

TypeOK ==
  /\ log \in [records : Seq(Record), next_seq : Nat]
  /\ push \in [Conns -> PushSteps]
  /\ seq \in [Conns -> Nat]
  /\ sent \in Seq(Record)
  /\ pc \in [Viewers -> ClientSteps]
  /\ rx \in [Viewers -> Nat \ {0}]
  /\ snapshot \in [Viewers -> Seq(Record)]
  /\ highest \in [Viewers -> Nat \cup {-1}]
  /\ lines \in [Viewers -> Seq(Record)]
  /\ marker \in [Viewers -> Nat \cup {-1}]
  /\ flushed \in [Viewers -> Nat]
  /\ gone \in [Viewers -> BOOLEAN]
  /\ overrun \in [Viewers -> SUBSET Nat]

Init ==
  /\ log = NewLog
  /\ push = [c \in Conns |-> "idle"]
  /\ seq = [c \in Conns |-> 0]
  /\ sent = <<>>
  /\ pc = [v \in Viewers |-> "away"]
  /\ rx = [v \in Viewers |-> 1]
  /\ snapshot = [v \in Viewers |-> <<>>]
  /\ highest = [v \in Viewers |-> -1]
  /\ lines = [v \in Viewers |-> <<>>]
  /\ marker = [v \in Viewers |-> -1]
  /\ flushed = [v \in Viewers |-> 0]
  /\ gone = [v \in Viewers |-> FALSE]
  /\ overrun = [v \in Viewers |-> {}]

----------------------------------------------------------------------------
(* Publisher::push *)

\* Mutant: the broadcast copy gets the number before the one assigned.
StoreNumberedEarly(c) ==
  /\ push[c] = "idle"
  /\ log' = Pushed(log, c)
  /\ seq' = [seq EXCEPT ![c] = log.next_seq - 1]
  /\ push' = [push EXCEPT ![c] = "stored"]
  /\ UNCHANGED <<sent, clientVars>>

\* Mutant: the broadcast copy keeps the 0 it was created with.
StoreUnnumbered(c) ==
  /\ push[c] = "idle"
  /\ log' = Pushed(log, c)
  /\ push' = [push EXCEPT ![c] = "stored"]
  /\ UNCHANGED <<seq, sent, clientVars>>

\* Under the mutex: the log numbers the record and keeps it.
Store(c) ==
  /\ push[c] = "idle"
  /\ log' = Pushed(log, c)
  /\ seq' = [seq EXCEPT ![c] = log.next_seq]
  /\ push' = [push EXCEPT ![c] = "stored"]
  /\ UNCHANGED <<sent, clientVars>>

Subscribed(v) == pc[v] \notin {"away", "closed"}

\* Mutant: a bounded queue that makes the sender wait for its slowest reader.
SendWaits(c) ==
  /\ push[c] = "stored"
  /\ \A v \in Viewers : Subscribed(v) => Len(sent) + 1 - rx[v] < Depth
  /\ sent' = SentTo(sent, \E v \in Viewers : Subscribed(v), [seq |-> seq[c], conn |-> c])
  /\ push' = [push EXCEPT ![c] = "done"]
  /\ UNCHANGED <<log, seq, clientVars>>

\* After it: the numbered record goes to whoever is subscribed by then.
Send(c) ==
  /\ push[c] = "stored"
  /\ sent' = SentTo(sent, \E v \in Viewers : Subscribed(v), [seq |-> seq[c], conn |-> c])
  /\ push' = [push EXCEPT ![c] = "done"]
  /\ UNCHANGED <<log, seq, clientVars>>

----------------------------------------------------------------------------
(* handle_client *)

\* AdminSocket::serve accepts the viewer and its task subscribes.
Subscribe(v) ==
  /\ pc[v] = "away"
  /\ pc' = [pc EXCEPT ![v] = "subscribed"]
  /\ rx' = [rx EXCEPT ![v] = Tip(sent)]
  /\ UNCHANGED <<publisherVars, snapshot, highest, lines, marker, flushed, gone, overrun>>

TakeSnapshot(v) ==
  /\ pc[v] = "subscribed"
  /\ pc' = [pc EXCEPT ![v] = "snapshot"]
  /\ snapshot' = [snapshot EXCEPT ![v] = log.records]
  /\ UNCHANGED <<publisherVars, rx, highest, lines, marker, flushed, gone, overrun>>

WriteLine(v, record) ==
  /\ lines' = [lines EXCEPT ![v] = Append(@, record)]
  /\ highest' = [highest EXCEPT ![v] = record.seq]

\* Mutant: the snapshot does not count towards `highest`.
WriteSnapshotUncounted(v) ==
  /\ pc[v] = "snapshot"
  /\ Len(lines[v]) < Len(snapshot[v])
  /\ lines' = [lines EXCEPT ![v] = Append(@, snapshot[v][Len(@) + 1])]
  /\ UNCHANGED <<publisherVars, pc, rx, snapshot, highest, marker, flushed, gone, overrun>>

WriteSnapshot(v) ==
  /\ pc[v] = "snapshot"
  /\ Len(lines[v]) < Len(snapshot[v])
  /\ WriteLine(v, snapshot[v][Len(lines[v]) + 1])
  /\ UNCHANGED <<publisherVars, pc, rx, snapshot, marker, flushed, gone, overrun>>

\* Mutant: subscribing only once the history is written.
WriteMarkerThenSubscribe(v) ==
  /\ pc[v] = "snapshot"
  /\ Len(lines[v]) = Len(snapshot[v])
  /\ rx' = [rx EXCEPT ![v] = Tip(sent)]
  /\ marker' = [marker EXCEPT ![v] = IF highest[v] = -1 THEN 0 ELSE highest[v]]
  /\ pc' = [pc EXCEPT ![v] = "flush"]
  /\ UNCHANGED <<publisherVars, snapshot, highest, lines, flushed, gone, overrun>>

\* `highest.unwrap_or(0)`: an empty history is marked like one that ends at 0.
WriteMarker(v) ==
  /\ pc[v] = "snapshot"
  /\ Len(lines[v]) = Len(snapshot[v])
  /\ marker' = [marker EXCEPT ![v] = IF highest[v] = -1 THEN 0 ELSE highest[v]]
  /\ pc' = [pc EXCEPT ![v] = "flush"]
  /\ UNCHANGED <<publisherVars, rx, snapshot, highest, lines, flushed, gone, overrun>>

Flush(v) ==
  /\ pc[v] = "flush"
  /\ ~gone[v]
  /\ flushed' = [flushed EXCEPT ![v] = Len(lines[v])]
  /\ pc' = [pc EXCEPT ![v] = "recv"]
  /\ UNCHANGED <<publisherVars, rx, snapshot, highest, lines, marker, gone, overrun>>

\* A full BufWriter passes on what it holds without being flushed.
Spill(v) ==
  /\ pc[v] \in {"snapshot", "flush"}
  /\ ~gone[v]
  /\ \E n \in flushed[v] + 1 .. Len(lines[v]) : flushed' = [flushed EXCEPT ![v] = n]
  /\ UNCHANGED <<publisherVars, pc, rx, snapshot, highest, lines, marker, gone, overrun>>

\* Mutant: nothing is skipped.
ReceiveEverything(v) ==
  /\ pc[v] = "recv"
  /\ HasValue(sent, rx[v])
  /\ rx' = [rx EXCEPT ![v] = @ + 1]
  /\ WriteLine(v, sent[rx[v]])
  /\ pc' = [pc EXCEPT ![v] = "flush"]
  /\ UNCHANGED <<publisherVars, snapshot, marker, flushed, gone, overrun>>

\* Mutant: the loop goes back to recv without a flush.
ReceiveUnflushed(v) ==
  /\ pc[v] = "recv"
  /\ HasValue(sent, rx[v])
  /\ rx' = [rx EXCEPT ![v] = @ + 1]
  /\ IF sent[rx[v]].seq <= highest[v]
       THEN UNCHANGED <<lines, highest>>
       ELSE WriteLine(v, sent[rx[v]])
  /\ UNCHANGED <<publisherVars, pc, snapshot, marker, flushed, gone, overrun>>

\* Skip what the snapshot covered, forward anything newer.
ReceiveRecord(v) ==
  /\ pc[v] = "recv"
  /\ HasValue(sent, rx[v])
  /\ rx' = [rx EXCEPT ![v] = @ + 1]
  /\ IF sent[rx[v]].seq <= highest[v]
       THEN UNCHANGED <<pc, lines, highest>>
       ELSE /\ WriteLine(v, sent[rx[v]])
            /\ pc' = [pc EXCEPT ![v] = "flush"]
  /\ UNCHANGED <<publisherVars, snapshot, marker, flushed, gone, overrun>>

\* Mutant: falling behind ends the viewer's task.
ReceiveLaggedIsFatal(v) ==
  /\ pc[v] = "recv"
  /\ HasLagged(sent, rx[v])
  /\ pc' = [pc EXCEPT ![v] = "closed"]
  /\ UNCHANGED <<publisherVars, rx, snapshot, highest, lines, marker, flushed, gone, overrun>>

\* Lagged: the channel moves the receiver on and the loop continues.
ReceiveLagged(v) ==
  /\ pc[v] = "recv"
  /\ HasLagged(sent, rx[v])
  /\ overrun' = [overrun EXCEPT ![v] = @ \cup {sent[i].seq : i \in rx[v] .. Oldest(sent) - 1}]
  /\ rx' = [rx EXCEPT ![v] = Oldest(sent)]
  /\ UNCHANGED <<publisherVars, pc, snapshot, highest, lines, marker, flushed, gone>>

\* The viewer goes away, whatever its task is doing.
Leave(v) ==
  /\ Subscribed(v)
  /\ ~gone[v]
  /\ gone' = [gone EXCEPT ![v] = TRUE]
  /\ UNCHANGED <<publisherVars, pc, rx, snapshot, highest, lines, marker, flushed, overrun>>

\* A write or flush that reaches the closed socket fails and ends the task.
WriteFails(v) ==
  /\ pc[v] \in {"snapshot", "flush"}
  /\ gone[v]
  /\ pc' = [pc EXCEPT ![v] = "closed"]
  /\ UNCHANGED <<publisherVars, rx, snapshot, highest, lines, marker, flushed, gone, overrun>>

----------------------------------------------------------------------------
PushStep(c) == Store(c) \/ Send(c)

ClientStep(v) ==
  \/ TakeSnapshot(v) \/ WriteSnapshot(v) \/ WriteMarker(v) \/ Flush(v)
  \/ ReceiveRecord(v) \/ ReceiveLagged(v) \/ WriteFails(v)

Next ==
  \/ \E c \in Conns : PushStep(c)
  \/ \E v \in Viewers : Subscribe(v) \/ ClientStep(v) \/ Spill(v) \/ Leave(v)

(***************************************************************************)
(* A push that began runs to its end: nothing in it waits for a viewer.    *)
(* The task of an attentive viewer is never held up by the socket, and a   *)
(* socket whose other end is closed holds nothing up either, so the        *)
(* runtime keeps running those tasks.  Nothing is assumed of a viewer that *)
(* stays and does not read, of when connections arrive, or of when viewers *)
(* come and go.                                                            *)
(***************************************************************************)
Fairness ==
  /\ \A c \in Conns : WF_vars(Send(c))
  /\ \A v \in Viewers : WF_vars((v \in Attentive \/ gone[v]) /\ ClientStep(v))

Spec == Init /\ [][Next]_vars /\ Fairness

----------------------------------------------------------------------------
(* Safety *)

\* The log is exactly the newest records: their numbers run without a gap up
\* to next_seq, and one is missing only when the log is full (log.rs, push).
IsWindow(l) ==
  /\ Len(l.records) <= Capacity
  /\ Len(l.records) < Capacity => Len(l.records) = l.next_seq
  /\ \A i \in 1 .. Len(l.records) :
       l.records[i].seq = l.next_seq - Len(l.records) + i - 1
LogIsWindow == IsWindow(log)

\* A number names one connection, wherever a viewer could meet it: in the log,
\* in the channel or on its socket.  The number in the broadcast copy of a
\* record is the one its copy in the log has (Publisher::push).
OneRecordPerConnection ==
  LET everywhere == Range(log.records) \cup Range(sent)
                      \cup UNION {Range(lines[v]) : v \in Viewers}
  IN  \A r, s \in everywhere : (r.seq = s.seq) <=> (r.conn = s.conn)

\* No viewer is shown a connection twice, or an older one after a newer one,
\* across the snapshot and the live records (handle_client's `highest`).
LinesIncrease ==
  \A v \in Viewers : \A i, j \in 1 .. Len(lines[v]) :
    i < j => lines[v][i].seq < lines[v][j].seq

\* A task never waits for the next connection with a line still in its
\* buffer: the viewer would see that line only when someone else connects.
NothingHeldBack ==
  \A v \in Viewers : pc[v] = "recv" => flushed[v] = Len(lines[v])

\* Numbers the viewer could have been sent and never will be: recorded in the
\* window of its snapshot or later, broadcast, not written, not waiting in
\* the channel, and not lost to its own lag.
Start(v) == IF snapshot[v] = <<>> THEN 0 ELSE snapshot[v][1].seq
Missed(v) ==
  LET waiting == {sent[i].seq : i \in rx[v] .. Len(sent)}
  IN  {n \in {seq[c] : c \in {d \in Conns : push[d] = "done"}} :
         n >= Start(v) /\ n \notin {r.seq : r \in Range(lines[v])} \cup waiting \cup overrun[v]}

Live(v) == pc[v] \in {"flush", "recv"}

\* admin.rs:24 calls BROADCAST_DEPTH "how many records a slow client may fall
\* behind before it starts missing them", and admin.rs:130-134 says a record
\* that arrives around the snapshot "is delivered rather than lost".
MissesOnlyWhenSlow == \A v \in Viewers : Live(v) => Missed(v) = {}

\* The same where broadcasts happen in the order of the numbers: then only
\* lag loses a record, however the snapshot interleaves with the pushes.
SentInOrder == \A i, j \in 1 .. Len(sent) : i < j => sent[i].seq < sent[j].seq
MissesOnlyWhenSlowInOrder == SentInOrder => MissesOnlyWhenSlow

----------------------------------------------------------------------------
(* Liveness *)

\* A connection is never held up by the feed, whatever its viewers do.
PushCompletes == \A c \in Conns : push[c] = "stored" ~> push[c] = "done"

CaughtUp(v) == pc[v] = "recv" /\ rx[v] = Tip(sent)

\* The task of a viewer that reads works off its snapshot and everything the
\* channel still holds for it, or ends because the viewer left.
AttentiveCatchUp ==
  \A v \in Attentive : pc[v] = "subscribed" ~> CaughtUp(v) \/ (gone[v] /\ pc[v] = "closed")

----------------------------------------------------------------------------
(* The feed implements FeedPromise. *)

Numbers(q) == [i \in 1 .. Len(q) |-> q[i].seq]
shownTo == [v \in Viewers |-> Numbers(lines[v])]

Promise == INSTANCE FeedPromise WITH recorded <- log.next_seq, shown <- shownTo

\* What viewers are shown is an ever-growing, ever-newer selection of the
\* connections recorded so far.
KeepsPromise == Promise!Spec

============================================================================
