--------------------------- MODULE ConnectionLog ---------------------------
(***************************************************************************)
(* The in-memory history of `fpd serve`, fingerprint-probe/src/log.rs: a   *)
(* window over the newest records, numbered in the order they are pushed.  *)
(* A log is a value, [records, next_seq]; the module that owns one keeps   *)
(* it in a variable behind the Publisher's mutex.                          *)
(*                                                                         *)
(* A record is [seq, conn]: the number the log gives it and the connection *)
(* it describes.  Everything else a ConnectionRecord carries is data.      *)
(***************************************************************************)
EXTENDS Integers, Sequences

CONSTANT LogCapacity  \* the capacity asked for; 0 is legal and clamped

ASSUME LogCapacityAssumption == LogCapacity \in Nat

\* with_capacity clamps a zero request to one.
Capacity == IF LogCapacity > 1 THEN LogCapacity ELSE 1

NewLog == [records |-> <<>>, next_seq |-> 0]

\* Mutant: the bound is checked with >= and the queue never fills.
NewestOfEvictsEarly(q) ==
  IF Len(q) >= Capacity THEN SubSeq(q, Len(q) - Capacity + 2, Len(q)) ELSE q

\* pop_front while the queue is longer than the capacity.
NewestOf(q) ==
  IF Len(q) > Capacity THEN SubSeq(q, Len(q) - Capacity + 1, Len(q)) ELSE q

Pushed(log, conn) ==
  [records  |-> NewestOf(Append(log.records, [seq |-> log.next_seq, conn |-> conn])),
   next_seq |-> log.next_seq + 1]

============================================================================
