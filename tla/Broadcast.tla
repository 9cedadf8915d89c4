----------------------------- MODULE Broadcast -----------------------------
(***************************************************************************)
(* The tokio broadcast channel between the Publisher and its viewers, as   *)
(* admin.rs relies on it.  It is a library, not code of this repository.   *)
(*                                                                         *)
(* `sent` is everything ever sent while someone was subscribed; the ring   *)
(* keeps its newest Depth values.  A receiver is the position it reads     *)
(* next.  A sender never waits: a receiver whose position was overwritten  *)
(* is told it lagged and is moved to the oldest value still held.          *)
(***************************************************************************)
EXTENDS Integers, Sequences

CONSTANT Depth  \* BROADCAST_DEPTH, 256 in the code

ASSUME DepthAssumption == Depth \in Nat \ {0}

\* A value sent while nobody is subscribed is handed back and forgotten.
SentTo(sent, hasReceiver, value) ==
  IF hasReceiver THEN Append(sent, value) ELSE sent

\* A new receiver reads from the next value sent.
Tip(sent) == Len(sent) + 1

Oldest(sent) == IF Len(sent) > Depth THEN Len(sent) - Depth + 1 ELSE 1

HasLagged(sent, rx) == rx < Oldest(sent)
HasValue(sent, rx) == rx >= Oldest(sent) /\ rx <= Len(sent)

============================================================================
