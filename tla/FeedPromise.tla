---------------------------- MODULE FeedPromise ----------------------------
(***************************************************************************)
(* What the admin feed promises a viewer, with no channel, no snapshot and *)
(* no buffer: connections are numbered 0, 1, 2, ... as they are recorded,  *)
(* and what a viewer is shown only ever grows, by a connection that exists *)
(* and that is newer than everything it was shown before.                  *)
(***************************************************************************)
EXTENDS Integers, Sequences

CONSTANT Viewers

VARIABLES recorded,  \* how many connections have been recorded
          shown      \* the numbers each viewer was shown, oldest first

vars == <<recorded, shown>>

Init ==
  /\ recorded = 0
  /\ shown = [v \in Viewers |-> <<>>]

Record ==
  /\ recorded' = recorded + 1
  /\ UNCHANGED shown

Show(v) ==
  /\ \E seq \in 0 .. recorded - 1 :
       /\ \A i \in 1 .. Len(shown[v]) : shown[v][i] < seq
       /\ shown' = [shown EXCEPT ![v] = Append(@, seq)]
  /\ UNCHANGED recorded

Next == Record \/ \E v \in Viewers : Show(v)

Spec == Init /\ [][Next]_vars

============================================================================
