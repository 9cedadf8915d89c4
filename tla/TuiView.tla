------------------------------ MODULE TuiView -------------------------------
(***************************************************************************)
(* The terminal UI of `fpd tui`: the event loop `run` and the keys of      *)
(* fpd/src/tui/app.rs over the State of render.rs.                         *)
(*                                                                         *)
(* A row is [seq, kind].  Its kind is all a search can tell of it, and a   *)
(* search is known by what it matches: element i is the set of kinds that  *)
(* contain the first i characters typed.  Another character never matches  *)
(* more, and no characters match everything.                               *)
(*                                                                         *)
(* `loop` is where the event loop is: at its top, where it may draw, or in *)
(* the select.  Between the source of a row and the loop there are only    *)
(* queues that keep order, so a row arrives when the loop receives it.     *)
(***************************************************************************)
EXTENDS Integers, Sequences, FiniteSets

CONSTANTS
  ViewCapacity,  \* VIEW_CAPACITY, 2000 in the code
  Kinds,         \* of rows
  MaxSeq,        \* bounds the numbers that arrive
  MaxSearch      \* bounds how much is typed

ASSUME ViewCapacityAssumption == ViewCapacity \in Nat \ {0}
ASSUME BoundsAssumption == MaxSeq \in Nat /\ MaxSearch \in Nat

VARIABLES
  rows, selected, follow, search, searching, dropped, exported,  \* State
  loop,      \* where the event loop is
  dirty,     \* its `dirty`
  due,       \* whether FRAME has passed since it last drew
  screen,    \* what it drew last
  received   \* the numbers of all rows that arrived (history)

stateVars == <<rows, selected, follow, search, searching, dropped, exported>>
vars == <<stateVars, loop, dirty, due, screen, received>>

Row == [seq : Nat, kind : Kinds]
NoRow == [seq |-> -1, kind |-> "none"]

----------------------------------------------------------------------------
(* State::visible and State::current.  `selected` counts visible rows from  *)
(* zero, and one beyond the last stands for the last.                       *)

Matches(row) == search = <<>> \/ row.kind \in search[Len(search)]
Visible == {i \in DOMAIN rows : Matches(rows[i])}
LastVisible == IF Visible = {} THEN 0 ELSE Cardinality(Visible) - 1
Place(i) == Cardinality({j \in Visible : j < i})
Highlighted == IF selected < LastVisible THEN selected ELSE LastVisible
Current ==
  IF Visible = {} THEN NoRow
  ELSE rows[CHOOSE i \in Visible : Place(i) = Highlighted]

\* What render makes of the state: the visible rows (in the order of their
\* numbers), the highlighted one and its details, the note in the header, and
\* the footer.  `follow` is not shown.
Picture ==
  [table |-> {rows[i] : i \in Visible}, current |-> Current, dropped |-> dropped,
   typing |-> IF searching THEN search ELSE <<>>,
   wrote |-> IF searching THEN -1 ELSE exported]

TypeOK ==
  /\ rows \in Seq(Row) /\ Len(rows) <= ViewCapacity
  /\ selected \in Nat
  /\ {follow, searching, dropped, dirty, due} \subseteq BOOLEAN
  /\ search \in Seq(SUBSET Kinds)
  /\ exported \in Nat \cup {-1}
  /\ loop \in {"top", "select", "quit"}
  /\ screen \in [table : SUBSET Row, current : Row \cup {NoRow}, dropped : BOOLEAN,
                 typing : Seq(SUBSET Kinds), wrote : Nat \cup {-1}]
  /\ received \subseteq Nat

Init ==
  /\ rows = <<>> /\ selected = 0 /\ follow = TRUE
  /\ search = <<>> /\ searching = FALSE
  /\ dropped = FALSE /\ exported = -1
  /\ loop = "top" /\ dirty = TRUE /\ due = TRUE
  /\ screen = Picture
  /\ received = {}

----------------------------------------------------------------------------
(* run *)

FramePasses ==
  /\ loop # "quit" /\ ~due
  /\ due' = TRUE
  /\ UNCHANGED <<stateVars, loop, dirty, screen, received>>

Draw ==
  /\ loop = "top"
  /\ loop' = "select"
  /\ IF dirty /\ due
       THEN screen' = Picture /\ dirty' = FALSE /\ due' = FALSE
       ELSE UNCHANGED <<screen, dirty, due>>
  /\ UNCHANGED <<stateVars, received>>

\* Some branch of the select is taken, and the loop goes round.
Select(redraw) ==
  /\ loop = "select"
  /\ loop' = "top"
  /\ dirty' = (dirty \/ redraw)
  /\ UNCHANGED <<due, screen>>

\* Mutants: the bound is checked before the row is counted, or with >=.
NewestEvictsLate(q) ==
  IF Len(q) > ViewCapacity + 1 THEN SubSeq(q, Len(q) - ViewCapacity + 1, Len(q)) ELSE q
NewestEvictsEarly(q) ==
  IF Len(q) >= ViewCapacity THEN SubSeq(q, Len(q) - ViewCapacity + 2, Len(q)) ELSE q

Newest(q) ==
  IF Len(q) > ViewCapacity THEN SubSeq(q, Len(q) - ViewCapacity + 1, Len(q)) ELSE q

\* Mutant: the row is compared with the last one after it became that.
ReceiveComparesLate(row) ==
  /\ Select(TRUE)
  /\ rows' = Newest(Append(rows, row))
  /\ dropped' = (dropped \/ row.seq > rows'[Len(rows')].seq + 1)
  /\ received' = received \cup {row.seq}
  /\ UNCHANGED <<follow, search, searching, exported>>
  /\ selected' = IF follow THEN LastVisible' ELSE selected

\* Mutant: only a viewer that follows sees new rows.
ReceiveUnseen(row) ==
  /\ Select(follow)
  /\ dropped' = (dropped \/ (rows # <<>> /\ row.seq > rows[Len(rows)].seq + 1))
  /\ rows' = Newest(Append(rows, row))
  /\ received' = received \cup {row.seq}
  /\ UNCHANGED <<follow, search, searching, exported>>
  /\ selected' = IF follow THEN LastVisible' ELSE selected

Receive(row) ==
  /\ Select(TRUE)
  /\ dropped' = (dropped \/ (rows # <<>> /\ row.seq > rows[Len(rows)].seq + 1))
  /\ rows' = Newest(Append(rows, row))
  /\ received' = received \cup {row.seq}
  /\ UNCHANGED <<follow, search, searching, exported>>
  /\ selected' = IF follow THEN LastVisible' ELSE selected

\* Mutant: only an up-to-date screen is slept on.
TickWhenDrawn == ~dirty /\ Select(FALSE) /\ UNCHANGED <<stateVars, received>>

\* The sleep of one FRAME, or an event that is neither a press nor a resize.
Tick == Select(FALSE) /\ UNCHANGED <<stateVars, received>>

Resize == Select(TRUE) /\ UNCHANGED <<stateVars, received>>

----------------------------------------------------------------------------
(* on_key, outside a search *)

Key(redraw) == ~searching /\ Select(redraw) /\ UNCHANGED received

Quit ==
  /\ loop = "select" /\ ~searching
  /\ loop' = "quit"
  /\ UNCHANGED <<stateVars, dirty, due, screen, received>>

BeginSearch ==
  /\ Key(TRUE)
  /\ searching' = TRUE /\ search' = <<>>
  /\ UNCHANGED <<rows, selected, follow, dropped, exported>>

ToggleFollow ==
  /\ Key(TRUE)
  /\ follow' = ~follow
  /\ UNCHANGED <<rows, selected, search, searching, dropped, exported>>

\* The write may fail, and then nothing is said.
Export ==
  /\ Key(TRUE)
  /\ exported' \in {exported} \cup (IF Current = NoRow THEN {} ELSE {Current.seq})
  /\ UNCHANGED <<rows, selected, follow, search, searching, dropped>>

Up ==
  /\ Key(TRUE)
  /\ follow' = FALSE
  /\ selected' = IF selected = 0 THEN 0 ELSE selected - 1
  /\ UNCHANGED <<rows, search, searching, dropped, exported>>

\* Mutant: clamped to the number of rows instead of the last one.
DownPastEnd ==
  /\ Key(TRUE)
  /\ follow' = FALSE
  /\ selected' = IF selected + 1 < Cardinality(Visible) THEN selected + 1 ELSE Cardinality(Visible)
  /\ UNCHANGED <<rows, search, searching, dropped, exported>>

Down ==
  /\ Key(TRUE)
  /\ follow' = FALSE
  /\ selected' = IF selected + 1 < LastVisible THEN selected + 1 ELSE LastVisible
  /\ UNCHANGED <<rows, search, searching, dropped, exported>>

UnboundKey == Key(FALSE) /\ UNCHANGED stateVars

----------------------------------------------------------------------------
(* on_key, in a search: keys are text *)

SearchKey ==
  /\ searching /\ Select(TRUE)
  /\ selected' = 0
  /\ UNCHANGED <<rows, follow, dropped, exported, received>>

AbandonSearch == SearchKey /\ searching' = FALSE /\ search' = <<>>
KeepSearch == SearchKey /\ searching' = FALSE /\ UNCHANGED search

Backspace ==
  /\ SearchKey
  /\ search' = IF search = <<>> THEN <<>> ELSE SubSeq(search, 1, Len(search) - 1)
  /\ UNCHANGED searching

Type ==
  /\ SearchKey
  /\ Len(search) < MaxSearch
  /\ \E matching \in SUBSET (IF search = <<>> THEN Kinds ELSE search[Len(search)]) :
       search' = Append(search, matching)
  /\ UNCHANGED searching

UnboundSearchKey ==
  /\ searching /\ Select(FALSE)
  /\ UNCHANGED <<stateVars, received>>

----------------------------------------------------------------------------
SomeKey ==
  \/ Quit \/ BeginSearch \/ ToggleFollow \/ Export \/ Up \/ Down \/ UnboundKey
  \/ AbandonSearch \/ KeepSearch \/ Backspace \/ Type \/ UnboundSearchKey

\* A feed sends numbers in increasing order, not all of them, and need not
\* begin with the first: LinesIncrease of AdminFeed.
SomeRow ==
  \E row \in [seq : 0 .. MaxSeq, kind : Kinds] :
    (\A n \in received : n < row.seq) /\ Receive(row)

Next == Draw \/ FramePasses \/ Tick \/ Resize \/ SomeRow \/ SomeKey

\* The loop is scheduled and time passes.  Nothing is assumed of the source
\* or of the user.
Fairness == WF_vars(Draw) /\ WF_vars(FramePasses) /\ WF_vars(Tick)

Spec == Init /\ [][Next]_vars /\ Fairness

----------------------------------------------------------------------------
(* Safety *)

\* The header admits to a gap exactly when some number between two rows that
\* arrived did not, however long ago that was and whatever was evicted since
\* (run, State::dropped).
GapsAreShown ==
  dropped <=> \E n \in 0 .. MaxSeq : /\ n \notin received
                                     /\ \E a, b \in received : a < n /\ n < b

\* Whatever changed what there is to see has asked for a redraw: with nothing
\* asked for, the screen shows the state as it is (`dirty`, Action).
ScreenIsCurrent == ~dirty /\ loop # "quit" => screen = Picture

\* app.rs:254 says of the selection that it "must not walk off either end, at
\* any list length including zero".  Without a search it does not, also across
\* evictions and what searches left behind.
SelectionInRange == search = <<>> => selected <= LastVisible

\* While there is room, rows that arrive leave a reader's selection alone,
\* with or without a search (follow off).
RoomyArrival ==
  [][rows' # rows /\ ~follow /\ Len(rows) < ViewCapacity /\ Current # NoRow
       => Current' = Current]_vars

\* app.rs:273-275 says that following has to stop when the user moves the
\* selection "or their selection is yanked away on the next connection":
\* with it off, a connection leaves the selection on its row as long as that
\* row is there.
SelectionStays ==
  [][rows' # rows /\ ~follow /\ Current # NoRow /\ Current \in {rows'[i] : i \in DOMAIN rows'}
       => Current' = Current]_vars

----------------------------------------------------------------------------
(* Liveness *)

\* A frame that was asked for is drawn, also when nothing happens after what
\* asked for it came too soon after the last one.
ScreenCatchesUp == dirty ~> ~dirty \/ loop = "quit"

============================================================================
