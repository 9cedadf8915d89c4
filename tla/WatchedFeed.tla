---------------------------- MODULE WatchedFeed ----------------------------
(***************************************************************************)
(* A terminal UI attached to the admin socket: AdminFeed, and TuiView fed  *)
(* by one of its viewers through `attach` of fpd/src/tui/source.rs.  The   *)
(* user watches and presses no keys, and leaves by ending the program.     *)
(***************************************************************************)
EXTENDS AdminFeed, FiniteSets

CONSTANTS Watcher,       \* the viewer that is a terminal UI
          ViewCapacity

ASSUME WatcherAssumption == Watcher \in Viewers
ASSUME ViewAssumption == ViewCapacity \in Nat \ {0}
\* Their number bounds the numbers that arrive.
ASSUME ConnsAssumption == IsFiniteSet(Conns)

VARIABLES
  rows, selected, follow, search, searching, dropped, exported,
  loop, dirty, due, screen, received

UI == INSTANCE TuiView
        WITH Kinds <- {"row"}, MaxSeq <- Cardinality(Conns), MaxSearch <- 0

viewVars == <<rows, selected, follow, search, searching, dropped, exported,
              loop, dirty, due, screen, received>>
watchedVars == <<vars, viewVars>>

WatchedInit == Init /\ UI!Init

\* `attach` reads the lines that left the BufWriter, in order, and queues a row
\* for each; the marker is none.  The loop receives the next of them.
Deliver ==
  /\ ~gone[Watcher]
  /\ Cardinality(received) < flushed[Watcher]
  /\ UI!Receive([seq |-> lines[Watcher][Cardinality(received) + 1].seq, kind |-> "row"])
  /\ UNCHANGED vars

Feed == Next /\ UNCHANGED viewVars
Watch == ~gone[Watcher] /\ (UI!Draw \/ UI!FramePasses \/ UI!Tick) /\ UNCHANGED vars

WatchedNext == Feed \/ Watch \/ Deliver

(***************************************************************************)
(* As in AdminFeed and TuiView.  A row that waits is received: `select!`   *)
(* polls its branches in random order, so none that is ready again and     *)
(* again is passed over for ever.                                          *)
(***************************************************************************)
WatchedFairness ==
  /\ \A c \in Conns : WF_watchedVars(Send(c) /\ UNCHANGED viewVars)
  /\ \A v \in Viewers :
       WF_watchedVars((v \in Attentive \/ gone[v]) /\ ClientStep(v) /\ UNCHANGED viewVars)
  /\ WF_watchedVars(~gone[Watcher] /\ UI!Draw /\ UNCHANGED vars)
  /\ WF_watchedVars(~gone[Watcher] /\ UI!FramePasses /\ UNCHANGED vars)
  /\ WF_watchedVars(~gone[Watcher] /\ UI!Tick /\ UNCHANGED vars)
  /\ SF_watchedVars(Deliver)

WatchedSpec == WatchedInit /\ [][WatchedNext]_watchedVars /\ WatchedFairness

----------------------------------------------------------------------------
\* The feed sends what TuiView takes for granted: rows with numbers that
\* increase.  So what holds of every TuiView holds of this one.
FeedIsASource == UI!Init /\ [][UI!Next]_viewVars

\* No broadcast overtook another, or is about to be overtaken.
NoneOvertaken ==
  /\ SentInOrder
  /\ \A c \in Conns : push[c] = "stored" =>
       \A i \in 1 .. Len(sent) : sent[i].seq < seq[c]

\* Where broadcasts happen in the order of their numbers, the header does not
\* speak of dropped records to a viewer that kept up: a snapshot taken between
\* any two steps of a push joins the live records without a gap (app.rs:166).
GapMeansLag == NoneOvertaken /\ dropped /\ ~gone[Watcher] => overrun[Watcher] # {}

\* A connection recorded once the watcher is live gets to the screen, itself or
\* one that came after it, unless the watcher left or was too slow for it.
ReachesTheScreen ==
  \A c \in Conns :
    push[c] = "stored" /\ Live(Watcher) ~>
      \/ \E row \in screen.table : row.seq >= seq[c]
      \/ gone[Watcher] \/ seq[c] \in overrun[Watcher]

\* render.rs:22-24 says of the note in the header that a gap is "Shown rather
\* than hidden, because a silently incomplete list is worse than a visibly
\* incomplete one": a record from the time since the snapshot began is missing
\* below one that is shown only with the note.
Lost == {n \in Missed(Watcher) \cup overrun[Watcher] : n >= Start(Watcher)}
NothingQuietlyMissing ==
  Live(Watcher) /\ (\E n \in Lost : \E m \in received : n < m) => dropped

============================================================================
