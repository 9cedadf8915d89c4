-------------------------- MODULE AdminSocketPath ---------------------------
(* The path of the admin socket, which every `fpd serve` with the same       *)
(* --admin-socket takes over from whoever had it: look, remove what is       *)
(* there, bind, restrict the mode.  `fpd tui --attach` looks, then connects. *)
(* Only the fate of the path is modelled here; what goes over the socket is  *)
(* AdminFeed's.                                                              *)
EXTENDS FpdProcess

CONSTANTS Stale   \* the socket file of a process that died before all this

VARIABLES path,       \* whose socket file the path names
          listening,  \* the processes that hold a listening admin socket
          attached    \* the process each view is connected to

socketVars == <<path, listening, attached>>

Missing == "missing"
NoOne == "no one"

(* No process is called what the path holds when it leads to none.          *)
ASSUME SocketNamesAssumption == Stale \notin Procs /\ Missing \notin Procs \cup {Stale}

SocketTypeOK == /\ path \in Procs \cup {Stale, Missing}
                /\ listening \subseteq Procs
                /\ attached \in [Procs -> Procs \cup {NoOne}]

SocketInit == /\ path \in {Stale, Missing}
              /\ listening = {}
              /\ attached = [p \in Procs |-> NoOne]

(* Server::bind has the TCP port; run() turns to the socket, if one is      *)
(* wanted.                                                                  *)
Listen(p) ==
    /\ pc[p] = "listen"
    /\ Goto(p, IF inv[p].socket THEN "exists" ELSE "serving")
    /\ UNCHANGED socketVars

(* Bad options, the port taken, or the certificate not written.             *)
ListenFails(p) ==
    /\ pc[p] = "listen"
    /\ Exits(p, Operational)
    /\ UNCHANGED socketVars

(* Mutant: a socket file that is there belongs to somebody. *)
LookAndLeave(p) ==
    /\ pc[p] = "exists"
    /\ Goto(p, IF path = Missing THEN "bindSocket" ELSE "serving")
    /\ UNCHANGED socketVars

Exists(p) ==
    /\ pc[p] = "exists"
    /\ Goto(p, IF path = Missing THEN "bindSocket" ELSE "remove")
    /\ UNCHANGED socketVars

(* An error in any of the next three leaves the server without a socket.    *)
Remove(p) ==
    /\ pc[p] = "remove"
    /\ Goto(p, IF path = Missing THEN "serving" ELSE "bindSocket")
    /\ path' = Missing
    /\ UNCHANGED <<listening, attached>>

BindSocket(p) ==
    /\ pc[p] = "bindSocket"
    /\ IF path = Missing
       THEN /\ path' = p
            /\ listening' = listening \cup {p}
            /\ Goto(p, "chmod")
       ELSE Goto(p, "serving") /\ UNCHANGED <<path, listening>>
    /\ UNCHANGED attached

(* The mode is set through the path, whoever's socket that names by now.    *)
Chmod(p) ==
    /\ pc[p] = "chmod"
    /\ Goto(p, "serving")
    /\ listening' = IF path = Missing THEN listening \ {p} ELSE listening
    /\ UNCHANGED <<path, attached>>

-----------------------------------------------------------------------------
(* The other end. *)

Find(p) ==
    /\ pc[p] = "find"
    /\ GotoOr(p, path # Missing, "connect", Operational)
    /\ UNCHANGED socketVars

(* Mutant: whatever the path names answers. *)
ConnectAnyway(p) ==
    /\ pc[p] = "connect"
    /\ attached' = [attached EXCEPT ![p] = path]
    /\ Goto(p, "viewing")
    /\ UNCHANGED <<path, listening>>

(* The view opens at once; its task connects behind it.  A path that leads  *)
(* nowhere leaves the view open and empty.                                  *)
Connect(p) ==
    /\ pc[p] = "connect"
    /\ attached' = [attached EXCEPT ![p] = IF path \in listening THEN path ELSE NoOne]
    /\ Goto(p, "viewing")
    /\ UNCHANGED <<path, listening>>

ViewCloses(p) ==
    /\ pc[p] = "viewing"
    /\ \E code \in {Success, Operational} : Exits(p, code)
    /\ attached' = [attached EXCEPT ![p] = NoOne]
    /\ UNCHANGED <<path, listening>>

SocketStep(p) == \/ Listen(p) \/ ListenFails(p) \/ Exists(p) \/ Remove(p)
                 \/ BindSocket(p) \/ Chmod(p) \/ Find(p) \/ Connect(p)

(* The sockets go with the process, its file stays; a view that was         *)
(* attached to it stays open.                                               *)
SocketEnds(p) ==
    /\ listening' = listening \ {p}
    /\ attached' = [v \in Procs |-> IF v = p \/ attached[v] = p THEN NoOne
                                                                ELSE attached[v]]
    /\ UNCHANGED path

=============================================================================
