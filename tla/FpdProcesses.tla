---------------------------- MODULE FpdProcesses ----------------------------
(* Several fpd processes on one machine: main() runs each through the terms  *)
(* gate, then clap, then its command.  They meet in the acceptance record,   *)
(* its history and the admin socket's path, and any of them can be killed    *)
(* between any two steps.                                                    *)
EXTENDS TermsGate, ProbeCommands, AdminSocketPath, FiniteSets

vars == <<procVars, gateVars, probeVars, socketVars>>

Init == ProcInit /\ GateInit /\ ProbeInit /\ SocketInit

(* One step of main() or of the command it runs. *)
Step(p) ==
    \/ Parse(p) /\ UNCHANGED <<gateVars, probeVars, socketVars>>
    \/ GateStep(p) /\ UNCHANGED <<probeVars, socketVars>>
    \/ ProbeStep(p) /\ UNCHANGED <<gateVars, socketVars>>
    \/ SocketStep(p) /\ UNCHANGED <<gateVars, probeVars>>

(* The user leaves the view, or its terminal fails. *)
Quit(p) == ViewCloses(p) /\ ProbeEnds(p) /\ UNCHANGED gateVars

(* A signal or a crash: nothing is cleaned up, and in particular the socket *)
(* is not removed, because run() never gives up what would remove it.       *)
Kill(p) ==
    /\ pc[p] # "exited"
    /\ Exits(p, Killed)
    /\ GateKilled(p)
    /\ ProbeEnds(p)
    /\ SocketEnds(p)

World == \/ (UserEdits \/ UserDeletes) /\ UNCHANGED <<probeVars, socketVars>>
         \/ \E p \in Procs : ChildEnds(p) /\ UNCHANGED <<gateVars, socketVars>>

Next == World \/ \E p \in Procs : Step(p) \/ Quit(p) \/ Kill(p)

(* A process that can go on does, since each of its waits has a timeout; the *)
(* user, clients and children owe it nothing.                                *)
Spec == Init /\ [][Next]_vars /\ \A p \in Procs : WF_vars(Step(p))

-----------------------------------------------------------------------------
(* Every variable has its type. *)
TypeOK == ProcTypeOK /\ GateTypeOK /\ ProbeTypeOK /\ SocketTypeOK

(* A process the record let through was let through by an acceptance of the *)
(* terms it was built with: no edit of the file, half-written record or     *)
(* record of another version opens the gate (store.rs load, record.rs       *)
(* verify).                                                                 *)
GrantsAreAccepted ==
    \A p \in Procs : admitted[p] = "record" => inv[p].terms \in saved

(* Whatever terms have been saved as accepted are in the history, unless    *)
(* the process that accepted them is about to write the entry, or was       *)
(* killed or failed just then (terms.rs accept, main.rs).                   *)
RunsAreAudited ==
    \A v \in saved :
        \/ Audited(v)
        \/ v \in unaudited
        \/ \E p \in Procs : pc[p] = "append" /\ inv[p].terms = v

(* Once `terms accept` has said that the terms are accepted, the file holds *)
(* a record that opens the gate, for the terms it or a later `accept`       *)
(* saved, unless writes overlapped, one of them broke off, or the user      *)
(* touched the file (terms.rs accept, store.rs save and load).              *)
IsAccept(p) == /\ FirstStage(inv[p]) = "save"
               /\ ~ClapAnswers(inv[p].words)
Accepted(p) == IsAccept(p) /\ exit[p] = Success
Reached(p) == pc[p] \notin {"start", "parse", "save"}
AcceptOpensGate ==
    (~disturbed /\ Writing = {} /\ \E p \in Procs : Accepted(p))
    => \E q \in Procs : IsAccept(q) /\ Reached(q) /\ Load(inv[q].terms)

(* When every server that was given the socket's path has started and none  *)
(* was killed, the path leads to a socket one of them listens on, in        *)
(* whatever order they removed and bound it (admin.rs AdminSocket::bind).   *)
Servers == {p \in Procs : Command(inv[p]) = "serve" /\ inv[p].socket}
SocketAnswers ==
    (/\ \A p \in Servers : pc[p] = "serving" \/ exit[p] \in {Failure, Operational}
     /\ \E p \in Servers : pc[p] = "serving")
    => path \in listening

(* A probing command that got as far as running ends with a verdict, or     *)
(* with a profile written, only when its clients were seen, as many as it   *)
(* wanted; and a `check` with a verdict leaves no child process (check.rs,  *)
(* capture.rs, emulate.rs run).                                             *)
Probed(p) == /\ admitted[p] # "no"
             /\ FirstStage(inv[p]) = "bind"
             /\ ~ClapAnswers(inv[p].words)
VerdictsRestOnReports ==
    \A p \in Procs : Probed(p) /\ exit[p] \in {Success, Failure} =>
        /\ Len(reports[p]) = IF IsCommand(p, "capture") THEN inv[p].samples ELSE 1
        /\ child[p] \notin {"running", "ended"}

(* Every command but a server or an open view ends, whatever its clients    *)
(* and its child do or fail to do (probe.rs accept_one, check.rs run).      *)
CommandsEnd ==
    \A p \in Procs :
        (pc[p] = "start") ~> (pc[p] \in {"exited", "serving", "viewing"})

=============================================================================
