--------------------------- MODULE ProbeCommands ----------------------------
(* The commands that wait for a client on a local probe: `check` runs the    *)
(* client as a child process, `capture` collects several handshakes,         *)
(* `emulate --verify` drives a client of its own at the probe, and           *)
(* `tui --listen` accepts connections for as long as the view is open.       *)
EXTENDS FpdProcess

CONSTANTS Orders,   \* the extension orders a client may send
          MaxRows   \* Bound: connections a `tui --listen` reports

VARIABLES probe,    \* what the probe of each process is waiting for
          reports,  \* the orders its clients showed
          child,    \* the client command of `check`
          profiles  \* the equivalence rule of each profile written

probeVars == <<probe, reports, child, profiles>>

Rules == {"unknown", "fixed", "permuted"}
ProbeTypeOK == /\ probe \in [Procs -> {"none", "tcp", "handshake", "preamble"}]
               /\ reports \in [Procs -> Seq(Orders)]
               /\ child \in [Procs -> {"none", "running", "ended", "reaped"}]
               /\ profiles \in [Procs -> Rules \cup {"none"}]

ProbeInit == /\ probe = [p \in Procs |-> "none"]
             /\ reports = [p \in Procs |-> <<>>]
             /\ child = [p \in Procs |-> "none"]
             /\ profiles = [p \in Procs |-> "none"]

IsCommand(p, c) == Command(inv[p]) = c

(* Probe::bind.  The listener takes connections from here on; `check`       *)
(* starts its client next, the others go on to wait.                        *)
Bind(p) ==
    /\ pc[p] = "bind"
    /\ probe' = [probe EXCEPT ![p] = "tcp"]
    /\ Goto(p, IF IsCommand(p, "check") THEN "spawn" ELSE "accept")
    /\ UNCHANGED <<reports, child, profiles>>

Spawn(p) ==
    /\ pc[p] = "spawn"
    /\ child' = [child EXCEPT ![p] = "running"]
    /\ Goto(p, "accept")
    /\ UNCHANGED <<probe, reports, profiles>>

(* No port, no certificate file, no such program, no TLS configuration for  *)
(* the profile, no room for the profile file: always the operational code.  *)
ProbeFails(p) ==
    /\ pc[p] \in {"bind", "spawn", "profile"}
    /\ Exits(p, Operational)
    /\ probe' = [probe EXCEPT ![p] = "none"]
    /\ UNCHANGED <<reports, child, profiles>>

-----------------------------------------------------------------------------
(* accept_one: three waits, each with a timeout of its own. *)

Waits(p, what) == /\ probe[p] = what
                  /\ pc[p] \in {"accept", "viewing"}

(* Mutant: a failed capture is reported as a mismatch. *)
NothingSeenIsAMismatch(p) ==
    /\ IF pc[p] = "viewing"
       THEN probe' = [probe EXCEPT ![p] = "tcp"] /\ UNCHANGED procVars
       ELSE probe' = [probe EXCEPT ![p] = "none"] /\ Exits(p, Failure)
    /\ UNCHANGED <<reports, child, profiles>>

(* No connection, or no ClientHello that parses: the commands give up, and  *)
(* `check` leaves its client running; the view waits for the next one.      *)
NothingSeen(p) ==
    /\ IF pc[p] = "viewing"
       THEN probe' = [probe EXCEPT ![p] = "tcp"] /\ UNCHANGED procVars
       ELSE probe' = [probe EXCEPT ![p] = "none"] /\ Exits(p, Operational)
    /\ UNCHANGED <<reports, child, profiles>>

(* One more report.  `capture` wants several, the view has no end of them.  *)
Enough(p) == ~IsCommand(p, "capture") \/ Len(reports'[p]) = inv[p].samples
AfterReport(p) == CASE IsCommand(p, "check") -> "reap"
                    [] IsCommand(p, "capture") -> "profile"
                    [] OTHER -> "verdict"

Reported(p) ==
    /\ \E o \in Orders : reports' = [reports EXCEPT ![p] = Append(@, o)]
    /\ IF pc[p] = "viewing" \/ ~Enough(p)
       THEN probe' = [probe EXCEPT ![p] = "tcp"] /\ UNCHANGED procVars
       ELSE probe' = probe /\ Goto(p, AfterReport(p))
    /\ UNCHANGED <<child, profiles>>

WaitsFor(p, what) == /\ probe' = [probe EXCEPT ![p] = what]
                     /\ UNCHANGED <<procVars, reports, child, profiles>>

(* The listener accepts, or the time is up. *)
AcceptTcp(p) ==
    /\ Waits(p, "tcp")
    /\ pc[p] = "viewing" => Len(reports[p]) < MaxRows
    /\ WaitsFor(p, "handshake") \/ NothingSeen(p)

(* What was recorded until the handshake succeeded, failed or ran out of    *)
(* time decides, not its outcome; only over h2 is there more to read.       *)
Handshake(p) ==
    /\ Waits(p, "handshake")
    /\ WaitsFor(p, "preamble") \/ Reported(p) \/ NothingSeen(p)

(* The preamble came, the client went, or the time is up: a report either   *)
(* way.                                                                     *)
CaptureH2(p) ==
    /\ Waits(p, "preamble")
    /\ Reported(p)

-----------------------------------------------------------------------------
(* What each command does with its reports. *)

(* Mutant: `check` waits for its client without killing it. *)
WaitOnly(p) ==
    /\ pc[p] = "reap"
    /\ child[p] = "ended"
    /\ child' = [child EXCEPT ![p] = "reaped"]
    /\ Goto(p, "verdict")
    /\ UNCHANGED <<probe, reports, profiles>>

(* `check` kills its client whatever it is doing, and waits for its end.    *)
Reap(p) ==
    /\ pc[p] = "reap"
    /\ child' = [child EXCEPT ![p] = "reaped"]
    /\ Goto(p, "verdict")
    /\ UNCHANGED <<probe, reports, profiles>>

(* The diff or the identification is clean, or it is not. *)
Verdict(p) ==
    /\ pc[p] = "verdict"
    /\ \E clean \in BOOLEAN : Exits(p, IF clean THEN Success ELSE Failure)
    /\ probe' = [probe EXCEPT ![p] = "none"]
    /\ UNCHANGED <<reports, child, profiles>>

(* One sample says nothing about the order.                                  *)
InferOrder(samples) ==
    IF Len(samples) < 2 THEN "unknown"
    ELSE IF \A n \in DOMAIN samples : samples[n] = samples[1] THEN "fixed"
         ELSE "permuted"

WriteProfile(p) ==
    /\ pc[p] = "profile"
    /\ profiles' = [profiles EXCEPT ![p] = InferOrder(reports[p])]
    /\ Exits(p, Success)
    /\ probe' = [probe EXCEPT ![p] = "none"]
    /\ UNCHANGED <<reports, child>>

(* `tui --listen`: the task binds the port behind the view, which opens and *)
(* stays open whether or not that works.                                    *)
ListenTask(p) ==
    /\ pc[p] = "viewing"
    /\ inv[p].listen
    /\ probe[p] = "none"
    /\ WaitsFor(p, "tcp")

(* The client command ends by itself. *)
ChildEnds(p) ==
    /\ child[p] = "running"
    /\ child' = [child EXCEPT ![p] = "ended"]
    /\ UNCHANGED <<procVars, probe, reports, profiles>>

ProbeStep(p) == \/ Bind(p) \/ Spawn(p) \/ ProbeFails(p) \/ AcceptTcp(p)
                \/ Handshake(p) \/ CaptureH2(p) \/ Reap(p) \/ Verdict(p)
                \/ WriteProfile(p) \/ ListenTask(p)

(* Listener and reports go with the process; the child does not. *)
ProbeEnds(p) ==
    /\ probe' = [probe EXCEPT ![p] = "none"]
    /\ UNCHANGED <<reports, child, profiles>>

=============================================================================
