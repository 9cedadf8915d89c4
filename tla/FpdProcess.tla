----------------------------- MODULE FpdProcess -----------------------------
(* Invocations of the fpd binary that run on one machine, side by side:      *)
(* what each was started with, how far main() and the command have got, and  *)
(* with which code it ended.  The modules that EXTEND this one say what the  *)
(* processes share: the files of the config directory, the admin socket's    *)
(* path, and nothing else.                                                   *)
EXTENDS Integers, Sequences

CONSTANTS Procs,      \* the processes
          Versions,   \* TERMS_HASH of the binaries in use
          Scenarios   \* which invocations run together

(* The command line and the environment of one process.  A word is a member *)
(* of argv: a subcommand, a flag, or anything else.  The other fields are   *)
(* what clap makes of the options of the subcommand that has them.          *)
Invocation ==
    [words : Seq(STRING), terms : Versions, env : BOOLEAN,
     profile : {"none", "known", "unknown"}, samples : Nat,
     socket : BOOLEAN, attach : BOOLEAN, listen : BOOLEAN, verify : BOOLEAN]

ASSUME ScenariosAssumption == Scenarios \subseteq [Procs -> Invocation]

Command(i) == IF i.words = <<>> THEN "nothing" ELSE Head(i.words)

(* Exit codes.  The refusal of main() is the code of a mismatch.            *)
Success == 0
Failure == 1
Operational == 2
Killed == 137
Running == 256
Codes == {Success, Failure, Operational, Killed, Running}

VARIABLES inv,    \* the invocation of each process
          pc,     \* the stage it has reached
          exit    \* its exit code

procVars == <<inv, pc, exit>>

GateStages == {"start", "gate", "audit", "append", "newline", "parse"}
AcceptStages == {"save", "write", "writeDeleted"}
ProbeStages == {"bind", "spawn", "accept", "reap", "verdict", "profile"}
ServeStages == {"listen", "exists", "remove", "bindSocket", "chmod", "serving"}
ViewStages == {"find", "connect", "viewing"}
Stages == GateStages \cup AcceptStages \cup ProbeStages \cup ServeStages
            \cup ViewStages \cup {"exited"}

ProcTypeOK == /\ inv \in Scenarios
              /\ pc \in [Procs -> Stages]
              /\ exit \in [Procs -> Codes]

ProcInit == /\ inv \in Scenarios
            /\ pc = [p \in Procs |-> "start"]
            /\ exit = [p \in Procs |-> Running]

Goto(p, stage) == /\ pc' = [pc EXCEPT ![p] = stage]
                  /\ UNCHANGED <<inv, exit>>

Exits(p, code) == /\ pc' = [pc EXCEPT ![p] = "exited"]
                  /\ exit' = [exit EXCEPT ![p] = code]
                  /\ UNCHANGED inv

(* Exits at once, or goes on to a stage. *)
GotoOr(p, goesOn, stage, code) ==
    \/ goesOn /\ Goto(p, stage)
    \/ ~goesOn /\ Exits(p, code)

-----------------------------------------------------------------------------
(* What clap makes of argv.  A flag clap knows ends the run wherever it     *)
(* stands, except among the words of `check`'s client command: that is a    *)
(* trailing argument which may hold flags of its own.                       *)
Flags == {"--help", "-h", "--version", "-V"}

InClientCommand(words, n) ==
    Head(words) = "check" /\ \E m \in 2 .. n - 1 : words[m] \notin Flags

ClapAnswers(words) ==
    \E n \in DOMAIN words : words[n] \in Flags /\ ~InClientCommand(words, n)

ClientCommand(words) ==
    {words[n] : n \in {m \in 2 .. Len(words) : words[m] \notin Flags}}

(* The stage at which each command begins; those that have nothing to do    *)
(* but answer end at once.                                                  *)
FirstStage(i) ==
    CASE Command(i) = "terms" /\ "accept" \in ClientCommand(i.words) -> "save"
      [] Command(i) = "serve" -> "listen"
      [] Command(i) = "tui" /\ i.attach # i.listen ->
            IF i.attach THEN "find" ELSE "viewing"
      [] Command(i) = "check" /\ i.profile # "unknown"
            /\ ClientCommand(i.words) # {} -> "bind"
      [] Command(i) = "capture" /\ i.samples > 0 -> "bind"
      [] Command(i) = "emulate" /\ i.profile = "known" /\ i.verify -> "bind"
      [] OTHER -> "exited"

AnswerCode(i) ==
    CASE Command(i) = "nothing" -> Failure
      [] Command(i) = "terms" /\ "show" \in ClientCommand(i.words) -> Success
      [] Command(i) = "emulate" /\ i.profile = "known" -> Success
      [] OTHER -> Operational

Parse(p) ==
    /\ pc[p] = "parse"
    /\ IF ClapAnswers(inv[p].words)
       THEN \E code \in {Success, Operational} : Exits(p, code)
       ELSE LET first == FirstStage(inv[p])
            IN  GotoOr(p, first # "exited", first, AnswerCode(inv[p]))

=============================================================================
