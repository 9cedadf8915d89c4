------------------------- MODULE FpdProcessesProofs -------------------------
(***************************************************************************)
(* Proofs about FpdProcesses: for every set of processes, whatever each of *)
(* them was started with, every set of terms versions and every set of     *)
(* extension orders.                                                       *)
(***************************************************************************)
EXTENDS FpdProcesses, TLAPS

----------------------------------------------------------------------------
(* Types *)

\* Where a command starts is a stage, and what it answers with is a code.
LEMMA Beginnings ==
  ASSUME NEW i
  PROVE  /\ FirstStage(i) \in {"save", "listen", "find", "viewing", "bind", "exited"}
         /\ AnswerCode(i) \in {Success, Failure, Operational}
BY DEF FirstStage, AnswerCode

\* Going on to a stage, and ending with a code, keep the types.
LEMMA GotoType ==
  ASSUME ProcTypeOK, NEW p \in Procs, NEW s \in Stages, Goto(p, s)
  PROVE  ProcTypeOK'
BY DEF ProcTypeOK, Goto

LEMMA ExitsType ==
  ASSUME ProcTypeOK, NEW p \in Procs, NEW c \in Codes, Exits(p, c)
  PROVE  ProcTypeOK'
BY DEF ProcTypeOK, Exits, Stages

LEMMA GotoOrType ==
  ASSUME ProcTypeOK, NEW p \in Procs, NEW s \in Stages, NEW c \in Codes,
         NEW b, GotoOr(p, b, s, c)
  PROVE  ProcTypeOK'
BY GotoType, ExitsType DEF GotoOr

\* The invocation is what ScenariosAssumption says.
LEMMA InvType ==
  ASSUME ProcTypeOK
  PROVE  inv \in [Procs -> Invocation]
BY ScenariosAssumption DEF ProcTypeOK

LEMMA ParseType ==
  ASSUME ProcTypeOK, NEW p \in Procs, Parse(p)
  PROVE  ProcTypeOK'
<1>1. {Success, Failure, Operational} \subseteq Codes
  BY DEF Codes
<1>2. FirstStage(inv[p]) \in Stages /\ AnswerCode(inv[p]) \in Codes
  BY <1>1, Beginnings DEF Stages, AcceptStages, ProbeStages, ServeStages, ViewStages
<1>3. CASE \E code \in {Success, Operational} : Exits(p, code)
  BY <1>1, <1>3, ExitsType
<1>4. CASE GotoOr(p, FirstStage(inv[p]) # "exited", FirstStage(inv[p]), AnswerCode(inv[p]))
  BY <1>2, <1>4, GotoOrType
<1>5. QED
  BY <1>3, <1>4 DEF Parse

\* Every record may be what the file holds.
LEMMA RecordsAreContents ==
  ASSUME NEW v \in Versions, NEW b \in BOOLEAN
  PROVE  Record(v, b) \in Contents
<1>1. Record(v, b) \in {Record(u, c) : u \in Versions, c \in BOOLEAN}
  OBVIOUS
<1>2. QED
  BY <1>1 DEF Contents

LEMMA NewRecordsAreContents ==
  ASSUME NEW v \in Versions
  PROVE  NewRecord(v) \in Contents
BY RecordsAreContents DEF NewRecord

\* Both things the history is made of.
LEMMA TokensOfHistory ==
  /\ Newline \in Tokens
  /\ \A v \in Versions, how \in {"interactive", "env"} : Entry(v, how) \in Tokens
BY DEF Tokens

\* Each step of the gate keeps the types of the processes and of the gate.
LEMMA GateStepType ==
  ASSUME ProcTypeOK, GateTypeOK, NEW p \in Procs, GateStep(p)
  PROVE  ProcTypeOK' /\ GateTypeOK'
<1> USE DEF Codes, Stages, GateStages, AcceptStages
<1>0. inv[p].terms \in Versions
  BY InvType DEF Invocation
<1>1. CASE Start(p)
  <2>1. ProcTypeOK'
    BY <1>1, GotoType DEF Start
  <2>2. QED
    BY <1>1, <2>1 DEF Start, GateTypeOK
<1>2. CASE Gate(p)
  <2>1. ProcTypeOK'
    BY <1>2, GotoType, ExitsType DEF Gate
  <2>2. QED
    BY <1>2, <2>1 DEF Gate, GateTypeOK
<1>3. CASE Audit(p)
  <2>1. ProcTypeOK'
    BY <1>3, GotoType DEF Audit
  <2>2. QED
    BY <1>3, <2>1 DEF Audit, GateTypeOK, gateVars
<1>4. CASE AppendEntry(p)
  <2>1. ProcTypeOK'
    BY <1>4, GotoType DEF AppendEntry
  <2>2. How(p) \in {"interactive", "env"}
    BY DEF How
  <2>3. QED
    BY <1>0, <1>4, <2>1, <2>2, TokensOfHistory DEF AppendEntry, GateTypeOK
<1>5. CASE EndLine(p)
  <2>1. ProcTypeOK'
    BY <1>5, GotoOrType DEF EndLine, AfterAppend
  <2>2. QED
    BY <1>5, <2>1, TokensOfHistory DEF EndLine, GateTypeOK
<1>6. CASE AppendFails(p)
  <2>1. ProcTypeOK'
    BY <1>6, GotoOrType DEF AppendFails
  <2>2. QED
    BY <1>0, <1>6, <2>1 DEF AppendFails, GateTypeOK
<1>7. CASE Save(p)
  <2>1. ProcTypeOK'
    BY <1>7, GotoType DEF Save
  <2>2. QED
    BY <1>7, <2>1 DEF Save, GateTypeOK, Contents
<1>8. CASE Write(p)
  <2>1. ProcTypeOK'
    BY <1>8, GotoType DEF Write
  <2>2. NewRecord(inv[p].terms) \in Contents
    BY <1>0, NewRecordsAreContents
  <2>3. QED
    BY <1>0, <1>8, <2>1, <2>2 DEF Write, GateTypeOK, Contents
<1>9. CASE SaveFails(p)
  <2>1. ProcTypeOK'
    BY <1>9, ExitsType DEF SaveFails
  <2>2. QED
    BY <1>9, <2>1 DEF SaveFails, GateTypeOK, Contents
<1>10. CASE NoConfigDir(p)
  <2>1. ProcTypeOK'
    BY <1>10, ExitsType DEF NoConfigDir
  <2>2. QED
    BY <1>10, <2>1 DEF NoConfigDir, GateTypeOK, gateVars
<1>11. QED
  BY <1>1, <1>2, <1>3, <1>4, <1>5, <1>6, <1>7, <1>8, <1>9, <1>10 DEF GateStep

\* So does each step of a probing command,
LEMMA ProbeStepType ==
  ASSUME ProcTypeOK, ProbeTypeOK, NEW p \in Procs, ProbeStep(p)
  PROVE  ProcTypeOK' /\ ProbeTypeOK'
<1> USE DEF Codes, Stages, GateStages, ProbeStages, ViewStages
<1>1. CASE Bind(p)
  <2>1. ProcTypeOK'
    BY <1>1, GotoType DEF Bind
  <2>2. QED
    BY <1>1, <2>1 DEF Bind, ProbeTypeOK
<1>2. CASE Spawn(p)
  <2>1. ProcTypeOK'
    BY <1>2, GotoType DEF Spawn
  <2>2. QED
    BY <1>2, <2>1 DEF Spawn, ProbeTypeOK
<1>3. CASE ProbeFails(p)
  <2>1. ProcTypeOK'
    BY <1>3, ExitsType DEF ProbeFails
  <2>2. QED
    BY <1>3, <2>1 DEF ProbeFails, ProbeTypeOK
<1>4. ASSUME NothingSeen(p) PROVE ProcTypeOK' /\ ProbeTypeOK'
  <2>1. ProcTypeOK'
    BY <1>4, ExitsType DEF NothingSeen, ProcTypeOK, procVars
  <2>2. QED
    BY <1>4, <2>1 DEF NothingSeen, ProbeTypeOK
<1>5. ASSUME Reported(p) PROVE ProcTypeOK' /\ ProbeTypeOK'
  <2>1. AfterReport(p) \in Stages
    BY DEF AfterReport
  <2>2. ProcTypeOK'
    BY <1>5, <2>1, GotoType DEF Reported, ProcTypeOK, procVars
  <2>3. reports' \in [Procs -> Seq(Orders)]
    <3>1. PICK o \in Orders : reports' = [reports EXCEPT ![p] = Append(@, o)]
      BY <1>5 DEF Reported
    <3>2. Append(reports[p], o) \in Seq(Orders)
      BY DEF ProbeTypeOK
    <3>3. QED
      BY <3>1, <3>2 DEF ProbeTypeOK
  <2>4. probe' = probe \/ probe' = [probe EXCEPT ![p] = "tcp"]
    BY <1>5 DEF Reported
  <2>5. UNCHANGED <<child, profiles>>
    BY <1>5 DEF Reported
  <2>6. QED
    BY <2>2, <2>3, <2>4, <2>5 DEF ProbeTypeOK
<1>6. ASSUME NEW what \in {"tcp", "handshake", "preamble"}, WaitsFor(p, what)
      PROVE  ProcTypeOK' /\ ProbeTypeOK'
  BY <1>6 DEF WaitsFor, ProcTypeOK, ProbeTypeOK, procVars
<1>7. CASE AcceptTcp(p) \/ Handshake(p) \/ CaptureH2(p) \/ ListenTask(p)
  BY <1>4, <1>5, <1>6, <1>7 DEF AcceptTcp, Handshake, CaptureH2, ListenTask
<1>8. CASE Reap(p)
  <2>1. ProcTypeOK'
    BY <1>8, GotoType DEF Reap
  <2>2. QED
    BY <1>8, <2>1 DEF Reap, ProbeTypeOK
<1>9. CASE Verdict(p)
  <2>1. ProcTypeOK'
    BY <1>9, ExitsType DEF Verdict
  <2>2. QED
    BY <1>9, <2>1 DEF Verdict, ProbeTypeOK
<1>10. CASE WriteProfile(p)
  <2>1. ProcTypeOK'
    BY <1>10, ExitsType DEF WriteProfile
  <2>2. InferOrder(reports[p]) \in Rules
    BY DEF InferOrder, Rules
  <2>3. QED
    BY <1>10, <2>1, <2>2 DEF WriteProfile, ProbeTypeOK
<1>11. QED
  BY <1>1, <1>2, <1>3, <1>7, <1>8, <1>9, <1>10 DEF ProbeStep

\* each step towards the socket,
LEMMA SocketStepType ==
  ASSUME ProcTypeOK, SocketTypeOK, NEW p \in Procs, SocketStep(p)
  PROVE  ProcTypeOK' /\ SocketTypeOK'
<1> USE DEF Codes, Stages, ServeStages, ViewStages
<1>1. CASE Listen(p)
  <2>1. ProcTypeOK'
    BY <1>1, GotoType DEF Listen
  <2>2. QED
    BY <1>1, <2>1 DEF Listen, SocketTypeOK, socketVars
<1>2. CASE ListenFails(p)
  <2>1. ProcTypeOK'
    BY <1>2, ExitsType DEF ListenFails
  <2>2. QED
    BY <1>2, <2>1 DEF ListenFails, SocketTypeOK, socketVars
<1>3. CASE Exists(p)
  <2>1. ProcTypeOK'
    BY <1>3, GotoType DEF Exists
  <2>2. QED
    BY <1>3, <2>1 DEF Exists, SocketTypeOK, socketVars
<1>4. CASE Remove(p)
  <2>1. ProcTypeOK'
    BY <1>4, GotoType DEF Remove
  <2>2. QED
    BY <1>4, <2>1 DEF Remove, SocketTypeOK
<1>5. CASE BindSocket(p)
  <2>1. ProcTypeOK'
    BY <1>5, GotoType DEF BindSocket
  <2>2. QED
    BY <1>5, <2>1 DEF BindSocket, SocketTypeOK
<1>6. CASE Chmod(p)
  <2>1. ProcTypeOK'
    BY <1>6, GotoType DEF Chmod
  <2>2. QED
    BY <1>6, <2>1 DEF Chmod, SocketTypeOK
<1>7. CASE Find(p)
  <2>1. ProcTypeOK'
    BY <1>7, GotoOrType DEF Find
  <2>2. QED
    BY <1>7, <2>1 DEF Find, SocketTypeOK, socketVars
<1>8. CASE Connect(p)
  <2>1. ProcTypeOK'
    BY <1>8, GotoType DEF Connect
  <2>2. (IF path \in listening THEN path ELSE NoOne) \in Procs \cup {NoOne}
    BY DEF SocketTypeOK
  <2>3. QED
    BY <1>8, <2>1, <2>2 DEF Connect, SocketTypeOK
<1>9. QED
  BY <1>1, <1>2, <1>3, <1>4, <1>5, <1>6, <1>7, <1>8 DEF SocketStep

\* and every step.
LEMMA TypeStep ==
  ASSUME TypeOK, [Next]_vars
  PROVE  TypeOK'
<1> USE DEF TypeOK
<1>1. ASSUME NEW p \in Procs, Step(p) PROVE TypeOK'
  <2>1. CASE Parse(p) /\ UNCHANGED <<gateVars, probeVars, socketVars>>
    BY <2>1, ParseType
    DEF GateTypeOK, ProbeTypeOK, SocketTypeOK, gateVars, probeVars, socketVars
  <2>2. CASE GateStep(p) /\ UNCHANGED <<probeVars, socketVars>>
    BY <2>2, GateStepType DEF ProbeTypeOK, SocketTypeOK, probeVars, socketVars
  <2>3. CASE ProbeStep(p) /\ UNCHANGED <<gateVars, socketVars>>
    BY <2>3, ProbeStepType DEF GateTypeOK, SocketTypeOK, gateVars, socketVars
  <2>4. CASE SocketStep(p) /\ UNCHANGED <<gateVars, probeVars>>
    BY <2>4, SocketStepType DEF GateTypeOK, ProbeTypeOK, gateVars, probeVars
  <2>5. QED
    BY <1>1, <2>1, <2>2, <2>3, <2>4 DEF Step
<1>2. ASSUME NEW p \in Procs, Quit(p) PROVE TypeOK'
  <2>1. ProcTypeOK'
    BY <1>2, ExitsType DEF Quit, ViewCloses, Codes
  <2>2. GateTypeOK'
    BY <1>2 DEF Quit, GateTypeOK, gateVars
  <2>3. ProbeTypeOK'
    BY <1>2 DEF Quit, ProbeEnds, ProbeTypeOK
  <2>4. SocketTypeOK'
    BY <1>2 DEF Quit, ViewCloses, SocketTypeOK
  <2>5. QED
    BY <2>1, <2>2, <2>3, <2>4
<1>3. ASSUME NEW p \in Procs, Kill(p) PROVE TypeOK'
  <2>1. ProcTypeOK'
    BY <1>3, ExitsType DEF Kill, Codes
  <2>2. inv[p].terms \in Versions
    BY InvType DEF Invocation
  <2>3. GateTypeOK'
    BY <1>3, <2>2 DEF Kill, GateKilled, GateTypeOK
  <2>4. ProbeTypeOK'
    BY <1>3 DEF Kill, ProbeEnds, ProbeTypeOK
  <2>5. SocketTypeOK'
    BY <1>3 DEF Kill, SocketEnds, SocketTypeOK
  <2>6. QED
    BY <2>1, <2>3, <2>4, <2>5
<1>4. ASSUME World PROVE TypeOK'
  <2>1. CASE UserEdits /\ UNCHANGED <<probeVars, socketVars>>
    <3>1. acceptance' \in Contents
      BY <2>1, RecordsAreContents DEF UserEdits
    <3>2. GateTypeOK'
      BY <2>1, <3>1 DEF UserEdits, GateTypeOK
    <3>3. ProcTypeOK' /\ ProbeTypeOK' /\ SocketTypeOK'
      BY <2>1 DEF UserEdits, ProcTypeOK, ProbeTypeOK, SocketTypeOK, probeVars, socketVars
    <3>4. QED
      BY <3>2, <3>3
  <2>2. CASE UserDeletes /\ UNCHANGED <<probeVars, socketVars>>
    <3>1. ProcTypeOK'
      BY <2>2 DEF UserDeletes, ProcTypeOK, Stages, AcceptStages
    <3>2. QED
      BY <2>2, <3>1 DEF UserDeletes, GateTypeOK, ProbeTypeOK, SocketTypeOK, Contents,
                        probeVars, socketVars
  <2>3. CASE \E p \in Procs : ChildEnds(p) /\ UNCHANGED <<gateVars, socketVars>>
    BY <2>3 DEF ChildEnds, ProcTypeOK, GateTypeOK, ProbeTypeOK, SocketTypeOK,
                procVars, gateVars, socketVars
  <2>4. QED
    BY <1>4, <2>1, <2>2, <2>3 DEF World
<1>5. CASE UNCHANGED vars
  BY <1>5 DEF ProcTypeOK, GateTypeOK, ProbeTypeOK, SocketTypeOK, vars, procVars, gateVars,
              probeVars, socketVars
<1>6. QED
  BY <1>1, <1>2, <1>3, <1>4, <1>5 DEF Next

LEMMA TypeInit ==
  ASSUME Init
  PROVE  TypeOK
<1>1. ProcTypeOK
  BY DEF Init, ProcInit, ProcTypeOK, Stages, GateStages, Codes
<1>2. GateTypeOK
  <2>1. acceptance \in Contents
    BY NewRecordsAreContents DEF Init, GateInit, Contents
  <2>2. Newline \in Tokens /\ \A v \in Versions : Entry(v, "interactive") \in Tokens
    BY TokensOfHistory
  <2>3. history = <<>> \/ \E v \in Versions : history = <<Entry(v, "interactive"), Newline>>
    BY DEF Init, GateInit
  <2>4. history \in Seq(Tokens)
    <3>1. CASE history = <<>>
      BY <3>1
    <3>2. ASSUME NEW v \in Versions, history = <<Entry(v, "interactive"), Newline>>
          PROVE  history \in Seq(Tokens)
      BY <2>2, <3>2
    <3>3. QED
      BY <2>3, <3>1, <3>2
  <2>5. admitted \in [Procs -> {"no", "exempt", "env", "record"}]
    BY DEF Init, GateInit
  <2>6. saved \subseteq Versions /\ disturbed = FALSE /\ unaudited = {}
    BY DEF Init, GateInit
  <2>7. QED
    BY <2>1, <2>4, <2>5, <2>6 DEF GateTypeOK
<1>3. ProbeTypeOK
  BY DEF Init, ProbeInit, ProbeTypeOK
<1>4. SocketTypeOK
  BY DEF Init, SocketInit, SocketTypeOK
<1>5. QED
  BY <1>1, <1>2, <1>3, <1>4 DEF TypeOK

(* Every variable has its type, whatever the processes were started with    *)
(* (main.rs main, terms.rs, check.rs, capture.rs, emulate.rs, admin.rs).    *)
THEOREM TypeCorrect == Spec => []TypeOK
<1>1. Init => TypeOK
  BY TypeInit
<1>2. TypeOK /\ [Next]_vars => TypeOK'
  BY TypeStep
<1>3. QED
  BY <1>1, <1>2, PTL DEF Spec

----------------------------------------------------------------------------
(* What the steps outside the gate leave alone *)

\* Clap and the commands that are not `terms` touch neither the record nor its
\* history, and of a process they move they know where it stood.
CommandStages == ProbeStages \cup ServeStages \cup ViewStages

Apart(p) == /\ UNCHANGED <<gateVars, inv>>
            /\ \/ Parse(p)
               \/ pc[p] \in CommandStages /\ pc'[p] \in CommandStages \cup {"exited"}
            /\ \A q \in Procs \ {p} : pc'[q] = pc[q] /\ exit'[q] = exit[q]

LEMMA Partition ==
  ASSUME TypeOK, [Next]_vars
  PROVE  /\ inv' = inv
         /\ \/ \E p \in Procs : GateStep(p) \/ Kill(p) \/ Apart(p)
            \/ UserEdits \/ UserDeletes
            \/ UNCHANGED <<gateVars, procVars>>
<1> USE DEF Goto, Exits, GotoOr
<1>1. ASSUME NEW p \in Procs, GateStep(p) PROVE inv' = inv
  BY <1>1 DEF GateStep, Start, Gate, Audit, AppendEntry, EndLine, AfterAppend, AppendFails, Save,
              Write, SaveFails, NoConfigDir
<1>2. ASSUME NEW p \in Procs, Kill(p) PROVE inv' = inv
  BY <1>2 DEF Kill
<1>3. ASSUME NEW p \in Procs, Parse(p), UNCHANGED gateVars PROVE Apart(p)
  BY <1>3 DEF Parse, Apart, TypeOK, ProcTypeOK
<1>4. ASSUME NEW p \in Procs, ProbeStep(p), UNCHANGED gateVars PROVE Apart(p)
  <2> USE DEF Apart, CommandStages, ProbeStages, ViewStages, TypeOK, ProcTypeOK
  <2>1. ASSUME \/ NothingSeen(p) \/ Reported(p)
               \/ \E what \in {"tcp", "handshake", "preamble"} : WaitsFor(p, what)
        PROVE  /\ UNCHANGED inv /\ \A q \in Procs \ {p} : pc'[q] = pc[q] /\ exit'[q] = exit[q]
               /\ pc'[p] \in {pc[p], "reap", "profile", "verdict", "exited"}
    BY <2>1 DEF NothingSeen, Reported, AfterReport, WaitsFor, procVars
  <2>2. CASE Bind(p) \/ Spawn(p) \/ ProbeFails(p) \/ Reap(p) \/ Verdict(p) \/ WriteProfile(p)
    BY <1>4, <2>2 DEF Bind, Spawn, ProbeFails, Reap, Verdict, WriteProfile
  <2>3. CASE AcceptTcp(p) \/ Handshake(p) \/ CaptureH2(p) \/ ListenTask(p)
    BY <1>4, <2>1, <2>3 DEF AcceptTcp, Handshake, CaptureH2, ListenTask, Waits
  <2>4. QED
    BY <1>4, <2>2, <2>3 DEF ProbeStep
<1>5. ASSUME NEW p \in Procs, SocketStep(p), UNCHANGED gateVars PROVE Apart(p)
  BY <1>5 DEF Apart, CommandStages, ServeStages, ViewStages, TypeOK, ProcTypeOK, SocketStep, Listen,
              ListenFails, Exists, Remove, BindSocket, Chmod, Find, Connect
<1>6. ASSUME NEW p \in Procs, Quit(p) PROVE Apart(p)
  BY <1>6 DEF Quit, ViewCloses, Apart, CommandStages, ViewStages, TypeOK, ProcTypeOK
<1>7. ASSUME NEW p \in Procs, ChildEnds(p), UNCHANGED gateVars
      PROVE  UNCHANGED <<gateVars, procVars>>
  BY <1>7 DEF ChildEnds
<1>8. (UserEdits \/ UserDeletes) => inv' = inv
  BY DEF UserEdits, UserDeletes
<1>9. CASE World
  BY <1>7, <1>8, <1>9 DEF World, procVars
<1>10. ASSUME NEW p \in Procs, Step(p) PROVE GateStep(p) \/ Apart(p)
  BY <1>3, <1>4, <1>5, <1>10 DEF Step
<1>11. CASE UNCHANGED vars
  BY <1>11 DEF vars, procVars
<1>12. ASSUME NEW p \in Procs, Apart(p) PROVE inv' = inv
  BY <1>12 DEF Apart
<1>13. QED
  BY <1>1, <1>2, <1>6, <1>9, <1>10, <1>11, <1>12 DEF Next

----------------------------------------------------------------------------
(* Grants and the history *)

\* A sealed record is one that a process saved: the strengthening that makes
\* GrantsAreAccepted inductive.
RecordsAreSaved ==
    acceptance.kind = "record" /\ acceptance.sealed => acceptance.terms \in saved

LEMMA GrantsInit ==
  ASSUME Init
  PROVE  RecordsAreSaved /\ GrantsAreAccepted
<1>1. RecordsAreSaved
  BY DEF Init, GateInit, RecordsAreSaved, NewRecord, Record, Absent
<1>2. GrantsAreAccepted
  BY DEF Init, GateInit, GrantsAreAccepted
<1>3. QED
  BY <1>1, <1>2

LEMMA GrantsGateStep ==
  ASSUME TypeOK, RecordsAreSaved, GrantsAreAccepted, NEW p \in Procs, GateStep(p), inv' = inv
  PROVE  RecordsAreSaved' /\ GrantsAreAccepted'
<1> USE DEF RecordsAreSaved, GrantsAreAccepted
<1>0. admitted \in [Procs -> {"no", "exempt", "env", "record"}]
  BY DEF TypeOK, GateTypeOK
<1>1. CASE Start(p)
  BY <1>0, <1>1 DEF Start
<1>2. CASE Gate(p)
  <2>1. RecordsAreSaved'
    BY <1>2 DEF Gate
  <2>2. Load(inv[p].terms) => inv[p].terms \in saved
    BY DEF Load, Verify
  <2>3. GrantsAreAccepted'
    BY <1>0, <1>2, <2>2 DEF Gate
  <2>4. QED
    BY <2>1, <2>3
<1>3. CASE Audit(p) \/ NoConfigDir(p)
  BY <1>3 DEF Audit, NoConfigDir, gateVars
<1>4. CASE AppendEntry(p) \/ EndLine(p) \/ AppendFails(p)
  BY <1>4 DEF AppendEntry, EndLine, AppendFails
<1>5. CASE Save(p)
  BY <1>5 DEF Save, Empty
<1>6. CASE Write(p)
  BY <1>6 DEF Write, NewRecord, Record, Torn
<1>7. CASE SaveFails(p)
  BY <1>7 DEF SaveFails, Torn
<1>8. QED
  BY <1>1, <1>2, <1>3, <1>4, <1>5, <1>6, <1>7 DEF GateStep

LEMMA GrantsStep ==
  ASSUME TypeOK, RecordsAreSaved, GrantsAreAccepted, [Next]_vars
  PROVE  RecordsAreSaved' /\ GrantsAreAccepted'
<1> USE DEF RecordsAreSaved, GrantsAreAccepted
<1>1. inv' = inv
  BY Partition
<1>2. ASSUME NEW p \in Procs, Kill(p) PROVE RecordsAreSaved' /\ GrantsAreAccepted'
  BY <1>1, <1>2 DEF Kill, GateKilled
<1>3. ASSUME NEW p \in Procs, Apart(p) PROVE RecordsAreSaved' /\ GrantsAreAccepted'
  BY <1>1, <1>3 DEF Apart, gateVars
<1>4. CASE UserEdits
  BY <1>1, <1>4 DEF UserEdits, Record
<1>5. CASE UserDeletes
  BY <1>1, <1>5 DEF UserDeletes, Absent
<1>6. CASE UNCHANGED <<gateVars, procVars>>
  BY <1>1, <1>6 DEF gateVars
<1>7. QED
  BY <1>1, <1>2, <1>3, <1>4, <1>5, <1>6, Partition, GrantsGateStep

(* The gate opens to a record only after somebody accepted the terms this    *)
(* very binary was built with: no edit, no half-written file and no record  *)
(* of another version opens it (store.rs load, record.rs verify).           *)
THEOREM GrantsAreAcceptedAlways == Spec => []GrantsAreAccepted
<1>1. Init => RecordsAreSaved /\ GrantsAreAccepted
  BY GrantsInit
<1>2. TypeOK /\ RecordsAreSaved /\ GrantsAreAccepted /\ [Next]_vars
      => RecordsAreSaved' /\ GrantsAreAccepted'
  BY GrantsStep
<1>3. QED
  BY <1>1, <1>2, TypeCorrect, PTL DEF Spec

\* The history only grows, and what is in it stays.
LEMMA AuditedStays ==
  ASSUME TypeOK, NEW v, NEW t \in Tokens, Audited(v), history' = Append(history, t)
  PROVE  Audited(v)'
<1>1. history \in Seq(Tokens)
  BY DEF TypeOK, GateTypeOK
<1>2. \A n \in DOMAIN history : n \in DOMAIN history' /\ history'[n] = history[n]
  BY <1>1
<1>3. QED
  BY <1>2 DEF Audited

LEMMA EntryIsAudited ==
  ASSUME TypeOK, NEW v \in Versions, NEW how \in {"interactive", "env"},
         history' = Append(history, Entry(v, how))
  PROVE  Audited(v)'
<1>1. history \in Seq(Tokens) /\ Entry(v, how) \in Tokens
  BY TokensOfHistory DEF TypeOK, GateTypeOK
<1>2. Len(history) + 1 \in DOMAIN history' /\ history'[Len(history) + 1] = Entry(v, how)
  BY <1>1
<1>3. QED
  BY <1>2 DEF Audited, Entry

\* What keeps RunsAreAudited: an acceptance that leaves "append" is in the
\* history or noted as lost, and what is saved anew is at "append".
LEMMA AuditKept ==
  ASSUME RunsAreAudited, inv' = inv, unaudited \subseteq unaudited',
         \A v \in saved : Audited(v) => Audited(v)',
         \A v \in saved' : v \in saved \/ \E p \in Procs : pc'[p] = "append" /\ inv[p].terms = v,
         \A p \in Procs : pc[p] = "append" =>
             pc'[p] = "append" \/ Audited(inv[p].terms)' \/ inv[p].terms \in unaudited'
  PROVE  RunsAreAudited'
BY DEF RunsAreAudited

LEMMA AuditGateStep ==
  ASSUME TypeOK, RunsAreAudited, NEW p \in Procs, GateStep(p), inv' = inv
  PROVE  RunsAreAudited'
<1> USE DEF Goto, Exits, GotoOr
<1>0. pc \in [Procs -> Stages] /\ inv[p].terms \in Versions
  BY InvType DEF TypeOK, ProcTypeOK, Invocation
<1>1. CASE AppendEntry(p)
  <2>1. How(p) \in {"interactive", "env"}
    BY DEF How
  <2>2. Entry(inv[p].terms, How(p)) \in Tokens
    BY <1>0, <2>1, TokensOfHistory
  <2>3. Audited(inv[p].terms)'
    BY <1>0, <1>1, <2>1, EntryIsAudited DEF AppendEntry
  <2>4. \A v \in saved : Audited(v) => Audited(v)'
    BY <1>1, <2>2, AuditedStays DEF AppendEntry
  <2>5. \A q \in Procs \ {p} : pc'[q] = pc[q]
    BY <1>0, <1>1 DEF AppendEntry
  <2>6. QED
    BY <1>1, <2>3, <2>4, <2>5, AuditKept DEF AppendEntry
<1>2. CASE EndLine(p)
  <2>1. \A v \in saved : Audited(v) => Audited(v)'
    BY <1>2, AuditedStays, TokensOfHistory DEF EndLine
  <2>2. \A q \in Procs : pc[q] = "append" => pc'[q] = "append"
    BY <1>0, <1>2 DEF EndLine, AfterAppend
  <2>3. QED
    BY <1>2, <2>1, <2>2, AuditKept DEF EndLine
<1>3. CASE AppendFails(p)
  <2>1. \A v \in saved : Audited(v) => Audited(v)'
    BY <1>3 DEF AppendFails, Audited
  <2>2. \A q \in Procs : pc[q] = "append" => pc'[q] = "append" \/ inv[q].terms \in unaudited'
    BY <1>0, <1>3 DEF AppendFails
  <2>3. unaudited \subseteq unaudited'
    BY <1>3 DEF AppendFails
  <2>4. QED
    BY <1>3, <2>1, <2>2, <2>3, AuditKept DEF AppendFails
<1>4. CASE Write(p)
  <2>1. \A v \in saved : Audited(v) => Audited(v)'
    BY <1>4 DEF Write, Audited
  <2>2. \A q \in Procs : pc[q] = "append" => pc'[q] = "append"
    BY <1>0, <1>4 DEF Write
  <2>3. \A v \in saved' : v \in saved \/ \E q \in Procs : pc'[q] = "append" /\ inv[q].terms = v
    BY <1>0, <1>4 DEF Write
  <2>4. QED
    BY <1>4, <2>1, <2>2, <2>3, AuditKept DEF Write
<1>5. CASE Start(p) \/ Gate(p) \/ Audit(p) \/ Save(p) \/ SaveFails(p) \/ NoConfigDir(p)
  <2> USE DEF Start, Gate, Audit, Save, SaveFails, NoConfigDir, gateVars, AcceptStages
  <2>1. UNCHANGED <<history, saved, unaudited>>
    BY <1>5
  <2>2. \A q \in Procs : pc[q] = "append" => pc'[q] = "append"
    BY <1>0, <1>5
  <2>3. \A v \in saved : Audited(v) => Audited(v)'
    BY <2>1 DEF Audited
  <2>4. QED
    BY <2>1, <2>2, <2>3, AuditKept
<1>6. QED
  BY <1>1, <1>2, <1>3, <1>4, <1>5 DEF GateStep

LEMMA AuditStep ==
  ASSUME TypeOK, RunsAreAudited, [Next]_vars
  PROVE  RunsAreAudited'
<1>0. pc \in [Procs -> Stages] /\ inv' = inv
  BY Partition DEF TypeOK, ProcTypeOK
<1>1. ASSUME UNCHANGED history PROVE \A v \in saved : Audited(v) => Audited(v)'
  BY <1>1 DEF Audited
<1>2. ASSUME NEW p \in Procs, Kill(p) PROVE RunsAreAudited'
  <2>1. UNCHANGED <<history, saved>> /\ unaudited \subseteq unaudited'
    BY <1>2 DEF Kill, GateKilled
  <2>2. \A q \in Procs : pc[q] = "append" => pc'[q] = "append" \/ inv[q].terms \in unaudited'
    BY <1>0, <1>2 DEF Kill, GateKilled, Exits
  <2>3. QED
    BY <1>0, <1>1, <2>1, <2>2, AuditKept
<1>3. ASSUME NEW p \in Procs, Apart(p) PROVE RunsAreAudited'
  <2>1. \A q \in Procs : pc[q] = "append" => pc'[q] = "append"
    BY <1>3 DEF Apart, Parse, CommandStages, ProbeStages, ServeStages, ViewStages
  <2>2. QED
    BY <1>0, <1>1, <1>3, <2>1, AuditKept DEF Apart, gateVars
<1>4. CASE UserEdits
  BY <1>0, <1>1, <1>4, AuditKept DEF UserEdits
<1>5. CASE UserDeletes
  <2>1. \A q \in Procs : pc[q] = "append" => pc'[q] = "append"
    BY <1>0, <1>5 DEF UserDeletes
  <2>2. QED
    BY <1>0, <1>1, <1>5, <2>1, AuditKept DEF UserDeletes
<1>6. CASE UNCHANGED <<gateVars, procVars>>
  BY <1>0, <1>1, <1>6, AuditKept DEF gateVars, procVars
<1>7. QED
  BY <1>0, <1>2, <1>3, <1>4, <1>5, <1>6, Partition, AuditGateStep

(* Whatever terms have been saved as accepted are in the history, unless    *)
(* the process that accepted them is about to write the entry, or was       *)
(* killed or failed just then (terms.rs accept, history.rs append).         *)
THEOREM RunsAreAuditedAlways == Spec => []RunsAreAudited
<1>1. Init => RunsAreAudited
  <2> SUFFICES ASSUME Init PROVE RunsAreAudited
    OBVIOUS
  <2>1. CASE saved = {}
    BY <2>1 DEF RunsAreAudited
  <2>2. ASSUME NEW v \in Versions, saved = {v},
               history = <<Entry(v, "interactive"), Newline>>
        PROVE  RunsAreAudited
    <3>1. 1 \in DOMAIN history /\ history[1] = Entry(v, "interactive")
      BY <2>2
    <3>2. Audited(v)
      BY <3>1 DEF Audited, Entry
    <3>3. QED
      BY <2>2, <3>2 DEF RunsAreAudited
  <2>3. QED
    BY <2>1, <2>2 DEF Init, GateInit
<1>2. TypeOK /\ RunsAreAudited /\ [Next]_vars => RunsAreAudited'
  BY AuditStep
<1>3. QED
  BY <1>1, <1>2, TypeCorrect, PTL DEF Spec

----------------------------------------------------------------------------
(* Where a process can stand, given what it was started with *)

\* A command's stages belong to an invocation that begins with them, and the
\* gate's own stages to one that clap or the gate has not answered yet.
Runs(p, first) == ~ClapAnswers(inv[p].words) /\ FirstStage(inv[p]) \in first

Phase(p) ==
    /\ pc[p] # "exited" => exit[p] = Running
    /\ pc[p] \in {"start", "gate"} => admitted[p] = "no"
    /\ pc[p] = "gate" => AppliesTo(inv[p].words)
    /\ admitted[p] \in {"env", "record"} => AppliesTo(inv[p].words)
    /\ pc[p] = "audit" => admitted[p] = "env"
    /\ pc[p] \in {"append", "newline"} /\ admitted[p] # "env" => Runs(p, {"save"})
    /\ pc[p] \in AcceptStages => Runs(p, {"save"}) /\ admitted[p] # "env"
    /\ pc[p] \in ProbeStages => Runs(p, {"bind"})
    /\ pc[p] \in ServeStages => Runs(p, {"listen"})
    /\ pc[p] \in {"find", "connect"} => Runs(p, {"find"})
    /\ pc[p] = "viewing" => Runs(p, {"find", "viewing"})
Phases == \A p \in Procs : Phase(p)

\* `terms` does not pass the gate.
LEMMA AcceptIsExempt ==
  ASSUME NEW i \in Invocation, FirstStage(i) = "save"
  PROVE  ~AppliesTo(i.words)
<1>1. Command(i) = "terms"
  BY DEF FirstStage
<1>2. i.words # <<>> /\ Head(i.words) = "terms"
  BY <1>1 DEF Command
<1>3. QED
  BY <1>2 DEF AppliesTo

\* What a step leaves alone of a process keeps its phase.
LEMMA PhaseKept ==
  ASSUME NEW p, Phase(p), inv' = inv, pc'[p] = pc[p], exit'[p] = exit[p],
         admitted'[p] = admitted[p]
  PROVE  Phase(p)'
BY DEF Phase, Runs

LEMMA PhaseGateStep ==
  ASSUME TypeOK, Phases, NEW p \in Procs, GateStep(p), inv' = inv
  PROVE  Phases'
<1>0. /\ pc \in [Procs -> Stages] /\ exit \in [Procs -> Codes]
      /\ admitted \in [Procs -> {"no", "exempt", "env", "record"}]
      /\ inv[p] \in Invocation
  BY InvType DEF TypeOK, ProcTypeOK, GateTypeOK
<1>1. Phase(p)
  BY DEF Phases
<1> USE DEF Goto, Exits, GotoOr
<1>2. \A q \in Procs \ {p} :
        pc'[q] = pc[q] /\ exit'[q] = exit[q] /\ admitted'[q] = admitted[q]
  BY <1>0 DEF GateStep, Start, Gate, Audit, AppendEntry, EndLine, AfterAppend, AppendFails, Save,
              Write, SaveFails, NoConfigDir, gateVars
<1>3. Phase(p)'
  <2> USE DEF Phase, Runs, AcceptStages, ProbeStages, ServeStages
  <2>1. CASE Start(p)
    BY <1>0, <1>1, <2>1 DEF Start
  <2>2. CASE Gate(p)
    BY <1>0, <1>1, <2>2 DEF Gate
  <2>3. CASE Audit(p)
    BY <1>0, <1>1, <2>3 DEF Audit, gateVars
  <2>4. CASE AppendEntry(p)
    BY <1>0, <1>1, <2>4 DEF AppendEntry
  <2>5. CASE EndLine(p)
    BY <1>0, <1>1, <2>5 DEF EndLine, AfterAppend, How
  <2>6. CASE AppendFails(p)
    BY <1>0, <1>1, <2>6 DEF AppendFails, How
  <2>7. CASE Save(p)
    BY <1>0, <1>1, <2>7 DEF Save
  <2>8. CASE Write(p)
    BY <1>0, <1>1, <2>8 DEF Write
  <2>9. CASE SaveFails(p)
    BY <1>0, <1>1, <2>9 DEF SaveFails
  <2>10. CASE NoConfigDir(p)
    BY <1>0, <1>1, <2>10 DEF NoConfigDir, gateVars
  <2>11. QED
    BY <2>1, <2>2, <2>3, <2>4, <2>5, <2>6, <2>7, <2>8, <2>9, <2>10 DEF GateStep
<1>4. QED
  BY <1>2, <1>3, PhaseKept DEF Phases

\* The steps of clap, of the commands and of the view.
LEMMA PhaseCommandStep ==
  ASSUME TypeOK, Phases, NEW p \in Procs, UNCHANGED gateVars,
         Parse(p) \/ ProbeStep(p) \/ SocketStep(p) \/ ViewCloses(p)
  PROVE  Phases'
<1>0. pc \in [Procs -> Stages] /\ exit \in [Procs -> Codes]
  BY DEF TypeOK, ProcTypeOK
<1>1. Phase(p)
  BY DEF Phases
<1> USE DEF Goto, Exits, GotoOr
<1>2. CASE Parse(p)
  <2>1. inv' = inv /\ \A q \in Procs \ {p} : pc'[q] = pc[q] /\ exit'[q] = exit[q]
    BY <1>0, <1>2 DEF Parse
  <2>2. \/ /\ Runs(p, {FirstStage(inv[p])}) /\ FirstStage(inv[p]) # "exited"
           /\ pc'[p] = FirstStage(inv[p]) /\ exit'[p] = exit[p]
        \/ pc'[p] = "exited"
    BY <1>0, <1>2 DEF Parse, Runs
  <2>3. Phase(p)'
    <3>1. CASE pc'[p] = "exited"
      BY <1>1, <2>1, <3>1 DEF Phase, Runs, gateVars, AcceptStages, ProbeStages, ServeStages
    <3>2. CASE pc'[p] # "exited"
      <4>1. admitted[p] # "env" \/ FirstStage(inv[p]) # "save"
        BY <1>1, InvType, AcceptIsExempt DEF Phase, TypeOK
      <4>2. pc[p] = "parse"
        BY <1>2 DEF Parse
      <4>3. QED
        BY <1>1, <2>1, <2>2, <3>2, <4>1, <4>2, Beginnings
        DEF Phase, Runs, gateVars, AcceptStages, ProbeStages, ServeStages
    <3>3. QED
      BY <3>1, <3>2
  <2>4. QED
    BY <2>1, <2>3, PhaseKept DEF Phases, gateVars
<1>3. ASSUME inv' = inv, \A q \in Procs \ {p} : pc'[q] = pc[q] /\ exit'[q] = exit[q],
             \/ pc'[p] = pc[p] /\ exit'[p] = exit[p]
             \/ pc'[p] = "exited"
             \/ exit'[p] = exit[p] /\ {pc[p], pc'[p]} \subseteq ProbeStages
             \/ exit'[p] = exit[p] /\ {pc[p], pc'[p]} \subseteq ServeStages
             \/ exit'[p] = exit[p] /\ pc[p] = "find" /\ pc'[p] = "connect"
             \/ exit'[p] = exit[p] /\ pc[p] = "connect" /\ pc'[p] = "viewing"
      PROVE  Phases'
  <2>1. Phase(p)'
    BY <1>1, <1>3 DEF Phase, Runs, gateVars, AcceptStages, ProbeStages, ServeStages
  <2>2. QED
    BY <1>3, <2>1, PhaseKept DEF Phases, gateVars
<1>4. ASSUME NothingSeen(p) \/ Reported(p) \/ ListenTask(p)
             \/ \E what \in {"handshake", "preamble"} : WaitsFor(p, what),
             pc[p] \in {"accept", "viewing"}
      PROVE  Phases'
  <2> USE DEF procVars, ProbeStages, AfterReport
  <2>1. inv' = inv /\ \A q \in Procs \ {p} : pc'[q] = pc[q] /\ exit'[q] = exit[q]
    BY <1>0, <1>4 DEF NothingSeen, Reported, WaitsFor, ListenTask
  <2>2. CASE NothingSeen(p)
    BY <1>0, <1>3, <2>1, <2>2 DEF NothingSeen
  <2>3. CASE Reported(p)
    BY <1>0, <1>3, <1>4, <2>1, <2>3 DEF Reported
  <2>4. CASE ListenTask(p) \/ \E what \in {"handshake", "preamble"} : WaitsFor(p, what)
    BY <1>0, <1>3, <2>1, <2>4 DEF WaitsFor, ListenTask
  <2>5. QED
    BY <1>4, <2>2, <2>3, <2>4
<1>5. CASE ProbeStep(p)
  <2>1. CASE Bind(p) \/ Spawn(p) \/ ProbeFails(p) \/ Reap(p) \/ Verdict(p) \/ WriteProfile(p)
    BY <1>0, <1>3, <2>1 DEF Bind, Spawn, ProbeFails, Reap, Verdict, WriteProfile, ProbeStages
  <2>2. CASE AcceptTcp(p) \/ Handshake(p) \/ CaptureH2(p) \/ ListenTask(p)
    BY <1>4, <2>2 DEF AcceptTcp, Handshake, CaptureH2, ListenTask, Waits
  <2>3. QED
    BY <1>5, <2>1, <2>2 DEF ProbeStep
<1>6. CASE SocketStep(p) \/ ViewCloses(p)
  BY <1>0, <1>3, <1>6 DEF SocketStep, Listen, ListenFails, Exists, Remove, BindSocket, Chmod, Find,
                          Connect, ViewCloses, ServeStages
<1>7. QED
  BY <1>2, <1>5, <1>6

LEMMA PhaseStep ==
  ASSUME TypeOK, Phases, [Next]_vars
  PROVE  Phases'
<1>0. /\ pc \in [Procs -> Stages] /\ exit \in [Procs -> Codes]
      /\ admitted \in [Procs -> {"no", "exempt", "env", "record"}] /\ inv' = inv
  BY Partition DEF TypeOK, ProcTypeOK, GateTypeOK
<1>1. ASSUME NEW p \in Procs, Step(p) PROVE Phases'
  BY <1>0, <1>1, PhaseGateStep, PhaseCommandStep DEF Step
<1>2. ASSUME NEW p \in Procs, Quit(p) PROVE Phases'
  BY <1>2, PhaseCommandStep DEF Quit
<1>3. ASSUME NEW p \in Procs, Kill(p) PROVE Phases'
  <2>1. \A q \in Procs \ {p} : Phase(q)'
    BY <1>0, <1>3, PhaseKept DEF Kill, GateKilled, Exits, Phases
  <2>2. pc'[p] = "exited" /\ admitted'[p] = admitted[p]
    BY <1>0, <1>3 DEF Kill, GateKilled, Exits
  <2>3. Phase(p)'
    BY <1>0, <2>2 DEF Phases, Phase, Runs, AcceptStages, ProbeStages, ServeStages
  <2>4. QED
    BY <2>1, <2>3 DEF Phases
<1>4. CASE UserDeletes
  <2>1. SUFFICES ASSUME NEW p \in Procs PROVE Phase(p)'
    BY DEF Phases
  <2>2. \/ pc'[p] = pc[p]
        \/ pc[p] = "write" /\ pc'[p] = "writeDeleted"
    BY <1>0, <1>4 DEF UserDeletes
  <2>3. UNCHANGED <<exit, admitted>>
    BY <1>4 DEF UserDeletes
  <2>4. QED
    BY <1>0, <2>2, <2>3 DEF Phases, Phase, Runs, AcceptStages, ProbeStages, ServeStages
<1>5. CASE UNCHANGED <<pc, exit, admitted>>
  BY <1>0, <1>5, PhaseKept DEF Phases
<1>6. UNCHANGED vars \/ (World /\ ~UserDeletes) => UNCHANGED <<pc, exit, admitted>>
  BY DEF World, UserEdits, ChildEnds, vars, procVars, gateVars
<1>7. QED
  BY <1>1, <1>2, <1>3, <1>4, <1>5, <1>6 DEF Next

LEMMA PhasesInit ==
  ASSUME Init
  PROVE  Phases
BY DEF Init, ProcInit, GateInit, Phases, Phase, AcceptStages, ProbeStages, ServeStages

----------------------------------------------------------------------------
(* Verdicts rest on reports *)

Wanted(p) == IF IsCommand(p, "capture") THEN inv[p].samples ELSE 1

\* How many reports a process has, and what has become of its child, by stage.
Evidence(p) ==
    /\ pc[p] \in GateStages \cup AcceptStages \cup ServeStages
                   \cup {"find", "connect", "bind", "spawn"}
         => reports[p] = <<>> /\ child[p] = "none"
    /\ pc[p] = "accept" => /\ Len(reports[p]) < Wanted(p)
                           /\ ~IsCommand(p, "capture") => reports[p] = <<>>
                           /\ ~IsCommand(p, "check") => child[p] = "none"
    /\ pc[p] = "spawn" => IsCommand(p, "check")
    /\ pc[p] = "reap" => IsCommand(p, "check")
    /\ pc[p] \in {"reap", "verdict", "profile"} => Len(reports[p]) = Wanted(p)
    /\ pc[p] \in {"verdict", "profile"} => child[p] \notin {"running", "ended"}
    /\ Probed(p) /\ exit[p] \in {Success, Failure} =>
         Len(reports[p]) = Wanted(p) /\ child[p] \notin {"running", "ended"}
Evidences == \A p \in Procs : Evidence(p)

\* A capture that starts wants at least one sample.
LEMMA SamplesWanted ==
  ASSUME NEW i, FirstStage(i) = "bind", Command(i) = "capture"
  PROVE  i.samples > 0
BY DEF FirstStage

\* What a step leaves alone of a process keeps its evidence.
LEMMA EvidenceKept ==
  ASSUME NEW p, Evidence(p), inv' = inv, pc'[p] = pc[p], exit'[p] = exit[p],
         admitted'[p] = admitted[p], reports'[p] = reports[p], child'[p] = child[p]
  PROVE  Evidence(p)'
BY DEF Evidence, Wanted, Probed, IsCommand

LEMMA EvidenceGateStep ==
  ASSUME TypeOK, Phases, Evidences, NEW p \in Procs, GateStep(p), inv' = inv,
         UNCHANGED probeVars
  PROVE  Evidences'
<1>0. /\ pc \in [Procs -> Stages] /\ exit \in [Procs -> Codes]
      /\ admitted \in [Procs -> {"no", "exempt", "env", "record"}]
  BY DEF TypeOK, ProcTypeOK, GateTypeOK
<1>1. Evidence(p) /\ Phase(p) /\ Phase(p)'
  BY PhaseGateStep DEF Phases, Evidences
<1> USE DEF Goto, Exits, GotoOr
<1>2. \A q \in Procs \ {p} :
        pc'[q] = pc[q] /\ exit'[q] = exit[q] /\ admitted'[q] = admitted[q]
  BY <1>0 DEF GateStep, Start, Gate, Audit, AppendEntry, EndLine, AfterAppend, AppendFails, Save,
              Write, SaveFails, NoConfigDir, gateVars
<1>3. /\ pc[p] \in GateStages \cup AcceptStages
      /\ pc'[p] \in GateStages \cup AcceptStages \cup {"exited"}
      /\ pc'[p] # "exited" => exit'[p] = exit[p]
      /\ pc'[p] = "exited" => ~Probed(p)'
  <2> USE DEF GateStages, AcceptStages, Phase, Probed, Runs
  <2>1. CASE Start(p) \/ Gate(p) \/ Audit(p) \/ NoConfigDir(p)
    BY <1>0, <1>1, <2>1 DEF Start, Gate, Audit, NoConfigDir, gateVars
  <2>2. CASE AppendEntry(p) \/ EndLine(p) \/ AppendFails(p)
    BY <1>0, <1>1, <2>2 DEF AppendEntry, EndLine, AppendFails, AfterAppend, How
  <2>3. CASE Save(p) \/ Write(p) \/ SaveFails(p)
    BY <1>0, <1>1, <2>3 DEF Save, Write, SaveFails
  <2>4. QED
    BY <2>1, <2>2, <2>3 DEF GateStep
<1>4. reports[p] = <<>> /\ child[p] = "none" /\ reports' = reports /\ child' = child
  BY <1>1, <1>3 DEF Evidence, probeVars
<1>5. pc[p] # "exited"
  BY <1>3 DEF GateStages, AcceptStages
<1>6. exit[p] = Running
  BY <1>1, <1>5 DEF Phase
<1>7. Evidence(p)'
  BY <1>3, <1>4, <1>6
  DEF Evidence, GateStages, AcceptStages, ServeStages, Success, Failure, Running
<1>8. QED
  BY <1>2, <1>4, <1>7, EvidenceKept DEF Evidences

LEMMA EvidenceCommandStep ==
  ASSUME TypeOK, Phases, Evidences, NEW p \in Procs, UNCHANGED gateVars,
         \/ Parse(p) /\ UNCHANGED probeVars
         \/ SocketStep(p) /\ UNCHANGED probeVars
         \/ ViewCloses(p) /\ ProbeEnds(p)
  PROVE  Evidences'
<1>0. pc \in [Procs -> Stages] /\ exit \in [Procs -> Codes]
  BY DEF TypeOK, ProcTypeOK
<1>1. Evidence(p) /\ Phase(p) /\ UNCHANGED <<reports, child, admitted>>
  BY DEF Phases, Evidences, probeVars, gateVars, ProbeEnds
<1> USE DEF Goto, Exits, GotoOr
<1>2. /\ inv' = inv /\ \A q \in Procs \ {p} : pc'[q] = pc[q] /\ exit'[q] = exit[q]
      /\ pc'[p] # "exited" => exit'[p] = exit[p]
  BY <1>0 DEF Parse, SocketStep, Listen, ListenFails, Exists, Remove, BindSocket, Chmod, Find,
              Connect, ViewCloses
<1>3. pc[p] # "exited"
  BY DEF Parse, SocketStep, Listen, ListenFails, Exists, Remove, BindSocket, Chmod, Find, Connect,
         ViewCloses
<1>4. exit[p] = Running
  BY <1>1, <1>3 DEF Phase
<1>5. CASE Parse(p)
  <2>1. reports[p] = <<>> /\ child[p] = "none"
    BY <1>1, <1>5 DEF Evidence, Parse, GateStages
  <2>2. pc'[p] \in {"save", "listen", "find", "viewing", "bind", "exited"}
    BY <1>0, <1>5, Beginnings DEF Parse
  <2>3. pc'[p] = "exited" => ~Probed(p)'
    BY <1>0, <1>1, <1>2, <1>5 DEF Parse, Probed
  <2>4. Evidence(p)'
    BY <1>1, <1>2, <1>4, <2>1, <2>2, <2>3
    DEF Evidence, GateStages, AcceptStages, ServeStages, Success, Failure, Running
  <2>5. QED
    BY <1>1, <1>2, <2>4, EvidenceKept DEF Evidences
<1>6. CASE SocketStep(p)
  <2>1. /\ pc[p] \in ServeStages \cup {"find", "connect"}
        /\ pc'[p] \in ServeStages \cup {"connect", "viewing", "exited"}
    BY <1>0, <1>6 DEF SocketStep, Listen, ListenFails, Exists, Remove, BindSocket, Chmod, Find,
                      Connect, ServeStages
  <2>2. ~Probed(p)'
    BY <1>1, <1>2, <2>1 DEF Phase, Runs, Probed
  <2>3. reports[p] = <<>> /\ child[p] = "none"
    BY <1>1, <2>1 DEF Evidence
  <2>4. Evidence(p)'
    BY <1>1, <2>1, <2>2, <2>3 DEF Evidence, GateStages, AcceptStages, ServeStages
  <2>5. QED
    BY <1>1, <1>2, <2>4, EvidenceKept DEF Evidences
<1>7. CASE ViewCloses(p)
  <2>1. pc[p] = "viewing" /\ pc'[p] = "exited"
    BY <1>0, <1>7 DEF ViewCloses
  <2>2. ~Probed(p)'
    BY <1>1, <1>2, <2>1 DEF Phase, Runs, Probed
  <2>3. Evidence(p)'
    BY <2>1, <2>2 DEF Evidence, GateStages, AcceptStages, ServeStages
  <2>4. QED
    BY <1>1, <1>2, <2>3, EvidenceKept DEF Evidences
<1>8. QED
  BY <1>5, <1>6, <1>7

LEMMA EvidenceOfReport ==
  ASSUME TypeOK, Phases, Evidences, NEW p \in Procs, Reported(p), pc[p] \in {"accept", "viewing"}
  PROVE  Evidence(p)'
<1>0. /\ pc \in [Procs -> Stages] /\ exit \in [Procs -> Codes]
      /\ reports \in [Procs -> Seq(Orders)] /\ inv[p].samples \in Nat
  BY InvType DEF TypeOK, ProcTypeOK, ProbeTypeOK, Invocation
<1>1. Evidence(p) /\ Phase(p) /\ inv' = inv /\ child' = child
  BY DEF Phases, Evidences, Reported, Goto, procVars
<1>2. exit'[p] = exit[p] /\ exit[p] = Running
  BY <1>1 DEF Reported, Goto, procVars, Phase
<1>3. PICK o \in Orders : reports' = [reports EXCEPT ![p] = Append(@, o)]
  BY DEF Reported
<1>4. Len(reports'[p]) = Len(reports[p]) + 1 /\ Len(reports[p]) \in Nat
  BY <1>0, <1>3
<1>5. ~(exit'[p] \in {Success, Failure})
  BY <1>2 DEF Success, Failure, Running
<1>6. Wanted(p)' = Wanted(p) /\ \A c \in STRING : IsCommand(p, c)' = IsCommand(p, c)
  BY <1>1 DEF Wanted, IsCommand
<1>7. CASE pc'[p] = "viewing"
  BY <1>5, <1>7 DEF Evidence, GateStages, AcceptStages, ServeStages
<1>8. CASE pc[p] = "accept"
  <2>1. /\ Len(reports[p]) < Wanted(p)
        /\ ~IsCommand(p, "capture") => reports[p] = <<>>
        /\ ~IsCommand(p, "check") => child[p] = "none"
    BY <1>1, <1>8 DEF Evidence
  <2>2. CASE ~Enough(p)
    <3>1. IsCommand(p, "capture") /\ Len(reports'[p]) # inv[p].samples /\ pc'[p] = "accept"
      BY <1>1, <1>8, <2>2 DEF Enough, Reported, IsCommand, procVars
    <3>2. Len(reports'[p]) < Wanted(p)
      BY <1>0, <1>4, <2>1, <3>1 DEF Wanted
    <3>3. QED
      BY <1>1, <1>5, <1>6, <2>1, <3>1, <3>2
      DEF Evidence, GateStages, AcceptStages, ServeStages, IsCommand, Wanted
  <2>3. CASE Enough(p)
    <3>1. pc'[p] = AfterReport(p)
      BY <1>0, <1>8, <2>3 DEF Reported, Goto
    <3>2. Len(reports'[p]) = Wanted(p)
      <4>1. CASE IsCommand(p, "capture")
        BY <1>1, <2>3, <4>1 DEF Enough, Wanted, IsCommand
      <4>2. CASE ~IsCommand(p, "capture")
        BY <1>4, <2>1, <4>2 DEF Wanted
      <4>3. QED
        BY <4>1, <4>2
    <3>3. CASE IsCommand(p, "check")
      BY <1>1, <1>5, <3>1, <3>2, <3>3
      DEF Evidence, AfterReport, IsCommand, Wanted, GateStages, AcceptStages, ServeStages
    <3>4. CASE ~IsCommand(p, "check")
      BY <1>1, <1>5, <2>1, <3>1, <3>2, <3>4
      DEF Evidence, AfterReport, IsCommand, Wanted, GateStages, AcceptStages, ServeStages
    <3>5. QED
      BY <3>3, <3>4
  <2>4. QED
    BY <2>2, <2>3
<1>9. CASE pc[p] = "viewing"
  BY <1>7, <1>9 DEF Reported, procVars
<1>10. QED
  BY <1>8, <1>9

LEMMA EvidenceProbeStep ==
  ASSUME TypeOK, Phases, Evidences, NEW p \in Procs, ProbeStep(p), UNCHANGED gateVars
  PROVE  Evidences'
<1>0. /\ pc \in [Procs -> Stages] /\ exit \in [Procs -> Codes]
      /\ child \in [Procs -> {"none", "running", "ended", "reaped"}]
      /\ reports \in [Procs -> Seq(Orders)]
      /\ inv[p].samples \in Nat /\ inv' = inv /\ admitted' = admitted
  BY Partition, InvType DEF TypeOK, ProcTypeOK, ProbeTypeOK, Invocation, Next, Step, ProbeStep,
     gateVars, Bind, Spawn, ProbeFails, AcceptTcp, Handshake, CaptureH2, Reap, Verdict,
     WriteProfile, ListenTask, Goto, Exits, WaitsFor, NothingSeen, Reported, procVars
<1>1. Evidence(p) /\ Phase(p)
  BY DEF Phases, Evidences
<1>2. ASSUME \A q \in Procs \ {p} : /\ pc'[q] = pc[q] /\ exit'[q] = exit[q]
                                    /\ reports'[q] = reports[q] /\ child'[q] = child[q],
             Evidence(p)'
      PROVE  Evidences'
  BY <1>0, <1>2, EvidenceKept DEF Evidences
<1> USE DEF Goto, Exits, GotoOr
<1>3. ASSUME pc'[p] = "exited", exit'[p] = Operational PROVE Evidence(p)'
  BY <1>3 DEF Evidence, GateStages, AcceptStages, ServeStages, Success, Failure, Operational
<1>4. pc[p] # "exited" => ~(exit[p] \in {Success, Failure})
  BY <1>1 DEF Phase, Running, Success, Failure
<1>5. CASE Bind(p)
  <2>1. reports[p] = <<>> /\ child[p] = "none" /\ reports' = reports /\ child' = child
    BY <1>1, <1>5 DEF Evidence, Bind
  <2>2. Wanted(p) > 0
    <3>1. FirstStage(inv[p]) = "bind"
      BY <1>1, <1>5 DEF Bind, Phase, Runs, ProbeStages
    <3>2. QED
      BY <3>1, <1>0, SamplesWanted DEF Wanted, IsCommand
  <2>3. Len(reports[p]) < Wanted(p)
    BY <1>0, <2>1, <2>2 DEF Wanted
  <2>4. pc'[p] = IF IsCommand(p, "check") THEN "spawn" ELSE "accept"
    BY <1>0, <1>5 DEF Bind
  <2>5. Evidence(p)'
    BY <1>0, <1>4, <1>5, <2>1, <2>3, <2>4
    DEF Bind, Evidence, Wanted, IsCommand, GateStages, AcceptStages, ServeStages
  <2>6. QED
    BY <1>0, <1>2, <1>5, <2>1, <2>5 DEF Bind
<1>6. CASE Spawn(p)
  <2>1. reports[p] = <<>> /\ reports' = reports /\ IsCommand(p, "check")
    BY <1>1, <1>6 DEF Evidence, Spawn
  <2>2. Len(reports[p]) < Wanted(p)
    BY <2>1 DEF Wanted, IsCommand
  <2>3. pc'[p] = "accept" /\ exit'[p] = exit[p]
    BY <1>0, <1>6 DEF Spawn
  <2>4. Evidence(p)'
    BY <1>0, <1>4, <1>6, <2>1, <2>2, <2>3
    DEF Spawn, Evidence, Wanted, IsCommand, GateStages, AcceptStages, ServeStages
  <2>5. QED
    BY <1>0, <1>2, <1>6, <2>1, <2>4 DEF Spawn
<1>7. CASE ProbeFails(p)
  BY <1>0, <1>2, <1>3, <1>7 DEF ProbeFails
<1>8. ASSUME NothingSeen(p), pc[p] \in {"accept", "viewing"} PROVE Evidences'
  <2>1. CASE pc[p] = "viewing"
    BY <1>0, <1>8, <2>1, EvidenceKept DEF NothingSeen, Evidences, procVars
  <2>2. CASE pc[p] = "accept"
    BY <1>0, <1>2, <1>3, <1>8, <2>2 DEF NothingSeen
  <2>3. QED
    BY <1>8, <2>1, <2>2
<1>9. ASSUME Reported(p), pc[p] \in {"accept", "viewing"} PROVE Evidences'
  <2>1. \A q \in Procs \ {p} : /\ pc'[q] = pc[q] /\ exit'[q] = exit[q]
                               /\ reports'[q] = reports[q] /\ child'[q] = child[q]
    BY <1>0, <1>9 DEF Reported, procVars
  <2>2. QED
    BY <1>2, <1>9, <2>1, EvidenceOfReport
<1>10. ASSUME NEW what \in {"tcp", "handshake", "preamble"}, WaitsFor(p, what) PROVE Evidences'
  BY <1>0, <1>10, EvidenceKept DEF WaitsFor, Evidences, procVars
<1>11. CASE AcceptTcp(p) \/ Handshake(p) \/ CaptureH2(p) \/ ListenTask(p)
  BY <1>8, <1>9, <1>10, <1>11 DEF AcceptTcp, Handshake, CaptureH2, ListenTask, Waits
<1>12. CASE Reap(p)
  <2>1. Len(reports[p]) = Wanted(p) /\ reports' = reports /\ child'[p] = "reaped"
    BY <1>0, <1>1, <1>12 DEF Evidence, Reap
  <2>2. pc'[p] = "verdict" /\ exit'[p] = exit[p]
    BY <1>0, <1>12 DEF Reap
  <2>3. Evidence(p)'
    BY <1>0, <1>4, <1>12, <2>1, <2>2
    DEF Reap, Evidence, Wanted, IsCommand, GateStages, AcceptStages, ServeStages
  <2>4. QED
    BY <1>0, <1>2, <1>12, <2>1, <2>3 DEF Reap
<1>13. CASE Verdict(p) \/ WriteProfile(p)
  <2>1. /\ Len(reports[p]) = Wanted(p) /\ child[p] \notin {"running", "ended"}
        /\ reports' = reports /\ child' = child /\ pc'[p] = "exited"
    BY <1>0, <1>1, <1>13 DEF Evidence, Verdict, WriteProfile
  <2>2. Evidence(p)'
    BY <1>0, <2>1 DEF Evidence, Wanted, IsCommand, GateStages, AcceptStages, ServeStages
  <2>3. QED
    BY <1>0, <1>2, <1>13, <2>1, <2>2 DEF Verdict, WriteProfile
<1>14. QED
  BY <1>5, <1>6, <1>7, <1>11, <1>12, <1>13 DEF ProbeStep

LEMMA EvidenceStep ==
  ASSUME TypeOK, Phases, Evidences, [Next]_vars
  PROVE  Evidences'
<1>0. /\ pc \in [Procs -> Stages] /\ exit \in [Procs -> Codes]
      /\ child \in [Procs -> {"none", "running", "ended", "reaped"}] /\ inv' = inv
  BY Partition DEF TypeOK, ProcTypeOK, ProbeTypeOK
<1>1. ASSUME NEW p \in Procs, Step(p) PROVE Evidences'
  BY <1>0, <1>1, EvidenceGateStep, EvidenceCommandStep, EvidenceProbeStep DEF Step
<1>2. ASSUME NEW p \in Procs, Quit(p) PROVE Evidences'
  BY <1>2, EvidenceCommandStep DEF Quit
<1>3. ASSUME NEW p \in Procs, Kill(p) PROVE Evidences'
  <2> USE DEF Kill, GateKilled, ProbeEnds, Exits
  <2>1. \A q \in Procs \ {p} : Evidence(q)'
    BY <1>0, <1>3, EvidenceKept DEF Evidences
  <2>2. pc'[p] = "exited" /\ exit'[p] = Killed
    BY <1>0, <1>3
  <2>3. Evidence(p)'
    BY <2>2 DEF Evidence, GateStages, AcceptStages, ServeStages, Success, Failure, Killed
  <2>4. QED
    BY <2>1, <2>3 DEF Evidences
<1>4. ASSUME NEW p \in Procs, ChildEnds(p), UNCHANGED gateVars PROVE Evidences'
  <2>1. UNCHANGED <<pc, exit, admitted, reports>>
    BY <1>4 DEF ChildEnds, procVars, gateVars
  <2>2. \A q \in Procs \ {p} : Evidence(q)'
    BY <1>0, <1>4, <2>1, EvidenceKept DEF Evidences, ChildEnds
  <2>3. child[p] = "running" /\ child'[p] = "ended"
    BY <1>0, <1>4 DEF ChildEnds
  <2>4. Evidence(p)
    BY DEF Evidences
  <2>5. Evidence(p)'
    BY <1>0, <2>1, <2>3, <2>4 DEF Evidence, Wanted, IsCommand, Probed
  <2>6. QED
    BY <2>2, <2>5 DEF Evidences
<1>5. CASE UserDeletes /\ UNCHANGED probeVars
  <2>1. SUFFICES ASSUME NEW p \in Procs PROVE Evidence(p)'
    BY DEF Evidences
  <2>2. pc'[p] = pc[p] \/ (pc[p] = "write" /\ pc'[p] = "writeDeleted")
    <3>1. pc' = [q \in Procs |-> IF pc[q] = "write" THEN "writeDeleted" ELSE pc[q]]
      BY <1>5 DEF UserDeletes
    <3>2. QED
      BY <1>0, <3>1
  <2>3. UNCHANGED <<exit, admitted, reports, child>>
    BY <1>5 DEF UserDeletes, probeVars
  <2>4. Evidence(p)
    BY DEF Evidences
  <2>5. QED
    BY <1>0, <2>2, <2>3, <2>4
    DEF Evidence, Wanted, IsCommand, Probed, GateStages, AcceptStages, ServeStages
<1>6. CASE UserEdits /\ UNCHANGED probeVars
  BY <1>0, <1>6, EvidenceKept DEF UserEdits, Evidences, probeVars
<1>7. CASE UNCHANGED vars
  BY <1>0, <1>7, EvidenceKept DEF Evidences, vars, procVars, gateVars, probeVars
<1>8. QED
  BY <1>1, <1>2, <1>3, <1>4, <1>5, <1>6, <1>7 DEF Next, World

LEMMA EvidencesInit ==
  ASSUME Init
  PROVE  Evidences
BY DEF Init, ProcInit, GateInit, ProbeInit, Evidences, Evidence, Probed, GateStages, AcceptStages,
       ServeStages

(* A probing command ends with a verdict, or a profile written, only when   *)
(* it saw as many clients as it wanted; and a `check` with a verdict leaves *)
(* no child behind (check.rs, capture.rs, emulate.rs run).                  *)
THEOREM VerdictsRestOnReportsAlways == Spec => []VerdictsRestOnReports
<1>1. Init => Phases /\ Evidences
  BY PhasesInit, EvidencesInit
<1>2. TypeOK /\ Phases /\ Evidences /\ [Next]_vars => Phases' /\ Evidences'
  BY PhaseStep, EvidenceStep
<1>3. Evidences => VerdictsRestOnReports
  BY DEF Evidences, Evidence, Wanted, VerdictsRestOnReports
<1>4. QED
  BY <1>1, <1>2, <1>3, TypeCorrect, PTL DEF Spec

----------------------------------------------------------------------------
(* `terms accept` leaves the gate open *)

\* A process that has written its record and not failed since.
Past(p) == IsAccept(p) /\ (pc[p] \in {"append", "newline"} \/ exit[p] = Success)

\* While nothing disturbs the record, one process writes it at a time, into the
\* file it has emptied; once one has, the record is that of some `accept`.
RecordStands == \E q \in Procs : /\ IsAccept(q) /\ Reached(q)
                                 /\ acceptance = NewRecord(inv[q].terms)
Undisturbed ==
    ~disturbed =>
        /\ \A p \in Procs : pc[p] # "writeDeleted"
        /\ \A p, q \in Writing : p = q
        /\ Writing # {} => acceptance = Empty
        /\ Writing = {} /\ (\E p \in Procs : Past(p)) => RecordStands

\* An accepting process goes from one of its stages to the next, and only there.
AcceptPath == {"start", "parse", "save", "write", "writeDeleted", "append", "newline", "exited"}

LEMMA AcceptsPath ==
  ASSUME TypeOK, Phases, NEW p \in Procs, IsAccept(p)
  PROVE  pc[p] \in AcceptPath /\ admitted[p] \notin {"env", "record"}
<1>1. Phase(p) /\ pc[p] \in Stages /\ inv[p] \in Invocation
  BY InvType DEF Phases, TypeOK, ProcTypeOK
<1>2. ~AppliesTo(inv[p].words)
  BY <1>1, AcceptIsExempt DEF IsAccept
<1>3. QED
  BY <1>1, <1>2
  DEF Phase, Runs, IsAccept, AcceptPath, Stages, GateStages, AcceptStages, ProbeStages, ServeStages,
      ViewStages

\* What the steps that leave the record and the writers alone preserve.
LEMMA UndisturbedKept ==
  ASSUME Undisturbed, inv' = inv, UNCHANGED acceptance, ~disturbed' => ~disturbed,
         ~disturbed' => \A p \in Procs : /\ pc[p] = "write" <=> pc'[p] = "write"
                                         /\ pc[p] # "writeDeleted" => pc'[p] # "writeDeleted",
         \A p \in Procs : Past(p)' => Past(p),
         \A p \in Procs : IsAccept(p) /\ Reached(p) => Reached(p)'
  PROVE  Undisturbed'
<1>1. SUFFICES ASSUME ~disturbed'
               PROVE  /\ \A p \in Procs : pc'[p] # "writeDeleted"
                      /\ \A p, q \in Writing' : p = q
                      /\ Writing' # {} => acceptance' = Empty
                      /\ Writing' = {} /\ (\E p \in Procs : Past(p)') => RecordStands'
  BY DEF Undisturbed
<1>2. Writing' = Writing
  BY <1>1 DEF Writing
<1>3. RecordStands => RecordStands'
  BY DEF RecordStands, IsAccept
<1>4. QED
  BY <1>1, <1>2, <1>3 DEF Undisturbed

LEMMA UndisturbedSave ==
  ASSUME TypeOK, Phases, Undisturbed, NEW p \in Procs, Save(p), inv' = inv
  PROVE  Undisturbed'
<1>0. pc \in [Procs -> Stages] /\ pc' = [pc EXCEPT ![p] = "write"]
  BY DEF TypeOK, ProcTypeOK, Save, Goto
<1>1. SUFFICES ASSUME ~disturbed'
               PROVE  /\ \A q \in Procs : pc'[q] # "writeDeleted"
                      /\ \A q, r \in Writing' : q = r
                      /\ acceptance' = Empty
                      /\ Writing' # {}
  BY DEF Undisturbed
<1>2. ~disturbed /\ Writing = {}
  BY <1>1 DEF Save
<1>3. Writing' = {p}
  BY <1>0, <1>2 DEF Writing
<1>4. \A q \in Procs : pc'[q] # "writeDeleted"
  BY <1>0, <1>2 DEF Undisturbed
<1>5. QED
  BY <1>3, <1>4 DEF Save

LEMMA UndisturbedWrite ==
  ASSUME TypeOK, Phases, Undisturbed, NEW p \in Procs, Write(p), inv' = inv
  PROVE  Undisturbed'
<1>0. pc \in [Procs -> Stages] /\ pc' = [pc EXCEPT ![p] = "append"]
  BY DEF TypeOK, ProcTypeOK, Write, Goto
<1>1. SUFFICES ASSUME ~disturbed'
               PROVE  /\ \A q \in Procs : pc'[q] # "writeDeleted"
                      /\ Writing' = {}
                      /\ RecordStands'
  BY DEF Undisturbed
<1>2. ~disturbed
  BY <1>1 DEF Write
<1>3. \A q \in Procs : pc'[q] # "writeDeleted"
  BY <1>0, <1>2 DEF Undisturbed
<1>4. pc[p] = "write"
  BY <1>2 DEF Undisturbed, Write
<1>5. Writing = {p} /\ acceptance = Empty
  BY <1>2, <1>4 DEF Undisturbed, Writing
<1>6. Writing' = {}
  BY <1>0, <1>5 DEF Writing
<1>7. acceptance' = NewRecord(inv[p].terms)
  BY <1>4, <1>5 DEF Write
<1>8. IsAccept(p)' /\ Reached(p)'
  BY <1>0, <1>4 DEF Phases, Phase, Runs, AcceptStages, IsAccept, Reached
<1>9. QED
  BY <1>3, <1>6, <1>7, <1>8 DEF RecordStands

LEMMA UndisturbedGateStep ==
  ASSUME TypeOK, Phases, Undisturbed, NEW p \in Procs, GateStep(p), inv' = inv
  PROVE  Undisturbed'
<1>0. pc \in [Procs -> Stages] /\ exit \in [Procs -> Codes]
  BY DEF TypeOK, ProcTypeOK
<1>1. \A q \in Procs : IsAccept(q)' <=> IsAccept(q)
  BY DEF IsAccept
<1>2. IsAccept(p) => pc[p] \in AcceptPath /\ admitted[p] # "env"
  BY AcceptsPath
<1> USE DEF Goto, Exits, GotoOr
<1>3. ASSUME \A q \in Procs \ {p} : pc'[q] = pc[q] /\ exit'[q] = exit[q],
             UNCHANGED acceptance, ~disturbed' => ~disturbed,
             ~disturbed' => pc[p] # "write", pc'[p] \notin {"write", "writeDeleted"},
             IsAccept(p) /\ (pc'[p] \in {"append", "newline"} \/ exit'[p] = Success) => Past(p),
             IsAccept(p) /\ Reached(p) => pc'[p] \notin {"start", "parse", "save"}
      PROVE  Undisturbed'
  <2>1. \A q \in Procs : Past(q)' => Past(q)
    BY <1>1, <1>3 DEF Past
  <2>2. \A q \in Procs : IsAccept(q) /\ Reached(q) => Reached(q)'
    BY <1>3 DEF Reached
  <2>3. \A q \in Procs : ~disturbed' => /\ pc[q] = "write" <=> pc'[q] = "write"
                                        /\ pc[q] # "writeDeleted" => pc'[q] # "writeDeleted"
    BY <1>3
  <2>4. QED
    BY <1>3, <2>1, <2>2, <2>3, UndisturbedKept
<1>4. CASE Start(p) \/ Gate(p) \/ Audit(p) \/ NoConfigDir(p)
  <2> USE DEF Start, Gate, Audit, NoConfigDir, gateVars
  <2>1. UNCHANGED <<acceptance, disturbed>>
    BY <1>4
  <2>2. \A q \in Procs \ {p} : pc'[q] = pc[q] /\ exit'[q] = exit[q]
    BY <1>0, <1>4
  <2>3. pc[p] \in {"start", "gate", "audit"} /\ pc'[p] \notin {"write", "writeDeleted"}
    BY <1>0, <1>4
  <2>4. IsAccept(p) => pc[p] = "start" /\ pc'[p] \in {"gate", "parse"} /\ exit'[p] = exit[p]
    BY <1>0, <1>2, <1>4, <2>3 DEF AcceptPath
  <2>5. QED
    BY <1>3, <2>1, <2>2, <2>3, <2>4 DEF Past, Reached
<1>5. CASE AppendEntry(p) \/ EndLine(p)
  BY <1>0, <1>2, <1>3, <1>5 DEF AppendEntry, EndLine, AfterAppend, How, Past
<1>6. CASE AppendFails(p)
  BY <1>0, <1>2, <1>3, <1>6 DEF AppendFails, How, Past, Success, Failure
<1>7. CASE SaveFails(p)
  <2>1. CASE pc[p] = "write"
    BY <1>7, <2>1 DEF SaveFails, Undisturbed
  <2>2. CASE pc[p] # "write"
    <3>1. UNCHANGED acceptance /\ (~disturbed' => ~disturbed)
      BY <1>7, <2>2 DEF SaveFails
    <3>2. /\ \A q \in Procs \ {p} : pc'[q] = pc[q] /\ exit'[q] = exit[q]
          /\ pc'[p] = "exited" /\ exit'[p] = Failure
      BY <1>0, <1>7 DEF SaveFails
    <3>3. QED
      BY <1>3, <2>2, <3>1, <3>2 DEF Success, Failure
  <2>3. QED
    BY <2>1, <2>2
<1>8. QED
  BY <1>4, <1>5, <1>6, <1>7, UndisturbedSave, UndisturbedWrite DEF GateStep

LEMMA UndisturbedStep ==
  ASSUME TypeOK, Phases, Undisturbed, [Next]_vars
  PROVE  Undisturbed'
<1>0. /\ pc \in [Procs -> Stages] /\ exit \in [Procs -> Codes] /\ inv' = inv
      /\ \A p \in Procs : IsAccept(p)' <=> IsAccept(p)
  BY Partition DEF TypeOK, ProcTypeOK, IsAccept
<1>1. ASSUME NEW p \in Procs, Kill(p) PROVE Undisturbed'
  <2> USE DEF Kill, GateKilled, Exits
  <2>1. \A q \in Procs : Past(q)' => Past(q)
    BY <1>0, <1>1 DEF Past, Success, Killed
  <2>2. \A q \in Procs : IsAccept(q) /\ Reached(q) => Reached(q)'
    BY <1>0, <1>1 DEF Reached
  <2>3. \A q \in Procs : ~disturbed' => /\ pc[q] = "write" <=> pc'[q] = "write"
                                        /\ pc[q] # "writeDeleted" => pc'[q] # "writeDeleted"
    BY <1>0, <1>1
  <2>4. UNCHANGED acceptance /\ (~disturbed' => ~disturbed)
    BY <1>1
  <2>5. QED
    BY <1>0, <2>1, <2>2, <2>3, <2>4, UndisturbedKept
<1>2. CASE UserEdits \/ UserDeletes
  BY <1>2 DEF UserEdits, UserDeletes, Undisturbed
<1>3. CASE UNCHANGED <<gateVars, procVars>>
  <2>1. UNCHANGED <<acceptance, disturbed, pc, exit>>
    BY <1>3 DEF gateVars, procVars
  <2>2. QED
    BY <1>0, <2>1, UndisturbedKept DEF Past, Reached
<1>4. ASSUME NEW p \in Procs, Apart(p) PROVE Undisturbed'
  <2>1. UNCHANGED <<acceptance, disturbed>>
    BY <1>4 DEF Apart, gateVars
  <2>2. IsAccept(p) => pc[p] \in AcceptPath
    BY AcceptsPath
  <2>3. CASE Parse(p)
    <3>1. pc[p] = "parse" /\ exit[p] = Running
      BY <2>3 DEF Parse, Phases, Phase
    <3>2. pc'[p] \in {"save", "listen", "find", "viewing", "bind", "exited"}
      BY <1>0, <2>3, Beginnings DEF Parse, Goto, Exits, GotoOr
    <3>3. IsAccept(p) => pc'[p] = "save" /\ exit'[p] = exit[p]
      BY <1>0, <2>3 DEF Parse, Goto, Exits, GotoOr, IsAccept
    <3>4. ~Past(p)'
      BY <1>0, <3>1, <3>3 DEF Past, Running, Success
    <3>5. QED
      BY <1>0, <1>4, <2>1, <3>1, <3>2, <3>4, UndisturbedKept DEF Apart, Past, Reached
  <2>4. CASE pc[p] \in CommandStages /\ pc'[p] \in CommandStages \cup {"exited"}
    <3>1. ~IsAccept(p)
      BY <2>2, <2>4 DEF AcceptPath, CommandStages, ProbeStages, ServeStages, ViewStages
    <3>2. {pc[p], pc'[p]} \cap {"write", "writeDeleted"} = {}
      BY <2>4 DEF CommandStages, ProbeStages, ServeStages, ViewStages
    <3>3. QED
      BY <1>0, <1>4, <2>1, <3>1, <3>2, UndisturbedKept DEF Apart, Past, Reached
  <2>5. QED
    BY <1>4, <2>3, <2>4 DEF Apart
<1>5. QED
  BY <1>0, <1>1, <1>2, <1>3, <1>4, Partition, UndisturbedGateStep

LEMMA UndisturbedInit ==
  ASSUME Init
  PROVE  Undisturbed
<1>1. \A p \in Procs : pc[p] = "start" /\ exit[p] = Running
  BY DEF Init, ProcInit
<1>2. Writing = {} /\ \A p \in Procs : ~Past(p)
  BY <1>1 DEF Writing, Past, Running, Success
<1>3. QED
  BY <1>1, <1>2 DEF Undisturbed

(* Once `terms accept` has said that the terms are accepted, the file holds *)
(* a record that opens the gate, for the terms it or a later `accept`       *)
(* saved, unless writes overlapped, one of them broke off, or the user      *)
(* touched the file (terms.rs accept, store.rs save and load).              *)
THEOREM AcceptOpensGateAlways == Spec => []AcceptOpensGate
<1>1. Init => Phases /\ Undisturbed
  BY PhasesInit, UndisturbedInit
<1>2. TypeOK /\ Phases /\ Undisturbed /\ [Next]_vars => Phases' /\ Undisturbed'
  BY PhaseStep, UndisturbedStep
<1>3. Undisturbed => AcceptOpensGate
  <2>1. \A t : acceptance = NewRecord(t) => Load(t)
    BY DEF NewRecord, Record, Load, Verify
  <2>2. QED
    BY <2>1 DEF Undisturbed, AcceptOpensGate, Accepted, Past, RecordStands
<1>4. QED
  BY <1>1, <1>2, <1>3, TypeCorrect, PTL DEF Spec

----------------------------------------------------------------------------
(* The admin socket's path *)

\* While no server is killed, the path leads to a server that listens; before
\* that it is the old file, which nobody has got past yet, or it is missing and
\* somebody is about to bind it.
Binders == {"exists", "remove", "bindSocket", "chmod"}
Alive == \A p \in Servers : exit[p] # Killed
PathLeads ==
    /\ \A p \in Procs : pc[p] \in Binders => p \in Servers
    /\ Alive =>
         /\ path \in Procs => /\ path \in Servers /\ path \in listening
                              /\ pc[path] \in {"chmod", "serving"}
         /\ path = Stale => \A p \in Servers : pc[p] \notin {"bindSocket", "chmod", "serving"}
         /\ path = Missing =>
              \/ \A p \in Servers : pc[p] \notin {"remove", "chmod", "serving"}
              \/ \E p \in Servers : pc[p] = "bindSocket"

\* Who has ended stays as it ended.
LEMMA EndsForGood ==
  ASSUME TypeOK, Phases, [Next]_vars, Alive'
  PROVE  Alive
<1>0. pc \in [Procs -> Stages] /\ inv' = inv
  BY Partition DEF TypeOK, ProcTypeOK
<1>1. SUFFICES ASSUME NEW q \in Procs, pc[q] = "exited" PROVE exit'[q] = exit[q]
  BY <1>0 DEF Alive, Servers, Phases, Phase, Running, Killed
<1> USE DEF Goto, Exits, GotoOr
<1>2. ASSUME NEW p \in Procs, GateStep(p) PROVE exit'[q] = exit[q]
  <2>1. pc[p] # "exited"
    BY <1>2 DEF GateStep, Start, Gate, Audit, AppendEntry, EndLine, AppendFails, Save, Write,
                SaveFails, NoConfigDir, AcceptStages
  <2>2. p # q
    BY <1>1, <2>1
  <2>3. exit' = exit \/ \E c : exit' = [exit EXCEPT ![p] = c]
    BY <1>2 DEF GateStep, Start, Gate, Audit, AppendEntry, EndLine, AfterAppend, AppendFails, Save,
                Write, SaveFails, NoConfigDir
  <2>4. QED
    BY <2>2, <2>3 DEF TypeOK, ProcTypeOK
<1>3. ASSUME NEW p \in Procs, Kill(p) PROVE exit'[q] = exit[q]
  BY <1>1, <1>3 DEF Kill, TypeOK, ProcTypeOK
<1>4. ASSUME NEW p \in Procs, Apart(p) PROVE exit'[q] = exit[q]
  BY <1>1, <1>4 DEF Apart, Parse, CommandStages, ProbeStages, ServeStages, ViewStages
<1>5. (UserEdits \/ UserDeletes \/ UNCHANGED <<gateVars, procVars>>) => exit' = exit
  BY DEF UserEdits, UserDeletes, procVars
<1>6. QED
  BY <1>2, <1>3, <1>4, <1>5, Partition

\* What the steps that leave the path and the servers alone preserve.
LEMMA PathKept ==
  ASSUME PathLeads, inv' = inv, Alive' => Alive, path' = path,
         \A p \in Servers : p \in listening => p \in listening' \/ exit'[p] = Killed,
         \A p \in Procs : pc'[p] \in Binders => p \in Servers,
         \A p \in Servers : \/ exit'[p] = Killed
                            \/ pc'[p] = pc[p]
                            \/ {pc[p], pc'[p]} \cap (Binders \cup {"serving"}) = {}
  PROVE  PathLeads'
<1>1. Servers' = Servers
  BY DEF Servers
<1>2. SUFFICES ASSUME Alive'
               PROVE  /\ path \in Procs => /\ path \in Servers /\ path \in listening'
                                           /\ pc'[path] \in {"chmod", "serving"}
                      /\ path = Stale =>
                           \A p \in Servers : pc'[p] \notin {"bindSocket", "chmod", "serving"}
                      /\ path = Missing =>
                           \/ \A p \in Servers : pc'[p] \notin {"remove", "chmod", "serving"}
                           \/ \E p \in Servers : pc'[p] = "bindSocket"
  BY <1>1 DEF PathLeads
<1>3. \A p \in Servers : exit'[p] # Killed
  BY <1>1, <1>2 DEF Alive
<1>4. \A p \in Servers : \A s \in Binders \cup {"serving"} : pc'[p] = s <=> pc[p] = s
  BY <1>3
<1>5. \A p \in Servers : p \in listening => p \in listening'
  BY <1>3
<1>6. QED
  BY <1>2, <1>4, <1>5 DEF PathLeads, Binders

LEMMA PathSocketStep ==
  ASSUME TypeOK, Phases, PathLeads, NEW p \in Procs, SocketStep(p), Alive' => Alive
  PROVE  PathLeads'
<1>0. /\ pc \in [Procs -> Stages] /\ exit \in [Procs -> Codes]
      /\ path \in Procs \cup {Stale, Missing} /\ inv' = inv
  BY DEF TypeOK, ProcTypeOK, SocketTypeOK, SocketStep, Listen, ListenFails, Exists, Remove,
         BindSocket, Chmod, Find, Connect, Goto, Exits, GotoOr
<1>1. Servers' = Servers
  BY <1>0 DEF Servers
<1>2. ASSUME pc[p] \in ServeStages, inv[p].socket PROVE p \in Servers
  BY <1>2 DEF Phases, Phase, Runs, FirstStage, Servers
<1> USE DEF Goto, Exits, GotoOr
<1>3. CASE Listen(p) \/ ListenFails(p)
  <2>1. UNCHANGED <<path, listening>>
    BY <1>3 DEF Listen, ListenFails, socketVars
  <2>2. pc[p] = "listen" /\ \A q \in Procs \ {p} : pc'[q] = pc[q]
    BY <1>0, <1>3 DEF Listen, ListenFails
  <2>3. \/ pc'[p] = "exists" /\ p \in Servers
        \/ pc'[p] = "serving" /\ p \notin Servers
        \/ pc'[p] = "exited"
    BY <1>0, <1>2, <1>3, <2>2 DEF Listen, ListenFails, ServeStages, Servers
  <2>4. \A q \in Servers : \A s \in {"remove", "bindSocket", "chmod", "serving"} :
          pc'[q] = s <=> pc[q] = s
    BY <2>2, <2>3 DEF Servers
  <2>5. Servers \subseteq Procs
    BY DEF Servers
  <2>6. QED
    BY <1>0, <1>1, <2>1, <2>2, <2>3, <2>4, <2>5 DEF PathLeads, Binders
<1>4. CASE Exists(p)
  <2>1. UNCHANGED <<path, listening>> /\ pc[p] = "exists" /\ p \in Servers
    BY <1>4 DEF Exists, socketVars, PathLeads, Binders
  <2>2. \A q \in Procs \ {p} : pc'[q] = pc[q]
    BY <1>0, <1>4 DEF Exists
  <2>3. pc'[p] = IF path = Missing THEN "bindSocket" ELSE "remove"
    BY <1>0, <1>4 DEF Exists
  <2>4. Servers \subseteq Procs /\ Missing # Stale
    BY SocketNamesAssumption DEF Servers
  <2>5. QED
    BY <1>0, <1>1, <2>1, <2>2, <2>3, <2>4 DEF PathLeads, Binders
<1>5. CASE Remove(p)
  <2>1. path' = Missing /\ listening' = listening /\ pc[p] = "remove" /\ p \in Servers
    BY <1>5 DEF Remove, PathLeads, Binders
  <2>2. \A q \in Procs \ {p} : pc'[q] = pc[q]
    BY <1>0, <1>5 DEF Remove
  <2>3. pc'[p] = IF path = Missing THEN "serving" ELSE "bindSocket"
    BY <1>0, <1>5 DEF Remove
  <2>4. Missing \notin Procs \cup {Stale}
    BY SocketNamesAssumption
  <2>5. Servers \subseteq Procs
    BY DEF Servers
  <2>6. \A q \in Procs : pc'[q] \in Binders => q \in Servers
    BY <2>1, <2>2 DEF PathLeads
  <2>7. ASSUME Alive' PROVE \E q \in Servers : pc'[q] = "bindSocket"
    <3>1. CASE path # Missing
      BY <2>1, <2>3, <3>1
    <3>2. CASE path = Missing
      <4>1. PICK q \in Servers : pc[q] = "bindSocket"
        BY <2>1, <2>7, <3>2 DEF PathLeads
      <4>2. QED
        BY <2>1, <2>2, <2>5, <4>1
    <3>3. QED
      BY <3>1, <3>2
  <2>8. QED
    BY <1>1, <2>1, <2>4, <2>6, <2>7 DEF PathLeads
<1>6. CASE BindSocket(p)
  <2>1. pc[p] = "bindSocket" /\ p \in Servers /\ \A q \in Procs \ {p} : pc'[q] = pc[q]
    BY <1>0, <1>6 DEF BindSocket, PathLeads, Binders
  <2>2. Servers \subseteq Procs /\ Missing \notin Procs \cup {Stale} /\ Stale \notin Procs
    BY SocketNamesAssumption DEF Servers
  <2>3. CASE path = Missing
    <3>1. path' = p /\ p \in listening' /\ pc'[p] = "chmod"
      BY <1>0, <1>6, <2>3 DEF BindSocket
    <3>2. QED
      BY <1>1, <2>1, <2>2, <3>1 DEF PathLeads
  <2>4. CASE path # Missing
    <3>1. path' = path /\ listening' = listening /\ pc'[p] = "serving"
      BY <1>0, <1>6, <2>4 DEF BindSocket
    <3>2. Alive => path \in Procs
      BY <1>0, <2>1, <2>4 DEF PathLeads
    <3>3. QED
      BY <1>1, <2>1, <2>2, <2>4, <3>1, <3>2 DEF PathLeads, Binders
  <2>5. QED
    BY <2>3, <2>4
<1>7. CASE Chmod(p)
  <2>1. /\ pc[p] = "chmod" /\ p \in Servers /\ pc'[p] = "serving" /\ path' = path
        /\ \A q \in Procs \ {p} : pc'[q] = pc[q]
    BY <1>0, <1>7 DEF Chmod, PathLeads, Binders
  <2>2. path # Missing => listening' = listening
    BY <1>7 DEF Chmod
  <2>3. Servers \subseteq Procs /\ Missing \notin Procs \cup {Stale} /\ Stale \notin Procs
    BY SocketNamesAssumption DEF Servers
  <2>4. QED
    BY <1>0, <1>1, <2>1, <2>2, <2>3 DEF PathLeads, Binders
<1>8. CASE Find(p) \/ Connect(p)
  <2>1. UNCHANGED <<path, listening>>
    BY <1>8 DEF Find, Connect, socketVars
  <2>2. pc[p] \in {"find", "connect"} /\ pc'[p] \in {"connect", "viewing", "exited"}
    BY <1>0, <1>8 DEF Find, Connect
  <2>3. \A q \in Procs \ {p} : pc'[q] = pc[q]
    BY <1>0, <1>8 DEF Find, Connect
  <2>4. Servers \subseteq Procs
    BY DEF Servers
  <2>5. QED
    BY <1>0, <2>1, <2>2, <2>3, <2>4, PathKept DEF PathLeads, Binders
<1>9. QED
  BY <1>3, <1>4, <1>5, <1>6, <1>7, <1>8 DEF SocketStep

LEMMA PathStep ==
  ASSUME TypeOK, Phases, PathLeads, [Next]_vars
  PROVE  PathLeads'
<1>0. /\ pc \in [Procs -> Stages] /\ exit \in [Procs -> Codes] /\ inv' = inv
      /\ (Alive' => Alive) /\ Servers \subseteq Procs
  BY Partition, EndsForGood DEF TypeOK, ProcTypeOK, Servers
<1> USE DEF Goto, Exits, GotoOr
<1>1. ASSUME UNCHANGED <<path, listening>>, NEW p \in Procs,
             \A q \in Procs \ {p} : pc'[q] = pc[q],
             {pc[p], pc'[p]} \cap (Binders \cup {"serving"}) = {}
      PROVE  PathLeads'
  BY <1>0, <1>1, PathKept DEF PathLeads
<1>2. ASSUME UNCHANGED <<path, listening, pc>> PROVE PathLeads'
  BY <1>0, <1>2, PathKept DEF PathLeads
<1>3. ASSUME NEW p \in Procs, GateStep(p), UNCHANGED socketVars PROVE PathLeads'
  <2>1. UNCHANGED <<path, listening>> /\ \A q \in Procs \ {p} : pc'[q] = pc[q]
    BY <1>0, <1>3 DEF socketVars, GateStep, Start, Gate, Audit, AppendEntry, EndLine, AfterAppend,
                      AppendFails, Save, Write, SaveFails, NoConfigDir
  <2>2. {pc[p], pc'[p]} \cap (Binders \cup {"serving"}) = {}
    BY <1>0, <1>3 DEF Binders, GateStep, Start, Gate, Audit, AppendEntry, EndLine, AfterAppend,
                      AppendFails, Save, Write, SaveFails, NoConfigDir, AcceptStages
  <2>3. QED
    BY <1>1, <2>1, <2>2
<1>4. ASSUME NEW p \in Procs, Parse(p), UNCHANGED socketVars PROVE PathLeads'
  <2>1. /\ UNCHANGED <<path, listening>> /\ pc[p] = "parse"
        /\ \A q \in Procs \ {p} : pc'[q] = pc[q]
    BY <1>0, <1>4 DEF socketVars, Parse
  <2>2. pc'[p] \in {"save", "listen", "find", "viewing", "bind", "exited"}
    BY <1>0, <1>4, Beginnings DEF Parse
  <2>3. QED
    BY <1>1, <2>1, <2>2 DEF Binders
<1>5. ASSUME NEW p \in Procs, ProbeStep(p), UNCHANGED socketVars PROVE PathLeads'
  <2> USE DEF procVars, ProbeStages
  <2>1. UNCHANGED <<path, listening>> /\ \A q \in Procs \ {p} : pc'[q] = pc[q]
    BY <1>0, <1>5 DEF socketVars, ProbeStep, Bind, Spawn, ProbeFails, AcceptTcp, Handshake,
                      CaptureH2, Reap, Verdict, WriteProfile, ListenTask, NothingSeen, Reported,
                      WaitsFor
  <2>2. pc[p] \in ProbeStages \cup {"viewing"}
    BY <1>5 DEF ProbeStep, Bind, Spawn, ProbeFails, AcceptTcp, Handshake, CaptureH2, Reap, Verdict,
                WriteProfile, ListenTask, Waits
  <2>3. pc'[p] \in ProbeStages \cup {"viewing", "exited"}
    BY <1>0, <1>5, <2>2 DEF ProbeStep, Bind, Spawn, ProbeFails, AcceptTcp, Handshake, CaptureH2,
                            Reap, Verdict, WriteProfile, ListenTask, NothingSeen, Reported,
                            AfterReport, WaitsFor
  <2>4. QED
    BY <1>1, <2>1, <2>2, <2>3 DEF Binders
<1>6. ASSUME NEW p \in Procs, SocketStep(p) PROVE PathLeads'
  BY <1>0, <1>6, PathSocketStep
<1>7. ASSUME NEW p \in Procs, Quit(p) PROVE PathLeads'
  <2>1. /\ UNCHANGED <<path, listening>> /\ pc[p] = "viewing" /\ pc'[p] = "exited"
        /\ \A q \in Procs \ {p} : pc'[q] = pc[q]
    BY <1>0, <1>7 DEF Quit, ViewCloses
  <2>2. QED
    BY <1>1, <2>1 DEF Binders
<1>8. ASSUME NEW p \in Procs, Kill(p) PROVE PathLeads'
  <2>1. /\ path' = path /\ listening' = listening \ {p} /\ pc'[p] = "exited" /\ exit'[p] = Killed
        /\ \A q \in Procs \ {p} : pc'[q] = pc[q]
    BY <1>0, <1>8 DEF Kill, SocketEnds
  <2>2. QED
    BY <1>0, <2>1, PathKept DEF PathLeads, Binders
<1>9. ASSUME World PROVE PathLeads'
  <2>1. CASE UserDeletes /\ UNCHANGED socketVars
    <3>1. UNCHANGED <<path, listening>>
      BY <2>1 DEF socketVars
    <3>2. pc' = [q \in Procs |-> IF pc[q] = "write" THEN "writeDeleted" ELSE pc[q]]
      BY <2>1 DEF UserDeletes
    <3>3. \A q \in Procs : \/ pc'[q] = pc[q]
                           \/ pc[q] = "write" /\ pc'[q] = "writeDeleted"
      BY <1>0, <3>2
    <3>4. QED
      BY <1>0, <3>1, <3>3, PathKept DEF PathLeads, Binders
  <2>2. CASE UserEdits /\ UNCHANGED socketVars
    BY <1>2, <2>2 DEF UserEdits, socketVars
  <2>3. CASE \E p \in Procs : ChildEnds(p) /\ UNCHANGED socketVars
    BY <1>2, <2>3 DEF ChildEnds, procVars, socketVars
  <2>4. QED
    BY <1>9, <2>1, <2>2, <2>3 DEF World
<1>10. CASE UNCHANGED vars
  BY <1>2, <1>10 DEF vars, procVars, socketVars
<1>11. QED
  BY <1>3, <1>4, <1>5, <1>6, <1>7, <1>8, <1>9, <1>10 DEF Next, Step

LEMMA PathInit ==
  ASSUME Init
  PROVE  PathLeads
<1>1. \A p \in Procs : pc[p] = "start"
  BY DEF Init, ProcInit
<1>2. path \in {Stale, Missing}
  BY DEF Init, SocketInit
<1>3. Servers \subseteq Procs
  BY DEF Servers
<1>4. QED
  BY <1>1, <1>2, <1>3, SocketNamesAssumption DEF PathLeads, Binders

(* When every server that was given the path has started or given up, and   *)
(* none was killed, the path leads to a socket one of them listens on       *)
(* (admin.rs AdminSocket::bind).                                            *)
THEOREM SocketAnswersAlways == Spec => []SocketAnswers
<1>1. Init => Phases /\ PathLeads
  BY PhasesInit, PathInit
<1>2. TypeOK /\ Phases /\ PathLeads /\ [Next]_vars => Phases' /\ PathLeads'
  BY PhaseStep, PathStep
<1>3. TypeOK /\ Phases /\ PathLeads => SocketAnswers
  <2> SUFFICES ASSUME TypeOK, Phases, PathLeads,
                      \A p \in Servers : pc[p] = "serving" \/ exit[p] \in {Failure, Operational},
                      NEW s \in Servers, pc[s] = "serving"
               PROVE  path \in listening
    BY DEF SocketAnswers
  <2>1. \A p \in Servers : pc[p] # "exited" => exit[p] = Running
    BY DEF Servers, Phases, Phase
  <2>2. \A p \in Servers : pc[p] \in {"serving", "exited"} /\ exit[p] # Killed
    BY <2>1 DEF Running, Failure, Operational, Killed
  <2>3. path \in Procs \cup {Stale, Missing}
    BY DEF TypeOK, SocketTypeOK
  <2>4. QED
    BY <2>2, <2>3 DEF PathLeads, Alive
<1>4. QED
  BY <1>1, <1>2, <1>3, TypeCorrect, PTL DEF Spec

=============================================================================
