----------------------------- MODULE TermsGate ------------------------------
(* The terms gate: main() lets a process past only when the record in the    *)
(* config directory says that the terms compiled into this very binary were  *)
(* accepted, or when the environment says so; `fpd terms accept` writes that *)
(* record, and every acceptance is appended to a history.                    *)
(*                                                                           *)
(* The record is written in place: the file is emptied when it is opened and *)
(* filled by a later write, and other processes, the user and a crash can    *)
(* come in between.  A history entry and the newline behind it are two       *)
(* writes as well.                                                           *)
EXTENDS FpdProcess

VARIABLES acceptance,  \* what terms-accepted holds
          history,     \* what terms-history.jsonl holds
          admitted,    \* how each process got past the gate
          saved,       \* terms some process has saved a whole record for
          disturbed,   \* the record was touched while being written, or by hand
          unaudited    \* terms whose acceptance never reached the history

gateVars == <<acceptance, history, admitted, saved, disturbed, unaudited>>

(* The file: missing, emptied, a mixture of two writes, or a record whose   *)
(* signature does or does not match what it says.                           *)
Absent == [kind |-> "absent"]
Empty == [kind |-> "empty"]
Torn == [kind |-> "torn"]
Record(terms, sealed) == [kind |-> "record", terms |-> terms, sealed |-> sealed]
NewRecord(terms) == Record(terms, TRUE)
Contents == {Absent, Empty, Torn}
              \cup {Record(v, b) : v \in Versions, b \in BOOLEAN}

(* A record vouches for a binary when it is untouched and for its terms.    *)
(* Mutant: a record of any terms will do.                                   *)
VerifyAnyTerms(r, terms) == r.sealed
Verify(r, terms) == r.sealed /\ r.terms = terms

Load(terms) == acceptance.kind = "record" /\ Verify(acceptance, terms)

Entry(terms, how) == [token |-> "entry", terms |-> terms, how |-> how]
Newline == [token |-> "newline"]
Tokens == {Newline} \cup {Entry(v, how) : v \in Versions, how \in {"interactive", "env"}}
Audited(terms) == \E n \in DOMAIN history :
                     history[n].token = "entry" /\ history[n].terms = terms

GateTypeOK ==
    /\ acceptance \in Contents
    /\ history \in Seq(Tokens)
    /\ admitted \in [Procs -> {"no", "exempt", "env", "record"}]
    /\ saved \subseteq Versions
    /\ disturbed \in BOOLEAN
    /\ unaudited \subseteq Versions

(* Nobody has accepted anything, or an earlier `terms accept` has finished. *)
GateInit ==
    /\ \/ acceptance = Absent /\ history = <<>> /\ saved = {}
       \/ \E v \in Versions :
            /\ acceptance = NewRecord(v)
            /\ history = <<Entry(v, "interactive"), Newline>>
            /\ saved = {v}
    /\ admitted = [p \in Procs |-> "no"]
    /\ disturbed = FALSE
    /\ unaudited = {}

-----------------------------------------------------------------------------
(* The gate, on raw argv. *)

(* A flag of the carve-out anywhere exempts the run, `terms` only in front. *)
AppliesTo(words) ==
    /\ \A n \in DOMAIN words : words[n] \notin Flags
    /\ words = <<>> \/ Head(words) # "terms"

Start(p) ==
    /\ pc[p] = "start"
    /\ IF AppliesTo(inv[p].words)
       THEN Goto(p, "gate") /\ UNCHANGED admitted
       ELSE Goto(p, "parse") /\ admitted' = [admitted EXCEPT ![p] = "exempt"]
    /\ UNCHANGED <<acceptance, history, saved, disturbed, unaudited>>

(* The environment wins; otherwise the record decides. *)
Gate(p) ==
    /\ pc[p] = "gate"
    /\ \/ /\ inv[p].env
          /\ Goto(p, "audit")
          /\ admitted' = [admitted EXCEPT ![p] = "env"]
       \/ /\ ~inv[p].env
          /\ Load(inv[p].terms)
          /\ Goto(p, "parse")
          /\ admitted' = [admitted EXCEPT ![p] = "record"]
       \/ /\ ~inv[p].env
          /\ ~Load(inv[p].terms)
          /\ Exits(p, Failure)
          /\ UNCHANGED admitted
    /\ UNCHANGED <<acceptance, history, saved, disturbed, unaudited>>

(* Admitted by the environment: an entry unless a record is there already.  *)
Audit(p) ==
    /\ pc[p] = "audit"
    /\ Goto(p, IF Load(inv[p].terms) THEN "parse" ELSE "append")
    /\ UNCHANGED gateVars

(* Both paths to history::append; only `terms accept` cares whether it      *)
(* succeeds.                                                                *)
How(p) == IF admitted[p] = "env" THEN "env" ELSE "interactive"
AfterAppend(p) == GotoOr(p, How(p) = "env", "parse", Success)

AppendEntry(p) ==
    /\ pc[p] = "append"
    /\ history' = Append(history, Entry(inv[p].terms, How(p)))
    /\ Goto(p, "newline")
    /\ UNCHANGED <<acceptance, admitted, saved, disturbed, unaudited>>

EndLine(p) ==
    /\ pc[p] = "newline"
    /\ history' = Append(history, Newline)
    /\ AfterAppend(p)
    /\ UNCHANGED <<acceptance, admitted, saved, disturbed, unaudited>>

AppendFails(p) ==
    /\ pc[p] \in {"append", "newline"}
    /\ GotoOr(p, How(p) = "env", "parse", Failure)
    /\ unaudited' = IF pc[p] = "append" THEN unaudited \cup {inv[p].terms}
                                        ELSE unaudited
    /\ UNCHANGED <<acceptance, history, admitted, saved, disturbed>>

-----------------------------------------------------------------------------
(* `fpd terms accept`. *)

Writing == {p \in Procs : pc[p] = "write"}

Save(p) ==
    /\ pc[p] = "save"
    /\ acceptance' = Empty
    /\ disturbed' = (disturbed \/ Writing # {})
    /\ Goto(p, "write")
    /\ UNCHANGED <<history, admitted, saved, unaudited>>

(* Mutant: the acceptance is saved, and the history forgotten.              *)
WriteOnly(p) ==
    /\ pc[p] = "write"
    /\ acceptance' = NewRecord(inv[p].terms)
    /\ saved' = saved \cup {inv[p].terms}
    /\ Exits(p, Success)
    /\ UNCHANGED <<history, admitted, disturbed, unaudited>>

(* Over an emptied file the record lands whole; over what another process   *)
(* wrote since, the longer of the two leaves its tail.                      *)
Write(p) ==
    /\ pc[p] \in {"write", "writeDeleted"}
    /\ \/ pc[p] = "writeDeleted" /\ UNCHANGED acceptance
       \/ pc[p] = "write" /\ acceptance' = NewRecord(inv[p].terms)
       \/ pc[p] = "write" /\ acceptance # Empty /\ acceptance' = Torn
    /\ saved' = saved \cup {inv[p].terms}
    /\ Goto(p, "append")
    /\ UNCHANGED <<history, admitted, disturbed, unaudited>>

(* Mutant: a record that cannot be written is not an error.                 *)
SaveFailsQuietly(p) ==
    /\ pc[p] \in AcceptStages
    /\ acceptance' \in {acceptance} \cup (IF pc[p] = "write" THEN {Torn} ELSE {})
    /\ Goto(p, "append")
    /\ UNCHANGED <<history, admitted, saved, disturbed, unaudited>>

(* No directory, no space, no permission: whatever is half written stays.   *)
SaveFails(p) ==
    /\ pc[p] \in AcceptStages
    /\ acceptance' \in {acceptance} \cup (IF pc[p] = "write" THEN {Torn} ELSE {})
    /\ disturbed' = (disturbed \/ pc[p] = "write")
    /\ Exits(p, Failure)
    /\ UNCHANGED <<history, admitted, saved, unaudited>>

(* main() finds no config directory. *)
NoConfigDir(p) ==
    /\ pc[p] = "gate"
    /\ Exits(p, Failure)
    /\ UNCHANGED gateVars

GateStep(p) == \/ Start(p) \/ Gate(p) \/ Audit(p) \/ AppendEntry(p) \/ EndLine(p)
               \/ AppendFails(p) \/ Save(p) \/ Write(p) \/ SaveFails(p)
               \/ NoConfigDir(p)

(* The user edits a field of the record, or deletes it, also while a        *)
(* process holds it open.                                                   *)
UserEdits ==
    /\ acceptance.kind = "record"
    /\ \E v \in Versions : acceptance' = Record(v, FALSE)
    /\ disturbed' = TRUE
    /\ UNCHANGED <<inv, pc, exit, history, admitted, saved, unaudited>>

UserDeletes ==
    /\ acceptance # Absent
    /\ acceptance' = Absent
    /\ disturbed' = TRUE
    /\ pc' = [p \in Procs |-> IF pc[p] = "write" THEN "writeDeleted" ELSE pc[p]]
    /\ UNCHANGED <<inv, exit, history, admitted, saved, unaudited>>

(* What a process leaves behind when it is killed. *)
GateKilled(p) ==
    /\ disturbed' = (disturbed \/ pc[p] = "write")
    /\ unaudited' = IF pc[p] = "append" THEN unaudited \cup {inv[p].terms}
                                        ELSE unaudited
    /\ UNCHANGED <<acceptance, history, admitted, saved>>

=============================================================================
