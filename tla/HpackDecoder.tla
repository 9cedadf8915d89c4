---------------------------- MODULE HpackDecoder -----------------------------
(* The decoding of one header block: a loop over its representations, and    *)
(* the dynamic table they add to.  An insertion or a smaller maximum evicts  *)
(* the oldest entries one by one, before the next representation is read.    *)
EXTENDS Hpack

CONSTANTS MaxHeaders,    \* 512: more fields than this fail the block
          EntryOverhead, \* 32: what an entry costs beside its bytes
          DefaultMax,    \* 4096: the table's maximum until the client changes it
          AbsoluteMax    \* 1 << 20: the largest maximum it may ask for

ASSUME TableAssumption == /\ {MaxHeaders, EntryOverhead, DefaultMax, AbsoluteMax} \subseteq Nat
                          /\ EntryOverhead > 0
                          /\ DefaultMax <= AbsoluteMax

VARIABLES block,    \* the header block
          pos,      \* how much of it is read
          fields,   \* the fields so far
          entries,  \* the dynamic table, newest first
          size,     \* what it costs, kept beside it
          maxSize,  \* what it may cost
          decoding  \* idle, reading, evicting, done or failed

tableVars == <<entries, size, maxSize>>
decoderVars == <<block, pos, fields, tableVars, decoding>>

DecoderInit ==
    /\ block = <<>> /\ pos = 0 /\ fields = <<>>
    /\ entries = <<>> /\ size = 0 /\ maxSize = DefaultMax
    /\ decoding = "idle"

(* A decoder and a table of its own for every block. *)
OpenBlock(bytes) ==
    /\ block' = bytes /\ pos' = 0 /\ fields' = <<>>
    /\ entries' = <<>> /\ size' = 0 /\ maxSize' = DefaultMax
    /\ decoding' = "reading"

-----------------------------------------------------------------------------

Cost(e) == Len(e.name) + Len(e.value) + EntryOverhead

Reading == decoding = "reading" /\ pos < Len(block)

(* Any error ends the block, and what was read of it is dropped. *)
Fail ==
    /\ Reading
    /\ \/ Len(fields) >= MaxHeaders
       \/ RepresentationAt(block, pos, entries) = None
    /\ fields' = <<>>
    /\ decoding' = "failed"
    /\ UNCHANGED <<block, pos, tableVars>>

(* The next representation is of the given kind. *)
Reads(kind, rep) ==
    /\ Len(fields) < MaxHeaders
    /\ rep.kind = kind
    /\ pos' = rep.next
    /\ UNCHANGED block

ReadField(rep) ==
    /\ Reads("indexed", rep) \/ Reads("plain", rep)
    /\ fields' = Append(fields, rep.field)
    /\ UNCHANGED <<tableVars, decoding>>

(* Evicting goes on while the table costs more than it may. *)
Evicts == decoding' = IF size' > maxSize' THEN "evicting" ELSE "reading"

(* Mutant: a new entry goes behind the older ones. *)
InsertLast(rep) ==
    /\ Reads("inserted", rep)
    /\ fields' = Append(fields, rep.field)
    /\ IF Cost(rep.field) > maxSize
       THEN entries' = <<>> /\ size' = 0
       ELSE /\ entries' = Append(entries, rep.field)
            /\ size' = size + Cost(rep.field)
    /\ UNCHANGED maxSize
    /\ Evicts

(* An entry that is larger than the table leaves it empty. *)
Insert(rep) ==
    /\ Reads("inserted", rep)
    /\ fields' = Append(fields, rep.field)
    /\ IF Cost(rep.field) > maxSize
       THEN entries' = <<>> /\ size' = 0
       ELSE /\ entries' = <<rep.field>> \o entries
            /\ size' = size + Cost(rep.field)
    /\ UNCHANGED maxSize
    /\ Evicts

(* Mutant: the client may ask for any maximum. *)
ResizeUncapped(rep) ==
    /\ Reads("resized", rep)
    /\ maxSize' = rep.size
    /\ UNCHANGED <<fields, entries, size>>
    /\ Evicts

Resize(rep) ==
    /\ Reads("resized", rep)
    /\ maxSize' = IF rep.size < AbsoluteMax THEN rep.size ELSE AbsoluteMax
    /\ UNCHANGED <<fields, entries, size>>
    /\ Evicts

Evict ==
    /\ decoding = "evicting"
    /\ IF entries = <<>> THEN size' = 0 /\ UNCHANGED entries
       ELSE /\ entries' = Front(entries)
            /\ size' = IF size < Cost(Last(entries)) THEN 0 ELSE size - Cost(Last(entries))
    /\ UNCHANGED <<block, pos, fields, maxSize>>
    /\ Evicts

Finish ==
    /\ decoding = "reading"
    /\ pos = Len(block)
    /\ decoding' = "done"
    /\ UNCHANGED <<block, pos, fields, tableVars>>

Decode ==
    \/ /\ Reading
       /\ \E rep \in RepresentationAt(block, pos, entries) :
             ReadField(rep) \/ Insert(rep) \/ Resize(rep)
    \/ Fail
    \/ Evict
    \/ Finish

-----------------------------------------------------------------------------

DecoderTypeOK ==
    /\ block \in Seq(Octet) /\ pos \in 0 .. Len(block)
    /\ fields \in Seq(Entry) /\ entries \in Seq(Entry)
    /\ size \in Nat /\ maxSize \in 0 .. AbsoluteMax
    /\ decoding \in {"idle", "reading", "evicting", "done", "failed"}

TotalCost(es) ==
    LET upTo[n \in 0 .. Len(es)] == IF n = 0 THEN 0 ELSE upTo[n - 1] + Cost(es[n])
    IN  upTo[Len(es)]

(* The table keeps account of what it holds, and holds what it may.         *)
TableAccounts ==
    /\ size = TotalCost(entries)
    /\ decoding # "evicting" => size <= maxSize

=============================================================================
