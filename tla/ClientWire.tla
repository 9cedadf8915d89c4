------------------------------ MODULE ClientWire -----------------------------
(* What clients put on the wire.  None of this is code of the repository: it *)
(* is what TLS, HTTP/2 and HPACK let a client write, as far as the           *)
(* fingerprints can tell clients apart.                                      *)
(*                                                                           *)
(* A client is what stays the same: ciphers, extensions, whether it sends    *)
(* GREASE and permutes its extensions, protocols, settings, window and how   *)
(* it frames a request.  A visit is what does not: the GREASE value, the     *)
(* order, whether the session is resumed, the request, and what goes wrong.  *)
EXTENDS Emulator

Number16 == {v \in Nat : v < 65536}
GreaseValue == {v \in Number16 : IsGrease(v)}

ClientType ==
    [family : STRING, ciphers : Seq(Number16), extensions : Seq(Number16), grease : BOOLEAN,
     permutes : BOOLEAN, protocols : Seq(Seq(Octet)), settings : Seq(Nat \X Nat),
     window : SUBSET Nat, priorities : Seq(Seq(Octet)), flags : Octet]
WriteType ==
    [do : {"index", "insert", "plain", "never", "size"}, index : Nat,
     name : Seq(Octet), value : Seq(Octet), huffman : BOOLEAN]
VisitType ==
    [grease : GreaseValue, flipped : BOOLEAN, resumed : BOOLEAN, hello : {"whole", "split", "cut"},
     flight : {"whole", "settings", "header"}, completes : BOOLEAN, plan : Seq(WriteType)]

List8(bytes) == <<Len(bytes) % 256>> \o bytes
List16(bytes) == Octets16(Len(bytes)) \o bytes
Numbers(values) == FlattenSeq([n \in DOMAIN values |-> Octets16(values[n])])

ExtensionBody(client, grease, id) ==
    CASE id = ALPN -> List16(FlattenSeq([n \in DOMAIN client.protocols |->
                                           List8(client.protocols[n])]))
      [] id = SupportedVersions -> List8(Numbers(<<grease, 772, 771>>))
      [] id = SigAlgs -> List16(Numbers(<<1027, 2052>>))
      [] id = Groups -> List16(Numbers(<<grease, 29>>))
      [] id = PointFormats -> List8(<<0>>)
      [] OTHER -> <<>>

(* GREASE stands first among the ciphers, and first and last but for PSK    *)
(* among the extensions.                                                    *)
Greased(client, grease, values) == (IF client.grease THEN <<grease>> ELSE <<>>) \o values
ExtensionIds(client, visit) ==
    Greased(client, visit.grease,
            IF client.permutes /\ visit.flipped THEN Reverse(client.extensions)
            ELSE client.extensions)
      \o Greased(client, visit.grease, <<>>)
      \o (IF visit.resumed THEN <<PreSharedKey>> ELSE <<>>)

ExtensionBlock(client, visit) ==
    LET ids == ExtensionIds(client, visit)
    IN  FlattenSeq([n \in DOMAIN ids |->
          Octets16(ids[n]) \o List16(ExtensionBody(client, visit.grease, ids[n]))])

Message(client, visit) ==
    Octets16(771) \o [n \in 1 .. RandomLen |-> 7] \o List8(<<8>>)
      \o List16(Numbers(Greased(client, visit.grease, client.ciphers))) \o List8(<<0>>)
      \o (IF client.extensions = <<>> THEN <<>> ELSE List16(ExtensionBlock(client, visit)))

(* A hello that one record can hold: its length is given in two bytes. *)
FitsInRecord(client, visit) == Len(Message(client, visit)) + 4 < 65536

Record(bytes) == <<22, 3, 1>> \o List16(bytes)

(* The rest of the handshake follows on the wire.  A hello may also come in *)
(* two records, or not completely.                                          *)
WriteHello(client, visit) ==
    LET handshake == <<1>> \o Octets24(Len(Message(client, visit))) \o Message(client, visit)
        half == Len(handshake) \div 2
    IN  CASE visit.hello = "whole" -> Record(handshake) \o <<20, 3, 3>>
          [] visit.hello = "split" -> Record(Take(handshake, 0, half))
                                        \o Record(Take(handshake, half, Len(handshake) - half))
          [] visit.hello = "cut" -> Front(Record(handshake))

(* The first protocol of the server's two that the client has. *)
Http2 == <<104, 50>>   \* h2
Negotiated(client) ==
    LET offered == IF ALPN \in ToSet(client.extensions) THEN ToSet(client.protocols) ELSE {}
    IN  IF Http2 \in offered THEN Some(Http2) ELSE offered \cap {Http11}

-----------------------------------------------------------------------------
(* A header block, written by a peer that knows the static table and keeps  *)
(* a dynamic one by the same rules.  A write is a representation:           *)
(*   do: "index", "insert", "plain", "never" or "size",                     *)
(*   index: an index of either table, 0 for a name of its own, or the size. *)

CONSTANTS PeerOverhead, PeerMax   \* 32 and 4096, as in the RFC

ASSUME PeerAssumption == PeerOverhead \in Nat /\ PeerMax \in Nat

PeerString(bytes, huffman) ==
    IF huffman THEN Integer(Len(HuffmanEncode(bytes)), 7, 128) \o HuffmanEncode(bytes)
    ELSE Integer(Len(bytes), 7, 0) \o bytes

Pattern(do) == CASE do = "index" -> 128 [] do = "insert" -> 64 [] do = "size" -> 32
                 [] do = "never" -> 16 [] do = "plain" -> 0
PrefixBits(do) == CASE do = "index" -> 7 [] do = "insert" -> 6 [] do = "size" -> 5
                    [] do \in {"never", "plain"} -> 4

WriteRepresentation(w) ==
    Integer(w.index, PrefixBits(w.do), Pattern(w.do))
      \o (IF w.do \in {"index", "size"} THEN <<>>
          ELSE (IF w.index = 0 THEN PeerString(w.name, w.huffman) ELSE <<>>)
               \o PeerString(w.value, w.huffman))

(* The newest entries that fit. *)
PeerCost(e) == Len(e.name) + Len(e.value) + PeerOverhead
Fitting(entries, max) ==
    LET cost[n \in 0 .. Len(entries)] ==
          IF n = 0 THEN 0 ELSE cost[n - 1] + PeerCost(entries[n])
    IN  SubSeq(entries, 1, CHOOSE n \in 0 .. Len(entries) :
                 cost[n] <= max /\ \A m \in n + 1 .. Len(entries) : cost[m] > max)

Known(peer, index) == index \in 1 .. Len(StaticTable \o peer.entries)
MeantField(peer, w) ==
    IF w.do = "index" THEN (StaticTable \o peer.entries)[w.index]
    ELSE Field(IF w.index = 0 THEN w.name ELSE (StaticTable \o peer.entries)[w.index].name,
               w.value)

PeerWrites(peer, w) ==
    IF w.do = "size"
    THEN [peer EXCEPT !.max = w.index, !.entries = Fitting(@, w.index)]
    ELSE IF ~Known(peer, w.index) /\ (w.do = "index" \/ w.index # 0)
    THEN [peer EXCEPT !.legal = FALSE]
    ELSE [peer EXCEPT !.meant = Append(@, MeantField(peer, w)),
                      !.entries = IF w.do = "insert"
                                  THEN Fitting(<<MeantField(peer, w)>> \o @, peer.max) ELSE @]

Peer(plan) ==
    LET after[n \in 0 .. Len(plan)] ==
          IF n = 0 THEN [meant |-> <<>>, entries |-> <<>>, max |-> PeerMax, legal |-> TRUE]
          ELSE PeerWrites(after[n - 1], plan[n])
    IN  after[Len(plan)]
WriteBlock(plan) == FlattenSeq([n \in DOMAIN plan |-> WriteRepresentation(plan[n])])

(* The request in its HEADERS frame, with what the flags announce.          *)
WriteRequest(flags, stream, bytes) ==
    Frame(HEADERS, flags, stream,
          (IF (flags \div Padded) % 2 = 1 THEN <<2>> ELSE <<>>)
            \o (IF (flags \div HasPriority) % 2 = 1 THEN <<128, 0, 0, 0, 255>> ELSE <<>>)
            \o bytes
            \o (IF (flags \div Padded) % 2 = 1 THEN <<0, 0>> ELSE <<>>))

Opening(client) ==
    Preface \o Frame(SETTINGS, 0, 0, SettingsPayload(client.settings))
      \o OrEmpty({Frame(WINDOWUPDATE, 0, 0, Octets32(w)) : w \in client.window})
      \o FlattenSeq([n \in DOMAIN client.priorities |->
           Frame(PRIORITY, 0, 2 * n + 1, client.priorities[n])])

(* Frames that hold what they carry: a length is given in three bytes.      *)
FitsInFrames(client, visit) ==
    /\ Len(SettingsPayload(client.settings)) < 2^24
    /\ \A n \in DOMAIN client.priorities : Len(client.priorities[n]) < 2^24
    /\ Len(WriteRequest(client.flags, 1, WriteBlock(visit.plan))) < 2^24

(* What the capture holds of the flight: all of it, up to the request, or   *)
(* up to the header of the request's frame.                                 *)
WriteFlight(client, visit) ==
    LET request == WriteRequest(client.flags, 1, WriteBlock(visit.plan))
    IN  Opening(client) \o (CASE visit.flight = "whole" -> request
                              [] visit.flight = "settings" -> <<>>
                              [] visit.flight = "header" -> Take(request, 0, FrameHeader))

=============================================================================
