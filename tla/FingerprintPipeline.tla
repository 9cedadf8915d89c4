------------------------- MODULE FingerprintPipeline -------------------------
(* A client's connections from its bytes to what fpd says of them: the       *)
(* recorded hello and the captured preamble, the decoding of the request,    *)
(* the report, and what each of its users makes of that: `capture` a         *)
(* profile, `check` a verdict, `serve` a verdict, the headers upstream and a *)
(* line of the feed, the tower acceptor a request extension, and             *)
(* `emulate --verify` a comparison of its own client with the original.      *)
EXTENDS ClientWire, FeedLine, HpackDecoder

CONSTANTS Scenes,      \* who connects to what, see MCFingerprintPipeline
          AgentFamily  \* the family each User-Agent really belongs to

(* A profile can be called anything but what stands for the lack of one in  *)
(* the headers upstream, emulation is of some profile, and a client says no *)
(* more than the length before it can.                                      *)
SceneType ==
    [client : ClientType, sampled : SUBSET VisitType, samples : Nat,
     visits : SUBSET VisitType, db : Seq(ProfileType),
     use : {"check", "serve", "tower", "emulate"}]
ASSUME ScenesAssumption ==
    /\ Scenes \subseteq SceneType
    /\ \A s \in Scenes : \A n \in DOMAIN s.db : s.db[n].label # "unparsed"
    /\ \A s \in Scenes : s.use = "emulate" => s.samples > 0 \/ s.db # <<>>
    /\ \A s \in Scenes : \A v \in s.sampled \cup s.visits :
          FitsInRecord(s.client, v) /\ FitsInFrames(s.client, v)

(* The decoder's table is the one that HPACK lets a client count on.  What  *)
(* fills the last octet of a string is the beginning of the code of Eos,    *)
(* and there are fewer entries and bytes than five octets can count.        *)
ASSUME HpackAssumption ==
    /\ EntryOverhead = PeerOverhead /\ DefaultMax = PeerMax
    /\ Len(HuffmanCode[Eos]) > 7
    /\ \A n \in DOMAIN HuffmanCode[Eos] : HuffmanCode[Eos][n] = 1
    /\ MaxString < 128^4 /\ Len(StaticTable) + PeerMax < 128^4

(* What a User-Agent holds.  Other clients begin with their name, and no    *)
(* browser does.  Edge has a name in it that no other has, and the others   *)
(* have theirs in what descends from them, if they are not it themselves.   *)
ASSUME AgentsAssumption ==
    \A agent \in DOMAIN AgentFamily :
        LET family == AgentFamily[agent]
            starts == AgentTokens[agent].starts
            has(tokens) == tokens \subseteq AgentTokens[agent].contains
        IN  /\ \A other \in {"curl", "python", "go", "node"} : starts = other <=> family = other
            /\ starts \notin {"curl", "python", "go", "node"} =>
                 /\ has({"edg"}) <=> family = "edge"
                 /\ has({"firefox"}) /\ family # "edge" <=> family = "firefox"
                 /\ has({"chrome"}) /\ family \notin {"edge", "firefox"} <=> family = "chrome"
                 /\ has({"safari", "version"}) /\ family \notin {"edge", "firefox", "chrome"}
                      <=> family = "safari"

VARIABLES scene,     \* the client, its visits and what they are for
          stage,     \* capture, check, serve, tower or emulate: the report's user
          visit,     \* what is particular to this connection
          raw,       \* the bytes recorded below TLS
          flight,    \* the bytes captured above it
          report,    \* what the connection was reduced to, if it was
          samples,   \* the reports a capture has collected, with their visits
          db,        \* the profiles
          id,        \* the identification
          attached,  \* what the application is given with a request
          line,      \* the line of the feed
          compared   \* the comparison of an emulated client with its profile

connectionVars == <<visit, raw, flight>>
resultVars == <<id, attached, line, compared>>
vars == <<scene, stage, connectionVars, decoderVars, report, samples, db, resultVars>>

Init ==
    /\ scene \in Scenes
    /\ stage = "connect"
    /\ visit = None /\ raw = <<>> /\ flight = <<>>
    /\ DecoderInit
    /\ report = None
    /\ samples = <<>>
    /\ db = scene.db
    /\ id = None /\ attached = <<>> /\ line = None /\ compared = <<>>

-----------------------------------------------------------------------------
(* The connection *)

User == IF Len(samples) < scene.samples THEN "capture" ELSE scene.use
Visits == IF User = "capture" THEN scene.sampled ELSE scene.visits

(* An emulated client is built from the first profile of the database.      *)
Original == Head(db)
Speaker == IF User = "emulate" THEN Build(Original) ELSE scene.client

(* A handshake can fail, and does when half a hello is all that comes and   *)
(* when no protocol suits both.                                             *)
Completes(v) ==
    /\ v.completes
    /\ v.hello # "cut"
    /\ ALPN \in ToSet(Speaker.extensions) => Negotiated(Speaker) # None
AlpnOf(v) == IF Completes(v) THEN Negotiated(Speaker) ELSE None

FlightOf(v) == IF AlpnOf(v) # Some(Http2) THEN <<>>
               ELSE IF User = "emulate" THEN EmulatedPreamble(Original)
               ELSE WriteFlight(scene.client, v)

(* The tee keeps what the handshake reads; what follows it is captured only *)
(* when the protocol is h2, and then the request's block is decoded.        *)
Connect ==
    /\ stage = "connect"
    /\ User = "emulate" => CanName(Original)
    /\ \E v \in Visits :
         /\ visit' = Some(v)
         /\ raw' = Recorded(WriteHello(Speaker, v))
         /\ flight' = FlightOf(v)
         /\ OpenBlock(OrEmpty({BlockOf(f) : f \in ParsePreamble(FlightOf(v))}))
    /\ stage' = "decode"
    /\ UNCHANGED <<scene, report, samples, db, resultVars>>

(* A suite without a name: no client, and no connection. *)
CannotBuild ==
    /\ stage = "connect"
    /\ User = "emulate" /\ ~CanName(Original)
    /\ stage' = "done"
    /\ UNCHANGED <<scene, connectionVars, decoderVars, report, samples, db, resultVars>>

DecodeStep ==
    /\ stage = "decode"
    /\ Decode
    /\ UNCHANGED <<scene, stage, connectionVars, report, samples, db, resultVars>>

(* The report needs a hello that parses, and nothing else. *)
BuildReport ==
    /\ stage = "decode"
    /\ decoding \in {"done", "failed"}
    /\ report' = {[tls |-> tls, raw |-> Retain(raw),
                   h2 |-> {H2Of(frames, fields) : frames \in ParsePreamble(flight)},
                   alpn |-> AlpnOf(The(visit))] : tls \in FingerprintTls(raw)}
    /\ stage' = User
    /\ UNCHANGED <<scene, connectionVars, decoderVars, samples, db, resultVars>>

-----------------------------------------------------------------------------
(* The users of a report *)

Captured == "captured"

(* One sample more, and after the last the profile. *)
Sample ==
    /\ stage = "capture"
    /\ report # None
    /\ samples' = Append(samples, [report |-> The(report), visit |-> The(visit)])
    /\ db' = IF Len(samples') < scene.samples THEN db
             ELSE Append(db, ProfileFrom([n \in DOMAIN samples' |-> samples'[n].report], Captured))
    /\ stage' = "connect"
    /\ UNCHANGED <<scene, connectionVars, decoderVars, report, resultVars>>

(* Without a report the commands that probe give up, and the acceptor       *)
(* refuses the connection; without a handshake there is none to serve.      *)
NothingToSay ==
    /\ \/ stage \in {"capture", "check", "emulate"} /\ report = None
       \/ stage = "tower" /\ (report = None \/ ~Completes(The(visit)))
       \/ stage = "serve" /\ ~Completes(The(visit))
    /\ stage' = "done"
    /\ UNCHANGED <<scene, connectionVars, decoderVars, report, samples, db, resultVars>>

Check ==
    /\ stage = "check"
    /\ report # None
    /\ id' = Some(Identify(The(report), db))
    /\ stage' = "done"
    /\ UNCHANGED <<scene, connectionVars, decoderVars, report, samples, db, attached, line,
                   compared>>

(* The request as hyper has it: the client's own headers, in the order in   *)
(* which their names first came, and the values of a name in theirs.        *)
ByName(headers) ==
    FlattenSeq([n \in DOMAIN headers |->
      IF \E m \in 1 .. n - 1 : headers[m].name = headers[n].name THEN <<>>
      ELSE Keep(headers, LAMBDA h : h.name = headers[n].name)])
Request ==
    LET headers == ByName(Keep(Peer(The(visit).plan).meant, LAMBDA f : ~IsPseudo(f.name)))
    IN  [n \in DOMAIN headers |->
           [name |-> headers[n].name, from |-> "client", value |-> headers[n].value]]

(* A hello that does not parse is served all the same, and not recorded.    *)
Serve ==
    /\ stage = "serve"
    /\ Completes(The(visit))
    /\ id' = {Identify(r, db) : r \in report}
    /\ attached' = UpstreamHeaders(Request, IF report = None THEN UnparsedHeaders
                                            ELSE FpHeaders(The(report), The(id')))
    /\ line' = {Line(RecordOf(r, The(id'))) : r \in report}
    /\ stage' = "done"
    /\ UNCHANGED <<scene, connectionVars, decoderVars, report, samples, db, compared>>

(* The request extension of the tower layer. *)
ClientFingerprint(r, i) ==
    << Ours(Ja4Header, r.tls.ja4), Ours(Ja3Header, r.tls.ja3), Ours(H2Header, AkamaiOf(r)),
       Ours(VerdictHeader, VerdictOf(i)), Ours(ConfidenceHeader, ScoreOf(i)),
       Ours(ClaimedHeader, {m.claimed : m \in i.mismatch}) >>

Accept ==
    /\ stage = "tower"
    /\ Completes(The(visit)) /\ report # None
    /\ id' = Some(Identify(The(report), db))
    /\ attached' = ClientFingerprint(The(report), The(id'))
    /\ stage' = "done"
    /\ UNCHANGED <<scene, connectionVars, decoderVars, report, samples, db, line, compared>>

Verify ==
    /\ stage = "emulate"
    /\ report # None
    /\ compared' = Diff(The(report), Original)
    /\ stage' = "done"
    /\ UNCHANGED <<scene, connectionVars, decoderVars, report, samples, db, id, attached, line>>

Next == \/ Connect \/ CannotBuild \/ DecodeStep \/ BuildReport \/ Sample \/ NothingToSay
        \/ Check \/ Serve \/ Accept \/ Verify

Spec == Init /\ [][Next]_vars

-----------------------------------------------------------------------------
(* Properties *)

(* Type invariant. *)
TypeOK ==
    /\ stage \in {"connect", "decode", "capture", "check", "serve", "tower", "emulate", "done"}
    /\ raw \in Seq(Octet) /\ Len(raw) <= MaxRecorded
    /\ flight \in Seq(Octet)
    /\ DecoderTypeOK
    /\ Len(samples) <= scene.samples
    /\ Cardinality(visit) <= 1 /\ Cardinality(report) <= 1
    /\ Cardinality(id) <= 1 /\ Cardinality(line) <= 1
    /\ \A i \in id : Cardinality(i.best) <= 1 /\ Cardinality(i.mismatch) <= 1

(* A plan is read when all of it was captured, in a frame that ends it.     *)
AsksInOneFrame == (scene.client.flags \div EndHeaders) % 2 = 1
ReadsPlan ==
    /\ stage = "decode" /\ User # "emulate"
    /\ AlpnOf(The(visit)) = Some(Http2)
    /\ The(visit).flight = "whole"
    /\ AsksInOneFrame

(* Strings are text, and as they are sent no longer than they may be.       *)
IsRead(bytes, huffman) ==
    /\ IsText(bytes)
    /\ Len(IF huffman THEN HuffmanEncode(bytes) ELSE bytes) <= MaxString
WithinLimits(plan) ==
    /\ Len(Peer(plan).meant) < MaxHeaders
    /\ \A n \in DOMAIN plan :
          IF plan[n].do = "size" THEN plan[n].index <= PeerMax
          ELSE /\ IsRead(plan[n].name, plan[n].huffman)
               /\ IsRead(plan[n].value, plan[n].huffman)

(* The decoder reads the fields that the client meant, and the two keep the *)
(* same dynamic table, whatever is inserted, evicted and referred to: a     *)
(* table out of step would silently name other headers.  A block that       *)
(* refers to what there is not gives no fields, not some (decoder.rs:29,    *)
(* table.rs:60, integer.rs:15).                                             *)
DecoderFollowsTheClient ==
    /\ TableAccounts
    /\ ReadsPlan /\ decoding \in {"done", "failed"} /\ WithinLimits(The(visit).plan) =>
         LET peer == Peer(The(visit).plan)
         IN  IF peer.legal
             THEN decoding = "done" /\ fields = peer.meant /\ entries = peer.entries
             ELSE decoding = "failed" /\ fields = <<>>

(* JA4 does not change from one connection of a client to the next, however *)
(* it permutes its extensions and whichever GREASE it picks, unless one of  *)
(* them resumes a session and the other does not (ja4.rs:58, grease.rs:9).  *)
RotationKeepsJa4 ==
    \A m, n \in DOMAIN samples :
        samples[m].visit.resumed = samples[n].visit.resumed =>
            samples[m].report.tls.ja4 = samples[n].report.tls.ja4

(* Nothing went wrong on a visit, and its request has the given shape: the  *)
(* order of its pseudo-headers and the names of its others.                 *)
RequestShape(plan) ==
    << PseudoOrder(Peer(plan).meant), Comparable(RegularNames(Peer(plan).meant)) >>
Undisturbed(v, shape) ==
    /\ Completes(v)
    /\ v.flight = "whole"
    /\ Peer(v.plan).legal /\ WithinLimits(v.plan)
    /\ RequestShape(v.plan) = shape

(* A client that a profile was captured of is recognised when it returns,   *)
(* in another order, with another GREASE and on a resumed session too: some *)
(* profile that agrees with it in every field is named.  The exception is   *)
(* the client that permutes and was recorded twice in the same order.       *)
SameClientIsRecognised ==
    id # None /\ samples # <<>> /\ report # None =>
        LET captured == Last(db)
            shape == RequestShape(The(visit).plan)
        IN  /\ Undisturbed(The(visit), shape)
            /\ \A n \in DOMAIN samples : Undisturbed(samples[n].visit, shape)
            /\ scene.client.permutes => captured.extensionOrder # "fixed"
            => \E b \in The(id).best : IsClean(b.diff)

(* A User-Agent is called a lie exactly when it is one, as far as families  *)
(* are known, labels are of one profile each and only the client's own      *)
(* family has a profile that agrees with it: an honest client is not        *)
(* accused because its string mentions another browser, and a false string  *)
(* is not believed (ua.rs:55, verdict.rs:86).                               *)
MismatchTellsTheTruth ==
    id # None /\ report # None /\ Undisturbed(The(visit), RequestShape(The(visit).plan)) =>
        LET clean == {n \in DOMAIN db : IsClean(Diff(The(report), db[n]))}
            sent == Keep(Peer(The(visit).plan).meant, LAMBDA f : f.name = UserAgent)
            agent == Head(sent).value
        IN  /\ AlpnOf(The(visit)) = Some(Http2) /\ AsksInOneFrame
            /\ sent # <<>> /\ agent \in DOMAIN AgentFamily
            /\ \A m, n \in DOMAIN db : db[m].label = db[n].label => m = n
            /\ clean # {}
            /\ \A n \in clean : db[n].family = scene.client.family
            => (The(id).mismatch # None <=>
                  /\ {AgentFamily[agent], scene.client.family} \subseteq Families
                  /\ AgentFamily[agent] # scene.client.family)

(* The application behind `serve` can trust what it finds under x-fp-: fpd  *)
(* wrote it and wrote it once, whatever the client sent under that prefix,  *)
(* a verdict is always among it, and it names a claim only when it calls it *)
(* false.  Every other header of the client's arrives, in order, and as it  *)
(* was sent where it is text (inject.rs:10, serve.rs:118).                  *)
UpstreamHeadersAreOurs ==
    stage = "done" /\ User = "serve" /\ attached # <<>> =>
        LET ours == Keep(attached, LAMBDA h : IsOurs(h.name))
            theirs == Keep(attached, LAMBDA h : ~IsOurs(h.name))
            sent == Keep(Request, LAMBDA h : ~IsOurs(h.name))
            valuesOf(name) == {ours[n].value : n \in {n \in DOMAIN ours : ours[n].name = name}}
        IN  /\ \A n \in DOMAIN ours : ours[n].from = "fpd"
            /\ \A m, n \in DOMAIN ours : ours[m].name = ours[n].name => m = n
            /\ valuesOf(VerdictHeader) # {} /\ valuesOf(ConfidenceHeader) # {}
            /\ valuesOf(VerdictHeader) = {"unparsed"} <=> ParseHello(raw) = None
            /\ valuesOf(MismatchHeader) = {TRUE} <=> valuesOf(ClaimedHeader) # {}
            /\ Len(theirs) = Len(sent)
            /\ \A n \in DOMAIN sent :
                 /\ theirs[n].name = sent[n].name
                 /\ IsText(sent[n].value) => theirs[n].value = sent[n].value

(* What BoringSSL can be made to do: TLS 1.3 first, its own extensions in   *)
(* its own order or in any, GREASE in both places or in none, and a request *)
(* only where h2 is the first protocol.                                     *)
Reproducible(p) ==
    LET exts == WithoutPsk(p.extensions)
    IN  /\ IsPrefix(Tls13, p.ciphers)
        /\ Len(p.ciphers) > 3 /\ \A n \in 4 .. Len(p.ciphers) : ~IsTls13(p.ciphers[n])
        /\ ToSet(exts) \subseteq ToSet(BoringExtensions) /\ IsInjective(exts)
        /\ ToSet(BoringExtensions) \ OnRequest \subseteq ToSet(exts)
        /\ Alps \in ToSet(exts) => ALPN \in ToSet(exts)
        /\ p.extensionOrder = "fixed" => exts = Keep(BoringExtensions,
                                                     LAMBDA x : x \in ToSet(exts))
        /\ <<Cardinality(p.greaseCiphers), Cardinality(p.greaseExts)>> \in {<<0, 0>>, <<1, 2>>}
        /\ p.h2 # None => p.alpn = Some(Http2)

(* An emulated client that can be what its profile says is that, field by   *)
(* field: its own connection, recorded and reduced as any other, agrees     *)
(* with the profile (build.rs:18, h2.rs:18).                                *)
EmulationReproduces ==
    compared # <<>> /\ Completes(The(visit)) /\ Reproducible(Original) => IsClean(compared)

(* A view that listens to the feed shows of a connection what a view inside *)
(* the server shows, and its marks lie on the bytes they are the marks of:  *)
(* the ciphers on the ciphers, GREASE on GREASE, and the extensions on all  *)
(* of their block (admin.rs:181, source.rs:15).                             *)
RowsShowTheClient ==
    \A written \in line, r \in report, i \in id :
        LET row == ParseFrame(written)
            own == FromReport(r, i)
            each == written.provenance.perExtension
            number(at) == U16(row.raw, at)
        IN  /\ [row EXCEPT !.cipherCount = own.cipherCount] = own
            /\ CiphersLen(row) = CiphersLen(own)
            /\ Len(row.raw) = Len(raw) =>
                 /\ U16s(BytesAt(row.raw, row.ciphers)) = r.tls.ciphers
                 /\ \A n \in DOMAIN row.grease : IsGrease(number(row.grease[n].start))
                 /\ \A n \in DOMAIN each :
                      /\ number(each[n].span.start) = r.tls.extensions[n]
                      /\ each[n].span.start =
                           IF n = 1 THEN row.extensions.start
                           ELSE each[n - 1].span.start + each[n - 1].span.len
                 /\ each # <<>> => Last(each).span.start + Last(each).span.len =
                                     row.extensions.start + row.extensions.len

=============================================================================
