# fpd, the flux parsing daemon: TLA+ models and proofs

`fpd` terminates TLS for a site, fingerprints each client from its ClientHello
and its first HTTP/2 frames, forwards the requests to the site's application
with the result in `x-fp-*` headers, and shows the connections it saw on an
admin socket that a terminal UI attaches to. Around that are a probe for one
client, a comparison with shipped profiles, an emulator that builds a hello
from a profile, and a gate that lets nothing run before the terms are accepted.

Source paths below are relative to `src/crates/`.

## Inventory

| part | source | state | operations | hard because | correct when |
|---|---|---|---|---|---|
| admin feed | `fingerprint-probe/src/{admin,log}.rs` | the log behind a mutex, a broadcast channel, one task per viewer | `push`, `handle_client` | a push is two steps, a viewer starts anywhere between them, viewers stall and leave | each viewer is shown every connection it keeps up with, once and in order, and holds up nobody |
| proxy connection | `fingerprint-probe/src/{serve,recording,replaying,inject}.rs` | the bytes on their way, the report, the requests in flight | `handle`, `capture_h2_preamble`, `Replaying`, `forward` | bytes change hands twice, three timeouts, a client and an upstream that may stop at any point | the site sees what the client sent, annotated with what the feed shows, and nothing waits for ever |
| terminal UI | `fpd/src/tui/` | a window of rows, a selection, follow, search | rows arriving, keys | eviction under a selection; gaps in the feed | the selection stays on its row; a gap is never hidden |
| terms gate | `fingerprint-terms/src/`, `fpd/src/main.rs` | a record file and an append-only history | `accept`, `check_with`, the env path | two writes, no transaction, runs in parallel | nothing runs unaccepted, every acceptance is in the history |
| HPACK | `fingerprint-h2/src/hpack/` | the dynamic table | decode, size update, insert | boundaries: evicting, integers at 2^63, an entry larger than the table | the table's size is the sum of its entries and below its maximum |
| HTTP/2 fingerprint | `fingerprint-h2/src/` | none | `parse_preamble`, `akamai::fingerprint` | captures that end early | fields in wire order |
| TLS fingerprint | `fingerprint-core/src/` | none | the hello walk, JA3, JA4 | nested lengths, GREASE | every span lies in the hello, order-independent where JA4 says so |
| profiles and verdict | `fingerprint-probe/src/{profile,diff,verdict,ua}.rs` | the shipped profiles | `diff`, `identify` | ties; only the first candidate is tested | no mismatch unless both sides are known |
| probe, check, capture | `fingerprint-probe/src/probe.rs`, `fpd/src/commands/` | a listener, a child process | `accept_one` | timeouts in sequence, a child to clean up | one report per client, no process left behind |
| tower acceptor | `fingerprint-tower/src/` | none | `accept` | the same hand-over as the proxy | the same |
| emulator | `fingerprint-emulate/src/` | none | build, verify | it has to agree with the fingerprint | it reproduces the profile it was given |
| command line, serve command | `fpd/src/{main,cli}.rs`, `fpd/src/commands/serve.rs` | none | parse, dispatch, start a server | `terms`, help and version pass the gate by raw argv, before clap has read it | each command begins only behind the gate |

A connection task of the proxy calls `Publisher::push` once, synchronously,
before hyper serves it; the feed's viewers read the admin socket; the terminal
UI is such a viewer. Processes of `fpd` meet in the record and the history of
the terms gate and in the path of the admin socket. What happens to the bytes of
one connection, from the record to the verdict, is sequential and hard for its
data: nested lengths, boundaries, orders that change from visit to visit.

`PROJECT.json` lists, under `hazards`, where each of these can go wrong, and
which property is about it.

## Modules

| module | models |
|---|---|
| `ConnectionLog` | `ConnectionLog` of log.rs: the bounded window and its numbering |
| `Broadcast` | the tokio broadcast channel as admin.rs relies on it (library) |
| `AdminFeed` | `Publisher` and `handle_client`: state, actions, fairness, properties |
| `FeedPromise` | what a viewer is promised, without channel, snapshot or buffer |
| `MCAdminFeed` | instances for TLC |
| `AdminFeedProofs` | the theorems about `AdminFeed` |
| `Preamble` | the bytes of a connection: the client's stream, `capture_h2_preamble`, `Replaying` |
| `Forward` | the requests of a connection through `forward`, and the upstream |
| `ProxyConnection` | `handle`: handshake, capture, report, serving; composes the two above |
| `MCProxyConnection` | instances for TLC |
| `SequenceLemmas` | induction, recursive functions, running totals, walks, and what `Keep` and `FlattenSeq` do to sequences, for the proofs |
| `ProxyConnectionProofs` | the theorems about `ProxyConnection` |
| `TuiView` | `run` and `on_key` of the terminal UI over its `State` |
| `MCTuiView` | instances for TLC |
| `TuiViewProofs` | the theorems about `TuiView` |
| `WatchedFeed` | `AdminFeed` with a terminal UI attached: composes it with `TuiView` |
| `MCWatchedFeed` | instances for TLC |
| `WatchedFeedProofs` | the theorems about `WatchedFeed` |
| `FpdProcess` | an invocation of the binary: its words, what clap makes of them, its stages and exit code |
| `TermsGate` | the gate, the acceptance record, the history, `terms accept`, and the user's hands in the config directory |
| `ProbeCommands` | `check`, `capture`, `emulate --verify` and `tui --listen` around `accept_one` |
| `AdminSocketPath` | `AdminSocket::bind` and `attach`, as far as the path goes |
| `FpdProcesses` | several processes, kills included: composes the four above |
| `MCFpdProcesses` | the scenarios for TLC |
| `FpdProcessesProofs` | the theorems about `FpdProcesses` |
| `Selection` | `filter` and `retain`: the elements of a sequence that pass a test |
| `Octets` | fingerprint-core's `Reader`: big-endian reads that fit or fail |
| `ClientHello` | the walk over record, handshake and hello, with its spans; extension bodies; GREASE |
| `TlsFingerprint` | the recording and its limits, JA3, JA4, provenance |
| `H2Fingerprint` | the frames of the preamble, SETTINGS, windows, priorities, the request's names |
| `Hpack` | prefix integers, the Huffman code, strings, representations, `encode_headers` |
| `HpackDecoder` | `Decoder` and `DynamicTable` as a state machine over one block |
| `Profiles` | a profile, `diff`, `identify`, the User-Agent's family, the mismatch |
| `FeedLine` | the headers upstream, the feed's record and line, the UI's row |
| `Emulator` | how BoringSSL is configured from a profile; the preamble and `--verify` |
| `ClientWire` | what clients put on the wire (external) |
| `FingerprintPipeline` | a client's connections from bytes to verdict: composes the ten above |
| `MCFingerprintPipeline` | clients, requests and scenes for TLC |
| `FingerprintTypes` | what the pipeline's operators return: the lemmas below the theorems |
| `FingerprintPipelineProofs` | the theorems about `FingerprintPipeline` |

### AdminFeed

`log` is the mutex-protected `ConnectionLog`, `sent` the channel, `push` and
`seq` the local state of each connection's call of `Publisher::push`, and the
other variables belong to one viewer's `handle_client`. `Publisher::push` is
two actions: `Store`, under the mutex, and `Send`, after the guard was dropped
at the end of the `match`. `handle_client` has one action per await or lock:
`Subscribe`, `TakeSnapshot`, `WriteSnapshot` (one line), `WriteMarker`, `Flush`,
`ReceiveRecord`, `ReceiveLagged`, `WriteFails`. `Spill` is the BufWriter
passing on lines by itself, `Leave` the viewer closing its end. `gone` and
`overrun` are what the viewer did and what it lost by lagging; the second is a
history variable that only properties read.

The poisoned mutex is left out (nothing that holds it can panic), as is
`RecvError::Closed` (the task holds the sender through its `Arc`).

### ProxyConnection

A byte is its position in the client's stream, so that a lost, repeated or
overtaken byte is visible as a position. What the bytes say is the script: the
preface and then frames, with the kind and length of each. `read_exact` is
`ReadSome`, which puts what has arrived into the local array, and `KeepPart`,
which completes it and appends it to `captured`. A capture that ends by timeout
or end of stream is `Abandon`: the array goes, and `lost` remembers (for the
properties) what it held. `Replay` and `ReadLive` are the two halves of
`Replaying::poll_read`, with a reader of any buffer size. `H2Fingerprint` is
what `akamai::fingerprint` makes of a capture that ended early.

`Report` is everything `handle` does between capture and serving, none of which
waits: parse, identify, push, build the headers. Whether the recorded hello
parses is a choice. That `push` returns is `PushCompletes` of `AdminFeed`.

`Forward` has one step per await of `forward`. The upstream may refuse, accept,
send a head, finish, break off before or after the head, or do nothing more.
Whether a request's body arrived whole is a choice (`CollectBody`).

hyper is external: it reads bytes, starts a request when it has the whole of
its head as the client sent it, gives up on a torn stream, runs HTTP/2 requests
concurrently and HTTP/1.1 requests one by one, and drops the requests of a
connection that is gone.

### TuiView and WatchedFeed

A row is its number and a kind, and a search is known by the kinds it matches:
another character matches no more than before, an empty query everything. Every
key of `on_key` is an action, in a search and outside. `Draw` is the top of the
loop, `Select` what the branches of the `select!` share, `FramePasses` the clock.
`screen` is what was drawn last; `Picture` is what `render` would draw now, with
the layout left out. `received` is history.

`WatchedFeed` runs both modules side by side. `Deliver` is `attach`: the next
line that left the feed's BufWriter becomes a row. `FeedIsASource` says that the
feed meets what `TuiView` assumes of a source, so that what holds of `TuiView`
holds of an attached one. The user of `WatchedFeed` presses no keys: none of them
changes what arrives or what `dropped` says.

### FpdProcess, TermsGate, ProbeCommands, AdminSocketPath and FpdProcesses

Every process has an invocation `inv`, a stage `pc` and an exit code; a stage is
the next thing main() or the command does that another process, the user or a
crash could notice. `Start` and `Gate` are main() up to the gate (`AppliesTo` is
`applies_to` of gate.rs, on raw argv); `Audit` and `AppendEntry` the env path;
`Parse` is clap and the dispatch. clap is external: a flag it knows ends the run
wherever it stands, except behind `check`'s client command.

`terms accept` is `Save` (the file is opened and emptied), `Write` (it is
filled), `AppendEntry` and `EndLine` (the entry and its newline are two writes,
history.rs:27). What two overlapping writes leave is one of the records or a
mixture, `Torn`. The signature of a record is a flag that an edit by hand clears,
so `Verify` is "untouched, and for this binary's terms". `saved`, `disturbed` and
`unaudited` are history.

`accept_one` is three waits, each with its own timeout (`AcceptTcp`,
`Handshake`, `CaptureH2`); each may end in time, fail, or time out, and what it
then leads to is `NothingSeen` or `Reported`. `check` starts a child, which may end
by itself or never, and kills it in `Reap`. A report is the order it showed, the
one thing `capture` compares between samples.

`AdminSocket::bind` is `Exists`, `Remove`, `BindSocket`, `Chmod`, and an error in
the last three leaves a server without socket. A server that ends leaves its file:
`Drop` would remove it, but `serve` runs for ever and is killed.

`Kill` ends any process between any two steps, a user may edit or delete the
record at any time, also while a process holds it open.

### FingerprintPipeline

Bytes are bytes here: `WriteHello` and `WriteFlight` (`ClientWire`) put a whole
ClientHello and a whole HTTP/2 flight on the wire, the parsers read them, and the
properties compare what comes out with what the client meant. Names and values of
headers are one letter each, `random` is `RandomLen` bytes long, and a hash stands
for what is hashed. A result that a Rust function may not have is a set of at most
one element (`None`, `Some`), so that `?` and `map` are `UNION` and comprehension.

One action is one await or loop iteration: `Connect` (handshake and capture),
`DecodeStep` (one representation of the block, or one eviction), `BuildReport`, and
then one of the report's users: `Sample` (capture), `Check`, `Serve`, `Accept` (the
tower layer), `Verify` (emulate). `Evict` is a step of its own because
`DynamicTable` evicts in a loop around a running size.

A scene is a client, its visits, the profiles and what `fpd` is used for. A visit
chooses the GREASE value, the extension order, whether the session is resumed,
the request as a plan of HPACK representations, whether the hello comes whole, in
two records or cut short, how much of the flight was captured, and whether the
handshake completes. `Peer` keeps a dynamic table as RFC 7541 says, by the newest
entries that fit rather than by evicting, and is what the decoder is compared with.

`Emulator` builds the hello of a profile from what build.rs asks of BoringSSL;
what BoringSSL then sends is external. The emulated client goes through the same
`Connect`, so that `EmulationReproduces` is about the whole way round. The
profiles of the emulated scenes are captured by the model, as `fpd capture` would
write them, and stand for the shipped ones.

## Runs

| run | instance | shows |
|---|---|---|
| `feed_safety` | 5 connections, 1 viewer, log 2, channel 2 | numbering, eviction, no repeats, no reordering, nothing held back; with broadcasts in order only lag loses a record |
| `feed_liveness` | 2 connections, 2 viewers, one may stall; log 1, channel 1 | no push waits, an attentive viewer catches up, `FeedPromise` is implemented |
| `feed_missed` | 2 connections, 1 viewer | violation: overtaking broadcasts lose a record for a viewer that keeps up |
| `proxy` | 4 client scripts, up to 3 frames of up to 3 bytes | bytes, annotation and timeouts of a connection |
| `proxy_torn` | 1 script | violation: the capture's timeout tears the stream |
| `proxy_slow` | 1 script | violation: no bound and no 502 after the response head |
| `tui` | view of 2, numbers up to 3, two kinds, queries of one character | gaps, selection, redraws |
| `tui_yanked` | view of 2, one kind | violation: eviction moves a reader's selection |
| `watched` | 3 connections, 1 viewer, log 1, channel 1, view of 2 | a gap means lag; connections reach the screen |
| `watched_quiet` | the same | violation: what is lost before the first row is not reported |
| `processes` | 3 processes, 2 versions of the terms, 9 scenarios | the gate, the audit trail, the socket's path, verdicts and children, with kills, failures and edits anywhere; commands end |
| `fingerprint` | 6 clients and 8 relatives, 7 User-Agents, over 8000 header blocks | decoding, JA4 under rotation, recognition, lies, upstream headers, emulation, rows |

Bounds. In the feed every interesting case needs at most: a full log and one
more record (3 connections for a log of 2), two broadcasts that overtake each
other, and a lag of more than the channel holds while the snapshot is pending
(5 connections reach it together with eviction). Viewers share nothing but the
channel, so one is enough for safety; the second in `feed_liveness` is there to
stall. `Conns` is a symmetry set in the safety run only. In the proxy a part
must be at least 2 bytes long to be cut short, `MaxPayload` is 2 so that a
frame of 3 exceeds it, and the scripts are: two HTTP/2 requests behind an empty
frame, a patient client that waits for the server's SETTINGS, an oversized frame
before the request, and two HTTP/1.1 requests. In the UI a view of 2 is the
smallest in which evicting leaves a row to select, 4 numbers fill it, evict twice
and still leave room for a gap, and the two kinds give queries that match all,
some or no rows. In `watched` a log and a channel of 1 are full after one
connection, so that 3 reach lag and overtaking together.

In `processes` three is the smallest number with two accepting processes and one
that is let in, or two servers and a view, or three servers. The nine scenarios
are the combinations whose processes share something, and runs of every command
beside them; commands that share nothing are not multiplied with each other. Two
versions of the terms make an old record meet a new binary. `MaxRows` is 1: a
second row of `tui --listen` would repeat the first.
In `fingerprint` the dynamic table is resized to 0, 40, 70 and 74 bytes, where an
entry costs 34 to 36: it holds none, one or two of them, an entry is larger than
it, and an insertion evicts one or two. Four writes after the first size are
enough to insert twice, evict, and refer to what is left or gone. `MaxRecorded` is 160 and
`MaxRetained` 100 bytes, which the hello of `Wide` exceeds and most of the others do
not. `MaxHeaders` and `MaxString` are small so that a block goes beyond them. The
limits of the code itself (EntryOverhead 32, 4096, 1 << 20) have their own values.
The clients differ in what fingerprints tell apart: GREASE, permuting, protocols
(`Old` has no extensions at all, `Spdy` offers what no server has), padding and
priority flags, a request that continues in another frame, and, for the emulator,
profiles that BoringSSL can and cannot be made to follow.

Deadlock is not checked in any run, because every connection happens once,
commands end and the user may quit: the systems do stop.

### Fairness

Feed: a push that began runs to its end, since nothing in it waits for a
viewer; the task of a viewer in `Attentive`, or of one that left, is never held
up by its socket. Nothing is assumed of a viewer that stays and does not read.
Proxy: tasks that can run do, and timers go off; the timeouts race everything
else. Nothing is assumed of the client or of the upstream, in particular not
that a body once begun is finished.
UI: the loop is scheduled, time passes, and the sleep of the `select!` ends;
nothing is assumed of the user or the source. In `WatchedFeed` a row that waits
is received under strong fairness, since `select!` polls in random order and does
not pass over a branch for ever that is ready again and again.
Processes: a process whose next step is enabled takes a step, since every wait of
`accept_one` has a timeout and the others are calls that return. Nothing is
assumed of the user, of clients, of a child, or that an open view or a
server ever ends. `FingerprintPipeline` has no fairness: it is sequential, and only its
results are of interest.

### What the violations say

* `feed_missed`: two connections A (number 0) and B (number 1) are logged in
  that order and broadcast in the other. `handle_client` shows B, sets its high
  water mark to 1 and then skips A. The viewer neither lagged nor attached late.
  The number 0 is simply missing from its list. Holding the mutex over
  `tx.send`, which does not wait, would restore the order, and
  `MissesOnlyWhenSlowInOrder` shows that this is enough.
* `proxy_torn`: `capture_timeout` goes off while `read_exact` has part of the
  preface, of a frame header or of a payload. Those bytes are gone, and hyper
  continues in the middle of it. `EveryByteOnce` shows this is the only way to
  lose a byte.
* `proxy_slow`: `upstream_timeout` bounds the connect and the wait for the
  response head (`HeadOr502InTime`), and nothing bounds the response body. An
  upstream that stalls there is waited for until the client leaves; one that
  breaks off there gives the client its status over an empty body.
* `tui_yanked`: `selected` counts from the oldest row. With a full view every
  arrival evicts that row, and the highlight moves on by one while the reader's
  row is still in the list. `RoomyArrival` shows that eviction is the only cause.
* `watched_quiet`: `run` compares a row with the one before it, so a loss before
  the first row (lag or overtaking behind an empty snapshot) is not noticed.
  After the first row every gap is, for good (`GapsAreShown`).

### What the exceptions in the properties say

Where a property of the last two runs needs a premise, TLC has a counterexample
without it. None of these contradicts a statement in the repository strongly
enough to be a violation run, and each is worth knowing:

* `AcceptOpensGate`: overlapping `terms accept` runs, or one that is killed between
  emptying and filling the file, leave a record that does not open the gate
  (store.rs:37). The next `accept` mends it.
* `RunsAreAudited`: a process killed between saving and appending leaves an
  acceptance without history entry (terms.rs:20). That an env run appends only
  without a valid record makes concurrent runs append once each, and their entries
  and newlines may interleave on one line (history.rs:27).
* `SocketAnswers`: a server killed during start-up may have removed the file
  of one that lives on; that server then answers no viewer until it is restarted.
* `DecoderFollowsTheClient`: what is not UTF-8 is replaced by the three bytes of
  U+FFFD (decoder.rs:120), so an entry that holds such costs the decoder another size
  than the client, and the tables part.
* `SameClientIsRecognised`: a permuting client whose two samples happen to agree is
  recorded as "fixed" (capture.rs:28), and then not recognised. The request that returns
  has to have the shape of the one recorded, the order of its pseudo-headers included,
  which is a field of its own (profiles compare it whatever the order of extensions is).
* `MismatchTellsTheTruth`: only the first candidate is looked at (verdict.rs:86), and
  two browsers with one fingerprint tie; with only one of the two in the database,
  the honest user of the other is flagged. A family is looked up by label, so a database
  with two profiles of one label answers with the family of the first. A request that
  goes on in a CONTINUATION frame has no fields (`AsksInOneFrame`), and so no claim.
* `UpstreamHeadersAreOurs`: a value of the client's that is not UTF-8 reaches the
  application as another, with U+FFFD in it (serve.rs:122). None is left out:
  `HeaderValue` refuses control characters only, and hyper has refused those before. Of
  what fpd attaches itself this is assumed: a profile whose label holds a control
  character would leave the verdict out (serve.rs:130).
* `EmulationReproduces`: a profile keeps the first ALPN protocol only, so that a
  client that lists http/1.1 before h2 cannot be reproduced; nor can one that
  orders TLS 1.3 suites in a way BoringSSL does not.

Smaller differences between text and code, all modelled as the code has them:
verdict.rs:56 says there is no best match only when nothing scored above the floor,
the code also has none when the top-ranked one fails on TLS; inject.rs:25 speaks of
values always present, an unparsed hello carries the verdict headers only
(serve.rs:353); integer.rs:34 speaks of ten octets and the shift bound allows nine;
probe.rs:205 says a partial capture still parses, but one that ends between a frame's
header and its payload loses all frames; a refusal by the gate exits with 1, the
code check.rs:10 keeps for a mismatch; `fpd check -- curl -V` passes the gate, because
it looks for flags in all of argv (gate.rs, cli.rs:68), and then runs.

## Theorems

`AdminFeedProofs` proves for every capacity, depth and finite or infinite set
of connections and viewers, from the assumptions named in the modules (the log
capacity is a natural number, the depth a positive one):

* `TypeCorrect`, by one step per action;
* `LogStaysWindow`: `PushedIsWindow` shows that appending and evicting keeps a
  window a window, the other actions leave the log alone;
* `ViewersSeeIncreasing`: `LinesIncrease` is not inductive; `ViewerInv` adds that
  `highest` bounds what was written, that what is still to come of the snapshot
  is above it, and that the snapshot itself increases, which it inherits from the
  window it was copied from;
* `NothingIsHeldBack`, directly;
* `OneRecordEach`: `Numbered` (numbers handed out are below `next_seq` and
  different) and `AllGenuine` (every record, in the log, the channel, a snapshot
  or on a socket, carries the number its connection was given);
* `FeedKeepsPromise`: the refinement of `FeedPromise`, from the invariants above:
  a line is newer than its predecessors by `ViewerInv` and of a recorded
  connection by `AllGenuine` and `Numbered`.

`ProxyConnectionProofs` proves for every length of the preface and of a header,
every `MaxPayload`, every set of scripts and of requests:

* `TypeCorrect`, together with `Placed`, without which it is not inductive: the
  length of the part being read is a number only because the capture is at a part
  the client sends. `FrameEndsUnfold` and `FrameEndsIncrease` say where frames
  lie, `NextPartFollows` that the capture goes from one to the next;
* `NoByteLostOrRepeated`: `EveryByteOnce` speaks of sets and sequences put
  together; `InOrder` says the same by counting. `Missing` is how many of the
  bytes taken are nowhere, what was captured is the opening of the stream, the
  missing bytes followed right after it, and hyper's i-th byte is byte i or, after
  the gap, byte i + Missing;
* `FingerprintedIsIntact`, and with `InOrder` `FingerprintedIsServedWhole`: for a
  connection with a complete fingerprint, what `proxy_torn` refutes does hold;
* `AnnotationIsReported`: before the report there are no requests, afterwards the
  headers are what was reported.

They rest on `SequenceLemmas`, which derives induction over sets of naturals from the
library's well-founded induction, and from that the existence of the running total
that `FrameEnds` is.

`TuiViewProofs` proves for every capacity, every set of kinds and both bounds:

* `TypeCorrect`: `Current` is a row because every place below the number of
  visible rows is taken (`PlacesAreTaken`, by the induction of `SequenceLemmas`);
* `GapsAreAdmitted`, with `Arrivals`: the last row is the newest that arrived;
* `SelectionIsARow`, with `WithinRows`: `selected` stays within the rows even while
  a search hides some, which is what makes ending the search safe;
* `ReadersAreLeftAlone`: until the view is full, `WithinRows` also keeps `selected`
  within the visible rows, new rows come after them (`RoomyGrowth`), and no two
  rows have the same place (`PlacesDiffer`);
* `ScreenIsNeverStale`: what changes the picture asks for a redraw.

`FpdProcessesProofs` proves for every set of processes, versions, invocations and
orders, from `ScenariosAssumption` (scenarios assign invocations) and
`SocketNamesAssumption` (no process is called what the path holds when it leads to
none):

* `TypeCorrect`, module by module, since each has its own variables;
* `GrantsAreAcceptedAlways`: with `RecordsAreSaved`, that an untouched record in the
  file is one some process saved: an edit clears the seal, and mixing two writes
  does not make a record. `Partition` reduces the other modules' steps to what they
  do to the gate's variables, which is nothing;
* `RunsAreAuditedAlways`: the history only grows (`AuditedStays`), and whoever leaves
  the stage between saving and appending appends, or is counted in `unaudited`;
* `VerdictsRestOnReportsAlways`: `Phases` says of each process which stages it can be
  in and how it got past the gate, `Evidences` how many reports it has at each stage
  of a probing command and what became of its child;
* `AcceptOpensGateAlways`: `Undisturbed` strengthens it to the moments in between. While
  nothing is disturbed at most one process writes, it writes over an empty file,
  and otherwise the record of some accepting process stands;
* `SocketAnswersAlways`: `PathLeads` says, as long as no server was killed, whom the
  path can name: a server that listens and has passed binding, or the stale file
  while nobody has got past removing, or nothing, and then either some server is
  about to bind or none has come as far as removing. The interesting step is a
  server that removes another's new socket: it is itself about to bind.

The last part of `AdminFeedProofs` adds `OnlyLagLoses`: while broadcasts keep the order of the numbers,
only lag loses a record. `MissInv` accounts for every connection that was
broadcast and is not older than the viewer's snapshot: it was copied, was written, is
waiting in the channel, or was overrun. The hard case is a record `handle_client`
skips as not above `highest` (`SkippedIsCopied`): if `highest` comes from the
snapshot, the record is in it too, since a snapshot has no gaps; if it comes from the
channel, the skipped record was overtaken.

`WatchedFeedProofs` proves two theorems of the composition, for every view capacity
and every finite set of connections (`ConnsAssumption`: their number bounds the
numbers). The invariants of the feed need no fairness and are stated of `Safely`,
which `WatchedSpec` implies with a fairness of its own.

* `NoteMeansLag`: `InStep` ties the view to the feed (what was received are the first
  lines that left the BufWriter, the last row is the last of them, `dropped` stands
  for a gap between two lines). `GapWasOverrun` then finds the missing number: some
  connection has it (`EveryNumberNamed`), it was broadcast, as otherwise it would
  be about to be overtaken by the line after the gap, which came through the channel
  (`FromTheChannel`), and of the four places `MissInv` allows only overrun is left;
* `FeedFeedsTheView`: the composition implements `TuiView`'s source, so that the
  theorems of `TuiViewProofs` hold of a UI that is attached to the feed.

`FingerprintPipelineProofs` proves for every set of scenes, Huffman code, static
table, name table and every limit (`MaxRecorded`, `MaxRetained`, `MaxString`,
`MaxHeaders`, `AbsoluteMax`), from named assumptions that TLC evaluates too: a prefix-free
Huffman code (`HuffmanAssumption`), the tables' shapes, and `ScenesAssumption` (no
profile is called "unparsed", which stands for the lack of one; an emulating scene has
something to emulate; a client's hello fits the two bytes of a record's length).
Every module's operators are recursive functions, so each proof starts from the two
equations of one (`RunsUnfold`, `TotalsUnfold` and their like in `SequenceLemmas`), and
`FingerprintTypes` says of each operator what it returns. The invariant `Inv` is

* `SceneInv`: whose turn it is, and that there is a profile when one is emulated;
* `ConnectionInv`, `HelloInv`: the bytes recorded are a hello of whoever spoke, the
  scene's client or the one built from the profile, on the visit at hand;
* `DecoderInv`: the decoder's types and its account of the table;
* `ReportInv`, `ResultInv`: there is a report exactly when the hello parses, and it was
  made of the bytes recorded;
* `LineInv`, `AttachedInv`: what is on the feed and in front of the application was made
  of that report and that identification, not of another connection's;
* `SamplesInv`: a sample's report was made of a hello of the client on the visit it names.

`Invariance` proves it, one lemma per action, and from it follow

* `TypesAreCorrect`;
* `TableAccountsAlways`: the running `size` is what the entries cost, through insertions,
  evictions one by one, and resizing, and within the maximum whenever a representation is
  read;
* `HeadersUpstreamAreOurs`: `inject` takes out what the client sent under `x-fp-` and adds
  each header once (`TwoKindsOfHeader`, by what `Keep` does to concatenations), and what is
  left of the client's is its headers in their order, each value read as text, which
  leaves text alone (`StrippedHeaders`, `ElementsOfMapped`);
* `RowsAreTheClients`: the spans of the walk lie on the bytes they name. A hello the walk
  accepts ends where its extension block ends (`HelloEnds`), its ciphers and each
  extension are where their spans say (`HelloMarked`), a GREASE span lies on GREASE
  (`GreaseSpansMark`), and base64 gives the bytes back (`RoundTrip`), so that a row read
  from a line shows what a row made in the server shows;
* `Ja4SurvivesRotation`: a hello that gives a report is read back as it was written
  (`HelloIsRead`; one in two records or cut short, by the client or by `MaxRecorded`, gives
  none), what JA4 looks at is the client's own lists without GREASE in one order or
  reversed, and counting and sorting do not see the difference;
* `DecoderFollowsAlways`: with `PlanInv`, which says at every step of the decoding which
  writes of the client's plan have been read and that what is left is the encoding of the
  others. A captured flight is read back frame by frame (`FrameIsRead`) and its block is what
  the client wrote, padded or not (`RequestIsRead`). Then one representation at a time:
  an integer is read back (`IntegerIsRead`), so is a string, with Huffman coding
  (`HuffmanIsDecoded`: no code begins another, and what fills the last octet begins the
  code of Eos) or without, so is the representation (`RepresentationIsRead`); and evicting
  the oldest until the rest fits leaves the newest that fit, which is how the peer's table
  is defined (`DecodeFollows`).

* `ReturningClientIsRecognised` and `ClaimsAreJudgedRightly`: with `ToldInv`, which says of
  every report, kept sample and verdict which visit it is of and, if that went well
  (`GoesWell`), that it says what the client meant (`IsHeard`), and of the last profile
  that it was made of the samples. `HelloSays` is what every hello of a client has in
  common whatever its order, GREASE and resumption, so a report agrees with a profile of
  the client field by field (`SaysAgree`, `HeardAgree`, `DiffIsClean`). A profile that
  agrees in every field is not outscored, whatever else the database holds (`CleanIsBest`),
  so the one named agrees too. For the claim, the fields that were decoded are the
  client's, the family found is the named profile's (`FamilyIsTheProfiles`), and
  `ClaimedFamily` takes the browsers in an order in which none is taken for another
  whose name its string contains (`ClaimedIsFamily`).

The last three need further assumptions. `HpackAssumption`: both sides count 32 a table
entry and start with the same maximum, the code of Eos is longer than seven bits and all
ones, and strings and tables are shorter than 128^4, since five octets hold no more.
`ScenesAssumption` also says that a client's frames fit the three bytes of their length.
The limit on a string (`WithinLimits`) is one on what is on the wire, so before Huffman
decoding, as decoder.rs has it. `AgentsAssumption`, which only `ClaimsAreJudgedRightly` rests
on, is what ua.rs relies on in the strings the world sends: curl, Python, Go and Node begin
with their names; "Edg" is in Edge's alone; and Firefox, Chrome and Safari have their own
in them, which only those that come before them in that order may have as well.

Only model-checked: liveness (out of the prover's reach), and of the pipeline
`EmulationReproduces`.

## Not modelled

* Layout, colours and wording: most of `tui/render.rs` and `theme.rs`, the text of a
  diff, JSON escaping, logging, `--help`. No property is about them.
* Data: the Huffman and static tables of HPACK (`HuffmanCode` and `StaticTable` are
  constants; the instance has the real codes of the bytes its strings have, made-up ones
  for the other bytes, and the static entries its requests use), the shipped profiles,
  the names of extensions and suites. A wrong entry is found by the test vectors of the repository.
* Hashes and signatures (MD5, SHA-256, HMAC): a hash stands for what is hashed, a
  signature for being untouched.
* Numbers near 2^63 in HPACK: TLC's integers have 32 bits. The limit on octets that
  the shift bound imposes is modelled (`MaxOctets`).
* The accept loops of serve.rs and admin.rs: they spawn a task and go on. `Drop` of
  `AdminSocket`, which no run of `serve` reaches. `render_ip`. Raw mode of the terminal.
* The tower `Service` plumbing, which the embedding server drives, and `Acceptor`'s
  timeouts; the capture and the replay it shares with serve.rs are `Preamble`.
* Certificate compression and ECH of the emulator, BoringSSL's part of them.
* `src/spikes/`, which are experiments and no part of the program.

## Plan

Done: the feed, the proxy connection and the terminal UI (first), the processes and the
fingerprint pipeline (second), the theorems about all of them (third and fourth). To come:

1. A theorem for `EmulationReproduces`, the one property of the pipeline that has none.
2. `Acceptor`'s timeouts beside those of `handle`, as another instance of
   `ProxyConnection` with its report refused instead of left out.
