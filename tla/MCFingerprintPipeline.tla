------------------------ MODULE MCFingerprintPipeline ------------------------
(* Six clients, the requests they make, and what fpd is used for when they   *)
(* come.  Letters stand for names and values, numbers of the RFCs for the    *)
(* rest.                                                                     *)
EXTENDS FingerprintPipeline, TLC

-----------------------------------------------------------------------------
(* The tables of HPACK, as far as the requests below need them. *)

Bits(code, n) == [k \in 1 .. n |-> (code \div 2^(n - k)) % 2]

(* The codes of the bytes that strings have here, and for the others some.  *)
Coding == { <<47, 24, 6>>, <<49, 1, 5>>, <<97, 3, 5>>, <<99, 4, 5>>, <<101, 5, 5>>,
            <<103, 38, 6>>, <<104, 39, 6>>, <<108, 40, 6>>, <<115, 8, 5>>, <<117, 45, 6>>,
            <<120, 121, 7>> }
Huffman ==
    [s \in 0 .. Eos |->
       IF s = Eos THEN [n \in 1 .. 30 |-> 1]
       ELSE IF \E c \in Coding : c[1] = s
            THEN LET c == CHOOSE d \in Coding : d[1] = s IN Bits(c[2], c[3])
       ELSE Bits(2046, 11) \o Bits(s, 9)]

Post == <<112>>
Http == <<116>>
Static ==
    << Field(Authority, <<>>), Field(Method, Get), Field(Method, Post), Field(Path, Slash),
       Field(Path, <<105>>), Field(Scheme, Http), Field(Scheme, Https) >>
    \o [n \in 1 .. 6 |-> Field(<<98, n>>, <<>>)]
    \o << Field(Language, <<>>), Field(Referer, <<>>), Field(UserAgent, <<>>),
          Field(Cookie, <<>>) >>
Newest == Len(Static) + 1

-----------------------------------------------------------------------------
(* User-Agents.  Browsers name each other. *)

ChromeAgent == <<99>>
EdgeAgent == <<101>>
FirefoxAgent == <<120>>
SafariAgent == <<115>>
CurlAgent == <<117>>
OtherAgent == <<97>>

Agents ==
    ChromeAgent :> [starts |-> "", contains |-> {"chrome", "safari"}] @@
    EdgeAgent :> [starts |-> "", contains |-> {"chrome", "safari", "edg"}] @@
    FirefoxAgent :> [starts |-> "", contains |-> {"firefox"}] @@
    SafariAgent :> [starts |-> "", contains |-> {"safari", "version"}] @@
    CurlAgent :> [starts |-> "curl", contains |-> {}] @@
    OtherAgent :> [starts |-> "", contains |-> {}] @@
    <<>> :> [starts |-> "", contains |-> {}]

Truth ==
    ChromeAgent :> "chrome" @@ EdgeAgent :> "edge" @@ FirefoxAgent :> "firefox" @@
    SafariAgent :> "safari" @@ CurlAgent :> "curl" @@ OtherAgent :> "other" @@
    <<>> :> "other"

-----------------------------------------------------------------------------
(* Requests *)

Write(do, index, name, value, huffman) ==
    [do |-> do, index |-> index, name |-> name, value |-> value, huffman |-> huffman]
Index(n) == Write("index", n, <<>>, <<>>, FALSE)
Size(n) == Write("size", n, <<>>, <<>>, FALSE)
Of(name) == CHOOSE n \in DOMAIN Static : Static[n].name = name
Plain(name, value) == Write("plain", Of(name), <<>>, value, FALSE)
Never(name, value) == Write("never", Of(name), <<>>, value, TRUE)
Insert1(name, value) == Write("insert", Of(name), <<>>, value, TRUE)
Own(name, value) == Write("insert", 0, name, value, FALSE)

(* Pseudo-headers in the orders of Chrome and of Firefox. *)
MASP == <<Index(2), Plain(Authority, <<49>>), Index(7), Index(4)>>
MPAS == <<Index(2), Index(4), Insert1(Authority, <<49>>), Index(7)>>

ChromeRequest(agent) == MASP \o <<Insert1(UserAgent, agent), Plain(Language, <<101>>)>>
EdgeRequest(agent) == MASP \o <<Plain(Language, <<101>>), Insert1(UserAgent, agent)>>
FirefoxRequest(agent) == MPAS \o <<Insert1(UserAgent, agent), Insert1(Language, <<101>>)>>
CurlRequest(agent) == MASP \o <<Insert1(UserAgent, agent)>>

(* What a logged in client adds, and what one adds that means to deceive.   *)
Crumbs == <<Never(Cookie, <<97>>), Never(Cookie, <<99>>), Plain(Referer, <<104>>)>>
Forged == << Own(Ja4Header, <<49>>), Own(MismatchHeader, <<49>>), Own(FpName(9), <<49>>),
             Own(VerdictHeader, <<99>>) >>
(* A lone byte; text beyond ASCII, half a character and a letter; and one   *)
(* name a second time.                                                      *)
NotText == << Plain(Referer, <<200>>), Plain(Cookie, <<195, 169, 226, 130, 65>>),
              Plain(Language, <<195, 169>>), Index(Newest) >>

-----------------------------------------------------------------------------
(* Clients *)

Old ==
    [family |-> "old", ciphers |-> <<47, 53>>, extensions |-> <<>>, grease |-> FALSE,
     permutes |-> FALSE, protocols |-> <<>>, settings |-> <<>>, window |-> None,
     priorities |-> <<>>, flags |-> 5]

Curl == [Old EXCEPT !.family = "curl", !.ciphers = <<4866, 4865, 49195>>,
                    !.extensions = <<0, 11, 10, 13, 16, 43>>,
                    !.protocols = <<Http2, Http11>>, !.settings = << <<3, 100>> >>,
                    !.window = Some(9)]

Chrome ==
    [family |-> "chrome", ciphers |-> <<4865, 4866, 4867, 49195, 47>>,
     extensions |-> <<0, 10, 11, 13, 16, 43, 17613>>, grease |-> TRUE, permutes |-> TRUE,
     protocols |-> <<Http2, Http11>>, settings |-> << <<1, 65536>>, <<2, 0>> >>,
     window |-> Some(15663105), priorities |-> <<>>, flags |-> 37]

(* BoringSSL too, with a request and settings of its own. *)
Edge == [Chrome EXCEPT !.family = "edge", !.settings = << <<1, 65536>>, <<4, 6291456>> >>]

(* A library on BoringSSL, that permutes nothing. *)
Fixed == [Chrome EXCEPT !.family = "other", !.permutes = FALSE, !.grease = FALSE]

Firefox ==
    [Old EXCEPT !.family = "firefox", !.ciphers = <<4865, 4867, 4866, 49195, 49199>>,
                !.extensions = <<0, 10, 11, 16, 13, 43>>, !.protocols = <<Http2, Http11>>,
                !.settings = << <<4, 131072>> >>, !.window = Some(12517377),
                !.priorities = << <<0, 0, 0, 0, 200>>, <<0, 0, 0>>, <<128, 0, 0, 3, 0>> >>,
                !.flags = 45]

(* Prefers HTTP/1.1, and offers h2 behind it; offers only it; offers what   *)
(* no server has; writes its request in more than one frame.                *)
Backward == [Fixed EXCEPT !.protocols = <<Http11, Http2>>]
Http1 == [Fixed EXCEPT !.protocols = <<Http11>>]
Spdy == [Curl EXCEPT !.protocols = << <<115>> >>]
Continued2 == [Curl EXCEPT !.flags = 1]
Nameless == [Curl EXCEPT !.ciphers = <<4865, 255>>]
Reordered == [Fixed EXCEPT !.ciphers = <<4866, 4865, 4867, 49195>>]
Wide == [Curl EXCEPT !.ciphers = [n \in 1 .. 60 |-> 200 + n]]
NoneBefore13 == [Fixed EXCEPT !.ciphers = <<4865, 4866, 4867>>]

(* What the installed BoringSSL sends, in its order. *)
Boring == <<SNI, 10, 11, 13, ALPN, 43, Alps>>
BoringDefault == <<49195, 49199>>

-----------------------------------------------------------------------------
(* Visits and scenes *)

Visit(plan) == [grease |-> 2570, flipped |-> FALSE, resumed |-> FALSE, hello |-> "whole",
                flight |-> "whole", completes |-> TRUE, plan |-> plan]
Varied(plan) == {[Visit(plan) EXCEPT !.grease = g, !.flipped = f, !.resumed = r] :
                   <<g, f, r>> \in {2570, 64250} \X BOOLEAN \X BOOLEAN}
Disturbed(plan) ==
    {[Visit(plan) EXCEPT !.hello = "split"], [Visit(plan) EXCEPT !.hello = "cut"],
     [Visit(plan) EXCEPT !.flight = "settings"], [Visit(plan) EXCEPT !.flight = "header"],
     [Visit(plan) EXCEPT !.completes = FALSE]}

Scene(client, sampled, times, visits, known, use) ==
    [client |-> client, sampled |-> sampled, samples |-> times, visits |-> visits,
     db |-> known, use |-> use]

(* The profile of a client that came once, for a database. *)
Shipped(client, request) ==
    LET v == Visit(request)
        frames == The(ParsePreamble(WriteFlight(client, v)))
        seen == [tls |-> The(FingerprintTls(WriteHello(client, v))), raw |-> <<>>,
                   h2 |-> {H2Of(frames, Peer(request).meant) : p \in Negotiated(client) \ {Http11}},
                   alpn |-> Negotiated(client)]
    IN  [ProfileFrom(<<seen>>, client.family) EXCEPT !.family = client.family]

Known4 == << <<Chrome, ChromeRequest(ChromeAgent)>>, <<Edge, EdgeRequest(EdgeAgent)>>,
             <<Firefox, FirefoxRequest(FirefoxAgent)>>, <<Curl, CurlRequest(CurlAgent)>> >>
Database == [n \in DOMAIN Known4 |-> Shipped(Known4[n][1], Known4[n][2])]

(* A profile of Chrome, and the returning client. *)
Returning ==
    {Scene(Chrome, Varied(ChromeRequest(ChromeAgent)), 2,
           Varied(ChromeRequest(ChromeAgent) \o Crumbs), <<>>, "check"),
     Scene(Fixed, Varied(CurlRequest(OtherAgent)), 2, Varied(CurlRequest(CurlAgent)), <<>>,
           "serve")}
    \cup {Scene(Fixed, Varied(CurlRequest(OtherAgent)), n,
                Varied(CurlRequest(OtherAgent)) \cup Disturbed(CurlRequest(OtherAgent)),
                Database, use) : n \in {0, 1}, use \in {"check", "tower"}}

(* Every client with every string, against the shipped profiles. *)
Claims ==
    {Scene(pair[1], {}, 0, UNION {{Visit(request) : request \in
             {ChromeRequest(a), EdgeRequest(a), FirefoxRequest(a), CurlRequest(a)}} :
               a \in DOMAIN Agents}, Database, pair[2]) :
       pair \in {Chrome, Edge, Firefox, Curl} \X {"check", "serve"}}

(* Requests with headers of ours among them, and clients of all kinds. *)
Served ==
    {Scene(client, {}, 0, Varied(CurlRequest(CurlAgent) \o Forged)
             \cup {Visit(CurlRequest(OtherAgent) \o NotText), Visit(Forged), Visit(Crumbs)}
             \cup Disturbed(CurlRequest(CurlAgent)), Database, use) :
       client \in {Old, Http1, Spdy, Backward, Continued2, Chrome, Firefox,
                  Wide},
       use \in {"serve", "tower"}}

Emulated ==
    {Scene(client, Varied(request), n, {v \in Varied(<<>>) : ~v.resumed} \cup Disturbed(<<>>),
           <<>>, "emulate") :
       client \in {Chrome, Edge, Fixed, Firefox, Backward, Http1, Old, Nameless, Reordered,
                   NoneBefore13},
       n \in {1, 2}, request \in {ChromeRequest(ChromeAgent)}}

(* Blocks of a few writes each, and some of more than the limits allow.     *)
Writes == { Size(74), Size(0), Own(<<97>>, <<99>>), Own(<<99>>, <<97, 97, 97>>),
            Index(Newest), Index(Newest + 1), Write("plain", Newest, <<>>, <<49>>, TRUE),
            Write("insert", Newest + 1, <<>>, <<99, 99>>, FALSE) }
Long == [n \in 1 .. MaxString + 1 |-> 49]
Blocks == {<<Size(max)>> \o writes : max \in {40, 70}, writes \in [1 .. 4 -> Writes]}
          \cup { <<Size(AbsoluteMax + 1)>>, <<Size(33), Own(<<97>>, <<99>>)>>, <<Index(0)>>,
                 [n \in 1 .. MaxHeaders + 1 |-> Index(2)], <<Own(<<97>>, Long)>>,
                 <<Never(Cookie, <<104, 115, 120>>), Plain(UserAgent, <<>>)>> }
Coded == {Scene(Curl, {}, 0, {Visit(plan)}, <<>>, "check") : plan \in Blocks}

AllScenes == Returning \cup Claims \cup Served \cup Emulated \cup Coded

=============================================================================
