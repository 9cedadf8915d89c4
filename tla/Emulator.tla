------------------------------- MODULE Emulator ------------------------------
(* A client that reproduces a profile: how BoringSSL is told to say hello,   *)
(* and the HTTP/2 preamble the client writes itself.                         *)
EXTENDS Profiles, Hpack

CONSTANTS CipherNames,     \* the cipher suites that have a name here
          BoringExtensions, \* the extensions BoringSSL can send, in its order
          BoringCiphers    \* the suites of TLS 1.2 it sends when it is told none

ASSUME BoringAssumption == BoringExtensions \in Seq(Nat) /\ BoringCiphers \in Seq(Nat)

Tls13 == <<4865, 4866, 4867>>   \* fixed in BoringSSL
IsTls13(id) == id \in 4865 .. 4867

(* A suite without a name is an error, never left out. *)
CanName(profile) == ToSet(profile.ciphers) \subseteq CipherNames

(* Mutant: the suites of TLS 1.3 stay in the list of 1.2. *)
WholeList(profile) == profile.ciphers

CipherList(profile) == Keep(profile.ciphers, LAMBDA id : ~IsTls13(id))

StatusRequest == 5
Sct == 18
CompressCertificate == 27
Alps == 17613
Ech == 65037

(* What is sent only when asked for.  ALPS needs a protocol to speak of.    *)
OnRequest == {SNI, ALPN, StatusRequest, Sct, CompressCertificate, Alps, Ech}
Requested(profile) ==
    (ToSet(profile.extensions) \cap {StatusRequest, Sct, CompressCertificate, Ech})
      \cup {Alps : id \in {id \in ToSet(profile.extensions) : id = Alps /\ profile.alpn # None}}
      \cup {ALPN : p \in profile.alpn}
      \cup {SNI : s \in {s \in {profile.hasSni} : s}}

Http11 == <<49>>   \* http/1.1
Protocols(profile) == OrEmpty({<<p, Http11>> : p \in profile.alpn})

(* The hello BoringSSL makes of it all.  PSK is never among them.           *)
Build(profile) ==
    [ciphers |-> Tls13 \o (IF CipherList(profile) = <<>> THEN BoringCiphers
                           ELSE CipherList(profile)),
     extensions |-> Keep(BoringExtensions,
                         LAMBDA id : id \in OnRequest => id \in Requested(profile)),
     grease |-> profile.greaseCiphers # {} \/ profile.greaseExts # {},
     permutes |-> profile.extensionOrder = "permuted",
     protocols |-> Protocols(profile)]

-----------------------------------------------------------------------------
(* The preamble *)

Frame(kind, flags, stream, payload) ==
    Octets24(Len(payload)) \o <<kind, flags>> \o Octets32(stream) \o payload

SettingsPayload(pairs) ==
    FlattenSeq([n \in DOMAIN pairs |-> Octets16(pairs[n][1]) \o Octets32(pairs[n][2])])

Get == <<103>>      \* GET
Https == <<104>>    \* https
Slash == <<47>>     \* /
Localhost == <<49>> \* localhost

PseudoValue(name) == CASE name = Method -> Get [] name = Authority -> Localhost
                       [] name = Scheme -> Https [] name = Path -> Slash

(* The headers have the profile's names and no values. *)
EmulatedHeaders(profile) ==
    LET pseudo(h) == [n \in DOMAIN h.pseudo |-> Field(h.pseudo[n], PseudoValue(h.pseudo[n]))]
        regular(h) == [n \in DOMAIN h.names |-> Field(h.names[n], <<>>)]
    IN  pseudo(The(profile.h2)) \o OrEmpty({regular(h) : h \in profile.http})

EndStream == 1

EmulatedPreamble(profile) ==
    IF profile.h2 = None THEN <<>>
    ELSE LET h2 == The(profile.h2)
         IN  Preface
             \o Frame(SETTINGS, 0, 0, SettingsPayload(h2.settings))
             \o OrEmpty({Frame(WINDOWUPDATE, 0, 0, Octets32(w)) : w \in h2.window})
             \o Frame(HEADERS, EndStream + EndHeaders, 1,
                      EncodeHeaders(EmulatedHeaders(profile)))

=============================================================================
