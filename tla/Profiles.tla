------------------------------- MODULE Profiles ------------------------------
(* What is kept of a client to know it again, the comparison of a report     *)
(* with it field by field, and the verdict: which profile of the database a  *)
(* report is, if any, and whether its User-Agent says otherwise.             *)
EXTENDS TlsFingerprint, H2Fingerprint

CONSTANT AgentTokens   \* of a User-Agent: what it starts with, what it contains

(* A report: tls, raw, h2 and alpn; h2 and alpn may be None. *)

Order == {"fixed", "permuted", "unknown"}

(* A client's profile from one observation.  GREASE values are not kept,    *)
(* nor anything of the request but its comparable names.                    *)
ProfileOf(report, label) ==
    [label |-> label, family |-> "",
     resumed |-> PreSharedKey \in ToSet(report.tls.extensions),
     cipherOrder |-> "unknown", extensionOrder |-> "unknown",
     ciphers |-> Strip(report.tls.ciphers),
     extensions |-> Strip(report.tls.extensions),
     greaseCiphers |-> report.tls.greaseCiphers,
     greaseExts |-> report.tls.greaseExts,
     alpn |-> report.tls.alpn, hasSni |-> report.tls.hasSni,
     h2 |-> {[settings |-> h.settings, window |-> h.window, pseudo |-> h.pseudo] :
               h \in report.h2},
     http |-> {[names |-> Comparable(h.http.names), count |-> h.http.count,
                language |-> h.http.language] : h \in report.h2}]

(* What a profile is, however it came to be: a captured one has no family.  *)
ProfileType ==
    [label : {"captured"} \cup STRING, family : {""} \cup STRING, resumed : BOOLEAN,
     cipherOrder : Order, extensionOrder : Order, ciphers : Seq(Nat), extensions : Seq(Nat),
     greaseCiphers : SUBSET Nat, greaseExts : SUBSET Nat,
     alpn : SUBSET Seq(Octet), hasSni : BOOLEAN,
     h2 : SUBSET [settings : Seq(Nat \X Nat), window : SUBSET Nat, pseudo : Seq(Pseudo)],
     http : SUBSET [names : Seq(Seq(Octet)), count : Nat, language : BOOLEAN]]

InferOrder(samples) ==
    IF Len(samples) < 2 THEN "unknown"
    ELSE IF \A n \in DOMAIN samples : samples[n] = samples[1] THEN "fixed"
         ELSE "permuted"

(* capture: the last report, and the orders all of them have. *)
ProfileFrom(reports, label) ==
    [ProfileOf(Last(reports), label) EXCEPT
       !.cipherOrder = InferOrder([n \in DOMAIN reports |-> Strip(reports[n].tls.ciphers)]),
       !.extensionOrder = InferOrder([n \in DOMAIN reports |-> Strip(reports[n].tls.extensions)])]

-----------------------------------------------------------------------------
(* The comparison *)

Compared(field, ok) == [field |-> field, ok |-> ok]

SameOrdered(observed, expected, order) ==
    IF order = "fixed" THEN observed = expected
    ELSE Sorted(observed) = Sorted(expected)

(* Mutant: a resumed session counts as another client. *)
WithoutNothing(exts) == Strip(exts)

WithoutPsk(exts) == Keep(Strip(exts), LAMBDA id : id # PreSharedKey)

DiffTls(report, profile) ==
    LET tls == report.tls
    IN  << Compared("ciphers", SameOrdered(Strip(tls.ciphers), profile.ciphers,
                                           profile.cipherOrder)),
           Compared("extensions", SameOrdered(WithoutPsk(tls.extensions),
                                              WithoutPsk(profile.extensions),
                                              profile.extensionOrder)),
           Compared("GREASE",
                    /\ Cardinality(tls.greaseCiphers) = Cardinality(profile.greaseCiphers)
                    /\ Cardinality(tls.greaseExts) = Cardinality(profile.greaseExts)),
           Compared("ALPN", tls.alpn = profile.alpn),
           Compared("SNI", tls.hasSni = profile.hasSni) >>

DiffH2(report, profile) ==
    IF profile.h2 = None THEN <<>>
    ELSE IF report.h2 = None THEN <<Compared("HTTP/2", FALSE)>>
    ELSE LET got == The(report.h2)
             kept == The(profile.h2)
         IN  << Compared("SETTINGS", got.settings = kept.settings),
                Compared("WINDOW_UPDATE", got.window = kept.window),
                Compared("pseudo-header", got.pseudo = kept.pseudo) >>

DiffHttp(report, profile) ==
    IF report.h2 = None \/ profile.http = None THEN <<>>
    ELSE LET got == The(report.h2).http
             kept == The(profile.http)
         IN  << Compared("header order", Comparable(got.names) = kept.names),
                Compared("accept-language", got.language = kept.language) >>

Diff(report, profile) ==
    DiffTls(report, profile) \o DiffH2(report, profile) \o DiffHttp(report, profile)

Agreeing(diff) == Len(Keep(diff, LAMBDA f : f.ok))
IsClean(diff) == Agreeing(diff) = Len(diff)

(* A score is a fraction, kept as the agreeing fields and all of them.      *)
Score(diff) == <<Agreeing(diff), Len(diff)>>
Above(s, t) == s[1] * t[2] > t[1] * s[2]

MatchFloor == <<6, 10>>
RequiredTlsFields == {"ciphers", "extensions", "GREASE"}

TlsLayerAgrees(diff) ==
    \A n \in DOMAIN diff : diff[n].field \in RequiredTlsFields => diff[n].ok

-----------------------------------------------------------------------------
(* The claim *)

Families == {"chrome", "firefox", "safari", "edge", "curl", "python", "go", "node"}

(* Mutant: Chrome is looked for first. *)
ChromeFirst ==
    << [family |-> "chrome", tokens |-> {"chrome"}], [family |-> "edge", tokens |-> {"edg"}],
       [family |-> "firefox", tokens |-> {"firefox"}],
       [family |-> "safari", tokens |-> {"safari", "version"}] >>

(* The browsers' strings contain each other's names: the first that fits.   *)
Browsers ==
    << [family |-> "edge", tokens |-> {"edg"}], [family |-> "firefox", tokens |-> {"firefox"}],
       [family |-> "chrome", tokens |-> {"chrome"}],
       [family |-> "safari", tokens |-> {"safari", "version"}] >>

(* Other clients begin with their name. *)
ClaimedFamily(agent) ==
    LET starts == AgentTokens[agent].starts
        fits == {n \in DOMAIN Browsers : Browsers[n].tokens \subseteq AgentTokens[agent].contains}
    IN  IF starts \in {"curl", "python", "go", "node"} THEN starts
        ELSE IF fits = {} THEN "unknown" ELSE Browsers[Min(fits)].family

ClaimsOf(report) ==
    LET agents(h) == Keep(h.headers, LAMBDA f : f.name = UserAgent)
    IN  {ClaimedFamily(Head(agents(h)).value) : h \in {h \in report.h2 : agents(h) # <<>>}}
          \ {"unknown"}

(* The family of the first profile of that label. *)
FamilyOf(label, db) == Head(Keep(db, LAMBDA p : p.label = label)).family

(* Of two profiles that score the same the one that comes first ranks first. *)
RanksBefore(report, db, m, n) ==
    LET s == Score(Diff(report, db[m]))
        t == Score(Diff(report, db[n]))
    IN  Above(s, t) \/ (~Above(t, s) /\ m < n)

Candidate(report, profile) ==
    [label |-> profile.label, score |-> Score(Diff(report, profile)),
     diff |-> Diff(report, profile)]

(* Only the profile that ranks first is ever named. *)
Best(report, db) ==
    {c \in {Candidate(report, db[n]) : n \in
              {n \in DOMAIN db : \A m \in DOMAIN db \ {n} : RanksBefore(report, db, n, m)}} :
       ~Above(MatchFloor, c.score) /\ TlsLayerAgrees(c.diff)}

(* A claim and a verdict, both known, that contradict each other. *)
MismatchOf(report, best, db) ==
    {[claimed |-> claim, observed |-> FamilyOf(b.label, db)] :
       claim \in ClaimsOf(report),
       b \in {b \in best : FamilyOf(b.label, db) \in Families}}

Identify(report, db) ==
    LET best == Best(report, db)
        pairs == MismatchOf(report, best, db)
    IN  [best |-> best, mismatch |-> {p \in pairs : p.claimed # p.observed}]

=============================================================================
