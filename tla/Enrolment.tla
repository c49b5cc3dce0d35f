----------------------------- MODULE Enrolment ------------------------------
(***************************************************************************)
(* A user of the endpoint set up on a client: the endpoint's files         *)
(* (ServerRender) and the link (Deeplink) are made from one configuration, *)
(* the link becomes a row of the client's peers and then the client's file *)
(* (ClientRender).  The two files come from programs that share no code    *)
(* and have to agree.                                                      *)
(***************************************************************************)
EXTENDS Deeplink, Toml

CONSTANTS
    Comma, Open, Close, Blanks,                    \* see ClientRender and
    PortOf, MaxPort, NameBytes, RowBytes, MaxName, \* ServerRender
    NameMarks, GoodLabels, MaxLabels, NoCa,
    Settings           \* the client's settings beside its peers

Server == INSTANCE ServerRender
Client == INSTANCE ClientRender WITH Https <- DefaultPort

\* What the fields' masks (Mask, HostnameField and IPPortField of the models)
\* leave of the characters: the port of an address has no colon, no comma and
\* no blank in it.
ASSUME MasksAssumption ==
    /\ ({Comma, Open, Newline, Control} \cup Blanks) \cap (NameBytes \cup {Colon}) = {}
    /\ Close # Colon /\ Colon # B - 1
    /\ \A t \in DOMAIN PortOf :
         t # <<>> /\ \A i \in DOMAIN t : t[i] \notin {Colon, Comma} \cup Blanks
    /\ \A s \in Servers :
         /\ s.users \in Seq([name : Seq(Byte), pass : Seq(Byte)])
         /\ \A i \in DOMAIN s.users : Len(s.users[i].name) <= MaxName
         /\ s.host \in Seq(Byte) /\ (s.host = <<>> \/ Client!IsHost(s.host))
         /\ s.listen \in Seq(Byte)
         /\ s.listen # <<>> /\ s.listen[1] = Open =>
              \A i \in Server!Positions(Close, s.listen) :
                (i + 1) \in Server!Positions(Colon, s.listen)

\* One DER element and nothing behind it.
DerElement(d) == d # <<>> /\ DerEnd(d, 0) = Len(d)

\* What is in the configuration is text, and a certificate is one DER element.
ASSUME ContentsAssumption ==
    /\ \A s \in Servers :
         /\ IsText(s.host) /\ IsText(s.listen)
         /\ \A i \in DOMAIN s.users :
              IsText(s.users[i].name) /\ IsText(s.users[i].pass)
         /\ Embeds(s.cert) => DerElement(s.cert.blocks[1])
    /\ \A a \in Asks : IsText(a.name)

\* The refids of a trust store are those that occur in it; a CA that is
\* named and not there is one that is not held.
ASSUME StoresAssumption ==
    \A s \in Servers : s.cert.ref =>
      /\ IsFiniteSet(DOMAIN s.cert.cas) /\ NoCa \notin DOMAIN s.cert.cas
      /\ s.cert.caref \in DOMAIN s.cert.cas \cup {NoCa}
      /\ s.cert.blocks \in Seq(Seq(Byte))
      /\ \A r \in DOMAIN s.cert.cas :
           /\ s.cert.cas[r].held \in BOOLEAN
           /\ s.cert.cas[r].blocks \in Seq(Seq(Byte))
           /\ s.cert.cas[r].caref \in DOMAIN s.cert.cas \cup {NoCa}

\* The importer takes as many bytes as the exporter writes.
ASSUME LimitsAssumption ==
    MaxCert \in Nat /\ MaxUri \in Nat /\ MaxUri <= MaxField

Or(values, default) == IF values = <<>> THEN default ELSE values[1]

\* The row confirmImportAction makes of the parser's output.
Row == Client!Row(
    [name |-> Or(cfg[NAME], cfg[HOSTNAME][1]), hostname |-> cfg[HOSTNAME][1],
     addresses |-> cfg[ADDRESS], custom_sni |-> Or(cfg[CUSTOM_SNI], <<>>),
     username |-> cfg[USERNAME][1], password |-> cfg[PASSWORD][1],
     certs |-> certs, skip_verification |-> cfg[SKIP_VERIFICATION][1],
     upstream_protocol |-> cfg[PROTOCOL][1], anti_dpi |-> cfg[ANTI_DPI][1],
     client_random_prefix |-> Or(cfg[RANDOM_PREFIX], <<>>),
     dns_upstreams |-> Or(cfg[DNS_UPSTREAMS], <<>>)])

\* A whole link of the exporter has been read.
Enrolling == stage = "done" /\ ask.user # <<>> /\ Whole

\* The link of a user is accepted at every later place once the endpoint's
\* own files were accepted: the importer, the model of the client and its
\* renderer refuse nothing that the server side let pass, except for a
\* certificate over the importer's limit and for a row whose name, which is
\* the host name when the link has none, is longer than a name may be or an
\* IP address.
EnrolmentWorks ==
    stage \in {"refused", "done"} /\ ask.user # <<>> /\ Whole /\ Server!Accepted(srv) =>
      /\ stage = "refused" => Embeds(srv.cert) /\ Len(srv.cert.blocks[1]) > MaxCert
      /\ stage = "done" =>
           /\ Client!IsRowName(Row.name) => Client!RowAccepted(Row)
           /\ \A s \in Settings : Client!SettingsAccepted(s) => Client!RenderAccepts(s, Row)

\* The login in the client's file is one that the endpoint's file has, as TOML
\* readers take the two files, whatever characters the password has.
LoginMatches ==
    Enrolling /\ Server!Accepted(srv) =>
      \A s \in Settings :
        LET mine == Client!File(s, Row)
        IN \E c \in Server!Files(srv).clients :
             /\ Server!Reads(c.name) = <<ask.user>>
             /\ Client!Reads(mine.username) = Server!Reads(c.name)
             /\ Client!Reads(mine.password) = Server!Reads(c.pass)
             /\ Server!Reads(c.pass) # <<>>

\* The client calls the name and the port the endpoint has, in a protocol it
\* listens for if HTTP/2 is among them (a link carries no protocol).
EndpointMatches ==
    Enrolling /\ Server!Accepted(srv) =>
      \A s \in Settings :
        LET mine == Client!File(s, Row)
            theirs == Server!Files(srv)
        IN /\ Client!Reads(mine.hostname) = Server!Reads(theirs.hosts.hostname)
           /\ Client!Reads(mine.hostname) # <<>>
           /\ Len(mine.addresses) = 1
           /\ LET a == Client!Reads(mine.addresses[1])[1]
              IN /\ a = srv.host \o <<Colon>> \o Server!PortText(a)
                 /\ PortOf[Server!PortText(a)] = theirs.vpn.port
           /\ "http2" \in theirs.vpn.sections => mine.protocol \in theirs.vpn.sections

\* The ways from a certificate up to a CA that names no further one, through
\* CAs that the trust store holds and none of them twice.
Ways(c) ==
    {w \in UNION {[1 .. n -> DOMAIN c.cas] : n \in 0 .. Cardinality(DOMAIN c.cas)} :
       LET next(i) == IF i > Len(w) THEN NoCa ELSE w[i]
       IN /\ IsInjective(w) /\ c.caref = next(1)
          /\ \A i \in DOMAIN w : c.cas[w[i]].held /\ c.cas[w[i]].caref = next(i + 1)}

\* The endpoint has a chain exactly when its certificate is there and a way
\* leads up from it; the chain then is the certificate and the CAs in their
\* order.  A certificate the link brings along is the one the chain begins
\* with.
CertificateMatches ==
    LET c == srv.cert
        chain == Server!Chain(c)
    IN stage = "done" /\ c.ref =>
         /\ chain # <<>> <=> c.held /\ c.blocks # <<>> /\ Ways(c) # {}
         /\ \A w \in Ways(c) : chain # <<>> =>
              chain = <<c.blocks \o FlattenSeq([i \in DOMAIN w |-> c.cas[w[i]].blocks])>>
         /\ Enrolling /\ chain # <<>> /\ certs # <<>> => certs = <<chain[1][1]>>

\* The certificates that go into the row are the certificate field of the link,
\* cut between its DER elements: nothing of the field is lost, added or moved,
\* also when another writer has put several certificates into it.
CertificatesWhole ==
    stage = "done" =>
      /\ FlattenSeq(certs) = Or(cfg[CERTIFICATE], <<>>)
      /\ \A i \in DOMAIN certs : DerElement(certs[i])
=============================================================================
