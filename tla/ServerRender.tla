---------------------------- MODULE ServerRender ----------------------------
(***************************************************************************)
(* What the endpoint makes of its configuration: the certificate chain     *)
(* that materialize_certs.php assembles and the files that                 *)
(* render_server_config.py writes.  EndpointApply has the order of these   *)
(* steps and their faults; this module has their contents.                 *)
(***************************************************************************)
EXTENDS Toml

CONSTANTS
    Colon, Open, Close, \* ":", "[" and "]" in a listen address
    PortOf,             \* the texts int() accepts, and their values
    MaxPort,            \* 65535
    NameBytes,          \* the characters of a user name
    NameMarks,          \* those of them that are no letters or digits
    GoodLabels,         \* well-formed DNS labels
    MaxLabels,          \* more than that are more than 253 characters
    NoCa                \* an empty caref

\* One round of the walk from a certificate to the CA above it: at is the
\* caref the loop has come to, chain what it has collected.  A CA that was
\* visited or that is not held ends the walk without a chain.
\* Mutant: the chain ends where a CA is missing.
CaRoundLenient(cas, w) ==
    CASE w.at = NoCa \/ ~w.ok -> w
      [] w.at \in w.visited -> [w EXCEPT !.ok = FALSE]
      [] ~cas[w.at].held -> [w EXCEPT !.at = NoCa]
      [] OTHER -> [w EXCEPT !.at = cas[w.at].caref,
                            !.visited = @ \cup {w.at},
                            !.chain = @ \o cas[w.at].blocks]
CaRound(cas, w) ==
    IF w.at = NoCa \/ ~w.ok THEN w
    ELSE IF w.at \in w.visited \/ ~cas[w.at].held THEN [w EXCEPT !.ok = FALSE]
    ELSE [w EXCEPT !.at = cas[w.at].caref,
                   !.visited = @ \cup {w.at},
                   !.chain = @ \o cas[w.at].blocks]

\* The blocks of the CA certificates from caref on, <<>> if one is missing or
\* is met again; each of them is visited at most once.
CaBlocks(cas, caref) ==
    LET rounds == Cardinality(DOMAIN cas) + 1
        Walk[k \in 0 .. rounds] ==
          IF k = 0 THEN [at |-> caref, visited |-> {}, chain |-> <<>>, ok |-> TRUE]
          ELSE CaRound(cas, Walk[k - 1])
        end == Walk[rounds]
    IN IF end.ok THEN <<end.chain>> ELSE <<>>

\* The chain written to cert.pem, <<>> if materialize_certs.php gives up.
Chain(c) ==
    LET above == CaBlocks(c.cas, c.caref)
    IN IF ~c.ref THEN <<<<>>>>
       ELSE IF ~c.held \/ c.blocks = <<>> \/ above = <<>> THEN <<>>
       ELSE <<c.blocks \o above[1]>>

Positions(c, t) == {i \in DOMAIN t : t[i] = c}

\* The text of the port in a listen address, <<>> if there is none.
PortText(t) ==
    IF t # <<>> /\ t[1] = Open
    THEN IF Positions(Close, t) = {} THEN <<>>
         ELSE SubSeq(t, 2 + Min(Positions(Close, t)), Len(t))
    ELSE IF Positions(Colon, t) = {} THEN <<>>
         ELSE SubSeq(t, 1 + Max(Positions(Colon, t)), Len(t))

ListenAccepted(t) ==
    /\ PortText(t) \in DOMAIN PortOf
    /\ PortOf[PortText(t)] \in 1 .. MaxPort

\* An alias and the host name as sequences of labels, lower-cased and without
\* trailing dots.
AliasAccepted(alias, host) ==
    /\ Len(alias) \in 2 .. MaxLabels
    /\ \A i \in DOMAIN alias : alias[i] \in GoodLabels
    /\ ~(Len(alias) > Len(host) /\ IsSuffix(host, alias))

IsName(v) ==
    /\ \A i \in DOMAIN v : v[i] \in NameBytes
    /\ \E i \in DOMAIN v : v[i] \notin NameMarks

UserAccepted(u) ==
    IsName(u.name) /\ u.pass # <<>> /\ ~Refuses(u.pass, FALSE)

Accepted(s) ==
    /\ s.host # <<>> /\ ~Refuses(s.host, FALSE)
    /\ ListenAccepted(s.listen) /\ ~Refuses(s.listen, FALSE)
    /\ s.protocols \subseteq {"http1", "http2", "http3"}
    /\ \A i \in DOMAIN s.aliases : AliasAccepted(s.aliases[i], s.labels)
    /\ \A i \in DOMAIN s.users : UserAccepted(s.users[i])
    /\ Chain(s.cert) # <<>>

\* http2 and http3 unless the list says otherwise; HTTP/3 is called quic.
Sections(s) ==
    LET listed == IF s.protocols = {} THEN {"http2", "http3"} ELSE s.protocols
    IN {IF p = "http3" THEN "quic" ELSE p : p \in listed}

VpnToml(s) ==
    [port        |-> PortOf[PortText(s.listen)],
     sections    |-> Sections(s),
     checksUsers |-> s.users # <<>>,
     ipv6        |-> s.ipv6]

HostsToml(s) == [hostname |-> Escape(s.host), aliases |-> ToSet(s.aliases)]

CredentialsToml(s) ==
    {[name |-> Escape(u.name), pass |-> Escape(u.pass)] : u \in ToSet(s.users)}

Files(s) == [vpn |-> VpnToml(s), hosts |-> HostsToml(s),
             clients |-> CredentialsToml(s), chain |-> Chain(s.cert)[1]]
=============================================================================
