---------------------------- MODULE MCEnrolment -----------------------------
(* Bytes of sixteen values (Q = 4).  Two of them are letters (b is also the *)
(* letter of an escaped tab), some stand for the characters that matter    *)
(* somewhere, 12 is a tab in a text and opens an element in a certificate, *)
(* 15 is in no text.                                                       *)
EXTENDS Enrolment, TLC

a == 0   b == 1   n == 2   four == 13   nine == 14
colon == 3   comma == 4   open == 5   close == 6
quote == 7   backslash == 8   newline == 9   control == 10   der == 12

dash == 11
tab == der
MCNames == {a, b, n, four, nine, dash}
MCRowNames == MCNames \cup {tab}
MCMarks == {dash}
MCBlanks == {newline, tab}
MCDefaultPort == <<four>>
MCPortOf == (<<four>> :> 443) @@ (<<four, nine>> :> 8443) @@ (<<nine, nine>> :> 70000)
MCLabels == {"vpn", "org", "user", "www"}

Many(k) == [i \in 1 .. k |-> a]

\* Certificates: DER with a short length, with a long one, and one too large.
cert1 == <<der, 2, a, b>>
cert2 == <<der, 10, 0, 3>> \o Many(3)
large == <<der, 9, 15>> \o Many(15)

NoStore == [c \in {} |-> 0]
Cert(blocks, caref, cas) == [ref |-> TRUE, held |-> TRUE, blocks |-> blocks,
                             caref |-> caref, cas |-> cas]
NoCert == [Cert(<<>>, "", NoStore) EXCEPT !.ref = FALSE]

CaOf(block) == [held : BOOLEAN, blocks : {<<block>>}, caref : {"", "ca1", "ca2"}]
Stores == {("ca1" :> x) @@ ("ca2" :> y) : x \in CaOf(cert1), y \in CaOf(cert2)}

Base == [host |-> <<a, b>>, labels |-> <<"vpn", "org">>,
         listen |-> <<a, colon, four>>, users |-> <<[name |-> <<b>>, pass |-> <<a>>]>>,
         ipv6 |-> TRUE, aliases |-> <<>>, protocols |-> {}, cert |-> NoCert]

Passwords == UNION {[1 .. k -> {comma, quote, backslash, newline, tab, control, b, n}] : k \in 0 .. 2}
Listens == {<<a, colon, four, nine>>, <<open, colon, colon, b, close, colon, four>>,
            <<a>>, <<a, colon>>, <<colon, four>>, <<a, colon, nine, nine>>,
            <<open, a, colon, four>>, <<a, colon, a>>}
Aliases == {<<"vpn", "org">>, <<"user", "vpn", "org">>, <<"www", "org">>,
            <<"org">>, <<"bad label", "org">>}
Accounts2 == {<<>>,
              <<[name |-> <<a>>, pass |-> <<n>>], [name |-> <<b>>, pass |-> <<n, n>>]>>,
              <<[name |-> <<b>>, pass |-> <<n>>], [name |-> <<b>>, pass |-> <<n, n>>]>>,
              <<[name |-> <<b>>, pass |-> <<n>>], [name |-> <<dash>>, pass |-> <<n>>]>>}

MCServers ==
    {[Base EXCEPT !.users[1].pass = p] : p \in Passwords}
    \cup {[Base EXCEPT !.listen = l] : l \in Listens}
    \cup {[Base EXCEPT !.aliases = <<x>>] : x \in Aliases}
    \cup {[Base EXCEPT !.users = u] : u \in Accounts2}
    \cup {[Base EXCEPT !.protocols = p] : p \in {{"http1"}, {"http2"}, {"http3", "http1"}}}
    \cup {[Base EXCEPT !.ipv6 = FALSE, !.cert = Cert(<<x>>, "", NoStore)] : x \in {cert1, cert2, large}}
    \cup {[Base EXCEPT !.cert = Cert(<<cert1>>, c, s)] : c \in {"ca1"}, s \in Stores}
    \cup {[Base EXCEPT !.cert = Cert(<<cert1, cert2>>, "ca2", s)] : s \in {CHOOSE s \in Stores : TRUE}}
    \cup {[Base EXCEPT !.cert = [NoCert EXCEPT !.ref = TRUE, !.held = FALSE]],
          [Base EXCEPT !.host = <<>>], [Base EXCEPT !.host = <<b, colon, colon, a>>],
          [Base EXCEPT !.host = <<a, b, dash, a, b>>]}

MCAsks == {[user |-> <<b>>, name |-> <<>>], [user |-> <<b>>, name |-> <<a>>]}

\* Links of other writers: a newer one with unknown tags, repeated fields,
\* every optional field, and payloads that lack or garble something.
Basic == <<Field(HOSTNAME, <<a>>), Field(ADDRESS, <<b>>), Field(USERNAME, <<b>>),
           Field(PASSWORD, <<>>)>>
MCOthers ==
    {Basic \o rest : rest \in
       {<<Field(20, <<15>>), Field(HOSTNAME, <<b>>), Field(ADDRESS, <<a>>)>>,
        <<Field(70, Many(66)), Field(PASSWORD, <<n>>)>>,
        <<Field(NAME, Many(90))>>,
        <<Field(PROTOCOL, <<2>>), Field(PROTOCOL, <<1>>), Field(HAS_IPV6, <<1>>)>>,
        <<Field(PROTOCOL, <<2>>), Field(ANTI_DPI, <<1>>), Field(SKIP_VERIFICATION, <<2>>)>>,
        <<Field(DNS_UPSTREAMS, <<1, a, 0, 2, a, b>>), Field(CUSTOM_SNI, <<n>>)>>,
        <<Field(DNS_UPSTREAMS, <<1, a, 2, a>>)>>,
        <<Field(DNS_UPSTREAMS, <<1, tab, 3, tab, a, tab>>), Field(ADDRESS, <<tab, a>>)>>,
        <<Field(RANDOM_PREFIX, <<n>>), Field(VERSION, <<4, 0>>)>>,
        <<Field(VERSION, <<>>)>>, <<Field(NAME, <<15>>)>>,
        <<Field(CERTIFICATE, cert1 \o cert2)>>, <<Field(CERTIFICATE, cert1 \o <<der, 3, a>>)>>,
        <<Field(CERTIFICATE, cert2 \o <<a>>)>>, <<Field(CERTIFICATE, cert2 \o <<der>>)>>}}
    \cup {SubSeq(Basic, 2, 4), SubSeq(Basic, 1, 3), <<>>}

MCRaw == UNION {[1 .. k -> {0, 1, 4, 8, der, 15}] : k \in 0 .. 3}

MCSettings ==
    {[mode |-> m, mtu |-> 1350, tun_ok |-> TRUE, named |-> FALSE, use_existing |-> FALSE,
      change_system_dns |-> FALSE, bound_if |-> TRUE, allowed |-> {"net"}] :
       m \in {"general", "selective"}}
=============================================================================
