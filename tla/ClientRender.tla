---------------------------- MODULE ClientRender ----------------------------
(***************************************************************************)
(* What the client makes of a link: the row that confirmImportAction adds  *)
(* to the peers, and the file that render_client_config.py writes when     *)
(* that row is the active one.                                             *)
(***************************************************************************)
EXTENDS Toml

CONSTANTS
    Comma,      \* separates the items of a CSV field
    Colon,
    Https,      \* "443"
    NameBytes,  \* the characters of a user name
    RowBytes,   \* those of a row's name: letters of any script and blanks too
    MaxName,    \* 64, the most of either that the masks allow
    Blanks      \* what strip() takes off; control characters stay in the model

\* implode(',', ...) and _csv of the renderer, which strips every item and
\* drops the blank ones.
Joined(items) ==
    FlattenSeq([i \in DOMAIN items |->
                  IF i = 1 THEN items[1] ELSE <<Comma>> \o items[i]])

Trimmed(text) ==
    LET solid == {i \in DOMAIN text : text[i] \notin Blanks}
    IN IF solid = {} THEN <<>> ELSE SubSeq(text, Min(solid), Max(solid))

Items(text) ==
    LET Commas(i) == {j \in i .. Len(text) : text[j] = Comma}
        From[i \in 1 .. Len(text) + 1] ==  \* the items of text from i on
          LET end == IF Commas(i) = {} THEN Len(text) + 1 ELSE Min(Commas(i))
              item == Trimmed(SubSeq(text, i, end - 1))
              rest == IF Commas(i) = {} THEN <<>> ELSE From[end + 1]
          IN IF item = <<>> THEN rest ELSE <<item>> \o rest
    IN From[1]

IsName(v) == v # <<>> /\ \A i \in DOMAIN v : v[i] \in NameBytes

\* The row, from the parser's output: c gives for a key its value or, when
\* the key is missing, the value it gets here.
Row(c) ==
    [name |-> c.name, hostname |-> c.hostname, addresses |-> Joined(c.addresses),
     sni |-> c.custom_sni, username |-> c.username, password |-> c.password,
     pem |-> c.certs, skip |-> c.skip_verification,
     protocol |-> c.upstream_protocol, anti_dpi |-> c.anti_dpi,
     prefix |-> c.client_random_prefix, dns |-> Joined(c.dns_upstreams)]

\* The model's required fields and masks, as validate() applies them; a host
\* name may be an IP address and be longer than a name.
IsRowName(v) == v # <<>> /\ Len(v) <= MaxName /\ \A i \in DOMAIN v : v[i] \in RowBytes
IsLogin(v) == IsName(v) /\ Len(v) <= MaxName
IsHost(v) == v # <<>> /\ \A i \in DOMAIN v : v[i] \in NameBytes \cup {Colon}

RowAccepted(r) ==
    /\ IsRowName(r.name) /\ IsHost(r.hostname) /\ IsLogin(r.username)
    /\ r.addresses # <<>> /\ r.password # <<>>

Addresses(r) ==
    IF Items(r.addresses) = <<>> THEN <<r.hostname \o <<Colon>> \o Https>>
    ELSE Items(r.addresses)

Texts(r) ==
    {r.hostname, r.sni, r.username, r.password, r.prefix}
      \cup ToSet(Addresses(r)) \cup ToSet(Items(r.dns))

\* The settings of the client beside its peers.
SettingsAccepted(s) ==
    /\ s.mode \in {"general", "selective"}
    /\ s.mtu \in 576 .. 9000
    /\ s.tun_ok /\ (s.use_existing => s.named)
    /\ ~s.change_system_dns /\ s.bound_if

RenderAccepts(s, r) ==
    /\ SettingsAccepted(s)
    /\ r.protocol \in {"http2", "http3"}
    /\ r.username # <<>> /\ r.password # <<>> /\ r.hostname # <<>>
    /\ IsName(r.username)
    /\ \A t \in Texts(r) : ~Refuses(t, FALSE)

\* The file's endpoint section and the routes that go round the tunnel.
File(s, r) ==
    [hostname   |-> Escape(r.hostname),
     sni        |-> Escape(r.sni),
     addresses  |-> [i \in DOMAIN Addresses(r) |-> Escape(Addresses(r)[i])],
     username   |-> Escape(r.username),
     password   |-> Escape(r.password),
     pem        |-> r.pem,
     skip       |-> r.skip,
     protocol   |-> r.protocol,
     dns        |-> [i \in DOMAIN Items(r.dns) |-> Escape(Items(r.dns)[i])],
     exclusions |-> IF s.mode = "selective" THEN s.allowed ELSE {}]
=============================================================================
