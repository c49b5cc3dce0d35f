------------------------------ MODULE Deeplink ------------------------------
(***************************************************************************)
(* The tt:// link that carries one user's settings from the endpoint to a  *)
(* client: deeplink_export.py writes it, an administrator copies it (and   *)
(* may copy only the beginning of it), deeplink_parse.py reads it.         *)
(*                                                                         *)
(* The payload is a sequence of bytes, because what can go wrong is in the *)
(* bytes: variable-length integers, lengths, a payload that ends early.    *)
(* A byte has 4 * Q values and the first byte of an integer keeps its low  *)
(* Q values for the number; the program has Q = 64, the model checker a    *)
(* smaller one, the theorems any.  Base64 is modelled by how many bytes a  *)
(* number of characters stands for.                                        *)
(***************************************************************************)
EXTENDS Integers, Sequences

CONSTANTS
    Q,           \* numbers that fit beside the two prefix bits: 64
    MaxUri,      \* MAX_URI_BYTES of both programs: 65536
    MaxField,    \* MAX_FIELD_BYTES of the importer: 65536
    MaxCert,     \* MAX_CERT_BYTES of the importer: 16384
    Colon,       \* the byte of ":"
    DerSeq,      \* the byte that opens a DER certificate: 0x30
    DefaultPort, \* "443"
    Servers,     \* the endpoint configurations considered
    Asks,        \* the export requests: a user name and a display name
    Others,      \* payloads of other writers, as sequences of fields
    Raw          \* payloads that no writer made

B == 4 * Q
Byte == 0 .. B - 1
Widest == Q * B * B * B * B * B * B * B  \* one more than any 62-bit number

ASSUME QAssumption == Q \in Nat \ {0}
ASSUME MaxFieldAssumption == MaxField \in Nat
ASSUME ServersAssumption == Servers # {}

----------------------------------------------------------------------------
(* Variable-length integers (RFC 9000): the two high bits of the first     *)
(* byte say whether the number takes 1, 2, 4 or 8 bytes.                   *)

\* Big-endian bytes, by halves.
Two(v)   == <<v \div B, v % B>>
Four(v)  == Two(v \div (B * B)) \o Two(v % (B * B))
Eight(v) == Four(v \div (B * B * B * B)) \o Four(v % (B * B * B * B))

\* The number whose first byte, without its prefix, is x and whose other
\* bytes start at d[i].
Number2(x, d, i) == x * B + d[i]
Number4(x, d, i) == Number2(x, d, i) * (B * B) + Number2(d[i + 1], d, i + 2)
Number8(x, d, i) ==
    Number4(x, d, i) * (B * B * B * B) + Number4(d[i + 3], d, i + 4)

\* Mutant: the prefix one bit too high.
PrefixedHigh(p, s) == [s EXCEPT ![1] = @ + p * 2 * Q]
Prefixed(p, s) == [s EXCEPT ![1] = @ + p * Q]

\* Mutant: the largest short number is one too large.
EncodeVarintOff(v) ==
    CASE v <= Q -> <<v>>
      [] v > Q /\ v < Q * B -> Prefixed(1, Two(v))
      [] v >= Q * B /\ v < Q * B * B * B -> Prefixed(2, Four(v))
      [] OTHER -> Prefixed(3, Eight(v))
EncodeVarint(v) ==
    CASE v < Q -> <<v>>
      [] v >= Q /\ v < Q * B -> Prefixed(1, Two(v))
      [] v >= Q * B /\ v < Q * B * B * B -> Prefixed(2, Four(v))
      [] OTHER -> Prefixed(3, Eight(v))

Refused == [ok |-> FALSE]
Number(v, next) == [ok |-> TRUE, val |-> v, next |-> next]

Width(first) == CASE first < Q -> 1
                  [] first >= Q /\ first < 2 * Q -> 2
                  [] first >= 2 * Q /\ first < 3 * Q -> 4
                  [] OTHER -> 8

\* Offsets count from 0 as in the program; d[off + 1] is its data[offset].
DecodeVarint(d, off) ==
    IF off >= Len(d) THEN Refused
    ELSE LET first == d[off + 1]
             w == Width(first)
         IN IF off + w > Len(d) THEN Refused
            ELSE Number(CASE w = 1 -> first
                          [] w = 2 -> Number2(first - Q, d, off + 2)
                          [] w = 4 -> Number4(first - 2 * Q, d, off + 2)
                          [] w = 8 -> Number8(first - 3 * Q, d, off + 2),
                        off + w)

----------------------------------------------------------------------------
(* Fields: a tag, a length and as many bytes.                              *)

VERSION           == 0
HOSTNAME          == 1
ADDRESS           == 2
CUSTOM_SNI        == 3
HAS_IPV6          == 4
USERNAME          == 5
PASSWORD          == 6
SKIP_VERIFICATION == 7
CERTIFICATE       == 8
PROTOCOL          == 9
ANTI_DPI          == 10
RANDOM_PREFIX     == 11
NAME              == 12
DNS_UPSTREAMS     == 13
Tags == 0 .. 13
Flags == {HAS_IPV6, SKIP_VERIFICATION, ANTI_DPI}

Field(t, v) == [tag |-> t, val |-> v]

Tlv(f) == EncodeVarint(f.tag) \o EncodeVarint(Len(f.val)) \o f.val

\* Mutants: a value that is cut short is taken as it is; the next field is
\* looked for without counting the header of this one.
ReadTlvShort(d, off) ==
    LET t == DecodeVarint(d, off)
        n == DecodeVarint(d, t.next)
    IN IF ~t.ok \/ ~n.ok THEN Refused
       ELSE LET end == IF n.next + n.val > Len(d) THEN Len(d) ELSE n.next + n.val
            IN [ok |-> TRUE, next |-> n.next + n.val,
                field |-> Field(t.val, SubSeq(d, n.next + 1, end))]
ReadTlvBare(d, off) ==
    LET t == DecodeVarint(d, off)
        n == DecodeVarint(d, t.next)
    IN IF ~t.ok \/ ~n.ok THEN Refused
       ELSE IF n.val > MaxField \/ n.next + n.val > Len(d) THEN Refused
       ELSE [ok |-> TRUE, next |-> off + n.val,
             field |-> Field(t.val, SubSeq(d, n.next + 1, n.next + n.val))]
ReadTlv(d, off) ==
    LET t == DecodeVarint(d, off)
        n == DecodeVarint(d, t.next)
    IN IF ~t.ok \/ ~n.ok THEN Refused
       ELSE IF n.val > MaxField \/ n.next + n.val > Len(d) THEN Refused
       ELSE [ok |-> TRUE, next |-> n.next + n.val,
             field |-> Field(t.val, SubSeq(d, n.next + 1, n.next + n.val))]

----------------------------------------------------------------------------
(* What the exporter puts into a link.                                     *)

\* Mutant: split at the first colon.
AfterFirst(c, t) ==
    IF \E i \in DOMAIN t : t[i] = c
    THEN LET i == CHOOSE j \in DOMAIN t :
                      t[j] = c /\ \A k \in DOMAIN t : t[k] = c => k >= j
         IN SubSeq(t, i + 1, Len(t))
    ELSE DefaultPort
AfterLast(c, t) ==
    IF \E i \in DOMAIN t : t[i] = c
    THEN LET i == CHOOSE j \in DOMAIN t :
                      t[j] = c /\ \A k \in DOMAIN t : t[k] = c => k <= j
         IN SubSeq(t, i + 1, Len(t))
    ELSE DefaultPort

Address(s) == s.host \o <<Colon>> \o AfterLast(Colon, s.listen)

\* find_user takes the first account of that name.
Named(s, name) == {i \in DOMAIN s.users : s.users[i].name = name}
FindUser(s, name) ==
    s.users[CHOOSE i \in Named(s, name) : \A j \in Named(s, name) : i <= j]

\* In the trust store, and not empty there.
CertFound(c) == c.ref => c.held

\* One PEM block in the trust store's <crt> is taken for a self-signed one.
Embeds(c) == c.ref /\ Len(c.blocks) = 1

Exportable(s, a) ==
    /\ Named(s, a.user) # {}
    /\ s.host # <<>>
    /\ CertFound(s.cert)

ExportedFields(s, a) ==
    LET u == FindUser(s, a.user)
    IN <<Field(VERSION, EncodeVarint(1)), Field(HOSTNAME, s.host),
         Field(ADDRESS, Address(s)), Field(USERNAME, a.user),
         Field(PASSWORD, u.pass)>>
       \o (IF s.ipv6 THEN <<>> ELSE <<Field(HAS_IPV6, <<0>>)>>)
       \o (IF a.name = <<>> THEN <<>> ELSE <<Field(NAME, a.name)>>)
       \o (IF Embeds(s.cert) THEN <<Field(CERTIFICATE, s.cert.blocks[1])>>
           ELSE <<>>)

----------------------------------------------------------------------------
(* What the importer makes of a field.  <<>> stands for an exception.      *)

IsText(v) == \A i \in DOMAIN v : v[i] # B - 1  \* 0xFF is in no UTF-8 text

\* The strings of a dns_upstreams value from offset o on.
DnsStrings(v) ==
    LET From[o \in 0 .. Len(v)] ==
          IF o = Len(v) THEN <<<<>>>>
          ELSE LET n == DecodeVarint(v, o)
               IN IF ~n.ok THEN <<>>
                  ELSE IF n.val > MaxField \/ n.next + n.val > Len(v) THEN <<>>
                  ELSE LET s == SubSeq(v, n.next + 1, n.next + n.val)
                           rest == From[n.next + n.val]
                       IN IF ~IsText(s) \/ rest = <<>> THEN <<>>
                          ELSE <<<<s>> \o rest[1]>>
    IN From[0]

Meaning(f) ==
    LET v == f.val
        n == DecodeVarint(v, 0)
    IN CASE f.tag = VERSION -> IF n.ok THEN <<n.val>> ELSE <<>>
         [] f.tag = PROTOCOL ->
              IF n.ok THEN <<IF n.val = 2 THEN "http3" ELSE "http2">> ELSE <<>>
         [] f.tag \in Flags -> <<v = <<1>> >>
         [] f.tag = CERTIFICATE -> IF Len(v) <= MaxCert THEN <<v>> ELSE <<>>
         [] f.tag = DNS_UPSTREAMS -> DnsStrings(v)
         [] OTHER -> IF IsText(v) THEN <<v>> ELSE <<>>

\* A field's effect on what its setting held; mutant: the last address only.
StoredLast(old, f) == Meaning(f)
Stored(old, f) == IF f.tag = ADDRESS THEN old \o Meaning(f) ELSE Meaning(f)

\* The configuration as it is built: for each tag the values it holds, one
\* at most except for the addresses.
Defaults == [t \in Tags |->
    CASE t = VERSION -> <<0>>
      [] t = HAS_IPV6 -> <<TRUE>>
      [] t \in {SKIP_VERIFICATION, ANTI_DPI} -> <<FALSE>>
      [] t = PROTOCOL -> <<"http2">>
      [] OTHER -> <<>>]

\* Mutant: a password is not required.
RequiredNoPassword == {HOSTNAME, USERNAME, ADDRESS}
Required == {HOSTNAME, USERNAME, PASSWORD, ADDRESS}

\* The end of the DER element that starts at off, or -1.
DerEnd(d, off) ==
    LET first == d[off + 2]
        n == first % (2 * Q)
        BigEndian[k \in 0 .. n] ==
            IF k = 0 THEN 0 ELSE BigEndian[k - 1] * B + d[off + 2 + k]
        end == IF first < 2 * Q THEN off + 2 + first
               ELSE off + 2 + n + BigEndian[n]
    IN IF \/ d[off + 1] # DerSeq \/ off + 2 > Len(d)
          \/ first >= 2 * Q /\ (n = 0 \/ off + 2 + n > Len(d))
       THEN -1
       ELSE IF end > Len(d) THEN -1 ELSE end

\* Fields are bytes; a tag or a length beyond 62 bits is no field.
IsField(f) ==
    /\ f = Field(f.tag, f.val)
    /\ f.tag \in 0 .. Widest - 1
    /\ f.val \in Seq(Byte) /\ Len(f.val) < Widest

ASSUME FieldsAssumption ==
    /\ \A s \in Servers, a \in Asks : Exportable(s, a) =>
         /\ ExportedFields(s, a) \in Seq([tag : Nat, val : Seq(Byte)])
         /\ \A i \in DOMAIN ExportedFields(s, a) : IsField(ExportedFields(s, a)[i])
    /\ \A fs \in Others : /\ fs \in Seq([tag : Nat, val : Seq(Byte)])
                          /\ \A i \in DOMAIN fs : IsField(fs[i])
    /\ Raw \subseteq Seq(Byte)

----------------------------------------------------------------------------
VARIABLES
    srv, ask,  \* the endpoint's configuration and what is asked of it
    fields,    \* the fields of the payload, in the order they are written
    buf,       \* buf of build_deeplink
    ends,      \* auxiliary: where each field written so far ends in buf
    chars,     \* how many characters of the encoded payload were copied
    off,       \* offset of parse_tlv, later of split_der_certs
    entries,   \* entries of parse_tlv
    seen,      \* how many entries the loop of deeplink_to_config has done
    cfg,       \* cfg of deeplink_to_config, with cert_der
    certs,     \* certs of split_der_certs
    stage      \* where the link is

written == <<srv, ask, fields, buf, ends>>
vars == <<srv, ask, fields, buf, ends, chars, off, entries, seen, cfg, certs,
          stage>>

Stages == {"no link", "write", "sent", "parse", "apply", "split", "done",
           "refused"}

UriChars(n) == (4 * n + 2) \div 3     \* base64 without its padding
Copied(c) == SubSeq(buf, 1, (3 * c) \div 4)
Data == Copied(chars)
UriBytes(c) == 6 + c                  \* "tt://?"

Fresh ==
    /\ ends = <<>> /\ chars = 0 /\ off = 0
    /\ entries = <<>> /\ seen = 0 /\ cfg = Defaults /\ certs = <<>>

Init ==
    /\ Fresh
    /\ \/ /\ srv \in Servers /\ ask \in Asks /\ buf = <<>>
          /\ IF Exportable(srv, ask)
             THEN fields = ExportedFields(srv, ask) /\ stage = "write"
             ELSE fields = <<>> /\ stage = "no link"
       \/ /\ srv = CHOOSE s \in Servers : TRUE       \* not the exporter's link
          /\ ask = [user |-> <<>>, name |-> <<>>]
          /\ \/ fields \in Others /\ buf = <<>> /\ stage = "write"
             \/ fields = <<>> /\ buf \in Raw /\ stage = "sent"

\* buf += tlv(tag, value)
Put ==
    /\ stage = "write" /\ Len(ends) < Len(fields)
    /\ buf' = buf \o Tlv(fields[Len(ends) + 1])
    /\ ends' = Append(ends, Len(buf'))
    /\ UNCHANGED <<srv, ask, fields, chars, off, entries, seen, cfg, certs,
                   stage>>

\* The URI is encoded and its length checked.
Finish ==
    /\ stage = "write" /\ Len(ends) = Len(fields)
    /\ stage' = IF UriBytes(UriChars(Len(buf))) > MaxUri
                THEN "no link" ELSE "sent"
    /\ UNCHANGED <<written, chars, off, entries, seen, cfg, certs>>

\* main of the importer reads no more than this from the pipe.
Received(c) == UriBytes(c) <= MaxUri

\* The first c characters arrive.  A single one in the last group of four
\* is not base64.
Paste(c) ==
    /\ chars' = c
    /\ stage' = IF ~Received(c) \/ c % 4 = 1 \/ Len(Copied(c)) > MaxField
                THEN "refused" ELSE "parse"
    /\ UNCHANGED <<written, off, entries, seen, cfg, certs>>

\* One round of parse_tlv's loop, or its end.
Parse ==
    /\ stage = "parse"
    /\ LET r == ReadTlv(Data, off)
       IN IF off >= Len(Data)
          THEN stage' = "apply" /\ UNCHANGED <<off, entries>>
          ELSE IF ~r.ok THEN stage' = "refused" /\ UNCHANGED <<off, entries>>
          ELSE /\ off' = r.next /\ entries' = Append(entries, r.field)
               /\ UNCHANGED stage
    /\ UNCHANGED <<written, chars, seen, cfg, certs>>

\* One round of deeplink_to_config's loop.  Unknown tags are passed over.
Apply ==
    /\ stage = "apply" /\ seen < Len(entries)
    /\ LET f == entries[seen + 1]
       IN IF f.tag \notin Tags THEN seen' = seen + 1 /\ UNCHANGED <<cfg, stage>>
          ELSE IF Meaning(f) = <<>>
          THEN stage' = "refused" /\ UNCHANGED <<cfg, seen>>
          ELSE /\ cfg' = [cfg EXCEPT ![f.tag] = Stored(@, f)]
               /\ seen' = seen + 1 /\ UNCHANGED stage
    /\ UNCHANGED <<written, chars, off, entries, certs>>

\* The required fields, then the certificate if there is one.
Check ==
    /\ stage = "apply" /\ seen = Len(entries)
    /\ off' = 0
    /\ stage' = IF \E t \in Required : cfg[t] = <<>> THEN "refused"
                ELSE IF cfg[CERTIFICATE] = <<>> THEN "done" ELSE "split"
    /\ UNCHANGED <<written, chars, entries, seen, cfg, certs>>

\* Mutant: what is no element is passed over.
SplitLenient ==
    /\ stage = "split"
    /\ LET der == cfg[CERTIFICATE][1]
           end == DerEnd(der, off)
       IN IF off >= Len(der) \/ end < 0
          THEN stage' = "done" /\ UNCHANGED <<off, certs>>
          ELSE /\ off' = end
               /\ certs' = Append(certs, SubSeq(der, off + 1, end))
               /\ UNCHANGED stage
    /\ UNCHANGED <<written, chars, entries, seen, cfg>>

\* One round of split_der_certs, or its end.
Split ==
    /\ stage = "split"
    /\ LET der == cfg[CERTIFICATE][1]
           end == DerEnd(der, off)
       IN IF off >= Len(der) THEN stage' = "done" /\ UNCHANGED <<off, certs>>
          ELSE IF end < 0 THEN stage' = "refused" /\ UNCHANGED <<off, certs>>
          ELSE /\ off' = end
               /\ certs' = Append(certs, SubSeq(der, off + 1, end))
               /\ UNCHANGED stage
    /\ UNCHANGED <<written, chars, entries, seen, cfg>>

PasteAny == stage = "sent" /\ \E c \in 0 .. UriChars(Len(buf)) : Paste(c)

\* qrencode is missing, refuses the URI as too long for a QR code, or takes
\* more than its 10 s: no link is shown.
NoQr ==
    /\ stage = "write" /\ Len(ends) = Len(fields) /\ ask.user # <<>>
    /\ stage' = "no link"
    /\ UNCHANGED <<written, chars, off, entries, seen, cfg, certs>>

Next == Put \/ Finish \/ NoQr \/ PasteAny \/ Parse \/ Apply \/ Check \/ Split

Spec == Init /\ [][Next]_vars

----------------------------------------------------------------------------
(* Properties. *)

\* The state's types.
TypeOK ==
    /\ srv \in Servers /\ stage \in Stages
    /\ buf \in Seq(Byte) /\ ends \in Seq(Nat) /\ Len(ends) <= Len(fields)
    /\ chars \in Nat /\ off \in Nat /\ seen \in 0 .. Len(entries)
    /\ \A i \in DOMAIN entries :
          entries[i].tag \in Nat /\ entries[i].val \in Seq(Byte)
    /\ DOMAIN cfg = Tags
    /\ \A t \in Tags : t # ADDRESS => Len(cfg[t]) <= 1
    /\ certs \in Seq(Seq(Byte))

Whole == chars = UriChars(Len(buf))

\* parse_tlv reads back the fields that were written, one by one and in
\* order, wherever the payload was cut: no field is made up, skipped, split
\* or taken with a different value, and a whole payload gives all of them.
EntriesAreFields ==
    fields # <<>> =>
      /\ entries = SubSeq(fields, 1, Len(entries))
      /\ Whole /\ stage \in {"apply", "split", "done"}
           => Len(entries) = Len(fields)

\* The values of the fields at these positions, in the fields' order.
InOrder(fs, at, values) ==
    \E pos \in [DOMAIN values -> at] :
      /\ \A i \in at : \E k \in DOMAIN values : pos[k] = i
      /\ \A k \in DOMAIN values :
           /\ values[k] = fs[pos[k]].val
           /\ \A l \in DOMAIN values : k < l => pos[k] < pos[l]

Tagged(fs, t) == {i \in DOMAIN fs : fs[i].tag = t}

\* What the fields of tag t give, when they are the ones at these positions:
\* the values of all addresses, otherwise the last value, or the default.
GivenBy(fs, at, t, values) ==
    CASE t = ADDRESS -> InOrder(fs, at, values)
      [] t # ADDRESS /\ at = {} -> values = Defaults[t]
      [] t # ADDRESS /\ at # {} ->
           \E i \in at : (\A j \in at : j <= i) /\ values = Meaning(fs[i])

Gives(fs, t, values) == GivenBy(fs, Tagged(fs, t), t, values)

\* The loop of deeplink_to_config comes to this: each setting has the value
\* of its last field, or its default; addresses add up; unknown tags, which a
\* newer writer may use, change nothing.
LastFieldWins ==
    stage \in {"split", "done"} => \A t \in Tags : Gives(entries, t, cfg[t])

\* A link that was copied only in part is refused, or it gives the endpoint
\* and the login of the whole link: what can be lost unnoticed are the fields
\* behind the password (has_ipv6, the display name, the certificate).
CutKeepsLogin ==
    stage = "done" /\ ask.user # <<>> =>
      \A t \in {VERSION, HOSTNAME, ADDRESS, USERNAME, PASSWORD} :
        Gives(ExportedFields(srv, ask), t, cfg[t])

\* Neither loop over a payload can stand still: a round that does not refuse
\* ends further on than it began, whatever lengths the payload has.
LoopsMoveOn ==
    [][(stage \in {"parse", "split"} /\ stage' = stage) => (off' > off)]_vars
=============================================================================
