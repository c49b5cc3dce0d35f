--------------------------- MODULE Deeplink_proofs --------------------------
(***************************************************************************)
(* Facts about the link's codec for every value of its constants.          *)
(*                                                                         *)
(* The encoder's integers are read back by the decoder wherever they stand *)
(* (VarintRoundTrip); so are whole fields (TlvRead), and a field that can  *)
(* be read from the beginning of a payload reads the same from all of it   *)
(* (TlvKept).  With these, the position of the reader is always the end of *)
(* a field of the writer (Reading), which gives EntriesAreFields.          *)
(***************************************************************************)
EXTENDS Deeplink, SequenceTheorems, TLAPS

----------------------------------------------------------------------------
(* Numbers and bytes. *)

LEMMA BNat == B \in Nat \ {0} /\ B * B \in Nat \ {0} /\ B * B * B * B \in Nat \ {0}
BY QAssumption DEF B

\* A number below m * k is cut into its upper part, below m, and the rest.
LEMMA Cut ==
    ASSUME NEW m \in Nat, NEW k \in Nat \ {0}, NEW v \in Nat, v < m * k
    PROVE  /\ v \div k \in 0 .. m - 1
           /\ v % k \in 0 .. k - 1
           /\ ((v \div k) * k) + (v % k) = v
<1>1. v \div k \in Nat /\ v % k \in 0 .. k - 1
  OBVIOUS
<1>2. ((v \div k) * k) + (v % k) = v
  OBVIOUS
<1>3. v \div k < m
  <2>1. SUFFICES ASSUME v \div k >= m PROVE FALSE
    BY <1>1
  <2>2. PICK j \in Nat : v \div k = m + j
    <3>1. (v \div k) - m \in Nat
      BY <1>1, <2>1
    <3> QED  BY <3>1, <1>1
  <2>3. (m + j) * k = m * k + j * k
    OBVIOUS
  <2>4. j * k >= 0 /\ m * k \in Nat
    OBVIOUS
  <2> QED  BY <1>1, <1>2, <2>2, <2>3, <2>4
<1> QED
  BY <1>1, <1>2, <1>3

LEMMA TwoBytes ==
    ASSUME NEW m \in Nat, NEW v \in Nat, v < m * B
    PROVE  \E p \in 0 .. m - 1, q \in Byte : Two(v) = <<p, q>> /\ p * B + q = v
<1>1. B \in Nat \ {0}
  BY BNat
<1>2. v \div B \in 0 .. m - 1 /\ v % B \in Byte /\ ((v \div B) * B) + (v % B) = v
  BY <1>1, Cut DEF Byte
<1> QED
  BY <1>2 DEF Two

LEMMA Join22 ==
    ASSUME NEW a, NEW b, NEW c, NEW d
    PROVE  <<a, b>> \o <<c, d>> = <<a, b, c, d>>
<1> DEFINE T == {a, b, c, d}
<1>1. <<a, b>> \in Seq(T) /\ <<c, d>> \in Seq(T) /\ <<a, b, c, d>> \in Seq(T)
  OBVIOUS
<1>2. Len(<<a, b>> \o <<c, d>>) = 4 /\ <<a, b>> \o <<c, d>> \in Seq(T)
  BY <1>1, ConcatProperties
<1>3. \A i \in 1 .. 4 : (<<a, b>> \o <<c, d>>)[i] = <<a, b, c, d>>[i]
  BY <1>1
<1> QED
  BY <1>1, <1>2, <1>3, SeqEqual

LEMMA FourBytes ==
    ASSUME NEW m \in Nat, NEW v \in Nat, v < (m * B) * (B * B)
    PROVE  \E p \in 0 .. m - 1, q \in Byte, r \in Byte, s \in Byte :
              /\ Four(v) = <<p, q, r, s>>
              /\ (p * B + q) * (B * B) + (r * B + s) = v
<1> DEFINE hi == v \div (B * B)
           lo == v % (B * B)
<1>1. m * B \in Nat
  BY BNat
<1>2. hi \in 0 .. (m * B) - 1 /\ lo \in 0 .. (B * B) - 1 /\ (hi * (B * B)) + lo = v
  BY <1>1, BNat, Cut
<1>3. hi \in Nat /\ lo \in Nat /\ hi < m * B /\ lo < B * B /\ B \in Nat
  BY <1>1, <1>2, BNat
<1>4. PICK p \in 0 .. m - 1, q \in Byte : Two(hi) = <<p, q>> /\ p * B + q = hi
  BY <1>3, TwoBytes
<1>5. PICK r \in 0 .. B - 1, s \in Byte : Two(lo) = <<r, s>> /\ r * B + s = lo
  BY <1>3, TwoBytes
<1>6. Four(v) = <<p, q, r, s>>
  BY <1>4, <1>5, Join22 DEF Four
<1>7. (p * B + q) * (B * B) + (r * B + s) = v
  BY <1>2, <1>4, <1>5
<1> QED
  BY <1>6, <1>7 DEF Byte

LEMMA Join44 ==
    ASSUME NEW a, NEW b, NEW c, NEW d, NEW e, NEW f, NEW g, NEW h
    PROVE  <<a, b, c, d>> \o <<e, f, g, h>> = <<a, b, c, d, e, f, g, h>>
<1> DEFINE T == {a, b, c, d, e, f, g, h}
           s == <<a, b, c, d>>
           t == <<e, f, g, h>>
           u == <<a, b, c, d, e, f, g, h>>
<1>1. s \in Seq(T) /\ t \in Seq(T) /\ u \in Seq(T)
  OBVIOUS
<1>2. Len(s \o t) = 8 /\ s \o t \in Seq(T)
  BY <1>1, ConcatProperties
<1>3. \A i \in 1 .. 8 : (s \o t)[i] = u[i]
  <2>1. \A i \in 1 .. 8 : (s \o t)[i] = IF i <= 4 THEN s[i] ELSE t[i - 4]
    BY <1>1, ConcatProperties
  <2>2. \A i \in 1 .. 8 : u[i] = IF i <= 4 THEN s[i] ELSE t[i - 4]
    OBVIOUS
  <2> QED  BY <2>1, <2>2
<1> QED
  BY <1>1, <1>2, <1>3, SeqEqual

LEMMA EightBytes ==
    ASSUME NEW v \in 0 .. Widest - 1
    PROVE  \E p \in 0 .. Q - 1, q \in Byte, r \in Byte, s \in Byte,
              t \in Byte, u \in Byte, w \in Byte, x \in Byte :
              /\ Eight(v) = <<p, q, r, s, t, u, w, x>>
              /\ ((p * B + q) * (B * B) + (r * B + s)) * (B * B * B * B)
                   + ((t * B + u) * (B * B) + (w * B + x)) = v
<1> DEFINE k == B * B * B * B
           m == (Q * B) * (B * B)
           hi == v \div k
           lo == v % k
<1>1. B \in Nat \ {0} /\ k \in Nat \ {0} /\ m \in Nat /\ Q \in Nat
  BY BNat, QAssumption
<1>2. m * k = Widest /\ k = (B * B) * (B * B)
  BY <1>1 DEF Widest
<1>3. hi \in 0 .. m - 1 /\ lo \in 0 .. k - 1 /\ (hi * k) + lo = v
  <2>1. v \in Nat /\ v < m * k
    BY <1>1, <1>2
  <2> HIDE DEF m, k
  <2> QED  BY <1>1, <2>1, Cut
<1>4. PICK p \in 0 .. Q - 1, q \in Byte, r \in Byte, s \in Byte :
              /\ Four(hi) = <<p, q, r, s>>
              /\ (p * B + q) * (B * B) + (r * B + s) = hi
  <2>1. hi \in Nat /\ hi < (Q * B) * (B * B)
    BY <1>1, <1>3
  <2> HIDE DEF hi
  <2> QED  BY <1>1, <2>1, FourBytes
<1>5. PICK t \in Byte, u \in Byte, w \in Byte, x \in Byte :
              /\ Four(lo) = <<t, u, w, x>>
              /\ (t * B + u) * (B * B) + (w * B + x) = lo
  <2>1. lo \in Nat /\ lo < (B * B) * (B * B)
    BY <1>1, <1>2, <1>3
  <2> HIDE DEF lo
  <2> QED  BY <1>1, <2>1, FourBytes DEF Byte
<1>6. Eight(v) = <<p, q, r, s, t, u, w, x>>
  <2>1. Eight(v) = Four(hi) \o Four(lo)
    BY DEF Eight
  <2>2. <<p, q, r, s>> \o <<t, u, w, x>> = <<p, q, r, s, t, u, w, x>>
    BY Join44
  <2> HIDE DEF hi, lo
  <2> QED  BY <1>4, <1>5, <2>1, <2>2
<1> HIDE DEF hi, lo
<1> QED
  BY <1>3, <1>4, <1>5, <1>6

LEMMA Except2 ==
    ASSUME NEW a, NEW b, NEW z
    PROVE  [<<a, b>> EXCEPT ![1] = z] = <<z, b>>
OBVIOUS

LEMMA Except4 ==
    ASSUME NEW a, NEW b, NEW c, NEW d, NEW z
    PROVE  [<<a, b, c, d>> EXCEPT ![1] = z] = <<z, b, c, d>>
OBVIOUS

LEMMA Except8 ==
    ASSUME NEW a, NEW b, NEW c, NEW d, NEW e, NEW f, NEW g, NEW h, NEW z
    PROVE  [<<a, b, c, d, e, f, g, h>> EXCEPT ![1] = z]
             = <<z, b, c, d, e, f, g, h>>
OBVIOUS

(* The encoder's four layouts, and the decoder over each of them. *)

\* The length that the prefix announces and the number decode as the layout
\* says, whatever stands before and behind it.
Holds(d, o, s) ==
    o + Len(s) <= Len(d) /\ \A k \in 1 .. Len(s) : d[o + k] = s[k]

LEMMA Layouts ==
    ASSUME NEW v \in 0 .. Widest - 1
    PROVE  \/ v < Q /\ EncodeVarint(v) = <<v>>
           \/ \E p \in 0 .. Q - 1, q \in Byte :
                /\ EncodeVarint(v) = <<p + 1 * Q, q>>
                /\ p * B + q = v
           \/ \E p \in 0 .. Q - 1, q \in Byte, r \in Byte, s \in Byte :
                /\ EncodeVarint(v) = <<p + 2 * Q, q, r, s>>
                /\ (p * B + q) * (B * B) + (r * B + s) = v
           \/ \E p \in 0 .. Q - 1, q \in Byte, r \in Byte, s \in Byte,
                 t \in Byte, u \in Byte, w \in Byte, x \in Byte :
                /\ EncodeVarint(v) = <<p + 3 * Q, q, r, s, t, u, w, x>>
                /\ ((p * B + q) * (B * B) + (r * B + s)) * (B * B * B * B)
                     + ((t * B + u) * (B * B) + (w * B + x)) = v
<1>0. v \in Nat /\ Q \in Nat \ {0} /\ B \in Nat \ {0}
      /\ Q * B \in Nat /\ Q * B * B * B \in Nat
  BY QAssumption, BNat DEF Widest
<1>1. Q <= Q * B /\ Q * B <= Q * B * B * B
  <2>1. \A m \in Nat : m <= m * B
    BY <1>0
  <2>2. Q * B * B \in Nat
    BY <1>0
  <2> QED  BY <1>0, <2>1, <2>2
<1>2. CASE v < Q
  BY <1>0, <1>2 DEF EncodeVarint
<1>3. CASE v >= Q /\ v < Q * B
  <2>1. PICK p \in 0 .. Q - 1, q \in Byte : Two(v) = <<p, q>> /\ p * B + q = v
    BY <1>0, <1>3, TwoBytes
  <2>2. EncodeVarint(v) = Prefixed(1, Two(v))
    BY <1>0, <1>1, <1>3 DEF EncodeVarint
  <2>3. EncodeVarint(v) = <<p + 1 * Q, q>>
    BY <2>1, <2>2, Except2 DEF Prefixed
  <2> QED  BY <2>1, <2>3
<1>4. CASE v >= Q * B /\ v < Q * B * B * B
  <2>1. PICK p \in 0 .. Q - 1, q \in Byte, r \in Byte, s \in Byte :
              /\ Four(v) = <<p, q, r, s>>
              /\ (p * B + q) * (B * B) + (r * B + s) = v
    <3>1. v < (Q * B) * (B * B)
      BY <1>0, <1>4
    <3> QED  BY <1>0, <3>1, FourBytes
  <2>2. EncodeVarint(v) = Prefixed(2, Four(v))
    BY <1>0, <1>1, <1>4 DEF EncodeVarint
  <2>3. EncodeVarint(v) = <<p + 2 * Q, q, r, s>>
    BY <2>1, <2>2, Except4 DEF Prefixed
  <2> QED  BY <2>1, <2>3
<1>5. CASE v >= Q * B * B * B
  <2>1. PICK p \in 0 .. Q - 1, q \in Byte, r \in Byte, s \in Byte,
              t \in Byte, u \in Byte, w \in Byte, x \in Byte :
              /\ Eight(v) = <<p, q, r, s, t, u, w, x>>
              /\ ((p * B + q) * (B * B) + (r * B + s)) * (B * B * B * B)
                   + ((t * B + u) * (B * B) + (w * B + x)) = v
    BY EightBytes
  <2>2. EncodeVarint(v) = Prefixed(3, Eight(v))
    BY <1>0, <1>1, <1>5 DEF EncodeVarint
  <2>3. EncodeVarint(v) = <<p + 3 * Q, q, r, s, t, u, w, x>>
    BY <2>1, <2>2, Except8 DEF Prefixed
  <2> QED  BY <2>1, <2>3
<1> QED
  BY <1>0, <1>1, <1>2, <1>3, <1>4, <1>5

LEMMA EncodedBytes ==
    ASSUME NEW v \in 0 .. Widest - 1
    PROVE  /\ EncodeVarint(v) \in Seq(Byte)
           /\ Len(EncodeVarint(v)) \in 1 .. 8
<1>0. Q \in Nat \ {0} /\ B = 4 * Q /\ Byte = 0 .. B - 1
  BY QAssumption DEF B, Byte
<1>1. \A p \in 0 .. Q - 1, i \in 0 .. 3 : p + i * Q \in Byte
  <2> TAKE p \in 0 .. Q - 1, i \in 0 .. 3
  <2>1. i = 0 \/ i = 1 \/ i = 2 \/ i = 3
    OBVIOUS
  <2> QED  BY <1>0, <2>1
<1>2. Q \in Nat \ {0} /\ (v < Q => v \in Byte)
  BY <1>0
<1>3. \A p \in 0 .. Q - 1 : p + 1 * Q \in Byte /\ p + 2 * Q \in Byte /\ p + 3 * Q \in Byte
  BY <1>1
<1>4. v < Q => <<v>> \in Seq(Byte)
  BY <1>2
<1>5. \A p \in 0 .. Q - 1, q \in Byte : <<p + 1 * Q, q>> \in Seq(Byte)
  BY <1>3
<1>6. \A p \in 0 .. Q - 1, q, r, s \in Byte : <<p + 2 * Q, q, r, s>> \in Seq(Byte)
  BY <1>3
<1>7. \A p \in 0 .. Q - 1, q, r, s, t, u, w, x \in Byte :
         <<p + 3 * Q, q, r, s, t, u, w, x>> \in Seq(Byte)
  BY <1>3
<1>8. /\ \A a : Len(<<a>>) = 1
      /\ \A a, b : Len(<<a, b>>) = 2
      /\ \A a, b, c, d : Len(<<a, b, c, d>>) = 4
      /\ \A a, b, c, d, e, f, g, h : Len(<<a, b, c, d, e, f, g, h>>) = 8
  OBVIOUS
<1>9. CASE v < Q /\ EncodeVarint(v) = <<v>>
  BY <1>4, <1>9
<1>10. CASE \E p \in 0 .. Q - 1, q \in Byte : EncodeVarint(v) = <<p + 1 * Q, q>>
  BY <1>5, <1>8, <1>10
<1>11. CASE \E p \in 0 .. Q - 1, q, r, s \in Byte :
                EncodeVarint(v) = <<p + 2 * Q, q, r, s>>
  BY <1>6, <1>8, <1>11
<1>12. CASE \E p \in 0 .. Q - 1, q, r, s, t, u, w, x \in Byte :
                EncodeVarint(v) = <<p + 3 * Q, q, r, s, t, u, w, x>>
  BY <1>7, <1>8, <1>12
<1> QED
  BY <1>9, <1>10, <1>11, <1>12, Layouts

\* The decoder's branch for each announced width.
LEMMA DecodeBy ==
    ASSUME NEW d \in Seq(Byte), NEW o \in Nat, o < Len(d),
           o + Width(d[o + 1]) <= Len(d)
    PROVE  /\ Width(d[o + 1]) = 1 => DecodeVarint(d, o) = Number(d[o + 1], o + 1)
           /\ Width(d[o + 1]) = 2 => DecodeVarint(d, o)
                = Number(Number2(d[o + 1] - Q, d, o + 2), o + 2)
           /\ Width(d[o + 1]) = 4 => DecodeVarint(d, o)
                = Number(Number4(d[o + 1] - 2 * Q, d, o + 2), o + 4)
           /\ Width(d[o + 1]) = 8 => DecodeVarint(d, o)
                = Number(Number8(d[o + 1] - 3 * Q, d, o + 2), o + 8)
<1> DEFINE w == Width(d[o + 1])
           n == CASE w = 1 -> d[o + 1]
                  [] w = 2 -> Number2(d[o + 1] - Q, d, o + 2)
                  [] w = 4 -> Number4(d[o + 1] - 2 * Q, d, o + 2)
                  [] w = 8 -> Number8(d[o + 1] - 3 * Q, d, o + 2)
<1>1. DecodeVarint(d, o) = Number(n, o + w)
  <2>1. Len(d) \in Nat /\ ~(o >= Len(d))
    OBVIOUS
  <2>2. w \in {1, 2, 4, 8}
    BY DEF Width
  <2>3. ~(o + w > Len(d))
    BY <2>1, <2>2
  <2> HIDE DEF n
  <2>4. DecodeVarint(d, o) = IF o >= Len(d) THEN Refused
                             ELSE IF o + w > Len(d) THEN Refused
                             ELSE Number(n, o + w)
    BY DEF DecodeVarint, n
  <2> QED  BY <2>1, <2>3, <2>4
<1> HIDE DEF w
<1>2. /\ w = 1 => n = d[o + 1]
      /\ w = 2 => n = Number2(d[o + 1] - Q, d, o + 2)
      /\ w = 4 => n = Number4(d[o + 1] - 2 * Q, d, o + 2)
      /\ w = 8 => n = Number8(d[o + 1] - 3 * Q, d, o + 2)
  OBVIOUS
<1> HIDE DEF n
<1> QED
  BY <1>1, <1>2 DEF w

LEMMA Offsets ==
    ASSUME NEW o \in Nat
    PROVE  /\ (o + 2) + 1 = o + 3 /\ (o + 2) + 2 = o + 4
           /\ (o + 2) + 3 = o + 5 /\ (o + 2) + 4 = o + 6
           /\ (o + 6) + 1 = o + 7 /\ (o + 6) + 2 = o + 8
           /\ \A w \in Nat \ {0}, n \in Nat : o + w <= n => o < n
OBVIOUS

\* Wherever the bytes of a number stand, the decoder finds that number and
\* goes on behind it.
LEMMA Decodes ==
    ASSUME NEW d \in Seq(Byte), NEW o \in Nat, NEW v \in 0 .. Widest - 1,
           Holds(d, o, EncodeVarint(v))
    PROVE  DecodeVarint(d, o) = Number(v, o + Len(EncodeVarint(v)))
<1>0. /\ Q \in Nat \ {0} /\ v \in Nat
      /\ \A q \in Byte : q \in Nat
      /\ Len(d) \in Nat
  BY QAssumption, BNat DEF Byte
<1>1. ASSUME NEW p \in 0 .. Q - 1
      PROVE  /\ Width(p) = 1 /\ Width(p + 1 * Q) = 2
             /\ Width(p + 2 * Q) = 4 /\ Width(p + 3 * Q) = 8
             /\ (p + 1 * Q) - Q = p /\ (p + 2 * Q) - 2 * Q = p
             /\ (p + 3 * Q) - 3 * Q = p
  BY <1>0 DEF Width
<1>2. CASE v < Q /\ EncodeVarint(v) = <<v>>
  <2>1. o + 1 <= Len(d) /\ d[o + 1] = v
    BY <1>2 DEF Holds
  <2>2. Width(v) = 1
    BY <1>0, <1>1, <1>2
  <2>3. o < Len(d) /\ o + Width(d[o + 1]) <= Len(d) /\ Width(d[o + 1]) = 1
    BY <1>0, <2>1, <2>2
  <2>4. DecodeVarint(d, o) = Number(d[o + 1], o + 1)
    BY <2>3, DecodeBy
  <2>5. Len(EncodeVarint(v)) = 1
    BY <1>2
  <2> QED  BY <2>1, <2>4, <2>5
<1>3. CASE \E p \in 0 .. Q - 1, q \in Byte :
                /\ EncodeVarint(v) = <<p + 1 * Q, q>>
                /\ p * B + q = v
  <2>1. PICK p \in 0 .. Q - 1, q \in Byte :
                /\ EncodeVarint(v) = <<p + 1 * Q, q>>
                /\ p * B + q = v
    BY <1>3
  <2>2. /\ o + 2 <= Len(d) /\ d[o + 1] = p + 1 * Q /\ d[o + 2] = q
        /\ Len(EncodeVarint(v)) = 2
    BY <2>1 DEF Holds
  <2>3. Width(d[o + 1]) = 2 /\ d[o + 1] - Q = p
    BY <1>1, <2>2
  <2>4. Number2(p, d, o + 2) = v
    BY <2>1, <2>2 DEF Number2
  <2>5. o < Len(d) /\ o + Width(d[o + 1]) <= Len(d)
    <3>1. o + 2 <= Len(d)
      BY <2>2
    <3>2. o < Len(d)
      BY <1>0, <3>1, Offsets
    <3> QED  BY <2>3, <3>1, <3>2
  <2>6. DecodeVarint(d, o) = Number(Number2(d[o + 1] - Q, d, o + 2), o + 2)
    BY <2>3, <2>5, DecodeBy
  <2> QED  BY <2>2, <2>3, <2>4, <2>6
<1>4. CASE \E p \in 0 .. Q - 1, q \in Byte, r \in Byte, s \in Byte :
                /\ EncodeVarint(v) = <<p + 2 * Q, q, r, s>>
                /\ (p * B + q) * (B * B) + (r * B + s) = v
  <2>1. PICK p \in 0 .. Q - 1, q \in Byte, r \in Byte, s \in Byte :
                /\ EncodeVarint(v) = <<p + 2 * Q, q, r, s>>
                /\ (p * B + q) * (B * B) + (r * B + s) = v
    BY <1>4
  <2>2. /\ o + 4 <= Len(d) /\ d[o + 1] = p + 2 * Q
        /\ d[o + 2] = q /\ d[o + 3] = r /\ d[o + 4] = s
        /\ Len(EncodeVarint(v)) = 4
    BY <2>1 DEF Holds
  <2>3. Width(d[o + 1]) = 4 /\ d[o + 1] - 2 * Q = p
    BY <1>1, <2>2
  <2>4. Number4(p, d, o + 2) = v
    <3>1. (o + 2) + 1 = o + 3 /\ (o + 2) + 2 = o + 4
      BY <1>0
    <3> QED  BY <2>1, <2>2, <3>1 DEF Number4, Number2
  <2>5. o < Len(d) /\ o + Width(d[o + 1]) <= Len(d)
    <3>1. o + 4 <= Len(d)
      BY <2>2
    <3>2. o < Len(d)
      BY <1>0, <3>1, Offsets
    <3> QED  BY <2>3, <3>1, <3>2
  <2>6. DecodeVarint(d, o) = Number(Number4(d[o + 1] - 2 * Q, d, o + 2), o + 4)
    BY <2>3, <2>5, DecodeBy
  <2> QED  BY <2>2, <2>3, <2>4, <2>6
<1>5. CASE \E p \in 0 .. Q - 1, q \in Byte, r \in Byte, s \in Byte,
                 t \in Byte, u \in Byte, w \in Byte, x \in Byte :
                /\ EncodeVarint(v) = <<p + 3 * Q, q, r, s, t, u, w, x>>
                /\ ((p * B + q) * (B * B) + (r * B + s)) * (B * B * B * B)
                     + ((t * B + u) * (B * B) + (w * B + x)) = v
  <2>1. PICK p \in 0 .. Q - 1, q \in Byte, r \in Byte, s \in Byte,
                 t \in Byte, u \in Byte, w \in Byte, x \in Byte :
                /\ EncodeVarint(v) = <<p + 3 * Q, q, r, s, t, u, w, x>>
                /\ ((p * B + q) * (B * B) + (r * B + s)) * (B * B * B * B)
                     + ((t * B + u) * (B * B) + (w * B + x)) = v
    BY <1>5
  <2>2. /\ o + 8 <= Len(d) /\ d[o + 1] = p + 3 * Q
        /\ d[o + 2] = q /\ d[o + 3] = r /\ d[o + 4] = s
        /\ d[o + 5] = t /\ d[o + 6] = u /\ d[o + 7] = w /\ d[o + 8] = x
        /\ Len(EncodeVarint(v)) = 8
    <3> DEFINE e == <<p + 3 * Q, q, r, s, t, u, w, x>>
    <3>1. Len(e) = 8 /\ EncodeVarint(v) = e
      BY <2>1
    <3>2. /\ e[1] = p + 3 * Q /\ e[2] = q /\ e[3] = r /\ e[4] = s
          /\ e[5] = t /\ e[6] = u /\ e[7] = w /\ e[8] = x
      OBVIOUS
    <3> HIDE DEF e
    <3>3. o + 8 <= Len(d) /\ \A k \in 1 .. 8 : d[o + k] = e[k]
      BY <3>1 DEF Holds
    <3>4. /\ d[o + 1] = e[1] /\ d[o + 2] = e[2] /\ d[o + 3] = e[3]
          /\ d[o + 4] = e[4] /\ d[o + 5] = e[5] /\ d[o + 6] = e[6]
          /\ d[o + 7] = e[7] /\ d[o + 8] = e[8]
      BY <3>3
    <3> QED  BY <3>1, <3>2, <3>3, <3>4
  <2>3. Width(d[o + 1]) = 8 /\ d[o + 1] - 3 * Q = p
    BY <1>1, <2>2
  <2>4. Number8(p, d, o + 2) = v
    <3>1. /\ (o + 2) + 1 = o + 3 /\ (o + 2) + 2 = o + 4
          /\ (o + 2) + 3 = o + 5 /\ (o + 2) + 4 = o + 6
          /\ (o + 6) + 1 = o + 7 /\ (o + 6) + 2 = o + 8
      BY Offsets
    <3>2. Number4(p, d, o + 2) = (p * B + q) * (B * B) + (r * B + s)
      BY <2>2, <3>1 DEF Number4, Number2
    <3>3. Number4(t, d, o + 6) = (t * B + u) * (B * B) + (w * B + x)
      BY <2>2, <3>1 DEF Number4, Number2
    <3> QED  BY <2>1, <2>2, <3>1, <3>2, <3>3 DEF Number8
  <2>5. o < Len(d) /\ o + Width(d[o + 1]) <= Len(d)
    <3>1. o + 8 <= Len(d)
      BY <2>2
    <3>2. o < Len(d)
      BY <1>0, <3>1, Offsets
    <3> QED  BY <2>3, <3>1, <3>2
  <2>6. DecodeVarint(d, o) = Number(Number8(d[o + 1] - 3 * Q, d, o + 2), o + 8)
    BY <2>3, <2>5, DecodeBy
  <2> QED  BY <2>2, <2>3, <2>4, <2>6
<1> QED
  BY <1>2, <1>3, <1>4, <1>5, Layouts

\* A number between any two texts is read back, and nothing else of the text
\* is taken for it.
THEOREM VarintRoundTrip ==
    ASSUME NEW v \in 0 .. Widest - 1, NEW pre \in Seq(Byte), NEW post \in Seq(Byte)
    PROVE  DecodeVarint(pre \o EncodeVarint(v) \o post, Len(pre))
             = Number(v, Len(pre) + Len(EncodeVarint(v)))
<1> DEFINE e == EncodeVarint(v)
           d == pre \o e \o post
<1>1. e \in Seq(Byte)
  BY EncodedBytes
<1> HIDE DEF e
<1>2. pre \o e \in Seq(Byte) /\ d \in Seq(Byte) /\ Len(pre) \in Nat
  BY <1>1, ConcatProperties
<1>3. Holds(d, Len(pre), e)
  <2>1. Len(pre \o e) = Len(pre) + Len(e) /\ Len(d) = Len(pre) + Len(e) + Len(post)
    BY <1>1, <1>2, ConcatProperties
  <2>2. \A k \in 1 .. Len(e) : (pre \o e)[Len(pre) + k] = e[k]
    BY <1>1, ConcatProperties
  <2>3. \A k \in 1 .. Len(pre) + Len(e) : d[k] = (pre \o e)[k]
    BY <1>1, <1>2, <2>1, ConcatProperties
  <2> HIDE DEF d
  <2>4. \A k \in 1 .. Len(e) : Len(pre) + k \in 1 .. Len(pre) + Len(e)
    BY <1>1, <1>2
  <2>5. Len(e) \in Nat /\ Len(post) \in Nat
    BY <1>1
  <2>6. \A k \in 1 .. Len(e) : d[Len(pre) + k] = e[k]
    <3> TAKE k \in 1 .. Len(e)
    <3>1. d[Len(pre) + k] = (pre \o e)[Len(pre) + k]
      BY <2>3, <2>4
    <3>2. (pre \o e)[Len(pre) + k] = e[k]
      BY <2>2
    <3> QED  BY <3>1, <3>2
  <2>7. Len(pre) + Len(e) <= Len(d)
    BY <1>2, <2>1, <2>5
  <2> QED  BY <2>6, <2>7 DEF Holds
<1> QED
  BY <1>2, <1>3, Decodes DEF e

----------------------------------------------------------------------------
(* Reading a field. *)

Prefix(s, t) == Len(s) <= Len(t) /\ \A i \in 1 .. Len(s) : s[i] = t[i]

LEMMA NumberFields ==
    ASSUME NEW v, NEW n
    PROVE  Number(v, n).val = v /\ Number(v, n).next = n
BY DEF Number

LEMMA Number2Kept ==
    ASSUME NEW x, x \in Nat, NEW d, NEW e, NEW o, o \in Nat,
           e[o] = d[o], d[o] \in Nat
    PROVE  Number2(x, d, o) = Number2(x, e, o) /\ Number2(x, d, o) \in Nat
<1>1. B \in Nat
  BY BNat
<1>2. x * B \in Nat
  BY <1>1
<1> QED
  BY <1>2 DEF Number2

LEMMA Number4Kept ==
    ASSUME NEW x, x \in Nat, NEW d, NEW e,
           NEW o, NEW p, NEW q, o \in Nat, p = o + 1, q = o + 2,
           e[o] = d[o], d[o] \in Nat,
           e[p] = d[p], d[p] \in Nat,
           e[q] = d[q], d[q] \in Nat
    PROVE  Number4(x, d, o) = Number4(x, e, o) /\ Number4(x, d, o) \in Nat
<1>1. B * B \in Nat /\ q \in Nat
  BY BNat
<1>2. Number2(x, d, o) = Number2(x, e, o) /\ Number2(x, d, o) \in Nat
  BY Number2Kept
<1> DEFINE y == d[p]
<1>3. y \in Nat /\ e[p] = y
  OBVIOUS
<1> HIDE DEF y
<1>4. Number2(y, d, q) = Number2(y, e, q) /\ Number2(y, d, q) \in Nat
  <2>1. y * B \in Nat
    BY <1>3, BNat
  <2>2. Number2(y, d, q) = y * B + d[q] /\ Number2(y, e, q) = y * B + e[q]
    BY DEF Number2
  <2> QED  BY <2>1, <2>2
<1>5. Number2(x, d, o) * (B * B) \in Nat
  BY <1>1, <1>2
<1>6. /\ Number4(x, d, o) = Number2(x, d, o) * (B * B) + Number2(y, d, q)
      /\ Number4(x, e, o) = Number2(x, e, o) * (B * B) + Number2(y, e, q)
  BY <1>3 DEF Number4, y
<1> QED
  BY <1>2, <1>4, <1>5, <1>6

\* What a number says does not depend on what comes behind it, and the
\* decoder ends within the payload, further on than it began.
LEMMA VarintKept ==
    ASSUME NEW d \in Seq(Byte), NEW e \in Seq(Byte), Prefix(d, e),
           NEW o \in Nat, DecodeVarint(d, o).ok
    PROVE  /\ DecodeVarint(e, o) = DecodeVarint(d, o)
           /\ DecodeVarint(d, o).val \in Nat
           /\ DecodeVarint(d, o).next \in Nat
           /\ DecodeVarint(d, o).next > o
           /\ DecodeVarint(d, o).next <= Len(d)
<1> DEFINE w == Width(d[o + 1])
<1>0. /\ Len(d) \in Nat /\ Len(e) \in Nat /\ Len(d) <= Len(e)
      /\ \A i \in 1 .. Len(d) : d[i] = e[i] /\ d[i] \in Nat
  BY BNat DEF Prefix, Byte
<1>1. w \in {1, 2, 4, 8}
  BY DEF Width
<1>2. o < Len(d) /\ o + w <= Len(d)
  <2> DEFINE n == CASE w = 1 -> d[o + 1]
                    [] w = 2 -> Number2(d[o + 1] - Q, d, o + 2)
                    [] w = 4 -> Number4(d[o + 1] - 2 * Q, d, o + 2)
                    [] w = 8 -> Number8(d[o + 1] - 3 * Q, d, o + 2)
  <2>1. DecodeVarint(d, o) = IF o >= Len(d) THEN Refused
                             ELSE IF o + w > Len(d) THEN Refused
                             ELSE Number(n, o + w)
    BY DEF DecodeVarint
  <2> HIDE DEF n, w
  <2>2. ~(o >= Len(d)) /\ ~(o + w > Len(d))
    BY <2>1 DEF Refused
  <2> QED  BY <1>0, <1>1, <2>2
<1>3. \A k \in 1 .. w : e[o + k] = d[o + k] /\ d[o + k] \in Nat
  <2> HIDE DEF w
  <2>1. \A k \in 1 .. w : o + k \in 1 .. Len(d)
    BY <1>0, <1>1, <1>2
  <2> QED  BY <1>0, <2>1
<1>4. o < Len(e) /\ o + w <= Len(e) /\ Width(e[o + 1]) = w /\ 1 \in 1 .. w
  <2>1. 1 \in 1 .. w
    BY <1>1
  <2> QED  BY <1>0, <1>1, <1>2, <1>3, <2>1
<1>5. /\ Q \in Nat /\ B \in Nat
      /\ w = 2 => d[o + 1] >= Q
      /\ w = 4 => d[o + 1] >= 2 * Q
      /\ w = 8 => d[o + 1] >= 3 * Q
  <2>1. Q \in Nat /\ B \in Nat /\ d[o + 1] \in Nat
    BY <1>3, <1>4, BNat, QAssumption
  <2> QED  BY <2>1 DEF Width
<1>6. CASE w = 1
  <2>1. e[o + 1] = d[o + 1] /\ d[o + 1] \in Nat
    BY <1>3, <1>4
  <2>2. DecodeVarint(d, o) = Number(d[o + 1], o + 1)
    BY <1>2, <1>6, DecodeBy
  <2>3. DecodeVarint(e, o) = Number(e[o + 1], o + 1)
    BY <1>4, <1>6, DecodeBy
  <2> QED  BY <1>2, <1>6, <2>1, <2>2, <2>3 DEF Number
<1>7. CASE w = 2
  <2>1. /\ e[o + 1] = d[o + 1] /\ d[o + 1] \in Nat
        /\ e[o + 2] = d[o + 2] /\ d[o + 2] \in Nat
    BY <1>3, <1>7
  <2>2. DecodeVarint(d, o) = Number(Number2(d[o + 1] - Q, d, o + 2), o + 2)
    BY <1>2, <1>7, DecodeBy
  <2>3. DecodeVarint(e, o) = Number(Number2(e[o + 1] - Q, e, o + 2), o + 2)
    BY <1>4, <1>7, DecodeBy
  <2>4. /\ Number2(d[o + 1] - Q, d, o + 2) = Number2(e[o + 1] - Q, e, o + 2)
        /\ Number2(d[o + 1] - Q, d, o + 2) \in Nat
    <3> DEFINE x == d[o + 1] - Q
               k == o + 2
    <3>1. /\ x \in Nat /\ k \in Nat /\ e[o + 1] - Q = x
          /\ e[k] = d[k] /\ d[k] \in Nat
      BY <1>5, <1>7, <2>1
    <3> HIDE DEF x, k
    <3>2. Number2(x, d, k) = Number2(x, e, k) /\ Number2(x, d, k) \in Nat
      BY <3>1, Number2Kept
    <3> QED  BY <3>1, <3>2 DEF x, k
  <2>6. o + 2 <= Len(d) /\ o + 2 \in Nat /\ o + 2 > o
    BY <1>2, <1>7
  <2> HIDE DEF w
  <2> QED  BY <2>2, <2>3, <2>4, <2>6, NumberFields
<1>8. CASE w = 4
  <2>1. /\ e[o + 1] = d[o + 1] /\ d[o + 1] \in Nat
        /\ e[o + 2] = d[o + 2] /\ d[o + 2] \in Nat
        /\ e[o + 3] = d[o + 3] /\ d[o + 3] \in Nat
        /\ e[o + 4] = d[o + 4] /\ d[o + 4] \in Nat
    BY <1>3, <1>8
  <2>2. DecodeVarint(d, o) = Number(Number4(d[o + 1] - 2 * Q, d, o + 2), o + 4)
    BY <1>2, <1>8, DecodeBy
  <2>3. DecodeVarint(e, o) = Number(Number4(e[o + 1] - 2 * Q, e, o + 2), o + 4)
    BY <1>4, <1>8, DecodeBy
  <2>4. /\ Number4(d[o + 1] - 2 * Q, d, o + 2) = Number4(e[o + 1] - 2 * Q, e, o + 2)
        /\ Number4(d[o + 1] - 2 * Q, d, o + 2) \in Nat
    <3>1. (o + 2) + 1 = o + 3 /\ (o + 2) + 2 = o + 4
      BY Offsets
    <3> DEFINE x == d[o + 1] - 2 * Q
               k == o + 2
               l == o + 3
               m == o + 4
    <3>2. /\ x \in Nat /\ e[o + 1] - 2 * Q = x
          /\ k \in Nat /\ l = k + 1 /\ m = k + 2
      <4>1. x \in Nat /\ e[o + 1] - 2 * Q = x
        <5>1. d[o + 1] >= 2 * Q /\ Q \in Nat
          BY <1>5, <1>8
        <5>2. d[o + 1] \in Nat /\ e[o + 1] = d[o + 1]
          BY <2>1
        <5> QED  BY <5>1, <5>2
      <4>2. k \in Nat /\ l = k + 1 /\ m = k + 2
        BY Offsets
      <4> QED  BY <4>1, <4>2
    <3>3. /\ e[k] = d[k] /\ d[k] \in Nat /\ e[l] = d[l] /\ d[l] \in Nat
          /\ e[m] = d[m] /\ d[m] \in Nat
      BY <2>1
    <3> HIDE DEF x, k, l, m
    <3>4. Number4(x, d, k) = Number4(x, e, k) /\ Number4(x, d, k) \in Nat
      BY <3>2, <3>3, Number4Kept
    <3> QED  BY <3>2, <3>4 DEF x, k
  <2>6. o + 4 <= Len(d) /\ o + 4 \in Nat /\ o + 4 > o
    BY <1>2, <1>8
  <2> HIDE DEF w
  <2> QED  BY <2>2, <2>3, <2>4, <2>6, NumberFields
<1>9. CASE w = 8
  <2>1. /\ e[o + 1] = d[o + 1] /\ d[o + 1] \in Nat
        /\ e[o + 2] = d[o + 2] /\ d[o + 2] \in Nat
        /\ e[o + 3] = d[o + 3] /\ d[o + 3] \in Nat
        /\ e[o + 4] = d[o + 4] /\ d[o + 4] \in Nat
    BY <1>3, <1>9
  <2>2. /\ e[o + 5] = d[o + 5] /\ d[o + 5] \in Nat
        /\ e[o + 6] = d[o + 6] /\ d[o + 6] \in Nat
        /\ e[o + 7] = d[o + 7] /\ d[o + 7] \in Nat
        /\ e[o + 8] = d[o + 8] /\ d[o + 8] \in Nat
    BY <1>3, <1>9
  <2>3. DecodeVarint(d, o) = Number(Number8(d[o + 1] - 3 * Q, d, o + 2), o + 8)
    BY <1>2, <1>9, DecodeBy
  <2>4. DecodeVarint(e, o) = Number(Number8(e[o + 1] - 3 * Q, e, o + 2), o + 8)
    BY <1>4, <1>9, DecodeBy
  <2>5. /\ Number8(d[o + 1] - 3 * Q, d, o + 2) = Number8(e[o + 1] - 3 * Q, e, o + 2)
        /\ Number8(d[o + 1] - 3 * Q, d, o + 2) \in Nat
    <3>1. /\ (o + 2) + 1 = o + 3 /\ (o + 2) + 2 = o + 4
          /\ (o + 2) + 3 = o + 5 /\ (o + 2) + 4 = o + 6
          /\ (o + 6) + 1 = o + 7 /\ (o + 6) + 2 = o + 8
      BY Offsets
    <3>2. /\ Number4(d[o + 1] - 3 * Q, d, o + 2) = Number4(e[o + 1] - 3 * Q, e, o + 2)
          /\ Number4(d[o + 1] - 3 * Q, d, o + 2) \in Nat
      <4> DEFINE x == d[o + 1] - 3 * Q
                 k == o + 2
                 l == o + 3
                 m == o + 4
      <4>1. /\ x \in Nat /\ e[o + 1] - 3 * Q = x
            /\ k \in Nat /\ l = k + 1 /\ m = k + 2
        <5>1. x \in Nat /\ e[o + 1] - 3 * Q = x
          <6>1. d[o + 1] >= 3 * Q /\ Q \in Nat
            BY <1>5, <1>9
          <6>2. d[o + 1] \in Nat /\ e[o + 1] = d[o + 1]
            BY <2>1
          <6> QED  BY <6>1, <6>2
        <5>2. k \in Nat /\ l = k + 1 /\ m = k + 2
          BY Offsets
        <5> QED  BY <5>1, <5>2
      <4>2. /\ e[k] = d[k] /\ d[k] \in Nat /\ e[l] = d[l] /\ d[l] \in Nat
            /\ e[m] = d[m] /\ d[m] \in Nat
        BY <2>1
      <4> HIDE DEF x, k, l, m
      <4>3. Number4(x, d, k) = Number4(x, e, k) /\ Number4(x, d, k) \in Nat
        BY <4>1, <4>2, Number4Kept
      <4> QED  BY <4>1, <4>3 DEF x, k
    <3>3. /\ Number4(d[o + 5], d, o + 6) = Number4(e[o + 5], e, o + 6)
          /\ Number4(d[o + 5], d, o + 6) \in Nat
      <4> DEFINE x == d[o + 5]
                 k == o + 6
                 l == o + 7
                 m == o + 8
      <4>1. /\ x \in Nat /\ k \in Nat /\ l = k + 1 /\ m = k + 2
        BY <2>2, <3>1
      <4>2. /\ e[k] = d[k] /\ d[k] \in Nat /\ e[l] = d[l] /\ d[l] \in Nat
            /\ e[m] = d[m] /\ d[m] \in Nat
        BY <2>2
      <4>3. e[o + 5] = x
        BY <2>2
      <4> HIDE DEF x, k, l, m
      <4>4. Number4(x, d, k) = Number4(x, e, k) /\ Number4(x, d, k) \in Nat
        BY <4>1, <4>2, Number4Kept
      <4> QED  BY <4>3, <4>4 DEF x, k
    <3>4. B * B * B * B \in Nat
      BY BNat
    <3>5. /\ Number8(d[o + 1] - 3 * Q, d, o + 2) =
               Number4(d[o + 1] - 3 * Q, d, o + 2) * (B * B * B * B)
                 + Number4(d[o + 5], d, o + 6)
          /\ Number8(e[o + 1] - 3 * Q, e, o + 2) =
               Number4(e[o + 1] - 3 * Q, e, o + 2) * (B * B * B * B)
                 + Number4(e[o + 5], e, o + 6)
      BY <3>1 DEF Number8
    <3> DEFINE k == B * B * B * B
               x == Number4(d[o + 1] - 3 * Q, d, o + 2)
               y == Number4(d[o + 5], d, o + 6)
    <3>6. k \in Nat /\ x \in Nat /\ y \in Nat
      BY <3>2, <3>3, <3>4
    <3>7. /\ Number8(d[o + 1] - 3 * Q, d, o + 2) = x * k + y
          /\ Number8(e[o + 1] - 3 * Q, e, o + 2) = x * k + y
      BY <3>2, <3>3, <3>5
    <3> HIDE DEF k, x, y
    <3>8. x * k + y \in Nat
      BY <3>6
    <3> QED  BY <3>7, <3>8
  <2>6. o + 8 <= Len(d) /\ o + 8 \in Nat /\ o + 8 > o
    BY <1>2, <1>9
  <2> HIDE DEF w
  <2> QED  BY <2>3, <2>4, <2>5, <2>6, NumberFields
<1> QED
  BY <1>1, <1>6, <1>7, <1>8, <1>9

LEMMA SubSeqKept ==
    ASSUME NEW d \in Seq(Byte), NEW e \in Seq(Byte), Prefix(d, e),
           NEW m \in Nat, NEW n \in Nat, n <= Len(d)
    PROVE  SubSeq(d, m + 1, n) = SubSeq(e, m + 1, n)
<1>1. /\ Len(d) \in Nat
      /\ \A i \in m + 1 .. n : d[i] \in Byte /\ e[i] = d[i]
  BY DEF Prefix
<1>2. m + 1 \in Int /\ n \in Int
  OBVIOUS
<1>3. /\ SubSeq(d, m + 1, n) \in Seq(Byte)
      /\ Len(SubSeq(d, m + 1, n)) = IF m + 1 <= n THEN n - (m + 1) + 1 ELSE 0
      /\ \A i \in 1 .. n - (m + 1) + 1 : SubSeq(d, m + 1, n)[i] = d[m + 1 + i - 1]
  BY <1>1, <1>2, SubSeqProperties
<1>4. /\ SubSeq(e, m + 1, n) \in Seq(Byte)
      /\ Len(SubSeq(e, m + 1, n)) = IF m + 1 <= n THEN n - (m + 1) + 1 ELSE 0
      /\ \A i \in 1 .. n - (m + 1) + 1 : SubSeq(e, m + 1, n)[i] = e[m + 1 + i - 1]
  <2>1. \A i \in m + 1 .. n : e[i] \in Byte
    BY <1>1
  <2> QED  BY <1>2, <2>1, SubSeqProperties
<1> DEFINE s == SubSeq(d, m + 1, n)
           t == SubSeq(e, m + 1, n)
<1>5. \A i \in 1 .. Len(s) : s[i] = t[i]
  <2> TAKE i \in 1 .. Len(s)
  <2>1. i \in 1 .. n - (m + 1) + 1 /\ m + 1 + i - 1 \in m + 1 .. n
    BY <1>3
  <2> QED  BY <1>1, <1>3, <1>4, <2>1
<1> HIDE DEF s, t
<1>6. s \in Seq(Byte) /\ t \in Seq(Byte) /\ Len(s) = Len(t)
  BY <1>3, <1>4 DEF s, t
<1> QED
  BY <1>5, <1>6, SeqEqual DEF s, t

\* What a field says does not depend on what comes behind it.
LEMMA TlvKept ==
    ASSUME NEW d \in Seq(Byte), NEW e \in Seq(Byte), Prefix(d, e),
           NEW o \in Nat, ReadTlv(d, o).ok
    PROVE  ReadTlv(e, o) = ReadTlv(d, o)
<1> DEFINE t == DecodeVarint(d, o)
           n == DecodeVarint(d, t.next)
<1>1. t.ok /\ n.ok /\ ~(n.val > MaxField \/ n.next + n.val > Len(d))
  BY DEF ReadTlv, Refused
<1>2. /\ DecodeVarint(e, o) = t /\ t.next \in Nat
      /\ DecodeVarint(e, t.next) = n /\ n.next \in Nat /\ n.val \in Nat
  <2>1. DecodeVarint(e, o) = t /\ t.next \in Nat
    BY <1>1, VarintKept
  <2> HIDE DEF t
  <2>2. DecodeVarint(e, t.next) = n /\ n.next \in Nat /\ n.val \in Nat
    BY <1>1, <2>1, VarintKept
  <2> QED  BY <2>1, <2>2
<1>3. Len(d) \in Nat /\ Len(e) \in Nat /\ Len(d) <= Len(e)
  BY DEF Prefix
<1>4. ~(n.next + n.val > Len(e))
  <2> HIDE DEF n
  <2> QED  BY <1>1, <1>2, <1>3
<1>5. SubSeq(d, n.next + 1, n.next + n.val) = SubSeq(e, n.next + 1, n.next + n.val)
  <2> HIDE DEF n
  <2>1. CASE n.next + n.val \in Nat
    <3> DEFINE z == n.next + n.val
               m == n.next
    <3>1. z \in Nat /\ z <= Len(d)
      BY <1>1, <1>3, <2>1
    <3>2. m \in Nat
      BY <1>2
    <3> HIDE DEF z, m
    <3>3. SubSeq(d, m + 1, z) = SubSeq(e, m + 1, z)
      BY <3>1, <3>2, SubSeqKept
    <3> QED  BY <3>3 DEF z, m
  <2>2. CASE n.next + n.val \notin Nat
    <3>1. n.next + n.val < n.next + 1 /\ n.next + 1 \in Int /\ n.next + n.val \in Int
      BY <1>2, <2>2
    <3> QED  BY <3>1, SubSeqEmpty
  <2> QED  BY <2>1, <2>2
<1> QED
  BY <1>1, <1>2, <1>4, <1>5 DEF ReadTlv

LEMMA TlvBytes ==
    ASSUME NEW f, IsField(f)
    PROVE  /\ Tlv(f) \in Seq(Byte)
           /\ EncodeVarint(f.tag) \in Seq(Byte)
           /\ EncodeVarint(Len(f.val)) \in Seq(Byte)
           /\ Len(Tlv(f)) = Len(EncodeVarint(f.tag))
                              + Len(EncodeVarint(Len(f.val))) + Len(f.val)
           /\ Len(EncodeVarint(f.tag)) \in 1 .. 8
           /\ Len(EncodeVarint(Len(f.val))) \in 1 .. 8
           /\ Len(f.val) \in 0 .. Widest - 1
<1>1. Len(f.val) \in 0 .. Widest - 1 /\ f.tag \in 0 .. Widest - 1 /\ f.val \in Seq(Byte)
  <2>1. Widest \in Int
    <3>1. Q \in Nat /\ B \in Nat
      BY BNat, QAssumption
    <3> QED  BY <3>1 DEF Widest
  <2> QED  BY <2>1 DEF IsField
<1>2. /\ EncodeVarint(f.tag) \in Seq(Byte)
      /\ EncodeVarint(Len(f.val)) \in Seq(Byte)
      /\ Len(EncodeVarint(f.tag)) \in 1 .. 8
      /\ Len(EncodeVarint(Len(f.val))) \in 1 .. 8
  BY <1>1, EncodedBytes
<1>3. /\ EncodeVarint(f.tag) \o EncodeVarint(Len(f.val)) \in Seq(Byte)
      /\ Len(EncodeVarint(f.tag) \o EncodeVarint(Len(f.val)))
           = Len(EncodeVarint(f.tag)) + Len(EncodeVarint(Len(f.val)))
  BY <1>2, ConcatProperties
<1>4. /\ Tlv(f) \in Seq(Byte)
      /\ Len(Tlv(f)) = Len(EncodeVarint(f.tag) \o EncodeVarint(Len(f.val))) + Len(f.val)
  BY <1>1, <1>3, ConcatProperties DEF Tlv
<1> QED
  BY <1>1, <1>2, <1>3, <1>4

LEMMA HoldsParts ==
    ASSUME NEW d, NEW o \in Nat, NEW s \in Seq(Byte), NEW t \in Seq(Byte),
           Len(d) \in Nat, Holds(d, o, s \o t)
    PROVE  Holds(d, o, s) /\ Holds(d, o + Len(s), t)
<1>1. /\ Len(s \o t) = Len(s) + Len(t) /\ Len(s) \in Nat /\ Len(t) \in Nat
      /\ \A i \in 1 .. Len(s) + Len(t) :
           (s \o t)[i] = IF i <= Len(s) THEN s[i] ELSE t[i - Len(s)]
  BY ConcatProperties
<1>2. \A k \in 1 .. Len(s) : d[o + k] = s[k]
  <2> TAKE k \in 1 .. Len(s)
  <2>1. k \in 1 .. Len(s \o t) /\ (s \o t)[k] = s[k]
    BY <1>1
  <2> QED  BY <2>1 DEF Holds
<1>3. \A k \in 1 .. Len(t) : d[(o + Len(s)) + k] = t[k]
  <2> TAKE k \in 1 .. Len(t)
  <2>1. /\ Len(s) + k \in 1 .. Len(s \o t) /\ (s \o t)[Len(s) + k] = t[k]
        /\ (o + Len(s)) + k = o + (Len(s) + k)
    BY <1>1
  <2> QED  BY <2>1 DEF Holds
<1>4. o + Len(s) <= Len(d) /\ (o + Len(s)) + Len(t) <= Len(d)
  BY <1>1 DEF Holds
<1> QED
  BY <1>2, <1>3, <1>4 DEF Holds

\* Where a field was written, the reader takes that field and goes on behind
\* it, or refuses it for its length.
LEMMA TlvRead ==
    ASSUME NEW d \in Seq(Byte), NEW o \in Nat, NEW f, IsField(f),
           Holds(d, o, Tlv(f)), ReadTlv(d, o).ok
    PROVE  /\ ReadTlv(d, o).field = f
           /\ ReadTlv(d, o).next = o + Len(Tlv(f))
<1> DEFINE a == EncodeVarint(f.tag)
           b == EncodeVarint(Len(f.val))
           v == f.val
<1>1. /\ a \in Seq(Byte) /\ b \in Seq(Byte) /\ v \in Seq(Byte)
      /\ Len(a) \in Nat /\ Len(b) \in Nat /\ Len(v) \in Nat
      /\ Len(Tlv(f)) = Len(a) + Len(b) + Len(v)
      /\ f.tag \in 0 .. Widest - 1 /\ Len(f.val) \in 0 .. Widest - 1
      /\ a \o b \in Seq(Byte) /\ Len(a \o b) = Len(a) + Len(b)
  <2>1. /\ a \in Seq(Byte) /\ b \in Seq(Byte) /\ v \in Seq(Byte)
        /\ Len(Tlv(f)) = Len(a) + Len(b) + Len(v)
        /\ f.tag \in 0 .. Widest - 1 /\ Len(f.val) \in 0 .. Widest - 1
    BY TlvBytes DEF IsField
  <2> HIDE DEF a, b
  <2>2. a \o b \in Seq(Byte) /\ Len(a \o b) = Len(a) + Len(b)
    BY <2>1, ConcatProperties
  <2> QED  BY <2>1, <2>2
<1>2. Len(d) \in Nat /\ o + Len(a) \in Nat /\ o + Len(a \o b) = (o + Len(a)) + Len(b)
      /\ (o + Len(a)) + Len(b) \in Nat
  <2> HIDE DEF a, b
  <2> QED  BY <1>1
<1>3. Holds(d, o, a) /\ Holds(d, o + Len(a), b) /\ Holds(d, (o + Len(a)) + Len(b), v)
  <2>1. Holds(d, o, (a \o b) \o v)
    BY DEF Tlv
  <2> HIDE DEF a, b, v
  <2>2. Holds(d, o, a \o b) /\ Holds(d, o + Len(a \o b), v)
    BY <1>1, <1>2, <2>1, HoldsParts
  <2>3. Holds(d, o, a) /\ Holds(d, o + Len(a), b)
    BY <1>1, <1>2, <2>2, HoldsParts
  <2> QED  BY <1>2, <2>2, <2>3
<1>4. /\ DecodeVarint(d, o) = Number(f.tag, o + Len(a))
      /\ DecodeVarint(d, o + Len(a)) = Number(Len(v), (o + Len(a)) + Len(b))
  <2>1. f.tag \in 0 .. Widest - 1 /\ Len(v) \in 0 .. Widest - 1 /\ o + Len(a) \in Nat
    BY <1>1, <1>2
  <2>2. DecodeVarint(d, o) = Number(f.tag, o + Len(a))
    BY <1>3, <2>1, Decodes
  <2> DEFINE p == o + Len(a)
             n == Len(v)
  <2>3. Holds(d, p, EncodeVarint(n)) /\ p \in Nat /\ n \in 0 .. Widest - 1
    BY <1>3, <2>1
  <2> HIDE DEF p, n
  <2>4. DecodeVarint(d, p) = Number(n, p + Len(EncodeVarint(n)))
    BY <2>3, Decodes
  <2> QED  BY <2>2, <2>4 DEF p, n
<1> DEFINE m == (o + Len(a)) + Len(b)
<1>5. SubSeq(d, m + 1, m + Len(v)) = v
  <2> HIDE DEF a, b, v
  <2>1. m \in Nat /\ m + Len(v) <= Len(d) /\ \A k \in 1 .. Len(v) : d[m + k] = v[k]
    BY <1>2, <1>3 DEF Holds
  <2> HIDE DEF m
  <2>2. \A i \in m + 1 .. m + Len(v) : d[i] \in Byte
    <3> TAKE i \in m + 1 .. m + Len(v)
    <3>1. m \in Nat /\ Len(v) \in Nat /\ Len(d) \in Nat /\ m + Len(v) <= Len(d)
      BY <1>1, <1>2, <2>1
    <3>2. i \in 1 .. Len(d)
      BY <3>1
    <3> QED  BY <3>2, ElementOfSeq
  <2>3. m + 1 \in Int /\ m + Len(v) \in Int
    BY <1>1, <2>1
  <2> DEFINE z == m + Len(v)
             w == SubSeq(d, m + 1, z)
  <2>4. z = m + Len(v) /\ z \in Int /\ m + 1 \in Int /\ \A i \in m + 1 .. z : d[i] \in Byte
    BY <2>2, <2>3
  <2> HIDE DEF z
  <2>5. /\ w \in Seq(Byte)
        /\ Len(w) = IF m + 1 <= z THEN z - (m + 1) + 1 ELSE 0
        /\ \A i \in 1 .. z - (m + 1) + 1 : w[i] = d[m + 1 + i - 1]
    BY <2>4, SubSeqProperties
  <2> HIDE DEF w
  <2>6. Len(w) = Len(v)
    <3>1. z = m + Len(v) /\ m \in Nat /\ Len(v) \in Nat
      BY <1>1, <2>1, <2>4
    <3>2. Len(w) = IF m + 1 <= z THEN z - (m + 1) + 1 ELSE 0
      BY <2>5
    <3> QED  BY <3>1, <3>2
  <2>7. \A i \in 1 .. Len(v) : w[i] = v[i]
    <3> TAKE i \in 1 .. Len(v)
    <3>1. z = m + Len(v) /\ m \in Nat /\ Len(v) \in Nat /\ i \in Nat
      BY <1>1, <2>1, <2>4
    <3>2. i <= Len(v) /\ i >= 1
      BY <3>1
    <3>3. i \in 1 .. z - (m + 1) + 1 /\ m + 1 + i - 1 = m + i
      BY <3>1, <3>2
    <3> QED  BY <2>1, <2>5, <3>3
  <2>8. w = v
    BY <1>1, <2>5, <2>6, <2>7, SeqEqual
  <2> QED  BY <2>8 DEF w, z
<1>6. ReadTlv(d, o) = [ok |-> TRUE, next |-> m + Len(v), field |-> Field(f.tag, v)]
  <2> HIDE DEF a, b, v, m
  <2>1. m = (o + Len(a)) + Len(b)
    BY DEF m
  <2>2. DecodeVarint(d, o).next = o + Len(a) /\ DecodeVarint(d, o).val = f.tag
    BY <1>4, NumberFields
  <2>3. /\ DecodeVarint(d, DecodeVarint(d, o).next).next = m
        /\ DecodeVarint(d, DecodeVarint(d, o).next).val = Len(v)
    BY <1>4, <2>1, <2>2, NumberFields
  <2> QED  BY <1>5, <2>2, <2>3 DEF ReadTlv, Refused
<1>7. m + Len(v) = o + Len(Tlv(f)) /\ Field(f.tag, v) = f
  <2>1. Field(f.tag, v) = f
    BY DEF IsField
  <2> HIDE DEF a, b, v
  <2> QED  BY <1>1, <2>1
<1> HIDE DEF a, b, v, m
<1> QED
  BY <1>6, <1>7

----------------------------------------------------------------------------
(* Writing and reading a payload. *)

\* A reader that does not refuse gets further on, and stays in the payload.
LEMMA TlvMovesOn ==
    ASSUME NEW d \in Seq(Byte), NEW o \in Nat, ReadTlv(d, o).ok
    PROVE  /\ ReadTlv(d, o).next \in Nat
           /\ ReadTlv(d, o).next > o
           /\ ReadTlv(d, o).next <= Len(d)
<1> DEFINE t == DecodeVarint(d, o)
           n == DecodeVarint(d, t.next)
<1>1. t.ok /\ n.ok /\ ~(n.val > MaxField \/ n.next + n.val > Len(d))
  BY DEF ReadTlv, Refused
<1>2. Prefix(d, d)
  BY DEF Prefix
<1>3. t.next \in Nat /\ t.next > o
  BY <1>1, <1>2, VarintKept
<1>4. n.next \in Nat /\ n.next > t.next /\ n.val \in Nat
  <2> HIDE DEF t
  <2> QED  BY <1>1, <1>2, <1>3, VarintKept
<1>5. ReadTlv(d, o).next = n.next + n.val
  BY <1>1 DEF ReadTlv
<1> HIDE DEF t, n
<1> QED
  BY <1>1, <1>3, <1>4, <1>5

\* Base64: n bytes become UriChars(n) characters and these n bytes again; a
\* part of the characters never becomes more.
LEMMA Base64 ==
    ASSUME NEW n \in Nat
    PROVE  /\ UriChars(n) \in Nat
           /\ (3 * UriChars(n)) \div 4 = n
           /\ \A c \in 0 .. UriChars(n) : (3 * c) \div 4 \in 0 .. n
<1> DEFINE u == UriChars(n)
<1>1. 3 * u <= 4 * n + 2 /\ 4 * n + 2 <= 3 * u + 2 /\ u \in Nat
  BY DEF UriChars
<1> HIDE DEF u
<1>2. (3 * u) \div 4 = n
  BY <1>1
<1>3. \A c \in 0 .. u : (3 * c) \div 4 \in 0 .. n
  BY <1>1
<1> QED
  BY <1>1, <1>2, <1>3 DEF u

\* Where the i-th field ends.
EndOf(e, i) == IF i = 0 THEN 0 ELSE e[i]

\* The payload so far is made of the fields, one behind the other.
Written ==
    /\ buf \in Seq(Byte) /\ ends \in Seq(Nat)
    /\ fields # <<>> =>
         /\ fields \in Seq([tag : Nat, val : Seq(Byte)])
         /\ \A i \in 1 .. Len(fields) : IsField(fields[i])
         /\ Len(ends) <= Len(fields)
         /\ EndOf(ends, Len(ends)) = Len(buf)
         /\ \A i \in 1 .. Len(ends) :
              /\ Holds(buf, EndOf(ends, i - 1), Tlv(fields[i]))
              /\ EndOf(ends, i) = EndOf(ends, i - 1) + Len(Tlv(fields[i]))
         /\ stage \notin {"write", "no link"} => Len(ends) = Len(fields)

\* The reader stands behind the field it read last.
Reading ==
    /\ chars \in 0 .. UriChars(Len(buf))
    /\ stage \in {"no link", "write", "sent"} => off = 0 /\ entries = <<>> /\ chars = 0
    /\ stage = "parse" => off \in Nat
    /\ fields # <<>> =>
         /\ Len(entries) \in 0 .. Len(fields)
         /\ entries = SubSeq(fields, 1, Len(entries))
         /\ stage = "parse" => off = EndOf(ends, Len(entries))
         /\ Whole /\ stage \in {"apply", "split", "done"}
              => Len(entries) = Len(fields)

IInv == Written /\ Reading

LEMMA DataIsPrefix ==
    ASSUME buf \in Seq(Byte), chars \in 0 .. UriChars(Len(buf))
    PROVE  /\ Data \in Seq(Byte) /\ Prefix(Data, buf)
           /\ Whole => Data = buf
<1> DEFINE n == Len(buf)
           k == (3 * chars) \div 4
<1>1. n \in Nat /\ k \in 0 .. n /\ (Whole => k = n)
  <2>1. n \in Nat
    OBVIOUS
  <2> HIDE DEF n
  <2>2. (3 * UriChars(n)) \div 4 = n /\ \A c \in 0 .. UriChars(n) : (3 * c) \div 4 \in 0 .. n
    BY <2>1, Base64
  <2> QED  BY <2>1, <2>2 DEF Whole, n
<1>2. Data = SubSeq(buf, 1, k)
  BY DEF Data, Copied
<1>3. \A i \in 1 .. k : buf[i] \in Byte
  BY <1>1
<1> HIDE DEF k
<1>4. /\ SubSeq(buf, 1, k) \in Seq(Byte)
      /\ Len(SubSeq(buf, 1, k)) = IF 1 <= k THEN k - 1 + 1 ELSE 0
      /\ \A i \in 1 .. k - 1 + 1 : SubSeq(buf, 1, k)[i] = buf[1 + i - 1]
  BY <1>1, <1>3, SubSeqProperties
<1>5. Len(Data) = k /\ \A i \in 1 .. k : Data[i] = buf[i]
  BY <1>1, <1>2, <1>4
<1>6. Whole => Data = buf
  BY <1>1, <1>2, SubSeqFull
<1> QED
  BY <1>1, <1>2, <1>4, <1>5, <1>6 DEF Prefix

LEMMA InitIInv == Init => IInv
<1> SUFFICES ASSUME Init PROVE IInv
  OBVIOUS
<1>1. /\ ends = <<>> /\ chars = 0 /\ off = 0 /\ entries = <<>>
      /\ stage \in {"no link", "write", "sent"}
      /\ buf \in Seq(Byte)
      /\ fields # <<>> =>
           /\ buf = <<>> /\ stage = "write"
           /\ fields \in Seq([tag : Nat, val : Seq(Byte)])
           /\ \A i \in DOMAIN fields : IsField(fields[i])
  <2>1. ends = <<>> /\ chars = 0 /\ off = 0 /\ entries = <<>>
    BY DEF Init, Fresh
  <2>2. CASE /\ srv \in Servers /\ ask \in Asks /\ buf = <<>>
             /\ IF Exportable(srv, ask)
                THEN fields = ExportedFields(srv, ask) /\ stage = "write"
                ELSE fields = <<>> /\ stage = "no link"
    <3>1. buf \in Seq(Byte)
      BY <2>2, EmptySeq
    <3> QED  BY <2>1, <2>2, <3>1, FieldsAssumption
  <2>3. CASE fields \in Others /\ buf = <<>> /\ stage = "write"
    <3>1. buf \in Seq(Byte)
      BY <2>3, EmptySeq
    <3> QED  BY <2>1, <2>3, <3>1, FieldsAssumption
  <2>4. CASE fields = <<>> /\ buf \in Raw /\ stage = "sent"
    <3>1. buf \in Seq(Byte)
      BY <2>4, FieldsAssumption
    <3> QED  BY <2>1, <2>4, <3>1
  <2> QED  BY <2>2, <2>3, <2>4 DEF Init
<1>2. fields # <<>> => /\ fields \in Seq([tag : Nat, val : Seq(Byte)])
                      /\ \A i \in 1 .. Len(fields) : IsField(fields[i])
  BY <1>1
<1>3. ends \in Seq(Nat) /\ Len(ends) = 0 /\ Len(entries) = 0
  <2>1. ends = <<>> /\ entries = <<>>
    BY <1>1
  <2> QED  BY <2>1, EmptySeq
<1>4. fields # <<>> => Len(fields) \in Nat /\ entries = SubSeq(fields, 1, 0)
  BY <1>1, <1>2, SubSeqEmpty
<1>5. Written
  <2>1. CASE fields = <<>>
    BY <1>1, <1>3, <2>1 DEF Written
  <2>2. CASE fields # <<>>
    <3>1. buf = <<>> /\ stage = "write" /\ Len(buf) = 0
      BY <1>1, <2>2, EmptySeq
    <3>2. Len(ends) <= Len(fields) /\ EndOf(ends, Len(ends)) = Len(buf)
      BY <1>3, <1>4, <2>2, <3>1 DEF EndOf
    <3> QED  BY <1>1, <1>2, <1>3, <2>2, <3>1, <3>2 DEF Written
  <2> QED  BY <2>1, <2>2
<1>6. UriChars(Len(buf)) \in Nat
  <2>1. buf \in Seq(Byte)
    BY <1>1
  <2>2. Len(buf) \in Nat
    BY <2>1
  <2> QED  BY <2>2, Base64
<1>7. Reading
  <2>1. chars \in 0 .. UriChars(Len(buf))
    <3>1. chars = 0
      BY <1>1
    <3> QED  BY <1>6, <3>1
  <2>2. /\ stage \notin {"parse", "apply", "split", "done"}
        /\ off = 0 /\ entries = <<>> /\ chars = 0
    BY <1>1
  <2> QED  BY <1>3, <1>4, <2>1, <2>2 DEF Reading
<1> QED
  BY <1>5, <1>7 DEF IInv

LEMMA HoldsKept ==
    ASSUME NEW d \in Seq(Byte), NEW t \in Seq(Byte), NEW o \in Nat, NEW s \in Seq(Byte),
           Holds(d, o, s)
    PROVE  Holds(d \o t, o, s)
<1>1. /\ Len(d) \in Nat /\ Len(t) \in Nat /\ Len(s) \in Nat
      /\ Len(d \o t) = Len(d) + Len(t)
      /\ \A i \in 1 .. Len(d) : (d \o t)[i] = d[i]
  BY ConcatProperties
<1>2. \A k \in 1 .. Len(s) : o + k \in 1 .. Len(d)
  BY <1>1 DEF Holds
<1> QED
  BY <1>1, <1>2 DEF Holds

LEMMA PutIInv == IInv /\ Put => IInv'
<1> SUFFICES ASSUME IInv, Put PROVE IInv'
  OBVIOUS
<1> DEFINE n == Len(ends)
           f == fields[n + 1]
<1>1. /\ buf \in Seq(Byte) /\ ends \in Seq(Nat) /\ n \in Nat /\ n < Len(fields)
      /\ buf' = buf \o Tlv(f) /\ ends' = Append(ends, Len(buf'))
      /\ fields' = fields /\ stage = "write" /\ stage' = stage
      /\ chars' = chars /\ off' = off /\ entries' = entries
  BY DEF IInv, Written, Put
<1>2. fields # <<>>
  BY <1>1
<1>3. /\ fields \in Seq([tag : Nat, val : Seq(Byte)]) /\ Len(fields) \in Nat
      /\ \A i \in 1 .. Len(fields) : IsField(fields[i])
      /\ EndOf(ends, n) = Len(buf)
      /\ \A i \in 1 .. n : /\ Holds(buf, EndOf(ends, i - 1), Tlv(fields[i]))
                           /\ EndOf(ends, i) = EndOf(ends, i - 1) + Len(Tlv(fields[i]))
  BY <1>1, <1>2 DEF IInv, Written
<1>4. n + 1 \in 1 .. Len(fields) /\ IsField(f) /\ Tlv(f) \in Seq(Byte)
  <2>1. n + 1 \in 1 .. Len(fields)
    <3> HIDE DEF n
    <3> QED  BY <1>1, <1>3
  <2>2. IsField(f)
    BY <1>3, <2>1
  <2> QED  BY <2>1, <2>2, TlvBytes
<1>5. /\ buf' \in Seq(Byte) /\ Len(buf') = Len(buf) + Len(Tlv(f)) /\ Len(buf') \in Nat
      /\ \A i \in 1 .. Len(buf) + Len(Tlv(f)) :
           buf'[i] = IF i <= Len(buf) THEN buf[i] ELSE Tlv(f)[i - Len(buf)]
  BY <1>1, <1>4, ConcatProperties
<1>6. /\ ends' \in Seq(Nat) /\ Len(ends') = n + 1
      /\ \A i \in 1 .. n : ends'[i] = ends[i]
      /\ ends'[n + 1] = Len(buf')
  BY <1>1, <1>5, AppendProperties
<1>7. (\A i \in 0 .. n : EndOf(ends', i) = EndOf(ends, i)) /\ EndOf(ends', n + 1) = Len(buf')
  BY <1>1, <1>6 DEF EndOf
<1>8. \A i \in 0 .. n : EndOf(ends, i) \in Nat
  BY <1>1 DEF EndOf
<1>9. \A i \in 1 .. n + 1 : /\ Holds(buf', EndOf(ends', i - 1), Tlv(fields[i]))
                            /\ EndOf(ends', i) = EndOf(ends', i - 1) + Len(Tlv(fields[i]))
  <2>1. ASSUME NEW i \in 1 .. n
        PROVE  /\ Holds(buf', EndOf(ends', i - 1), Tlv(fields[i]))
               /\ EndOf(ends', i) = EndOf(ends', i - 1) + Len(Tlv(fields[i]))
    <3>1. /\ i - 1 \in 0 .. n /\ i \in 0 .. n /\ i \in 1 .. Len(fields)
      <4>1. n \in Nat /\ n < Len(fields) /\ Len(fields) \in Nat
        BY <1>1, <1>3
      <4> HIDE DEF n
      <4> QED  BY <4>1
    <3>2. EndOf(ends', i - 1) = EndOf(ends, i - 1) /\ EndOf(ends', i) = EndOf(ends, i) /\ EndOf(ends, i - 1) \in Nat
      BY <1>7, <1>8, <3>1
    <3>3. Tlv(fields[i]) \in Seq(Byte)
      BY <1>3, <3>1, TlvBytes
    <3>4. Holds(buf', EndOf(ends, i - 1), Tlv(fields[i]))
      BY <1>1, <1>3, <1>4, <3>2, <3>3, HoldsKept
    <3> QED  BY <1>3, <3>2, <3>4
  <2>2. Holds(buf', Len(buf), Tlv(f))
    <3>1. Len(buf) \in Nat /\ Len(Tlv(f)) \in Nat
      BY <1>1, <1>4
    <3>2. \A k \in 1 .. Len(Tlv(f)) : /\ Len(buf) + k \in 1 .. Len(buf) + Len(Tlv(f))
                                      /\ ~(Len(buf) + k <= Len(buf))
                                      /\ (Len(buf) + k) - Len(buf) = k
      BY <3>1
    <3>3. \A k \in 1 .. Len(Tlv(f)) : buf'[Len(buf) + k] = Tlv(f)[k]
      BY <1>5, <3>2
    <3>4. Len(buf) + Len(Tlv(f)) <= Len(buf')
      BY <1>5, <3>1
    <3> QED  BY <3>3, <3>4 DEF Holds
  <2>3. (n + 1) - 1 = n /\ n \in 0 .. n
    BY <1>1
  <2>4. /\ Holds(buf', EndOf(ends', (n + 1) - 1), Tlv(f))
        /\ EndOf(ends', n + 1) = EndOf(ends', (n + 1) - 1) + Len(Tlv(f))
    BY <1>3, <1>5, <1>7, <2>2, <2>3
  <2>5. \A i \in 1 .. n + 1 : i \in 1 .. n \/ i = n + 1
    BY <1>1
  <2> HIDE DEF n
  <2> QED  BY <2>1, <2>4, <2>5
<1>10. Written'
  <2>1. Len(ends') <= Len(fields)
    BY <1>4, <1>6
  <2>2. EndOf(ends', Len(ends')) = Len(buf')
    BY <1>6, <1>7
  <2> HIDE DEF n, f
  <2> QED  BY <1>1, <1>3, <1>5, <1>6, <1>9, <2>1, <2>2 DEF Written
<1>11. Reading'
  <2>1. off = 0 /\ entries = <<>> /\ chars = 0
    BY <1>1 DEF IInv, Reading
  <2>2. UriChars(Len(buf')) \in Nat
    BY <1>5, Base64
  <2>3. entries = SubSeq(fields, 1, Len(entries)) /\ Len(entries) \in 0 .. Len(fields)
    BY <1>2 DEF IInv, Reading
  <2> QED  BY <1>1, <2>1, <2>2, <2>3 DEF Reading
<1> QED
  BY <1>10, <1>11 DEF IInv

LEMMA PasteIInv == IInv /\ PasteAny => IInv'
<1> SUFFICES ASSUME IInv, PasteAny PROVE IInv'
  OBVIOUS
<1>1. PICK c \in 0 .. UriChars(Len(buf)) : stage = "sent" /\ Paste(c)
  BY DEF PasteAny
<1>2. /\ chars' = c /\ stage' \in {"refused", "parse"}
      /\ buf' = buf /\ ends' = ends /\ fields' = fields
      /\ off' = off /\ entries' = entries
  BY <1>1 DEF Paste, written
<1>3. off = 0 /\ entries = <<>>
  BY <1>1 DEF IInv, Reading
<1>4. Written'
  BY <1>1, <1>2 DEF IInv, Written
<1>5. Reading'
  <2>1. Len(entries) = 0
    BY <1>3
  <2>2. EndOf(ends, Len(entries)) = 0
    BY <2>1 DEF EndOf
  <2>3. fields # <<>> => /\ entries = SubSeq(fields, 1, Len(entries))
                        /\ Len(entries) \in 0 .. Len(fields)
    BY DEF IInv, Reading
  <2>4. chars' \in 0 .. UriChars(Len(buf'))
    BY <1>2
  <2>5. /\ off' = 0 /\ off' \in Nat /\ off' = EndOf(ends', Len(entries'))
        /\ stage' \notin {"no link", "write", "sent", "apply", "split", "done"}
    <3>1. off' = 0 /\ off' = EndOf(ends', Len(entries'))
      BY <1>2, <1>3, <2>2
    <3>2. stage' = "refused" \/ stage' = "parse"
      BY <1>2
    <3>3. 0 \in Nat
      OBVIOUS
    <3> QED  BY <3>1, <3>2, <3>3
  <2> QED  BY <1>2, <2>3, <2>4, <2>5 DEF Reading
<1> QED
  BY <1>4, <1>5 DEF IInv

\* While there is something left to read, the field that comes next stands
\* where the reader is.
LEMMA NextField ==
    ASSUME IInv, stage = "parse", fields # <<>>, off < Len(Data)
    PROVE  LET k == Len(entries)
           IN /\ k \in Nat /\ k < Len(fields) /\ k + 1 \in 1 .. Len(fields)
              /\ (k + 1) - 1 = k
              /\ Holds(buf, off, Tlv(fields[k + 1])) /\ IsField(fields[k + 1])
<1> DEFINE k == Len(entries)
<1>1. /\ fields \in Seq([tag : Nat, val : Seq(Byte)]) /\ Len(fields) \in Nat
      /\ \A i \in 1 .. Len(fields) : IsField(fields[i])
      /\ EndOf(ends, Len(fields)) = Len(buf)
      /\ \A i \in 1 .. Len(fields) : Holds(buf, EndOf(ends, i - 1), Tlv(fields[i]))
  BY DEF IInv, Written
<1>2. k \in 0 .. Len(fields) /\ off = EndOf(ends, k) /\ off \in Nat
  BY DEF IInv, Reading
<1>3. Len(buf) \in Nat /\ Len(Data) \in Nat /\ Len(Data) <= Len(buf)
  <2>1. buf \in Seq(Byte) /\ chars \in 0 .. UriChars(Len(buf))
    BY DEF IInv, Written, Reading
  <2>2. Data \in Seq(Byte) /\ Prefix(Data, buf)
    BY <2>1, DataIsPrefix
  <2> QED  BY <2>1, <2>2 DEF Prefix
<1>4. k \in Nat /\ k < Len(fields)
  <2>1. off < Len(buf)
    BY <1>2, <1>3
  <2>2. k # Len(fields)
    BY <1>1, <1>2, <1>3, <2>1
  <2> QED  BY <1>1, <1>2, <2>2
<1>5. k + 1 \in 1 .. Len(fields) /\ (k + 1) - 1 = k
  <2> HIDE DEF k
  <2> QED  BY <1>1, <1>4
<1>6. Holds(buf, off, Tlv(fields[k + 1])) /\ IsField(fields[k + 1])
  BY <1>1, <1>2, <1>5
<1> QED
  BY <1>4, <1>5, <1>6

\* The heart of it: behind k fields the reader meets field k + 1, and
\* nothing else.
LEMMA ParseIInv == IInv /\ Parse => IInv'
<1> SUFFICES ASSUME IInv, Parse PROVE IInv'
  OBVIOUS
<1> DEFINE r == ReadTlv(Data, off)
           k == Len(entries)
<1>1. /\ stage = "parse" /\ off \in Nat
      /\ buf' = buf /\ ends' = ends /\ fields' = fields /\ chars' = chars
      /\ buf \in Seq(Byte) /\ chars \in 0 .. UriChars(Len(buf))
  BY DEF IInv, Written, Reading, Parse, written
<1>2. Data \in Seq(Byte) /\ Prefix(Data, buf) /\ (Whole => Data = buf)
  BY <1>1, DataIsPrefix
<1>3. Written'
  <2>1. stage' \notin {"write", "no link"}
    BY <1>1 DEF Parse
  <2> QED  BY <1>1, <2>1 DEF IInv, Written
<1>4. CASE fields = <<>>
  <2>1. stage' = "parse" => off' \in Nat
    <3>1. CASE off' = off
      BY <1>1, <3>1
    <3>2. CASE r.ok /\ off' = r.next
      BY <1>1, <1>2, <3>2, TlvMovesOn
    <3> QED  BY <3>1, <3>2 DEF Parse
  <2>2. stage' \notin {"no link", "write", "sent"}
    BY <1>1 DEF Parse
  <2> QED  BY <1>1, <1>3, <1>4, <2>1, <2>2 DEF IInv, Reading
<1>5. CASE fields # <<>>
  <2>1. /\ fields \in Seq([tag : Nat, val : Seq(Byte)]) /\ Len(fields) \in Nat
        /\ \A i \in 1 .. Len(fields) : IsField(fields[i])
        /\ Len(ends) = Len(fields) /\ EndOf(ends, Len(fields)) = Len(buf)
        /\ \A i \in 1 .. Len(fields) :
             /\ Holds(buf, EndOf(ends, i - 1), Tlv(fields[i]))
             /\ EndOf(ends, i) = EndOf(ends, i - 1) + Len(Tlv(fields[i]))
    BY <1>1, <1>5 DEF IInv, Written
  <2>2. /\ k \in 0 .. Len(fields) /\ off = EndOf(ends, k)
        /\ entries = SubSeq(fields, 1, k)
    BY <1>1, <1>5 DEF IInv, Reading
  <2>3. Len(buf) \in Nat /\ Len(Data) \in Nat /\ Len(Data) <= Len(buf)
    BY <1>1, <1>2 DEF Prefix
  <2>4. CASE off >= Len(Data)
    <3>1. stage' = "apply" /\ off' = off /\ entries' = entries
      BY <1>1, <2>4 DEF Parse
    <3>2. Whole => k = Len(fields)
      <4>1. SUFFICES ASSUME Whole, k # Len(fields) PROVE FALSE
        OBVIOUS
      <4>2. k + 1 \in 1 .. Len(fields) /\ (k + 1) - 1 = k
        <5>1. k \in Nat /\ k < Len(fields)
          BY <2>1, <2>2, <4>1
        <5> HIDE DEF k
        <5> QED  BY <2>1, <5>1
      <4>3. Holds(buf, off, Tlv(fields[k + 1])) /\ IsField(fields[k + 1])
        BY <2>1, <2>2, <4>2
      <4>4. Len(Tlv(fields[k + 1])) \in Nat \ {0}
        <5> DEFINE f == fields[k + 1]
        <5>1. IsField(f)
          BY <4>3
        <5> HIDE DEF f
        <5>2. /\ Len(Tlv(f)) = Len(EncodeVarint(f.tag))
                               + Len(EncodeVarint(Len(f.val))) + Len(f.val)
              /\ Len(EncodeVarint(f.tag)) \in 1 .. 8
              /\ Len(EncodeVarint(Len(f.val))) \in 1 .. 8
          BY <5>1, TlvBytes
        <5>3. Len(f.val) \in Nat
          BY <5>1 DEF IsField
        <5>4. \A x \in 1 .. 8, y \in 1 .. 8, z \in Nat : x + y + z \in Nat \ {0}
          OBVIOUS
        <5>5. Len(Tlv(f)) \in Nat \ {0}
          BY <5>2, <5>3, <5>4
        <5> QED  BY <5>5 DEF f
      <4>5. off + Len(Tlv(fields[k + 1])) <= Len(buf)
        BY <4>3 DEF Holds
      <4>6. off >= Len(buf)
        BY <1>2, <2>4, <4>1
      <4> QED  BY <1>1, <2>3, <4>4, <4>5, <4>6
    <3>3. (Whole => Len(entries') = Len(fields)) /\ Whole' = Whole
      BY <1>1, <3>1, <3>2 DEF Whole
    <3> QED  BY <1>1, <1>3, <1>5, <2>2, <3>1, <3>3 DEF IInv, Reading
  <2>5. CASE off < Len(Data) /\ ~r.ok
    <3>1. stage' = "refused" /\ off' = off /\ entries' = entries
      BY <1>1, <2>3, <2>5 DEF Parse
    <3> QED  BY <1>1, <1>3, <1>5, <2>2, <3>1 DEF IInv, Reading
  <2>6. CASE off < Len(Data) /\ r.ok
    <3>1. /\ stage' = "parse" /\ off' = r.next /\ entries' = Append(entries, r.field)
      BY <1>1, <2>3, <2>6 DEF Parse
    <3>2. k \in Nat /\ k < Len(fields)
      BY <1>1, <1>5, <2>6, NextField
    <3>3. k + 1 \in 1 .. Len(fields) /\ (k + 1) - 1 = k
      BY <1>1, <1>5, <2>6, NextField
    <3>4. Holds(buf, off, Tlv(fields[k + 1])) /\ IsField(fields[k + 1])
      BY <1>1, <1>5, <2>6, NextField
    <3>5. ReadTlv(buf, off) = r
      BY <1>1, <1>2, <2>6, TlvKept
    <3>6. r.field = fields[k + 1] /\ r.next = off + Len(Tlv(fields[k + 1]))
      BY <1>1, <2>6, <3>4, <3>5, TlvRead
    <3>7. EndOf(ends, k + 1) = r.next
      BY <2>1, <2>2, <3>3, <3>6
    <3>8. r.next \in Nat
      BY <1>1, <1>2, <2>6, TlvMovesOn
    <3>9. entries' = SubSeq(fields, 1, k + 1) /\ Len(entries') = k + 1
      <4>1. fields[k + 1] \in [tag : Nat, val : Seq(Byte)]
        <5>1. DOMAIN fields = 1 .. Len(fields) /\ k + 1 \in 1 .. Len(fields)
          BY <2>1, <3>3
        <5> DEFINE j == k + 1
        <5> HIDE DEF j
        <5>2. j \in 1 .. Len(fields)
          BY <5>1 DEF j
        <5>3. fields[j] \in [tag : Nat, val : Seq(Byte)]
          BY <2>1, <5>2, ElementOfSeq
        <5> QED  BY <5>3 DEF j
      <4>2. entries \in Seq([tag : Nat, val : Seq(Byte)])
        <5>1. \A i \in 1 .. k : fields[i] \in [tag : Nat, val : Seq(Byte)]
          <6> TAKE i \in 1 .. k
          <6>1. i \in 1 .. Len(fields)
            BY <2>1, <2>2, <3>2
          <6> QED  BY <2>1, <6>1, ElementOfSeq
        <5>2. 1 \in Int /\ k \in Int
          BY <3>2
        <5> HIDE DEF k
        <5> QED  BY <2>2, <5>1, <5>2, SubSeqProperties
      <4>3. entries' = entries \o <<fields[k + 1]>> /\ Len(entries') = k + 1
        BY <3>1, <3>6, <4>1, <4>2, AppendIsConcat, AppendProperties
      <4>4. SubSeq(fields, 1, k + 1) = SubSeq(fields, 1, (k + 1) - 1) \o <<fields[k + 1]>>
        <5> DEFINE j == k + 1
        <5>1. 1 \in 1 .. Len(fields) /\ j \in 1 .. Len(fields)
          BY <3>3
        <5> HIDE DEF j, k
        <5>2. SubSeq(fields, 1, j) = SubSeq(fields, 1, j - 1) \o <<fields[j]>>
          BY <2>1, <5>1, SubSeqRecursiveSecond
        <5> QED  BY <5>2 DEF j
      <4> QED  BY <2>2, <3>3, <4>3, <4>4
    <3> HIDE DEF k, r
    <3>10. k + 1 \in 0 .. Len(fields)
      BY <2>1, <3>2
    <3> QED  BY <1>1, <1>3, <1>5, <3>1, <3>7, <3>8, <3>9, <3>10 DEF IInv, Reading
  <2> QED  BY <1>1, <2>3, <2>4, <2>5, <2>6
<1> QED
  BY <1>4, <1>5

\* Steps that leave the payload and the entries alone.
LEMMA LaterIInv == IInv /\ (Finish \/ NoQr \/ Apply \/ Check \/ Split) => IInv'
<1> SUFFICES ASSUME IInv, Finish \/ NoQr \/ Apply \/ Check \/ Split PROVE IInv'
  OBVIOUS
<1>1. /\ buf' = buf /\ ends' = ends /\ fields' = fields
      /\ chars' = chars /\ entries' = entries
  BY DEF Finish, NoQr, Apply, Check, Split, written
<1>2. CASE Finish \/ NoQr
  <2>1. /\ stage = "write" /\ stage' \in {"no link", "sent"} /\ off' = off
        /\ Len(ends) = Len(fields)
    BY <1>2 DEF Finish, NoQr
  <2>2. Written'
    BY <1>1, <2>1 DEF IInv, Written
  <2>3. Reading'
    BY <1>1, <2>1 DEF IInv, Reading
  <2> QED  BY <2>2, <2>3 DEF IInv
<1>3. CASE Apply \/ Check \/ Split
  <2>1. /\ stage \in {"apply", "split"} /\ stage' \in {"apply", "split", "done", "refused"}
    BY <1>3 DEF Apply, Check, Split
  <2>2. Written'
    BY <1>1, <2>1 DEF IInv, Written
  <2>3. Whole' = Whole
    BY <1>1 DEF Whole
  <2>4. Reading'
    BY <1>1, <2>1, <2>3 DEF IInv, Reading
  <2> QED  BY <2>2, <2>4 DEF IInv
<1> QED
  BY <1>2, <1>3

LEMMA Inductive == Spec => []IInv
<1>1. Init => IInv
  BY InitIInv
<1>2. IInv /\ [Next]_vars => IInv'
  <2> SUFFICES ASSUME IInv, [Next]_vars PROVE IInv'
    OBVIOUS
  <2>1. CASE Put
    BY <2>1, PutIInv
  <2>2. CASE PasteAny
    BY <2>2, PasteIInv
  <2>3. CASE Parse
    BY <2>3, ParseIInv
  <2>4. CASE Finish \/ NoQr \/ Apply \/ Check \/ Split
    BY <2>4, LaterIInv
  <2>5. CASE UNCHANGED vars
    BY <2>5 DEF vars, written, IInv, Written, Reading, Whole
  <2> QED  BY <2>1, <2>2, <2>3, <2>4, <2>5 DEF Next
<1> QED
  BY <1>1, <1>2, PTL DEF Spec

\* parse_tlv reads back exactly the fields that were written, in order, from
\* a payload of any length that may have been cut anywhere.
THEOREM ParserReadsWhatWasWritten == Spec => []EntriesAreFields
<1>1. IInv => EntriesAreFields
  BY DEF IInv, Reading, EntriesAreFields
<1> QED
  BY <1>1, Inductive, PTL

\* The loop of parse_tlv ends for every payload: each round that does not
\* refuse leaves the offset further on, and within the payload.
ParseMovesOn ==
    stage = "parse" /\ stage' = stage => (off' > off /\ off' <= Len(Data))

THEOREM ParserTerminates == Spec => [][ParseMovesOn]_vars
<1>1. IInv /\ [Next]_vars => [ParseMovesOn]_vars
  <2> SUFFICES ASSUME IInv, Next, stage = "parse", stage' = stage
               PROVE  off' > off /\ off' <= Len(Data)
    BY DEF ParseMovesOn
  <2>1. Parse
    BY DEF Next, Put, Finish, NoQr, PasteAny, Apply, Check, Split
  <2>2. off \in Nat /\ buf \in Seq(Byte) /\ chars \in 0 .. UriChars(Len(buf))
    BY DEF IInv, Written, Reading
  <2>3. Data \in Seq(Byte)
    BY <2>2, DataIsPrefix
  <2>4. ReadTlv(Data, off).ok /\ off' = ReadTlv(Data, off).next
    BY <2>1 DEF Parse
  <2> QED  BY <2>2, <2>3, <2>4, TlvMovesOn
<1> QED
  BY <1>1, Inductive, PTL DEF Spec
=============================================================================
