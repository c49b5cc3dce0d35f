------------------------ MODULE DeeplinkApply_proofs ------------------------
(***************************************************************************)
(* What becomes of the fields that were read: the loop of                  *)
(* deeplink_to_config, its checks, and split_der_certs.                    *)
(*                                                                         *)
(* Three of the operators involved are recursive functions.  That such a   *)
(* function exists and what it computes is shown by induction, in a form   *)
(* that speaks of sets and functions only: a set of naturals that contains *)
(* 0 and is closed under successor contains all of them.                   *)
(***************************************************************************)
EXTENDS Deeplink_proofs, WellFoundedInduction

----------------------------------------------------------------------------
(* Induction and recursion. *)

LEMMA LeastElement ==
    ASSUME NEW T, T \subseteq Nat, T # {}
    PROVE  \E m \in T : \A k \in T : m <= k
<1> DEFINE Before == {ss \in Nat \X Nat : ss[1] < ss[2]}
<1>1. IsWellFoundedOn(Before, Nat)
  BY NatLessThanWellFounded DEF OpToRel
<1>2. \A i, j \in Nat : i < j => <<i, j>> \in Before
  OBVIOUS
<1> HIDE DEF Before
<1>3. PICK m \in T : \A k \in T : ~ (<<k, m>> \in Before)
  BY <1>1, WFMin
<1>4. ASSUME NEW k \in T PROVE m <= k
  <2>1. k \in Nat /\ m \in Nat
    OBVIOUS
  <2>2. ~(k < m)
    BY <1>2, <1>3, <2>1
  <2> QED  BY <2>1, <2>2
<1> QED
  BY <1>4

LEMMA NatSets ==
    ASSUME NEW T, 0 \in T, \A n \in Nat : n \in T => n + 1 \in T
    PROVE  Nat \subseteq T
<1> DEFINE U == Nat \ T
<1> SUFFICES ASSUME U # {} PROVE FALSE
  OBVIOUS
<1>1. PICK m \in U : \A k \in U : m <= k
  BY LeastElement
<1>2. m - 1 \in Nat /\ m - 1 \notin U
  BY <1>1
<1> QED
  BY <1>1, <1>2

\* A recursive function on lo .. hi whose value at k is either given or made
\* from its value at one place further up; it exists.
UpRule(S, lo, hi, stop, given, to, step) ==
    /\ lo \in Int /\ hi \in Int
    /\ \A k \in lo .. hi : k \in stop => given[k] \in S
    /\ \A k \in lo .. hi : k \notin stop => /\ to[k] \in k + 1 .. hi
                                            /\ step[k] \in [S -> S]

UpSolution(f, S, lo, hi, stop, given, to, step) ==
    /\ f \in [lo .. hi -> S]
    /\ \A k \in lo .. hi :
         f[k] = IF k \in stop THEN given[k] ELSE step[k][f[to[k]]]

LEMMA UpRecursion ==
    ASSUME NEW S, NEW lo, NEW hi, NEW stop, NEW given, NEW to, NEW step,
           UpRule(S, lo, hi, stop, given, to, step)
    PROVE  \E f : UpSolution(f, S, lo, hi, stop, given, to, step)
<1> USE DEF UpRule
<1> SUFFICES \E f \in [lo .. hi -> S] : \A k \in lo .. hi :
               f[k] = IF k \in stop THEN given[k] ELSE step[k][f[to[k]]]
  BY DEF UpSolution
<1> DEFINE Rule(f, k) == f[k] = IF k \in stop THEN given[k] ELSE step[k][f[to[k]]]
           Part(m, f) == \A k \in m .. hi : Rule(f, k)
           T == {j \in Nat : hi + 1 - j >= lo =>
                   \E f \in [hi + 1 - j .. hi -> S] : Part(hi + 1 - j, f)}
<1>1. 0 \in T
  <2>1. hi + 1 - 0 .. hi = {}
    OBVIOUS
  <2> DEFINE e == [k \in hi + 1 - 0 .. hi |-> 0]
  <2>2. e \in [hi + 1 - 0 .. hi -> S] /\ Part(hi + 1 - 0, e)
    BY <2>1
  <2> HIDE DEF e, Part
  <2> QED  BY <2>2
<1>2. ASSUME NEW j \in Nat, j \in T PROVE j + 1 \in T
  <2> DEFINE m == hi + 1 - (j + 1)
  <2> SUFFICES ASSUME m >= lo PROVE \E f \in [m .. hi -> S] : Part(m, f)
    OBVIOUS
  <2>1. m \in lo .. hi /\ m + 1 = hi + 1 - j /\ m + 1 >= lo
    OBVIOUS
  <2>2. PICK g \in [m + 1 .. hi -> S] : Part(m + 1, g)
    <3> HIDE DEF Part
    <3> QED  BY <1>2, <2>1
  <2> HIDE DEF m
  <2> DEFINE here == IF m \in stop THEN given[m] ELSE step[m][g[to[m]]]
             h == [k \in m .. hi |-> IF k = m THEN here ELSE g[k]]
  <2>3. here \in S
    <3>1. CASE m \in stop
      BY <2>1, <3>1
    <3>2. CASE m \notin stop
      <4>1. to[m] \in m + 1 .. hi /\ step[m] \in [S -> S]
        BY <2>1, <3>2
      <4>2. g[to[m]] \in S
        BY <4>1
      <4> QED  BY <3>2, <4>1, <4>2
    <3> QED  BY <3>1, <3>2
  <2>4. \A k \in m + 1 .. hi : k \in m .. hi /\ k # m /\ h[k] = g[k]
    BY <2>1
  <2>5. h \in [m .. hi -> S] /\ h[m] = here
    <3> HIDE DEF here
    <3> QED  BY <2>1, <2>3
  <2> HIDE DEF h
  <2>6. Part(m, h)
    <3> SUFFICES ASSUME NEW k \in m .. hi PROVE Rule(h, k)
      OBVIOUS
    <3>1. k \in lo .. hi
      BY <2>1
    <3>2. CASE k = m
      <4>1. k \notin stop => to[k] \in m + 1 .. hi
        BY <3>1, <3>2
      <4> QED  BY <2>4, <2>5, <3>2, <4>1
    <3>3. CASE k # m
      <4>1. k \in m + 1 .. hi
        BY <2>1, <3>3
      <4>2. Rule(g, k)
        BY <2>2, <4>1
      <4>3. k \notin stop => to[k] \in m + 1 .. hi
        BY <2>1, <3>1, <4>1
      <4> QED  BY <2>4, <4>1, <4>2, <4>3
    <3> QED  BY <3>2, <3>3
  <2> HIDE DEF Part
  <2> QED  BY <2>5, <2>6
<1>3. Nat \subseteq T
  <2> HIDE DEF T
  <2> QED  BY <1>1, <1>2, NatSets
<1>4. CASE lo <= hi + 1
  <2>1. PICK j \in Nat : hi + 1 - j = lo
    <3>1. hi + 1 - lo \in Nat /\ hi + 1 - (hi + 1 - lo) = lo
      BY <1>4
    <3> QED  BY <3>1
  <2>2. \E f \in [hi + 1 - j .. hi -> S] : Part(hi + 1 - j, f)
    <3> HIDE DEF Part
    <3> QED  BY <1>3, <2>1
  <2> HIDE DEF Part
  <2>3. \E f \in [lo .. hi -> S] : Part(lo, f)
    BY <2>1, <2>2
  <2> QED  BY <2>3 DEF Part
<1>5. CASE lo > hi + 1
  <2>1. lo .. hi = {}
    BY <1>5
  <2> DEFINE e == [k \in lo .. hi |-> 0]
  <2>2. e \in [lo .. hi -> S]
    BY <2>1
  <2> HIDE DEF e
  <2> QED  BY <2>1, <2>2
<1> QED
  BY <1>4, <1>5

\* The same downwards, one place at a time, from a value at 0.
LEMMA DownRecursion ==
    ASSUME NEW S, NEW a \in S, NEW n \in Nat, NEW step \in [1 .. n -> [S -> S]]
    PROVE  \E f \in [0 .. n -> S] :
             f[0] = a /\ \A k \in 1 .. n : f[k] = step[k][f[k - 1]]
<1> DEFINE Part(m, f) == f[0] = a /\ \A k \in 1 .. m : f[k] = step[k][f[k - 1]]
           T == {m \in Nat : m <= n => \E f \in [0 .. m -> S] : Part(m, f)}
<1>1. 0 \in T
  <2>1. [k \in 0 .. 0 |-> a] \in [0 .. 0 -> S] /\ Part(0, [k \in 0 .. 0 |-> a])
    OBVIOUS
  <2> QED  BY <2>1
<1>2. ASSUME NEW m \in Nat, m \in T PROVE m + 1 \in T
  <2> SUFFICES ASSUME m + 1 <= n PROVE \E f \in [0 .. m + 1 -> S] : Part(m + 1, f)
    OBVIOUS
  <2>1. PICK g \in [0 .. m -> S] : Part(m, g)
    <3> HIDE DEF Part
    <3> QED  BY <1>2
  <2> DEFINE here == step[m + 1][g[m]]
             h == [k \in 0 .. m + 1 |-> IF k = m + 1 THEN here ELSE g[k]]
  <2>2. here \in S
    <3>1. step[m + 1] \in [S -> S] /\ g[m] \in S
      OBVIOUS
    <3> QED  BY <3>1
  <2>3. /\ h \in [0 .. m + 1 -> S] /\ h[m + 1] = here
        /\ \A k \in 0 .. m : h[k] = g[k]
    <3> HIDE DEF here
    <3> QED  BY <2>2
  <2> HIDE DEF h
  <2>4. Part(m + 1, h)
    <3>1. h[0] = a
      BY <2>1, <2>3
    <3> SUFFICES ASSUME NEW k \in 1 .. m + 1 PROVE h[k] = step[k][h[k - 1]]
      BY <3>1
    <3>2. k - 1 \in 0 .. m /\ h[k - 1] = g[k - 1]
      BY <2>3
    <3>3. CASE k = m + 1
      BY <2>3, <3>2, <3>3
    <3>4. CASE k # m + 1
      <4>1. k \in 1 .. m /\ k \in 0 .. m
        BY <3>4
      <4> QED  BY <2>1, <2>3, <3>2, <4>1
    <3> QED  BY <3>3, <3>4
  <2> HIDE DEF Part
  <2> QED  BY <2>3, <2>4
<1>3. Nat \subseteq T
  <2> HIDE DEF T
  <2> QED  BY <1>1, <1>2, NatSets
<1>4. \E f \in [0 .. n -> S] : Part(n, f)
  <2> HIDE DEF Part
  <2> QED  BY <1>3
<1> QED
  BY <1>4

----------------------------------------------------------------------------
(* split_der_certs. *)

\* The function of that name in DerEnd.
BigEndianOf(d, o, n) ==
    CHOOSE f : f = [k \in 0 .. n |->
                      IF k = 0 THEN 0 ELSE f[k - 1] * B + d[o + 2 + k]]

\* Big-endian bytes are a natural number.
LEMMA BigEndianNat ==
    ASSUME NEW n \in Nat, NEW d, NEW o \in Nat, \A k \in 1 .. n : d[o + 2 + k] \in Nat
    PROVE  BigEndianOf(d, o, n)[n] \in Nat
<1> DEFINE Eq(f) == f = [k \in 0 .. n |->
                           IF k = 0 THEN 0 ELSE f[k - 1] * B + d[o + 2 + k]]
           x == [k \in 1 .. n |-> d[o + 2 + k]]
           step == [k \in 1 .. n |-> [v \in Nat |-> v * B + x[k]]]
<1>1. B \in Nat
  BY BNat
<1>2. \A k \in 1 .. n : x[k] = d[o + 2 + k]
  OBVIOUS
<1>3. \A k \in 1 .. n : x[k] \in Nat
  OBVIOUS
<1> HIDE DEF x
<1>4. step \in [1 .. n -> [Nat -> Nat]]
  <2>1. \A v \in Nat, k \in 1 .. n : v * B + x[k] \in Nat
    BY <1>1, <1>3
  <2> QED  BY <2>1
<1>5. \A k \in 1 .. n, v \in Nat : step[k][v] = v * B + x[k]
  OBVIOUS
<1> HIDE DEF step
<1>6. PICK f \in [0 .. n -> Nat] : f[0] = 0 /\ \A k \in 1 .. n : f[k] = step[k][f[k - 1]]
  <2> DEFINE S == Nat
             a == 0
  <2>1. a \in S /\ step \in [1 .. n -> [S -> S]]
    BY <1>4
  <2> HIDE DEF S, a
  <2>2. \E f \in [0 .. n -> S] : f[0] = a /\ \A k \in 1 .. n : f[k] = step[k][f[k - 1]]
    BY <2>1, DownRecursion
  <2> QED  BY <2>2 DEF S, a
<1>7. Eq(f)
  <2>1. ASSUME NEW k \in 1 .. n PROVE f[k] = f[k - 1] * B + d[o + 2 + k]
    <3>1. f[k] = step[k][f[k - 1]] /\ f[k - 1] \in Nat
      BY <1>6
    <3>2. f[k] = f[k - 1] * B + x[k]
      BY <1>5, <3>1
    <3> QED  BY <1>2, <3>2
  <2> QED  BY <1>6, <2>1
<1> DEFINE F == CHOOSE g : Eq(g)
<1>8. Eq(F)
  <2> HIDE DEF Eq
  <2> QED  BY <1>7
<1> HIDE DEF F
<1>9. F[0] = 0 /\ \A k \in 1 .. n : F[k] = F[k - 1] * B + x[k]
  <2>1. F[0] = 0 /\ \A k \in 1 .. n : F[k] = F[k - 1] * B + d[o + 2 + k]
    BY <1>8
  <2> QED  BY <1>2, <2>1
<1> HIDE DEF Eq
<1> DEFINE T == {k \in Nat : k <= n => F[k] \in Nat}
<1>10. ASSUME NEW k \in Nat, k \in T, k + 1 <= n PROVE F[k + 1] \in Nat
  <2>1. k + 1 \in 1 .. n /\ (k + 1) - 1 = k
    BY <1>10
  <2> DEFINE p == F[k]
             q == x[k + 1]
  <2>2. p \in Nat /\ q \in Nat /\ F[k + 1] = p * B + q
    BY <1>3, <1>9, <1>10, <2>1
  <2> HIDE DEF p, q
  <2> QED  BY <1>1, <2>2
<1>11. 0 \in T /\ \A k \in Nat : k \in T => k + 1 \in T
  BY <1>9, <1>10
<1>12. n \in T
  <2> HIDE DEF T
  <2> QED  BY <1>11, NatSets
<1>13. F[n] \in Nat
  BY <1>12
<1> QED
  BY <1>13 DEF F, Eq, BigEndianOf

\* The element at an offset ends further on and within the data, or nowhere.
LEMMA DerEndsInside ==
    ASSUME NEW d \in Seq(Byte), NEW o \in Nat
    PROVE  DerEnd(d, o) = -1 \/ DerEnd(d, o) \in o + 1 .. Len(d)
<1> SUFFICES ASSUME DerEnd(d, o) # -1 PROVE DerEnd(d, o) \in o + 1 .. Len(d)
  OBVIOUS
<1> DEFINE first == d[o + 2]
           n == first % (2 * Q)
           BigEndian == CHOOSE f : f = [k \in 0 .. n |->
                           IF k = 0 THEN 0 ELSE f[k - 1] * B + d[o + 2 + k]]
           end == IF first < 2 * Q THEN o + 2 + first ELSE o + 2 + n + BigEndian[n]
<1>1. /\ ~(o + 2 > Len(d))
      /\ ~(first >= 2 * Q /\ (n = 0 \/ o + 2 + n > Len(d)))
      /\ ~(end > Len(d)) /\ DerEnd(d, o) = end
  BY DEF DerEnd
<1>2. Len(d) \in Nat /\ first \in Byte /\ first \in Nat
  <2>1. Len(d) \in Nat /\ o + 2 \in 1 .. Len(d)
    BY <1>1
  <2>2. first \in Byte
    BY <2>1, ElementOfSeq
  <2> QED  BY <2>1, <2>2, BNat DEF Byte
<1>3. first \in Nat /\ n \in Nat
  BY <1>2, QAssumption
<1>4. CASE first < 2 * Q
  BY <1>1, <1>3, <1>2, <1>4, QAssumption
<1>5. CASE ~(first < 2 * Q)
  <2>1. n \in Nat \ {0} /\ o + 2 + n <= Len(d)
    BY <1>1, <1>2, <1>3, <1>5, QAssumption
  <2>2. \A k \in 1 .. n : d[o + 2 + k] \in Nat
    <3> HIDE DEF n
    <3>1. \A k \in 1 .. n : o + 2 + k \in 1 .. Len(d)
      BY <1>2, <2>1
    <3>2. \A k \in 1 .. n : d[o + 2 + k] \in Byte
      BY <3>1, ElementOfSeq
    <3> QED  BY <3>2, BNat DEF Byte
  <2>3. BigEndian[n] \in Nat
    <3>1. n \in Nat /\ o + 2 \in Nat
      BY <1>3
    <3>2. BigEndianOf(d, o, n) = BigEndian
      BY DEF BigEndianOf
    <3> HIDE DEF n, BigEndian
    <3> QED  BY <2>2, <3>1, <3>2, BigEndianNat
  <2> HIDE DEF n, BigEndian
  <2> QED  BY <1>1, <1>2, <1>5, <2>1, <2>3
<1> QED
  BY <1>4, <1>5

----------------------------------------------------------------------------
(* What a field and its meaning can be. *)

Fields == Seq([tag : Nat, val : Seq(Byte)])

LEMMA TlvTyped ==
    ASSUME NEW d \in Seq(Byte), NEW o \in Nat, ReadTlv(d, o).ok
    PROVE  /\ ReadTlv(d, o).next \in Nat
           /\ ReadTlv(d, o).field \in [tag : Nat, val : Seq(Byte)]
<1> DEFINE t == DecodeVarint(d, o)
           n == DecodeVarint(d, t.next)
           v == SubSeq(d, n.next + 1, n.next + n.val)
<1>1. t.ok /\ n.ok /\ ~(n.val > MaxField \/ n.next + n.val > Len(d))
  BY DEF ReadTlv, Refused
<1>2. Prefix(d, d)
  BY DEF Prefix
<1>3. t.next \in Nat /\ t.val \in Nat
  BY <1>1, <1>2, VarintKept
<1>4. n.next \in Nat /\ n.val \in Nat
  <2> HIDE DEF t
  <2> QED  BY <1>1, <1>2, <1>3, VarintKept
<1>5. ReadTlv(d, o).field = [tag |-> t.val, val |-> v]
  BY <1>1 DEF ReadTlv, Field
<1>6. v \in Seq(Byte)
  <2> HIDE DEF t, n
  <2>1. n.next + 1 \in Int /\ n.next + n.val \in Int
    BY <1>4
  <2>2. Len(d) \in Nat
    OBVIOUS
  <2>3. \A i \in n.next + 1 .. n.next + n.val : i \in 1 .. Len(d)
    BY <1>1, <1>4, <2>2
  <2>4. \A i \in n.next + 1 .. n.next + n.val : d[i] \in Byte
    BY <2>3, ElementOfSeq
  <2> QED  BY <2>1, <2>4, SubSeqProperties
<1> HIDE DEF t, n, v
<1> QED
  BY <1>1, <1>3, <1>5, <1>6, TlvMovesOn

\* A dns_upstreams value is refused or becomes one list of strings.
LEMMA DnsShape ==
    ASSUME NEW v \in Seq(Byte)
    PROVE  DnsStrings(v) = <<>> \/ \E z : DnsStrings(v) = <<z>>
<1> DEFINE n(o) == DecodeVarint(v, o)
           s(o) == SubSeq(v, n(o).next + 1, n(o).next + n(o).val)
           S == {<<>>} \cup {<<z>> : z \in Seq(Seq(Byte))}
           Eq(f) == f = [o \in 0 .. Len(v) |->
             IF o = Len(v) THEN <<<<>>>>
             ELSE IF ~n(o).ok THEN <<>>
                  ELSE IF n(o).val > MaxField \/ n(o).next + n(o).val > Len(v) THEN <<>>
                  ELSE IF ~IsText(s(o)) \/ f[n(o).next + n(o).val] = <<>> THEN <<>>
                  ELSE <<<<s(o)>> \o f[n(o).next + n(o).val][1]>>]
           From == CHOOSE f : Eq(f)
<1>1. DnsStrings(v) = From[0]
  BY DEF DnsStrings
<1> DEFINE hi == Len(v)
           good(o) == ~(~n(o).ok \/ n(o).val > MaxField \/ n(o).next + n(o).val > hi
                        \/ ~IsText(s(o)))
           stop == {o \in 0 .. hi : o = hi \/ ~good(o)}
           given == [o \in 0 .. hi |-> IF o = hi THEN <<<<>>>> ELSE <<>>]
           to == [o \in 0 .. hi |-> n(o).next + n(o).val]
           step == [o \in 0 .. hi |->
                      [r \in S |-> IF r = <<>> THEN <<>> ELSE <<<<s(o)>> \o r[1]>>]]
<1>2. hi \in Nat /\ <<>> \in S /\ <<<<>>>> \in S
  <2>1. PICK z \in Seq(Seq(Byte)) : z = <<>>
    BY EmptySeq
  <2>2. <<z>> \in S
    OBVIOUS
  <2> QED  BY <2>1, <2>2
<1>3. ASSUME NEW o \in 0 .. hi, o # hi, good(o)
      PROVE  /\ n(o).next + n(o).val \in o + 1 .. hi
             /\ s(o) \in Seq(Byte)
  <2>1. n(o).ok /\ ~(n(o).next + n(o).val > hi) /\ Prefix(v, v) /\ o \in Nat
    BY <1>2, <1>3 DEF Prefix
  <2> HIDE DEF good
  <2>2. n(o).next \in Nat /\ n(o).val \in Nat /\ n(o).next > o
    BY <2>1, VarintKept
  <2> HIDE DEF n
  <2>3. \A i \in n(o).next + 1 .. n(o).next + n(o).val : v[i] \in Byte
    <3>1. \A i \in n(o).next + 1 .. n(o).next + n(o).val : i \in 1 .. Len(v)
      BY <1>2, <2>1, <2>2
    <3> QED  BY <3>1, ElementOfSeq
  <2>4. n(o).next + 1 \in Int /\ n(o).next + n(o).val \in Int
    BY <2>2
  <2>5. s(o) \in Seq(Byte)
    BY <2>3, <2>4, SubSeqProperties
  <2> QED  BY <1>2, <2>1, <2>2, <2>5
<1> HIDE DEF n, s
<1>4. \A o \in 0 .. hi : o \in stop => given[o] \in S
  BY <1>2
<1>5. ASSUME NEW o \in 0 .. hi, o \notin stop
      PROVE  to[o] \in o + 1 .. hi /\ step[o] \in [S -> S]
  <2>1. o # hi /\ good(o)
    BY <1>5
  <2> HIDE DEF good
  <2>2. to[o] \in o + 1 .. hi /\ s(o) \in Seq(Byte)
    BY <1>3, <2>1
  <2>3. ASSUME NEW r \in S
        PROVE  (IF r = <<>> THEN <<>> ELSE <<<<s(o)>> \o r[1]>>) \in S
    <3>1. CASE r = <<>>
      BY <3>1
    <3>2. CASE r # <<>>
      <4>1. PICK z \in Seq(Seq(Byte)) : r = <<z>>
        BY <3>2
      <4>2. <<s(o)>> \o z \in Seq(Seq(Byte))
        <5>1. <<s(o)>> \in Seq(Seq(Byte))
          BY <2>2
        <5> QED  BY <5>1, ConcatProperties
      <4> QED  BY <3>2, <4>1, <4>2
    <3> QED  BY <3>1, <3>2
  <2> HIDE DEF S
  <2>4. [r \in S |-> IF r = <<>> THEN <<>> ELSE <<<<s(o)>> \o r[1]>>] \in [S -> S]
    BY <2>3
  <2> QED  BY <2>2, <2>4
<1>6. UpRule(S, 0, hi, stop, given, to, step)
  <2> HIDE DEF hi, S, stop, given, to, step
  <2> QED  BY <1>2, <1>4, <1>5 DEF UpRule
<1>7. PICK f : UpSolution(f, S, 0, hi, stop, given, to, step)
  <2> HIDE DEF hi, S, stop, given, to, step
  <2> QED  BY <1>6, UpRecursion
<1> DEFINE body(g, o) ==
             IF o = Len(v) THEN <<<<>>>>
             ELSE IF ~n(o).ok THEN <<>>
                  ELSE IF n(o).val > MaxField \/ n(o).next + n(o).val > Len(v) THEN <<>>
                  ELSE IF ~IsText(s(o)) \/ g[n(o).next + n(o).val] = <<>> THEN <<>>
                  ELSE <<<<s(o)>> \o g[n(o).next + n(o).val][1]>>
<1>8. ASSUME NEW o \in 0 .. hi PROVE f[o] = body(f, o)
  <2>1. /\ o \in stop => f[o] = given[o]
        /\ o \notin stop => f[o] = step[o][f[to[o]]]
        /\ f \in [0 .. hi -> S]
    <3> HIDE DEF hi, S, stop, given, to, step
    <3> QED  BY <1>7 DEF UpSolution
  <2>2. CASE o = hi
    BY <2>1, <2>2
  <2>3. CASE o # hi /\ ~good(o)
    BY <2>1, <2>3
  <2>4. CASE o # hi /\ good(o)
    <3> DEFINE t == n(o).next + n(o).val
    <3>1. f[o] = step[o][f[to[o]]] /\ to[o] = t /\ t \in 0 .. hi
      <4>1. o \notin stop /\ to[o] = t
        BY <2>4
      <4>2. t \in o + 1 .. hi /\ o \in Nat
        BY <1>2, <1>3, <2>4
      <4> HIDE DEF t, stop, to, step, S, good
      <4> QED  BY <1>2, <2>1, <4>1, <4>2
    <3>2. f[t] \in S
      <4> HIDE DEF t, S, hi
      <4> QED  BY <2>1, <3>1
    <3>3. f[o] = IF f[t] = <<>> THEN <<>> ELSE <<<<s(o)>> \o f[t][1]>>
      <4> HIDE DEF t, S
      <4> QED  BY <3>1, <3>2
    <3> QED  BY <2>4, <3>3
  <2> QED  BY <2>2, <2>3, <2>4
<1>9. Eq(f)
  <2>1. f = [o \in 0 .. hi |-> f[o]]
    BY <1>7 DEF UpSolution
  <2> HIDE DEF body
  <2>2. f = [o \in 0 .. hi |-> body(f, o)]
    BY <1>8, <2>1
  <2> QED  BY <2>2 DEF body
<1>10. Eq(From)
  <2> HIDE DEF Eq
  <2> QED  BY <1>9
<1>11. From[0] = body(From, 0)
  <2> HIDE DEF From
  <2>1. From = [o \in 0 .. hi |-> body(From, o)]
    BY <1>10
  <2> HIDE DEF body, hi
  <2> QED  BY <1>2, <2>1
<1>12. From[0] = <<>> \/ \E z : From[0] = <<z>>
  <2> HIDE DEF From
  <2> QED  BY <1>11
<1> QED
  BY <1>1, <1>12

\* A field has at most one meaning, an address and a certificate their bytes.
LEMMA MeaningShape ==
    ASSUME NEW f
    PROVE  /\ f.val \in Seq(Byte) => Meaning(f) = <<>> \/ \E z : Meaning(f) = <<z>>
           /\ f.tag \in {ADDRESS, CERTIFICATE} => Meaning(f) \in {<<>>, <<f.val>>}
<1> DEFINE v == f.val
           n == DecodeVarint(v, 0)
<1> USE DEF VERSION, PROTOCOL, Flags, HAS_IPV6, SKIP_VERIFICATION, ANTI_DPI,
            CERTIFICATE, DNS_UPSTREAMS, ADDRESS
<1>1. CASE f.tag = DNS_UPSTREAMS
  <2>1. Meaning(f) = DnsStrings(v)
    BY <1>1 DEF Meaning
  <2> QED  BY <1>1, <2>1, DnsShape
<1>2. CASE f.tag # DNS_UPSTREAMS
  <2> DEFINE number == IF n.ok THEN <<n.val>> ELSE <<>>
             version == IF n.ok THEN <<IF n.val = 2 THEN "http3" ELSE "http2">> ELSE <<>>
             cert == IF Len(v) <= MaxCert THEN <<v>> ELSE <<>>
             text == IF IsText(v) THEN <<v>> ELSE <<>>
  <2>1. Meaning(f) = CASE f.tag = VERSION -> number
                       [] f.tag = PROTOCOL -> version
                       [] f.tag \in Flags -> <<v = <<1>> >>
                       [] f.tag = CERTIFICATE -> cert
                       [] f.tag = DNS_UPSTREAMS -> DnsStrings(v)
                       [] OTHER -> text
    BY DEF Meaning
  <2>2. /\ number = <<>> \/ number = <<n.val>>
        /\ version = <<>> \/ \E z : version = <<z>>
        /\ cert \in {<<>>, <<v>>} /\ text \in {<<>>, <<v>>}
    OBVIOUS
  <2> HIDE DEF number, version, cert, text
  <2>3. \/ Meaning(f) \in {number, version, cert, text}
        \/ Meaning(f) = <<v = <<1>> >>
    BY <1>2, <2>1
  <2>4. f.tag \in {ADDRESS, CERTIFICATE} => Meaning(f) \in {cert, text}
    BY <1>2, <2>1
  <2>5. Meaning(f) = <<v = <<1>> >> => \E z : Meaning(f) = <<z>>
    OBVIOUS
  <2> HIDE DEF v
  <2>6. Meaning(f) \in {number, version, cert, text} => Meaning(f) = <<>> \/ \E z : Meaning(f) = <<z>>
    BY <2>2
  <2> QED  BY <2>2, <2>3, <2>4, <2>5, <2>6 DEF v
<1> QED
  BY <1>1, <1>2

----------------------------------------------------------------------------
(* What the fields so far give, and what one more field changes. *)

\* The fields of tag t among the first n.
First(fs, n, t) == {i \in 1 .. n : fs[i].tag = t}

LEMMA NothingGiven ==
    ASSUME NEW fs, NEW t \in Tags
    PROVE  GivenBy(fs, {}, t, Defaults[t])
<1>1. CASE t = ADDRESS
  <2>1. Defaults[t] = <<>>
    BY <1>1 DEF Defaults, ADDRESS, VERSION, HAS_IPV6, SKIP_VERIFICATION, ANTI_DPI, PROTOCOL
  <2>2. DOMAIN <<>> = {}
    OBVIOUS
  <2> DEFINE pos == [k \in {} |-> 0]
  <2>3. pos \in [DOMAIN <<>> -> {}]
    BY <2>2
  <2> HIDE DEF pos
  <2>4. InOrder(fs, {}, <<>>)
    BY <2>2, <2>3 DEF InOrder
  <2> QED  BY <1>1, <2>1, <2>4 DEF GivenBy
<1>2. CASE t # ADDRESS
  BY <1>2 DEF GivenBy
<1> QED
  BY <1>1, <1>2

\* One more address goes to the end.
LEMMA OneMoreAddress ==
    ASSUME NEW fs, NEW n \in Nat, NEW at \in SUBSET (1 .. n), NEW S,
           NEW values \in Seq(S), InOrder(fs, at, values), fs[n + 1].val \in S
    PROVE  InOrder(fs, at \cup {n + 1}, values \o <<fs[n + 1].val>>)
<1> DEFINE new == values \o <<fs[n + 1].val>>
           m == Len(values)
<1>1. PICK pos \in [DOMAIN values -> at] :
        /\ \A i \in at : \E k \in DOMAIN values : pos[k] = i
        /\ \A k \in DOMAIN values :
             /\ values[k] = fs[pos[k]].val
             /\ \A l \in DOMAIN values : k < l => pos[k] < pos[l]
  BY DEF InOrder
<1>2. m \in Nat /\ DOMAIN values = 1 .. m
  OBVIOUS
<1>3. /\ DOMAIN new = 1 .. m + 1
      /\ \A k \in 1 .. m : new[k] = values[k]
      /\ new[m + 1] = fs[n + 1].val
  <2>1. <<fs[n + 1].val>> \in Seq(S)
    OBVIOUS
  <2>2. Len(<<fs[n + 1].val>>) = 1 /\ <<fs[n + 1].val>>[1] = fs[n + 1].val
    OBVIOUS
  <2> DEFINE last == <<fs[n + 1].val>>
  <2> HIDE DEF last
  <2>3. /\ Len(values \o last) = m + 1 /\ values \o last \in Seq(S)
        /\ \A k \in 1 .. m + 1 : (values \o last)[k] = IF k <= m THEN values[k] ELSE last[k - m]
    BY <2>1, <2>2, ConcatProperties DEF last
  <2> HIDE DEF m
  <2> QED  BY <1>2, <2>2, <2>3 DEF last
<1> HIDE DEF new, m
<1> DEFINE pos2 == [k \in 1 .. m + 1 |-> IF k = m + 1 THEN n + 1 ELSE pos[k]]
<1>4. \A k \in 1 .. m : /\ k \in DOMAIN values /\ pos[k] \in at /\ pos[k] \in 1 .. n
                        /\ pos2[k] = pos[k] /\ k # m + 1 /\ k \in 1 .. m + 1
  <2> TAKE k \in 1 .. m
  <2>1. k \in DOMAIN values /\ k # m + 1 /\ k \in 1 .. m + 1
    BY <1>2
  <2>2. pos2[k] = pos[k]
    BY <2>1
  <2>3. pos[k] \in at
    BY <2>1
  <2> QED  BY <2>1, <2>2, <2>3
<1>5. pos2 \in [DOMAIN new -> at \cup {n + 1}] /\ pos2[m + 1] = n + 1
  BY <1>2, <1>3
<1> HIDE DEF pos2
<1>6. \A i \in at \cup {n + 1} : \E k \in 1 .. m + 1 : pos2[k] = i
  <2>1. m + 1 \in 1 .. m + 1
    BY <1>2
  <2> QED  BY <1>1, <1>2, <1>4, <1>5, <2>1
<1>7. ASSUME NEW k \in 1 .. m + 1
      PROVE  /\ new[k] = fs[pos2[k]].val
             /\ \A l \in 1 .. m + 1 : k < l => pos2[k] < pos2[l]
  <2>1. CASE k = m + 1
    BY <1>2, <1>3, <1>5, <2>1
  <2>2. CASE k # m + 1
    <3>1. k \in 1 .. m
      BY <1>2, <2>2
    <3>2. new[k] = fs[pos2[k]].val
      BY <1>1, <1>2, <1>3, <1>4, <3>1
    <3>3. ASSUME NEW l \in 1 .. m + 1, k < l PROVE pos2[k] < pos2[l]
      <4>1. CASE l = m + 1
        BY <1>4, <1>5, <3>1, <4>1
      <4>2. CASE l # m + 1
        <5>1. l \in 1 .. m
          BY <1>2, <4>2
        <5> QED  BY <1>1, <1>2, <1>4, <3>1, <3>3, <5>1
      <4> QED  BY <4>1, <4>2
    <3> QED  BY <3>2, <3>3
  <2> QED  BY <2>1, <2>2
<1>8. InOrder(fs, at \cup {n + 1}, new)
  BY <1>3, <1>5, <1>6, <1>7, ZenonT(60) DEF InOrder
<1> QED
  BY <1>8 DEF new

LEMMA OneMoreField ==
    ASSUME NEW fs, NEW n \in Nat, NEW t \in Tags, NEW values, NEW S,
           GivenBy(fs, First(fs, n, t), t, values),
           t = ADDRESS => /\ values \in Seq(S) /\ fs[n + 1].val \in S
                          /\ Meaning(fs[n + 1]) = <<fs[n + 1].val>>
    PROVE  GivenBy(fs, First(fs, n + 1, t), t,
                   IF fs[n + 1].tag = t THEN Stored(values, fs[n + 1]) ELSE values)
<1> DEFINE at == First(fs, n, t)
           f == fs[n + 1]
<1>1. at \in SUBSET (1 .. n)
  BY DEF First
<1>2. CASE f.tag # t
  <2>1. First(fs, n + 1, t) = at
    <3>1. \A i \in 1 .. n + 1 : i \in 1 .. n \/ i = n + 1
      OBVIOUS
    <3>2. \A i \in 1 .. n : i \in 1 .. n + 1
      OBVIOUS
    <3> QED  BY <1>2, <3>1, <3>2 DEF First
  <2> QED  BY <1>2, <2>1
<1>3. CASE f.tag = t
  <2>1. First(fs, n + 1, t) = at \cup {n + 1}
    <3>1. \A i \in 1 .. n + 1 : i \in 1 .. n \/ i = n + 1
      OBVIOUS
    <3>2. \A i \in 1 .. n : i \in 1 .. n + 1
      OBVIOUS
    <3>3. n + 1 \in 1 .. n + 1
      OBVIOUS
    <3> QED  BY <1>3, <3>1, <3>2, <3>3 DEF First
  <2>2. CASE t = ADDRESS
    <3>1. InOrder(fs, at, values)
      BY <2>2 DEF GivenBy
    <3>2. InOrder(fs, at \cup {n + 1}, values \o <<f.val>>)
      BY <1>1, <2>2, <3>1, OneMoreAddress
    <3>3. Stored(values, f) = values \o <<f.val>>
      BY <1>3, <2>2 DEF Stored
    <3> QED  BY <1>3, <2>1, <2>2, <3>2, <3>3 DEF GivenBy
  <2>3. CASE t # ADDRESS
    <3>1. Stored(values, f) = Meaning(f)
      BY <1>3, <2>3 DEF Stored
    <3>2. n + 1 \in at \cup {n + 1} /\ \A j \in at \cup {n + 1} : j <= n + 1
      BY <1>1
    <3> HIDE DEF at
    <3> QED  BY <1>3, <2>1, <2>3, <3>1, <3>2 DEF GivenBy
  <2> QED  BY <2>2, <2>3
<1> QED
  BY <1>2, <1>3

----------------------------------------------------------------------------
(* The inductive invariant. *)

\* The configuration is what the entries taken so far give.
Building ==
    /\ \A t \in Tags : GivenBy(entries, First(entries, seen, t), t, cfg[t])
    /\ stage \in {"no link", "write", "sent", "parse"} => seen = 0
    /\ stage \in {"split", "done"} => seen = Len(entries)

\* What the later steps rely on.
Checked ==
    /\ stage = "split" => cfg[CERTIFICATE] # <<>>
    /\ stage \in {"split", "done"} => \A t \in Required : cfg[t] # <<>>
    /\ ask.user # <<>> => \/ fields = <<>> /\ stage = "no link"
                          \/ Exportable(srv, ask) /\ fields = ExportedFields(srv, ask)
                             /\ ask \in Asks
    /\ fields = <<>> => ends = <<>>

Typed ==
    /\ srv \in Servers /\ stage \in Stages
    /\ off \in Nat
    /\ entries \in Fields /\ seen \in 0 .. Len(entries)
    /\ DOMAIN cfg = Tags
    /\ cfg[ADDRESS] \in Seq(Seq(Byte))
    /\ \A t \in Tags : t # ADDRESS => cfg[t] = <<>> \/ \E z : cfg[t] = <<z>>
    /\ cfg[CERTIFICATE] # <<>> => \E v \in Seq(Byte) : cfg[CERTIFICATE] = <<v>>
    /\ certs \in Seq(Seq(Byte))

SInv == Typed /\ Building /\ Checked

LEMMA InitSInv == Init => SInv
<1> SUFFICES ASSUME Init PROVE SInv
  OBVIOUS
<1>1. /\ off = 0 /\ entries = <<>> /\ seen = 0 /\ cfg = Defaults /\ certs = <<>>
      /\ stage \in {"no link", "write", "sent"} /\ srv \in Servers
      /\ ask.user # <<>> => \/ fields = <<>> /\ stage = "no link"
                            \/ Exportable(srv, ask) /\ fields = ExportedFields(srv, ask)
                               /\ ask \in Asks
      /\ ends = <<>>
  <2>1. (CHOOSE s \in Servers : TRUE) \in Servers
    BY ServersAssumption
  <2>2. /\ off = 0 /\ entries = <<>> /\ seen = 0 /\ cfg = Defaults /\ certs = <<>>
        /\ ends = <<>>
    BY DEF Init, Fresh
  <2>3. CASE /\ srv \in Servers /\ ask \in Asks /\ buf = <<>>
             /\ IF Exportable(srv, ask)
                THEN fields = ExportedFields(srv, ask) /\ stage = "write"
                ELSE fields = <<>> /\ stage = "no link"
    BY <2>2, <2>3
  <2>4. CASE /\ srv = CHOOSE s \in Servers : TRUE
             /\ ask = [user |-> <<>>, name |-> <<>>]
             /\ \/ fields \in Others /\ buf = <<>> /\ stage = "write"
                \/ fields = <<>> /\ buf \in Raw /\ stage = "sent"
    <3>1. ask.user = <<>> /\ srv \in Servers
      BY <2>1, <2>4
    <3> QED  BY <2>2, <2>4, <3>1
  <2> QED  BY <2>3, <2>4 DEF Init
<1>0. off = 0 /\ seen = 0
  BY <1>1
<1>2. /\ DOMAIN Defaults = Tags /\ Defaults[ADDRESS] = <<>> /\ Defaults[CERTIFICATE] = <<>>
      /\ \A t \in Tags : Defaults[t] = <<>> \/ \E z : Defaults[t] = <<z>>
      /\ ADDRESS \in Tags /\ CERTIFICATE \in Tags
  BY DEF Defaults, Tags, ADDRESS, CERTIFICATE, VERSION, HAS_IPV6, SKIP_VERIFICATION,
         ANTI_DPI, PROTOCOL
<1>3. entries \in Fields /\ certs \in Seq(Seq(Byte)) /\ Len(entries) = 0
  BY <1>1, EmptySeq DEF Fields
<1>4. cfg[ADDRESS] \in Seq(Seq(Byte))
  BY <1>1, <1>2, EmptySeq
<1>5. Typed
  <2>1. off \in Nat /\ seen \in 0 .. Len(entries)
    BY <1>0, <1>3
  <2>2. stage \in Stages
    BY <1>1 DEF Stages
  <2> QED  BY <1>1, <1>2, <1>3, <1>4, <2>1, <2>2 DEF Typed
<1>6. Building
  <2>1. \A t \in Tags : First(entries, seen, t) = {}
    <3>1. 1 .. seen = {}
      BY <1>0
    <3> QED  BY <3>1 DEF First
  <2> QED  BY <1>1, <2>1, NothingGiven DEF Building
<1>7. Checked
  BY <1>1 DEF Checked
<1> QED
  BY <1>5, <1>6, <1>7 DEF SInv

\* Steps before the fields are taken.
LEMMA EarlySInv == SInv /\ (Put \/ Finish \/ NoQr \/ PasteAny) => SInv'
<1> SUFFICES ASSUME SInv, Put \/ Finish \/ NoQr \/ PasteAny PROVE SInv'
  OBVIOUS
<1>1. /\ srv' = srv /\ ask' = ask /\ fields' = fields /\ off' = off /\ entries' = entries
      /\ seen' = seen /\ cfg' = cfg /\ certs' = certs
      /\ stage \in {"write", "sent"}
      /\ stage' \in {"no link", "write", "sent", "parse", "refused"}
  BY DEF Put, Finish, NoQr, PasteAny, Paste, written
<1>2. Typed'
  BY <1>1 DEF SInv, Typed, Stages
<1>3. Building'
  BY <1>1 DEF SInv, Building
<1>4. fields = <<>> => ends' = ends
  <2>1. CASE Put
    <3>1. Len(ends) < Len(fields)
      BY <2>1 DEF Put
    <3>2. Len(<<>>) = 0 /\ (fields = <<>> => ends = <<>>)
      BY DEF SInv, Checked
    <3>3. fields # <<>>
      BY <3>1, <3>2
    <3> QED  BY <3>3
  <2>2. CASE Finish \/ NoQr \/ PasteAny
    BY <2>2 DEF Finish, NoQr, PasteAny, Paste, written
  <2> QED  BY <2>1, <2>2
<1>5. Checked'
  BY <1>1, <1>4 DEF SInv, Checked
<1> QED
  BY <1>2, <1>3, <1>5 DEF SInv

LEMMA ParseSInv == IInv /\ SInv /\ Parse => SInv'
<1> SUFFICES ASSUME IInv, SInv, Parse PROVE SInv'
  OBVIOUS
<1> DEFINE r == ReadTlv(Data, off)
<1>1. /\ srv' = srv /\ ask' = ask /\ fields' = fields /\ ends' = ends /\ seen' = seen
      /\ cfg' = cfg /\ certs' = certs /\ stage = "parse" /\ stage' \in {"parse", "apply", "refused"}
  BY DEF Parse, written
<1>2. seen = 0 /\ seen' = 0 /\ off \in Nat /\ entries \in Fields
  BY <1>1 DEF SInv, Building, Typed
<1>3. \/ off' = off /\ entries' = entries
      \/ r.ok /\ off' = r.next /\ entries' = Append(entries, r.field)
  BY DEF Parse
<1>4. Data \in Seq(Byte)
  <2>1. buf \in Seq(Byte) /\ chars \in 0 .. UriChars(Len(buf))
    BY DEF IInv, Written, Reading
  <2> QED  BY <2>1, DataIsPrefix
<1>5. off' \in Nat /\ entries' \in Fields
  <2>1. CASE off' = off /\ entries' = entries
    BY <1>2, <2>1
  <2>2. CASE r.ok /\ off' = r.next /\ entries' = Append(entries, r.field)
    <3>1. r.next \in Nat /\ r.field \in [tag : Nat, val : Seq(Byte)]
      BY <1>2, <1>4, <2>2, TlvTyped
    <3> HIDE DEF r
    <3> QED  BY <1>2, <2>2, <3>1, AppendProperties DEF Fields
  <2> QED  BY <1>3, <2>1, <2>2
<1>6. seen' \in 0 .. Len(entries')
  <2>1. Len(entries') \in Nat
    BY <1>5 DEF Fields
  <2> QED  BY <1>2, <2>1
<1>7. Typed'
  BY <1>1, <1>5, <1>6 DEF SInv, Typed, Stages
<1>8. Building'
  <2>1. \A t \in Tags : First(entries, seen, t) = {} /\ First(entries', seen', t) = {}
    <3>1. 1 .. seen = {} /\ 1 .. seen' = {}
      BY <1>2
    <3> QED  BY <3>1 DEF First
  <2>2. \A t \in Tags : GivenBy(entries', {}, t, Defaults[t])
    BY NothingGiven
  <2>3. ASSUME NEW t \in Tags PROVE GivenBy(entries', {}, t, cfg[t])
    <3>1. GivenBy(entries, {}, t, cfg[t])
      BY <2>1 DEF SInv, Building
    <3>2. CASE t # ADDRESS
      BY <3>1, <3>2 DEF GivenBy
    <3>3. CASE t = ADDRESS
      BY <3>1, <3>3 DEF GivenBy, InOrder
    <3> QED  BY <3>2, <3>3
  <2> QED  BY <1>1, <1>2, <2>1, <2>3 DEF Building
<1>9. Checked'
  BY <1>1 DEF SInv, Checked
<1> QED
  BY <1>7, <1>8, <1>9 DEF SInv

LEMMA ApplySInv == SInv /\ Apply => SInv'
<1> SUFFICES ASSUME SInv, Apply PROVE SInv'
  OBVIOUS
<1> DEFINE f == entries[seen + 1]
           n == seen
<1>1. /\ srv' = srv /\ ask' = ask /\ fields' = fields /\ ends' = ends /\ off' = off
      /\ entries' = entries /\ certs' = certs /\ stage = "apply"
      /\ stage' \in {"apply", "refused"} /\ seen < Len(entries)
  BY DEF Apply, written
<1>2. /\ entries \in Fields /\ seen \in Nat /\ seen + 1 \in 1 .. Len(entries)
      /\ f \in [tag : Nat, val : Seq(Byte)]
  <2>1. entries \in Fields /\ seen \in 0 .. Len(entries)
    BY DEF SInv, Typed
  <2>2. Len(entries) \in Nat
    BY <2>1 DEF Fields
  <2>3. seen + 1 \in 1 .. Len(entries)
    BY <1>1, <2>1, <2>2
  <2>4. PICK j \in 1 .. Len(entries) : j = seen + 1
    BY <2>3
  <2>5. entries[j] \in [tag : Nat, val : Seq(Byte)]
    BY <2>1, ElementOfSeq DEF Fields
  <2> QED  BY <2>1, <2>3, <2>4, <2>5
<1>3. Checked'
  BY <1>1 DEF SInv, Checked
<1>4. CASE cfg' = cfg /\ seen' = seen
  <2>1. Typed'
    BY <1>1, <1>4 DEF SInv, Typed, Stages
  <2>2. Building'
    BY <1>1, <1>4 DEF SInv, Building
  <2> QED  BY <1>3, <2>1, <2>2 DEF SInv
<1>5. ASSUME seen' = seen + 1,
             \/ f.tag \notin Tags /\ cfg' = cfg
             \/ /\ f.tag \in Tags /\ Meaning(f) # <<>>
                /\ cfg' = [cfg EXCEPT ![f.tag] = Stored(cfg[f.tag], f)]
      PROVE  SInv'
  <2>1. /\ DOMAIN cfg' = Tags
        /\ \A t \in Tags : cfg'[t] = IF f.tag = t THEN Stored(cfg[t], f) ELSE cfg[t]
        /\ \A t \in Tags : f.tag = t => Meaning(f) # <<>>
    <3>1. DOMAIN cfg = Tags
      BY DEF SInv, Typed
    <3> HIDE DEF f
    <3> QED  BY <1>5, <3>1
  <2>2. /\ f.tag \in {ADDRESS, CERTIFICATE} => Meaning(f) \in {<<>>, <<f.val>>}
        /\ Meaning(f) = <<>> \/ \E z : Meaning(f) = <<z>>
        /\ f.val \in Seq(Byte)
    BY <1>2, MeaningShape
  <2>3. ADDRESS \in Tags /\ CERTIFICATE \in Tags /\ CERTIFICATE # ADDRESS
    BY DEF ADDRESS, CERTIFICATE, Tags
  <2> HIDE DEF f
  <2>4. cfg'[ADDRESS] \in Seq(Seq(Byte))
    <3>1. cfg[ADDRESS] \in Seq(Seq(Byte))
      BY DEF SInv, Typed
    <3>2. CASE f.tag = ADDRESS
      <4>1. cfg'[ADDRESS] = cfg[ADDRESS] \o <<f.val>>
        BY <2>1, <2>2, <2>3, <3>2 DEF Stored
      <4>2. <<f.val>> \in Seq(Seq(Byte))
        BY <2>2
      <4> QED  BY <3>1, <4>1, <4>2, ConcatProperties
    <3>3. CASE f.tag # ADDRESS
      BY <2>1, <2>3, <3>1, <3>3
    <3> QED  BY <3>2, <3>3
  <2>5. \A t \in Tags : t # ADDRESS => cfg'[t] = <<>> \/ \E z : cfg'[t] = <<z>>
    <3> SUFFICES ASSUME NEW t \in Tags, t # ADDRESS
                 PROVE  cfg'[t] = <<>> \/ \E z : cfg'[t] = <<z>>
      OBVIOUS
    <3>1. CASE f.tag = t
      BY <2>1, <2>2, <3>1 DEF Stored
    <3>2. CASE f.tag # t
      BY <2>1, <3>2 DEF SInv, Typed
    <3> QED  BY <3>1, <3>2
  <2>6. cfg'[CERTIFICATE] # <<>> => \E v \in Seq(Byte) : cfg'[CERTIFICATE] = <<v>>
    <3>1. CASE f.tag = CERTIFICATE
      BY <2>1, <2>2, <2>3, <3>1 DEF Stored
    <3>2. CASE f.tag # CERTIFICATE
      BY <2>1, <2>3, <3>2 DEF SInv, Typed
    <3> QED  BY <3>1, <3>2
  <2>7. seen' \in 0 .. Len(entries')
    BY <1>1, <1>2, <1>5
  <2>8. Typed'
    BY <1>1, <2>1, <2>4, <2>5, <2>6, <2>7 DEF SInv, Typed, Stages
  <2>9. ASSUME NEW t \in Tags PROVE GivenBy(entries, First(entries, seen + 1, t), t, cfg'[t])
    <3>1. GivenBy(entries, First(entries, seen, t), t, cfg[t])
      BY DEF SInv, Building
    <3>2. CASE t = ADDRESS /\ f.tag = t
      <4> DEFINE S == Seq(Byte)
      <4>1. cfg[t] \in Seq(S) /\ f.val \in S /\ Meaning(f) = <<f.val>>
        BY <2>1, <2>2, <2>3, <3>2 DEF SInv, Typed
      <4> HIDE DEF S
      <4> QED  BY <1>2, <2>1, <3>1, <3>2, <4>1, OneMoreField DEF f
    <3>3. CASE f.tag # t
      <4>1. First(entries, seen + 1, t) = First(entries, seen, t)
        <5>1. \A i \in 1 .. seen + 1 : i \in 1 .. seen \/ i = seen + 1
          BY <1>2
        <5>2. \A i \in 1 .. seen : i \in 1 .. seen + 1
          BY <1>2
        <5> QED  BY <3>3, <5>1, <5>2 DEF First, f
      <4> QED  BY <2>1, <3>1, <3>3, <4>1
    <3>4. CASE t # ADDRESS /\ f.tag = t
      BY <1>2, <2>1, <3>1, <3>4, OneMoreField DEF f
    <3> QED  BY <3>2, <3>3, <3>4
  <2>10. Building'
    BY <1>1, <1>5, <2>9 DEF Building
  <2> QED  BY <1>3, <2>8, <2>10 DEF SInv
<1>6. QED
  <2>1. \/ cfg' = cfg /\ seen' = seen
        \/ seen' = seen + 1 /\ f.tag \notin Tags /\ cfg' = cfg
        \/ /\ seen' = seen + 1 /\ f.tag \in Tags /\ Meaning(f) # <<>>
           /\ cfg' = [cfg EXCEPT ![f.tag] = Stored(cfg[f.tag], f)]
    BY DEF Apply
  <2> HIDE DEF f
  <2> QED  BY <1>4, <1>5, <2>1

LEMMA CheckSInv == SInv /\ Check => SInv'
<1> SUFFICES ASSUME SInv, Check PROVE SInv'
  OBVIOUS
<1>1. /\ srv' = srv /\ ask' = ask /\ fields' = fields /\ ends' = ends /\ off' = 0
      /\ seen' = seen
      /\ entries' = entries /\ certs' = certs /\ cfg' = cfg /\ stage = "apply"
      /\ seen = Len(entries)
      /\ stage' = IF \E t \in Required : cfg[t] = <<>> THEN "refused"
                  ELSE IF cfg[CERTIFICATE] = <<>> THEN "done" ELSE "split"
  BY DEF Check, written
<1>2. stage' \in {"refused", "done", "split"}
  BY <1>1
<1>3. Typed'
  <2>1. off' \in Nat
    BY <1>1
  <2> QED  BY <1>1, <1>2, <2>1 DEF SInv, Typed, Stages
<1>4. Building'
  BY <1>1, <1>2 DEF SInv, Building
<1>5. Checked'
  BY <1>1 DEF SInv, Checked
<1> QED
  BY <1>3, <1>4, <1>5 DEF SInv

\* The certificates, and where the next one starts.
LEMMA SplitStep ==
    ASSUME SInv, Split
    PROVE  LET der == cfg[CERTIFICATE][1]
               end == DerEnd(der, off)
           IN /\ der \in Seq(Byte) /\ off \in Nat
              /\ \/ off' = off /\ certs' = certs /\ stage' \in {"done", "refused"}
                 \/ /\ off' = end /\ end \in off + 1 .. Len(der) /\ stage' = stage
                    /\ certs' = Append(certs, SubSeq(der, off + 1, end))
<1> DEFINE der == cfg[CERTIFICATE][1]
           end == DerEnd(der, off)
<1>1. der \in Seq(Byte) /\ off \in Nat
  <2>1. cfg[CERTIFICATE] # <<>>
    BY DEF Split, SInv, Checked
  <2>2. PICK v \in Seq(Byte) : cfg[CERTIFICATE] = <<v>>
    BY <2>1 DEF SInv, Typed
  <2>3. der = v
    BY <2>2
  <2> QED  BY <2>3 DEF SInv, Typed
<1>2. end = -1 \/ end \in off + 1 .. Len(der)
  BY <1>1, DerEndsInside
<1>3. \/ off' = off /\ certs' = certs /\ stage' \in {"done", "refused"}
      \/ /\ off' = end /\ ~(end < 0) /\ stage' = stage
         /\ certs' = Append(certs, SubSeq(der, off + 1, end))
  BY DEF Split
<1> HIDE DEF der, end
<1>4. end = -1 => end < 0
  OBVIOUS
<1>5. /\ der \in Seq(Byte) /\ off \in Nat
      /\ \/ off' = off /\ certs' = certs /\ stage' \in {"done", "refused"}
         \/ /\ off' = end /\ end \in off + 1 .. Len(der) /\ stage' = stage
            /\ certs' = Append(certs, SubSeq(der, off + 1, end))
  BY <1>1, <1>2, <1>3, <1>4
<1> QED
  BY <1>5 DEF der, end

LEMMA SplitSInv == SInv /\ Split => SInv'
<1> SUFFICES ASSUME SInv, Split PROVE SInv'
  OBVIOUS
<1> DEFINE der == cfg[CERTIFICATE][1]
           end == DerEnd(der, off)
<1>1. /\ der \in Seq(Byte) /\ off \in Nat
      /\ \/ off' = off /\ certs' = certs /\ stage' \in {"done", "refused"}
         \/ /\ off' = end /\ end \in off + 1 .. Len(der) /\ stage' = stage
            /\ certs' = Append(certs, SubSeq(der, off + 1, end))
  BY SplitStep
<1>2. /\ srv' = srv /\ ask' = ask /\ fields' = fields /\ ends' = ends
      /\ seen' = seen /\ entries' = entries /\ cfg' = cfg /\ stage = "split"
      /\ stage' \in {"split", "done", "refused"}
  BY DEF Split, written
<1> HIDE DEF der, end
<1>3. off' \in Nat /\ certs' \in Seq(Seq(Byte))
  <2>1. certs \in Seq(Seq(Byte)) /\ Len(der) \in Nat
    BY <1>1 DEF SInv, Typed
  <2>2. CASE off' = off /\ certs' = certs
    BY <1>1, <2>1, <2>2
  <2>3. CASE /\ off' = end /\ end \in off + 1 .. Len(der)
             /\ certs' = Append(certs, SubSeq(der, off + 1, end))
    <3>1. end \in Nat /\ off + 1 \in Int /\ end \in Int
      BY <1>1, <2>1, <2>3
    <3>2. \A i \in off + 1 .. end : der[i] \in Byte
      <4>1. \A i \in off + 1 .. end : i \in 1 .. Len(der)
        BY <1>1, <2>1, <2>3
      <4> QED  BY <1>1, <4>1, ElementOfSeq
    <3>3. SubSeq(der, off + 1, end) \in Seq(Byte)
      BY <3>1, <3>2, SubSeqProperties
    <3> QED  BY <2>1, <2>3, <3>1, <3>3, AppendProperties
  <2> QED  BY <1>1, <2>2, <2>3
<1>4. Typed'
  BY <1>2, <1>3 DEF SInv, Typed, Stages
<1>5. Building'
  BY <1>2 DEF SInv, Building
<1>6. Checked'
  BY <1>2 DEF SInv, Checked
<1> QED
  BY <1>4, <1>5, <1>6 DEF SInv

LEMMA SInvInductive == Spec => []SInv
<1>1. Init => SInv
  BY InitSInv
<1>2. IInv /\ SInv /\ [Next]_vars => SInv'
  <2> SUFFICES ASSUME IInv, SInv, [Next]_vars PROVE SInv'
    OBVIOUS
  <2>1. CASE Put \/ Finish \/ NoQr \/ PasteAny
    BY <2>1, EarlySInv
  <2>2. CASE Parse
    BY <2>2, ParseSInv
  <2>3. CASE Apply
    BY <2>3, ApplySInv
  <2>4. CASE Check
    BY <2>4, CheckSInv
  <2>5. CASE Split
    BY <2>5, SplitSInv
  <2>6. CASE UNCHANGED vars
    <3>1. /\ srv' = srv /\ ask' = ask /\ fields' = fields /\ ends' = ends /\ seen' = seen
          /\ off' = off /\ entries' = entries /\ cfg' = cfg /\ certs' = certs /\ stage' = stage
      BY <2>6 DEF vars
    <3> QED  BY <3>1 DEF SInv, Typed, Building, Checked
  <2> QED  BY <2>1, <2>2, <2>3, <2>4, <2>5, <2>6 DEF Next
<1> QED
  BY <1>1, <1>2, Inductive, PTL DEF Spec

----------------------------------------------------------------------------
(* Theorems. *)

\* The state's types.
THEOREM TypeCorrect == Spec => []TypeOK
<1>1. IInv /\ SInv => TypeOK
  <2> SUFFICES ASSUME IInv, SInv PROVE TypeOK
    OBVIOUS
  <2>1. buf \in Seq(Byte) /\ ends \in Seq(Nat) /\ chars \in Nat
    <3>1. buf \in Seq(Byte) /\ ends \in Seq(Nat) /\ chars \in 0 .. UriChars(Len(buf))
      BY DEF IInv, Written, Reading
    <3>2. Len(buf) \in Nat
      BY <3>1
    <3>3. UriChars(Len(buf)) \in Nat
      BY <3>2, Base64
    <3> QED  BY <3>1, <3>3
  <2>2. Len(ends) <= Len(fields)
    <3>1. CASE fields = <<>>
      <4>1. ends = fields /\ Len(ends) \in Nat
        BY <2>1, <3>1 DEF SInv, Checked
      <4> QED  BY <4>1
    <3>2. CASE fields # <<>>
      BY <3>2 DEF IInv, Written
    <3> QED  BY <3>1, <3>2
  <2>3. \A i \in DOMAIN entries : entries[i].tag \in Nat /\ entries[i].val \in Seq(Byte)
    <3> TAKE i \in DOMAIN entries
    <3>1. entries \in Seq([tag : Nat, val : Seq(Byte)]) /\ i \in 1 .. Len(entries)
      BY DEF SInv, Typed, Fields
    <3>2. entries[i] \in [tag : Nat, val : Seq(Byte)]
      BY <3>1, ElementOfSeq
    <3> QED  BY <3>2
  <2>4. \A t \in Tags : t # ADDRESS => Len(cfg[t]) <= 1
    <3> SUFFICES ASSUME NEW t \in Tags, t # ADDRESS PROVE Len(cfg[t]) <= 1
      OBVIOUS
    <3>1. cfg[t] = <<>> \/ \E z : cfg[t] = <<z>>
      BY DEF SInv, Typed
    <3>2. CASE cfg[t] = <<>>
      BY <3>2
    <3>3. ASSUME NEW z, cfg[t] = <<z>> PROVE Len(cfg[t]) <= 1
      <4>1. Len(<<z>>) = 1
        OBVIOUS
      <4> QED  BY <3>3, <4>1
    <3> QED  BY <3>1, <3>2, <3>3
  <2> QED  BY <2>1, <2>2, <2>3, <2>4 DEF SInv, Typed, TypeOK
<1> QED
  BY <1>1, Inductive, SInvInductive, PTL

\* Each setting of the client has the value of the last field that was read
\* for it, or its default; addresses add up in their order.
THEOREM LastField == Spec => []LastFieldWins
<1>1. SInv => LastFieldWins
  <2> SUFFICES ASSUME SInv, stage \in {"split", "done"}, NEW t \in Tags
               PROVE  Gives(entries, t, cfg[t])
    BY DEF LastFieldWins
  <2>1. GivenBy(entries, First(entries, Len(entries), t), t, cfg[t])
    BY DEF SInv, Building
  <2>2. Tagged(entries, t) = First(entries, Len(entries), t)
    BY DEF Tagged, First, SInv, Typed, Fields
  <2> QED  BY <2>1, <2>2 DEF Gives
<1> QED
  BY <1>1, SInvInductive, PTL

\* Both loops over a payload get further on in every round, for every
\* payload: neither can run for ever.
THEOREM LoopsTerminate == Spec => LoopsMoveOn
<1>1. IInv /\ SInv /\ [Next]_vars
        => [(stage \in {"parse", "split"} /\ stage' = stage) => (off' > off)]_vars
  <2> SUFFICES ASSUME IInv, SInv, Next, stage \in {"parse", "split"}, stage' = stage
               PROVE  off' > off
    OBVIOUS
  <2>1. CASE stage = "parse"
    <3>1. Parse
      BY <2>1 DEF Next, Put, Finish, NoQr, PasteAny, Apply, Check, Split
    <3>2. off \in Nat /\ buf \in Seq(Byte) /\ chars \in 0 .. UriChars(Len(buf))
      BY <2>1 DEF IInv, Written, Reading
    <3>3. Data \in Seq(Byte)
      BY <3>2, DataIsPrefix
    <3>4. ReadTlv(Data, off).ok /\ off' = ReadTlv(Data, off).next
      BY <2>1, <3>1 DEF Parse
    <3> QED  BY <3>2, <3>3, <3>4, TlvMovesOn
  <2>2. CASE stage = "split"
    <3>1. Split
      BY <2>2 DEF Next, Put, Finish, NoQr, PasteAny, Parse, Apply, Check
    <3> DEFINE end == DerEnd(cfg[CERTIFICATE][1], off)
    <3>2. off \in Nat /\ off' = end /\ end \in off + 1 .. Len(cfg[CERTIFICATE][1])
      BY <2>2, <3>1, SplitStep
    <3>3. Len(cfg[CERTIFICATE][1]) \in Nat
      BY <3>1, SplitStep
    <3> HIDE DEF end
    <3> QED  BY <3>2, <3>3
  <2> QED  BY <2>1, <2>2
<1> QED
  BY <1>1, Inductive, SInvInductive, PTL DEF Spec, LoopsMoveOn

\* An exported link has five fields that the client cannot do without, at its
\* beginning and nowhere else.
LEMMA ExportedShape ==
    ASSUME NEW s, NEW a
    PROVE  LET x == ExportedFields(s, a)
           IN /\ Len(x) \in Nat /\ Len(x) >= 5 /\ DOMAIN x = 1 .. Len(x)
              /\ x[1].tag = VERSION /\ x[2].tag = HOSTNAME /\ x[3].tag = ADDRESS
              /\ x[4].tag = USERNAME /\ x[5].tag = PASSWORD
              /\ x[2].val = s.host /\ x[3].val = Address(s) /\ x[4].val = a.user
              /\ x[5].val = FindUser(s, a.user).pass
              /\ x[1] = Field(VERSION, EncodeVarint(1)) /\ x[2] = Field(HOSTNAME, s.host)
              /\ x[3] = Field(ADDRESS, Address(s)) /\ x[4] = Field(USERNAME, a.user)
              /\ x[5] = Field(PASSWORD, FindUser(s, a.user).pass)
              /\ \A i \in 6 .. Len(x) :
                   \/ x[i] = Field(HAS_IPV6, <<0>>)
                   \/ x[i] = Field(NAME, a.name)
                   \/ Embeds(s.cert) /\ x[i] = Field(CERTIFICATE, s.cert.blocks[1])
              /\ \A i \in 6 .. Len(x) : x[i].tag \in {HAS_IPV6, NAME, CERTIFICATE}
<1> DEFINE u == FindUser(s, a.user)
           T == {VERSION, HOSTNAME, ADDRESS, USERNAME, PASSWORD, HAS_IPV6, NAME, CERTIFICATE}
           ver == Field(VERSION, EncodeVarint(1))
           host == Field(HOSTNAME, s.host)
           addr == Field(ADDRESS, Address(s))
           user == Field(USERNAME, a.user)
           pass == Field(PASSWORD, u.pass)
           ip == Field(HAS_IPV6, <<0>>)
           name == Field(NAME, a.name)
           cert == Field(CERTIFICATE, s.cert.blocks[1])
           F == {ver, host, addr, user, pass, ip, name, cert}
           G == {ip, name} \cup {y \in {cert} : Embeds(s.cert)}
           x0 == <<ver, host, addr, user, pass>>
           x1 == IF s.ipv6 THEN <<>> ELSE <<ip>>
           x2 == IF a.name = <<>> THEN <<>> ELSE <<name>>
           x3 == IF Embeds(s.cert) THEN <<cert>> ELSE <<>>
           x == ExportedFields(s, a)
<1>1. x = x0 \o x1 \o x2 \o x3
  BY DEF ExportedFields
<1>2. /\ ver.tag = VERSION /\ host.tag = HOSTNAME /\ addr.tag = ADDRESS
      /\ user.tag = USERNAME /\ pass.tag = PASSWORD
      /\ ip.tag = HAS_IPV6 /\ name.tag = NAME /\ cert.tag = CERTIFICATE
  BY DEF Field
<1>0. /\ host.val = s.host /\ addr.val = Address(s) /\ user.val = a.user
      /\ pass.val = FindUser(s, a.user).pass
  BY DEF Field
<1> HIDE DEF ver, host, addr, user, pass, ip, name, cert, x
<1>3. x0 \in Seq(F) /\ Len(x0) = 5
  OBVIOUS
<1>4. x1 \in Seq(G) /\ x2 \in Seq(G) /\ x3 \in Seq(G)
  <2>1. /\ <<>> \in Seq(G) /\ <<ip>> \in Seq(G) /\ <<name>> \in Seq(G)
        /\ Embeds(s.cert) => <<cert>> \in Seq(G)
    BY EmptySeq
  <2> HIDE DEF G
  <2> QED  BY <2>1
<1>5. /\ x0[1] = ver /\ x0[2] = host /\ x0[3] = addr /\ x0[4] = user /\ x0[5] = pass
  OBVIOUS
<1>6. \A g \in G : /\ g \in {ip, name} \/ (g = cert /\ Embeds(s.cert))
                   /\ g.tag \in {HAS_IPV6, NAME, CERTIFICATE}
  BY <1>2
<1> DEFINE y == x1 \o x2 \o x3
<1>7. y \in Seq(G) /\ x = x0 \o y
  <2> HIDE DEF x0, x1, x2, x3, G
  <2>1. x1 \o x2 \in Seq(G)
    BY <1>4, ConcatProperties
  <2>2. y \in Seq(G)
    BY <1>4, <2>1, ConcatProperties
  <2>3. x0 \in Seq(F \cup G) /\ x1 \in Seq(F \cup G) /\ x2 \in Seq(F \cup G) /\ x3 \in Seq(F \cup G)
    BY <1>3, <1>4, SeqMonotonic
  <2> HIDE DEF F
  <2>4. x1 \o x2 \in Seq(F \cup G)
    BY <2>3, ConcatProperties
  <2>5. (x0 \o x1) \o x2 = x0 \o (x1 \o x2)
    BY <2>3, ConcatAssociative, SMTT(30)
  <2>6. (x0 \o (x1 \o x2)) \o x3 = x0 \o ((x1 \o x2) \o x3)
    BY <2>3, <2>4, ConcatAssociative, SMTT(30)
  <2> QED  BY <1>1, <2>2, <2>5, <2>6
<1> HIDE DEF y, x0, x1, x2, x3
<1>8. /\ Len(y) \in Nat /\ Len(x) = 5 + Len(y)
      /\ \A i \in 1 .. 5 : x[i] = x0[i]
      /\ \A i \in 6 .. Len(x) : x[i] \in G
      /\ DOMAIN x = 1 .. Len(x)
  <2>1. y \in Seq(F \cup G) /\ x0 \in Seq(F \cup G)
    BY <1>3, <1>7, SeqMonotonic
  <2> HIDE DEF F, G
  <2>2. /\ x \in Seq(F \cup G) /\ Len(x) = Len(x0) + Len(y) /\ Len(y) \in Nat
        /\ \A i \in 1 .. Len(x0) + Len(y) : x[i] = IF i <= Len(x0) THEN x0[i] ELSE y[i - Len(x0)]
    BY <1>7, <2>1, ConcatProperties
  <2>3. \A i \in 6 .. Len(x) : x[i] \in G
    <3> TAKE i \in 6 .. Len(x)
    <3>1. i - 5 \in 1 .. Len(y) /\ x[i] = y[i - 5]
      BY <1>3, <2>2
    <3>2. y[i - 5] \in G
      BY <1>7, <3>1, ElementOfSeq
    <3> QED  BY <3>1, <3>2
  <2> QED  BY <1>3, <2>2, <2>3
<1>9. /\ Len(x) \in Nat /\ Len(x) >= 5 /\ DOMAIN x = 1 .. Len(x)
      /\ x[1].tag = VERSION /\ x[2].tag = HOSTNAME /\ x[3].tag = ADDRESS
      /\ x[4].tag = USERNAME /\ x[5].tag = PASSWORD
      /\ x[2].val = s.host /\ x[3].val = Address(s) /\ x[4].val = a.user
      /\ x[5].val = FindUser(s, a.user).pass
      /\ \A i \in 6 .. Len(x) : x[i].tag \in {HAS_IPV6, NAME, CERTIFICATE}
  <2> HIDE DEF G
  <2> QED  BY <1>0, <1>2, <1>5, <1>6, <1>8
<1>10. \A i \in 6 .. Len(x) : \/ x[i] = ip \/ x[i] = name
                              \/ Embeds(s.cert) /\ x[i] = cert
  <2> HIDE DEF G
  <2> QED  BY <1>6, <1>8
<1>11. x[1] = ver /\ x[2] = host /\ x[3] = addr /\ x[4] = user /\ x[5] = pass
  BY <1>5, <1>8
<1> QED
  BY <1>9, <1>10, <1>11 DEF x, ver, host, addr, user, pass, ip, name, cert

LEMMA GivenSame ==
    ASSUME NEW fs, NEW gs, NEW at, NEW t, NEW values,
           \A i \in at : fs[i] = gs[i], GivenBy(fs, at, t, values)
    PROVE  GivenBy(gs, at, t, values)
<1>1. CASE t = ADDRESS
  <2>1. InOrder(fs, at, values)
    BY <1>1 DEF GivenBy
  <2>2. PICK pos \in [DOMAIN values -> at] :
          /\ \A i \in at : \E k \in DOMAIN values : pos[k] = i
          /\ \A k \in DOMAIN values :
               /\ values[k] = fs[pos[k]].val
               /\ \A l \in DOMAIN values : k < l => pos[k] < pos[l]
    BY <2>1 DEF InOrder
  <2>3. \A k \in DOMAIN values : pos[k] \in at /\ fs[pos[k]] = gs[pos[k]]
    OBVIOUS
  <2>4. InOrder(gs, at, values)
    BY <2>2, <2>3 DEF InOrder
  <2> QED  BY <1>1, <2>4 DEF GivenBy
<1>2. CASE t # ADDRESS
  BY <1>2 DEF GivenBy
<1> QED
  BY <1>1, <1>2

\* What the importer has read is the beginning of an exported link.
LEMMA LinkSoFar ==
    ASSUME IInv, SInv, fields # <<>>, ask.user # <<>>
    PROVE  LET x == ExportedFields(srv, ask)
               m == Len(entries)
           IN /\ Exportable(srv, ask) /\ srv \in Servers /\ ask \in Asks
              /\ fields = x /\ m \in 0 .. Len(x) /\ m \in Nat
              /\ \A i \in 1 .. m : entries[i] = x[i]
<1> DEFINE x == ExportedFields(srv, ask)
           m == Len(entries)
<1>1. fields = x /\ Exportable(srv, ask) /\ srv \in Servers /\ ask \in Asks
  BY DEF SInv, Checked, Typed
<1>2. Len(x) \in Nat /\ Len(x) >= 5 /\ DOMAIN x = 1 .. Len(x)
  BY ExportedShape
<1> HIDE DEF x
<1>3. fields \in Seq([tag : Nat, val : Seq(Byte)])
  BY DEF IInv, Written
<1>4. m \in 0 .. Len(x) /\ m \in Nat /\ entries = SubSeq(x, 1, m)
  <2>1. /\ Len(entries) <= Len(fields)
        /\ entries = SubSeq(fields, 1, Len(entries))
        /\ Len(entries) \in Nat
    <3>1. Len(entries) \in 0 .. Len(fields) /\ entries = SubSeq(fields, 1, Len(entries))
      BY <1>3 DEF IInv, Reading
    <3> QED  BY <3>1
  <2> QED  BY <1>1, <1>2, <2>1
<1>5. \A i \in 1 .. m : entries[i] = x[i]
  <2> HIDE DEF m
  <2>1. \A i \in 1 .. m : x[i] \in [tag : Nat, val : Seq(Byte)]
    <3>1. \A i \in 1 .. m : i \in 1 .. Len(x)
      BY <1>2, <1>4
    <3> QED  BY <1>1, <1>3, <3>1, ElementOfSeq
  <2>2. \A i \in 1 .. m - 1 + 1 : SubSeq(x, 1, m)[i] = x[1 + i - 1]
    BY <1>4, <2>1, SubSeqProperties
  <2> QED  BY <1>4, <2>2
<1> QED
  BY <1>1, <1>3, <1>4, <1>5 DEF x

LEMMA LinkBegins ==
    ASSUME IInv, SInv, stage \in {"split", "done"}, ask.user # <<>>
    PROVE  LET x == ExportedFields(srv, ask)
               m == Len(entries)
           IN /\ Exportable(srv, ask) /\ srv \in Servers /\ ask \in Asks
              /\ fields = x /\ m \in 0 .. Len(x) /\ m \in Nat
              /\ \A i \in 1 .. m : entries[i] = x[i]
              /\ \A t \in Tags : GivenBy(entries, First(entries, m, t), t, cfg[t])
              /\ \A t \in Required : cfg[t] # <<>>
<1>1. /\ \A t \in Tags : GivenBy(entries, First(entries, Len(entries), t), t, cfg[t])
      /\ \A t \in Required : cfg[t] # <<>>
  BY DEF SInv, Building, Checked
<1>2. fields # <<>>
  <2>1. fields = ExportedFields(srv, ask) /\ Exportable(srv, ask) /\ srv \in Servers
        /\ ask \in Asks
    BY DEF SInv, Checked, Typed
  <2> DEFINE x == ExportedFields(srv, ask)
  <2>2. Len(x) \in Nat /\ Len(x) >= 5
    BY <2>1, ExportedShape
  <2> HIDE DEF x
  <2>3. x # <<>>
    BY <2>2
  <2> QED  BY <2>1, <2>3 DEF x
<1> QED
  BY <1>1, <1>2, LinkSoFar

\* The endpoint and the login of the whole link survive a cut that is not
\* noticed: the password is required and all of them stand before it.
LEMMA LoginKept == IInv /\ SInv => CutKeepsLogin
<1> DEFINE x == ExportedFields(srv, ask)
           m == Len(entries)
           Login == {VERSION, HOSTNAME, ADDRESS, USERNAME, PASSWORD}
<1> SUFFICES ASSUME IInv, SInv, stage = "done", ask.user # <<>>, NEW t \in Login
             PROVE  Gives(x, t, cfg[t])
  BY DEF CutKeepsLogin
<1>2. /\ Len(x) \in Nat /\ Len(x) >= 5 /\ DOMAIN x = 1 .. Len(x)
      /\ x[1].tag = VERSION /\ x[2].tag = HOSTNAME /\ x[3].tag = ADDRESS
      /\ x[4].tag = USERNAME /\ x[5].tag = PASSWORD
      /\ \A i \in 6 .. Len(x) : x[i].tag \in {HAS_IPV6, NAME, CERTIFICATE}
  BY ExportedShape
<1> HIDE DEF x
<1>4. m \in 0 .. Len(x) /\ m \in Nat /\ \A i \in 1 .. m : entries[i] = x[i]
  BY LinkBegins DEF x
<1>5. \A i \in 1 .. m : entries[i] = x[i]
  BY <1>4
<1>6. /\ \A s \in Tags : GivenBy(entries, First(entries, m, s), s, cfg[s])
      /\ cfg[PASSWORD] # <<>>
  BY LinkBegins DEF Required
<1> HIDE DEF m
<1> DEFINE at == CASE t = VERSION -> 1 [] t = HOSTNAME -> 2 [] t = ADDRESS -> 3
                   [] t = USERNAME -> 4 [] t = PASSWORD -> 5
<1> USE DEF VERSION, HOSTNAME, ADDRESS, USERNAME, PASSWORD, HAS_IPV6, NAME, CERTIFICATE
<1>7. \A i \in 1 .. Len(x) : i \in {1, 2, 3, 4, 5} \/ i \in 6 .. Len(x)
  BY <1>2
<1>8. m >= 5
  <2>1. First(entries, m, PASSWORD) # {}
    <3>1. SUFFICES ASSUME First(entries, m, PASSWORD) = {} PROVE FALSE
      OBVIOUS
    <3>2. GivenBy(entries, {}, PASSWORD, cfg[PASSWORD])
      <4>1. PASSWORD \in Tags
        BY DEF Tags
      <4>2. GivenBy(entries, First(entries, m, PASSWORD), PASSWORD, cfg[PASSWORD])
        BY <1>6, <4>1
      <4> QED  BY <3>1, <4>2
    <3>3. cfg[PASSWORD] = Defaults[PASSWORD]
      BY <3>2 DEF GivenBy
    <3>4. Defaults[PASSWORD] = <<>>
      BY DEF Defaults, Tags, SKIP_VERIFICATION, ANTI_DPI, PROTOCOL
    <3> QED  BY <1>6, <3>3, <3>4
  <2>2. PICK i \in 1 .. m : entries[i].tag = PASSWORD
    BY <2>1 DEF First
  <2>3. i \in 1 .. Len(x) /\ x[i].tag = PASSWORD
    BY <1>2, <1>4, <1>5, <2>2
  <2>4. i = 5
    BY <1>2, <1>7, <2>3
  <2> QED  BY <1>4, <2>2, <2>4
<1>9. at \in 1 .. 5 /\ x[at].tag = t
  BY <1>2
<1>10. \A i \in 1 .. Len(x) : x[i].tag = t => i = at
  BY <1>2, <1>7
<1> HIDE DEF at
<1>11. Tagged(x, t) = {at} /\ First(entries, m, t) = {at} /\ at \in 1 .. m
  <2>1. at \in 1 .. Len(x) /\ at \in 1 .. m
    BY <1>2, <1>4, <1>8, <1>9
  <2>2. Tagged(x, t) = {at}
    BY <1>2, <1>9, <1>10, <2>1 DEF Tagged
  <2>3. \A i \in 1 .. m : i \in 1 .. Len(x) /\ entries[i].tag = x[i].tag
    BY <1>2, <1>4, <1>5
  <2>4. First(entries, m, t) = {at}
    BY <1>9, <1>10, <2>1, <2>3 DEF First
  <2> QED  BY <2>1, <2>2, <2>4
<1>12. GivenBy(entries, {at}, t, cfg[t])
  <2>1. t \in Tags
    BY DEF Tags
  <2>2. GivenBy(entries, First(entries, m, t), t, cfg[t])
    BY <1>6, <2>1
  <2> QED  BY <1>11, <2>2
<1>13. GivenBy(x, {at}, t, cfg[t])
  BY <1>5, <1>11, <1>12, GivenSame
<1> QED  BY <1>11, <1>13 DEF Gives

THEOREM LoginSurvivesCut == Spec => []CutKeepsLogin
BY LoginKept, Inductive, SInvInductive, PTL
=============================================================================
