-------------------------- MODULE Enrolment_proofs --------------------------
(***************************************************************************)
(* The two programs agree on a user: what the endpoint's file says is what *)
(* the client's file says, because both write a text in a form that is     *)
(* read back as it was, and because the link in between loses nothing of   *)
(* the login.  And nothing on that way is refused, except for what         *)
(* EnrolmentWorks names.  The certificate chain of the endpoint is the way *)
(* up its trust store, and the client keeps every certificate of a link.   *)
(***************************************************************************)
EXTENDS Enrolment, DeeplinkApply_proofs, FiniteSetTheorems

----------------------------------------------------------------------------
(* TOML strings. *)

\* What FlattenSeq of n parts comes to: f[k] has the first k of them.
Flattens(f, parts, n, all) ==
    /\ f[0] = <<>>
    /\ \A k \in 1 .. n : f[k] = f[k - 1] \o parts[k]
    /\ f[n] = all

AreParts(parts, n, C) ==
    n \in Nat /\ Len(parts) = n /\ parts \in [1 .. n -> Seq(C)]

LEMMA Flattened ==
    ASSUME NEW C, NEW n, NEW parts, AreParts(parts, n, C)
    PROVE  \E f \in [0 .. n -> Seq(C)] : Flattens(f, parts, n, FlattenSeq(parts))
<1> DEFINE S == Seq(C)
           step == [k \in 1 .. n |-> [r \in S |-> r \o parts[k]]]
           Eq(x) == x = [i \in 1 .. n |-> IF i = 1 THEN parts[i] ELSE x[i - 1] \o parts[i]]
           h == CHOOSE x : Eq(x)
           f == [k \in 0 .. n |-> IF k = 0 THEN <<>> ELSE h[k]]
<1>1. /\ <<>> \in S /\ \A r, s \in S : r \o s \in S /\ <<>> \o s = s
      /\ \A k \in 1 .. n : parts[k] \in S
  BY EmptySeq, ConcatProperties, ConcatEmptySeq DEF AreParts
<1>n. n \in Nat
  BY DEF AreParts
<1> HIDE DEF S
<1>2. step \in [1 .. n -> [S -> S]]
  BY <1>1
<1>3. \A k \in 1 .. n, r \in S : step[k][r] = r \o parts[k]
  BY <1>1
<1> HIDE DEF step, Eq, h, f
<1>4. PICK g \in [0 .. n -> S] :
        g[0] = <<>> /\ \A k \in 1 .. n : g[k] = g[k - 1] \o parts[k] /\ g[k - 1] \in S
  <2> DEFINE a == <<>>
  <2>1. a \in S
    BY <1>1
  <2> HIDE DEF a
  <2>2. PICK g \in [0 .. n -> S] : g[0] = a /\ \A k \in 1 .. n : g[k] = step[k][g[k - 1]]
    BY <1>n, <1>2, <2>1, DownRecursion
  <2>3. \A k \in 1 .. n : g[k - 1] \in S
    BY <1>n
  <2> QED
    BY <1>3, <2>2, <2>3 DEF a
<1> USE DEF Eq, f
<1>5. \E x : Eq(x)
  <2> DEFINE x == [i \in 1 .. n |-> g[i]]
  <2>1. ASSUME NEW i \in 1 .. n
        PROVE  g[i] = IF i = 1 THEN parts[i] ELSE x[i - 1] \o parts[i]
    <3>1. CASE i = 1
      <4>1. 1 \in 1 .. n /\ 1 - 1 = 0
        BY <3>1
      <4>2. g[1] = g[1 - 1] \o parts[1] /\ parts[1] \in S
        BY <1>1, <1>4, <4>1
      <4> QED
        BY <1>1, <1>4, <3>1, <4>1, <4>2
    <3>2. CASE i # 1
      <4>1. i - 1 \in 1 .. n
        BY <1>n, <3>2
      <4> QED
        BY <1>4, <3>2, <4>1
    <3> QED
      BY <3>1, <3>2
  <2>2. Eq(x)
    BY <2>1
  <2> HIDE DEF x, Eq
  <2> QED
    BY <2>2
<1>6. Eq(h)
  <2> HIDE DEF Eq
  <2> QED
    BY <1>5 DEF h
<1>7. \A k \in 1 .. n : f[k] = f[k - 1] \o parts[k]
  <2> TAKE k \in 1 .. n
  <2>1. CASE k = 1
    <3>1. h[1] = parts[1] /\ parts[1] \in S
      BY <1>1, <1>6, <2>1
    <3>2. f[k] = h[1] /\ f[k - 1] = <<>>
      BY <1>n, <2>1
    <3> QED
      BY <1>1, <2>1, <3>1, <3>2
  <2>2. CASE k # 1
    <3>1. k - 1 \in 0 .. n /\ k - 1 # 0 /\ k \in 0 .. n /\ k # 0
      BY <1>n, <2>2
    <3>2. h[k] = h[k - 1] \o parts[k]
      BY <1>6, <2>2
    <3> QED
      BY <3>1, <3>2
  <2> QED
    BY <2>1, <2>2
<1>8. f \in [0 .. n -> S]
  <2> DEFINE T == {k \in Nat : k <= n => f[k] \in S}
  <2> SUFFICES Nat \subseteq T
    <3>1. \A k \in 0 .. n : k \in Nat /\ k <= n
      OBVIOUS
    <3>2. ASSUME Nat \subseteq T, NEW k \in 0 .. n PROVE f[k] \in S
      BY <3>1, <3>2
    <3> QED
      BY <3>2
  <2>1. 0 \in T
    BY <1>1
  <2>2. ASSUME NEW k \in Nat, k \in T PROVE k + 1 \in T
    <3> SUFFICES ASSUME k + 1 <= n PROVE f[k + 1] \in S
      OBVIOUS
    <3> DEFINE m == k + 1
    <3>1. m \in 1 .. n /\ f[k] \in S /\ m - 1 = k
      BY <1>n, <2>2
    <3> HIDE DEF f, m
    <3>2. f[m] = f[m - 1] \o parts[m]
      BY <1>7, <3>1
    <3>3. parts[m] \in S
      BY <1>1, <3>1
    <3> QED
      BY <1>1, <3>1, <3>2, <3>3 DEF m
  <2> HIDE DEF T
  <2> QED
    BY <2>1, <2>2, NatSets
<1>9. f[n] = FlattenSeq(parts)
  <2>1. CASE n = 0
    <3>1. Len(parts) = 0 /\ parts = <<>>
      BY <2>1 DEF AreParts
    <3>2. FlattenSeq(parts) = parts
      BY <3>1 DEF FlattenSeq
    <3> QED
      BY <2>1, <3>1, <3>2
  <2>2. CASE n # 0
    <3>1. Len(parts) = n
      BY DEF AreParts
    <3>2. FlattenSeq(parts) = h[n]
      BY <2>2, <3>1 DEF FlattenSeq, h
    <3> QED
      BY <1>n, <2>2, <3>2
  <2> QED
    BY <2>1, <2>2
<1>10. f[0] = <<>>
  BY <1>n
<1> HIDE DEF f
<1> QED
  BY <1>7, <1>8, <1>9, <1>10 DEF Flattens, S

\* Where the parts are in the whole.
Placed(f, parts, n, all, C) ==
    /\ \A k \in 1 .. n :
         /\ Len(f[k]) = Len(f[k - 1]) + Len(parts[k])
         /\ \A i \in 1 .. Len(parts[k]) : all[Len(f[k - 1]) + i] = parts[k][i]
    /\ \A k \in 0 .. n : Len(f[k]) \in Nat /\ Len(f[k]) <= Len(all)
    /\ Len(f[0]) = 0 /\ Len(f[n]) = Len(all) /\ all \in Seq(C)

LEMMA FlatPlaces ==
    ASSUME NEW C, NEW n, NEW parts, AreParts(parts, n, C), NEW all,
           NEW f \in [0 .. n -> Seq(C)], Flattens(f, parts, n, all)
    PROVE  Placed(f, parts, n, all, C)
<1>1. n \in Nat /\ \A k \in 1 .. n : parts[k] \in Seq(C)
  BY DEF AreParts
<1>2. \A k \in 0 .. n : f[k] \in Seq(C) /\ Len(f[k]) \in Nat
  OBVIOUS
<1>3. ASSUME NEW k \in 1 .. n
      PROVE  /\ Len(f[k]) = Len(f[k - 1]) + Len(parts[k]) /\ Len(parts[k]) \in Nat
             /\ \A i \in 1 .. Len(f[k - 1]) : f[k][i] = f[k - 1][i]
             /\ \A i \in 1 .. Len(parts[k]) : f[k][Len(f[k - 1]) + i] = parts[k][i]
  <2> DEFINE g == f[k - 1]
             p == parts[k]
  <2>1. k - 1 \in 0 .. n
    BY <1>1
  <2>2. g \in Seq(C) /\ p \in Seq(C) /\ f[k] = g \o p
    BY <1>1, <1>2, <2>1 DEF Flattens
  <2> HIDE DEF g, p
  <2>3. /\ Len(g \o p) = Len(g) + Len(p) /\ Len(g) \in Nat /\ Len(p) \in Nat
        /\ \A i \in 1 .. Len(g) + Len(p) :
             (g \o p)[i] = IF i <= Len(g) THEN g[i] ELSE p[i - Len(g)]
    BY <2>2, ConcatProperties
  <2>4. \A i \in 1 .. Len(g) : (g \o p)[i] = g[i]
    BY <2>3
  <2>5. ASSUME NEW i \in 1 .. Len(p) PROVE (g \o p)[Len(g) + i] = p[i]
    <3>1. Len(g) + i \in 1 .. Len(g) + Len(p) /\ ~(Len(g) + i <= Len(g))
          /\ Len(g) + i - Len(g) = i
      BY <2>3
    <3> QED
      BY <2>3, <3>1
  <2> QED
    BY <2>2, <2>3, <2>4, <2>5 DEF g, p
<1>4. ASSUME NEW k \in 0 .. n
      PROVE  /\ Len(f[k]) <= Len(f[n])
             /\ \A i \in 1 .. Len(f[k]) : f[n][i] = f[k][i]
  <2> DEFINE Good(m) == /\ Len(f[k]) <= Len(f[m])
                        /\ \A i \in 1 .. Len(f[k]) : f[m][i] = f[k][i]
             T == {j \in Nat : k + j <= n => Good(k + j)}
  <2>1. k \in Nat /\ n - k \in Nat /\ k + (n - k) = n
    BY <1>1
  <2>2. 0 \in T
    <3>1. k + 0 = k /\ 0 \in Nat
      BY <2>1
    <3>2. Good(k)
      BY <1>2
    <3> HIDE DEF Good
    <3> QED
      BY <3>1, <3>2
  <2>3. ASSUME NEW j \in Nat, j \in T PROVE j + 1 \in T
    <3> SUFFICES ASSUME k + (j + 1) <= n PROVE Good(k + (j + 1))
      OBVIOUS
    <3> DEFINE m == k + (j + 1)
    <3>1. m \in 1 .. n /\ m - 1 = k + j /\ m - 1 \in 0 .. n
      BY <1>1, <2>1
    <3>2. Good(m - 1)
      BY <2>1, <2>3, <3>1
    <3> HIDE DEF m
    <3>3. /\ Len(f[m - 1]) <= Len(f[m]) /\ Len(f[m]) \in Nat /\ Len(f[m - 1]) \in Nat
          /\ \A i \in 1 .. Len(f[m - 1]) : f[m][i] = f[m - 1][i]
      <4>1. Len(f[m - 1]) \in Nat
        BY <1>2, <3>1
      <4>2. /\ Len(f[m]) = Len(f[m - 1]) + Len(parts[m]) /\ Len(parts[m]) \in Nat
            /\ \A i \in 1 .. Len(f[m - 1]) : f[m][i] = f[m - 1][i]
        BY <1>3, <3>1
      <4>3. Len(f[m - 1]) <= Len(f[m]) /\ Len(f[m]) \in Nat
        <5> DEFINE x == Len(f[m - 1])
                   y == Len(f[m])
                   z == Len(parts[m])
        <5>1. x \in Nat /\ z \in Nat /\ y = x + z
          BY <4>1, <4>2
        <5> HIDE DEF x, y, z
        <5>2. x <= y /\ y \in Nat
          BY <5>1
        <5> QED
          BY <5>2 DEF x, y
      <4> QED
        BY <4>1, <4>2, <4>3
    <3>4. Good(m)
      BY <1>2, <3>2, <3>3
    <3> QED
      BY <3>4 DEF m
  <2> HIDE DEF T
  <2>4. Nat \subseteq T
    BY <2>2, <2>3, NatSets
  <2>5. n - k \in T
    BY <2>1, <2>4
  <2> HIDE DEF Good
  <2>6. Good(k + (n - k))
    BY <2>1, <2>5 DEF T
  <2>7. Good(n)
    BY <2>1, <2>6
  <2> QED
    BY <2>7 DEF Good
<1>5. f[n] = all /\ f[0] = <<>> /\ n \in 0 .. n
  BY <1>1 DEF Flattens
<1>6. ASSUME NEW k \in 1 .. n, NEW i \in 1 .. Len(parts[k])
      PROVE  all[Len(f[k - 1]) + i] = parts[k][i]
  <2>1. /\ k \in 0 .. n /\ k - 1 \in 0 .. n
    BY <1>1
  <2>2. Len(f[k - 1]) + i \in 1 .. Len(f[k])
    <3> DEFINE x == Len(f[k - 1])
               y == Len(f[k])
               z == Len(parts[k])
    <3>1. x \in Nat /\ y \in Nat
      BY <1>2, <2>1
    <3>2. y = x + z /\ z \in Nat
      BY <1>3
    <3>3. i \in 1 .. z
      OBVIOUS
    <3> HIDE DEF x, y, z
    <3>4. x + i \in 1 .. y
      BY <3>1, <3>2, <3>3
    <3> QED
      BY <3>4 DEF x, y
  <2> QED
    BY <1>3, <1>4, <1>5, <2>1, <2>2
<1> QED
  BY <1>2, <1>3, <1>4, <1>5, <1>6 DEF Placed

\* A reader of t that has read z from position i on.
Found(f, i, z) == f[i] = <<z>>

\* What the reader's recursive function computes, from the end of the text.
LEMMA ReadsFrom ==
    ASSUME NEW C, Newline \in C, Tab \in C, NEW t \in Seq(C), t # <<>>, t[1] = Quote
    PROVE  \E f :
             /\ Reads(t) = f[2]
             /\ \A i \in 1 .. Len(t) :
                  /\ i = Len(t) /\ t[i] = Quote => Found(f, i, <<>>)
                  /\ \A z \in Seq(C) :
                       /\ /\ t[i] \notin {Quote, Backslash, Newline, Control}
                          /\ Found(f, i + 1, z)
                          => Found(f, i, <<t[i]>> \o z)
                       /\ /\ t[i] = Backslash /\ i < Len(t) /\ Found(f, i + 2, z)
                          => Found(f, i, <<Unescaped(t[i + 1])>> \o z)
<1> DEFINE S == {<<>>} \cup {<<z>> : z \in Seq(C)}
           hi == Len(t) + 2
           over(i) == i > Len(t) \/ t[i] \in {Newline, Control}
           esc(i) == t[i] = Backslash
           last(i) == t[i] = Quote \/ (t[i] = Backslash /\ i = Len(t))
           stop == {i \in 1 .. hi : over(i) \/ last(i)}
           given == [i \in 1 .. hi |-> IF ~over(i) /\ t[i] = Quote /\ i = Len(t)
                                      THEN <<<<>>>> ELSE <<>>]
           char(i) == IF esc(i) THEN Unescaped(t[i + 1]) ELSE t[i]
           to == [i \in 1 .. hi |-> IF esc(i) THEN i + 2 ELSE i + 1]
           step == [i \in 1 .. hi |-> [r \in S |-> IF r = <<>> THEN <<>>
                                                  ELSE <<<<char(i)>> \o r[1]>>]]
           body(g, i) ==
             IF i > Len(t) \/ t[i] \in {Newline, Control} THEN <<>>
             ELSE IF t[i] = Quote THEN IF i = Len(t) THEN <<<<>>>> ELSE <<>>
             ELSE IF t[i] = Backslash /\ i = Len(t) THEN <<>>
             ELSE IF g[IF esc(i) THEN i + 2 ELSE i + 1] = <<>> THEN <<>>
             ELSE <<<<char(i)>> \o g[IF esc(i) THEN i + 2 ELSE i + 1][1]>>
           Eq(g) == g = [i \in 1 .. hi |-> body(g, i)]
           F == CHOOSE g : Eq(g)
<1>1. Len(t) \in Nat /\ hi \in Nat /\ Len(t) >= 1
  BY EmptySeq
<1>2. ASSUME NEW i \in 1 .. hi, i \notin stop
      PROVE  /\ i \in 1 .. Len(t) /\ char(i) \in C
             /\ to[i] \in i + 1 .. hi /\ to[i] = IF esc(i) THEN i + 2 ELSE i + 1
  <2>1. ~over(i) /\ ~last(i)
    BY <1>2
  <2>2. i \in 1 .. Len(t)
    BY <1>1, <2>1
  <2>3. esc(i) => i + 1 \in 1 .. Len(t)
    BY <1>1, <2>1, <2>2
  <2>4. char(i) \in C
    BY <2>2, <2>3, ElementOfSeq DEF Unescaped
  <2> QED
    BY <1>1, <2>2, <2>4
<1>3. ASSUME NEW i \in 1 .. hi, i \in stop PROVE given[i] \in S
  <2>1. PICK z \in Seq(C) : z = <<>>
    BY EmptySeq
  <2> QED
    BY <2>1
<1>4. ASSUME NEW i \in 1 .. hi, i \notin stop
      PROVE  step[i] \in [S -> S]
  <2>1. char(i) \in C
    BY <1>2, <1>4
  <2> DEFINE c == char(i)
  <2> HIDE DEF c
  <2>2. ASSUME NEW r \in S
        PROVE  (IF r = <<>> THEN <<>> ELSE <<<<c>> \o r[1]>>) \in S
    <3>1. CASE r = <<>>
      BY <3>1
    <3>2. CASE r # <<>>
      <4>1. PICK z \in Seq(C) : r = <<z>>
        BY <3>2
      <4>2. <<c>> \in Seq(C)
        BY <2>1 DEF c
      <4>3. <<c>> \o z \in Seq(C)
        BY <4>2, ConcatProperties
      <4> QED
        BY <3>2, <4>1, <4>3
    <3> QED
      BY <3>1, <3>2
  <2>3. step[i] = [r \in S |-> IF r = <<>> THEN <<>> ELSE <<<<c>> \o r[1]>>]
    BY DEF c
  <2> HIDE DEF S, step
  <2> QED
    BY <2>2, <2>3
<1>5. UpRule(S, 1, hi, stop, given, to, step)
  <2>1. \A i \in 1 .. hi : i \notin stop => to[i] \in i + 1 .. hi
    BY <1>2
  <2> HIDE DEF hi, S, stop, given, to, step
  <2> QED
    BY <1>1, <1>3, <1>4, <2>1 DEF UpRule
<1>6. PICK f : UpSolution(f, S, 1, hi, stop, given, to, step)
  <2> HIDE DEF hi, S, stop, given, to, step
  <2> QED
    BY <1>5, UpRecursion
<1>7. ASSUME NEW i \in 1 .. hi PROVE f[i] = body(f, i)
  <2>1. /\ i \in stop => f[i] = given[i]
        /\ i \notin stop => f[i] = step[i][f[to[i]]]
        /\ f \in [1 .. hi -> S]
    <3> HIDE DEF hi, S, stop, given, to, step
    <3> QED
      BY <1>6 DEF UpSolution
  <2>2. CASE i \in stop
    BY <2>1, <2>2
  <2>3. CASE i \notin stop
    <3> DEFINE p == IF esc(i) THEN i + 2 ELSE i + 1
               c == char(i)
    <3>1. p = to[i] /\ p \in 1 .. hi
      BY <1>1, <1>2, <2>3
    <3>2. f[p] \in S
      <4> HIDE DEF p, S, hi
      <4> QED
        BY <2>1, <3>1
    <3>3. f[i] = step[i][f[p]]
      <4> HIDE DEF p, S, hi, step, to, stop
      <4> QED
        BY <2>1, <2>3, <3>1
    <3>4. step[i][f[p]] = IF f[p] = <<>> THEN <<>> ELSE <<<<c>> \o f[p][1]>>
      <4> HIDE DEF p, S
      <4> QED
        BY <3>2
    <3>5. ~over(i) /\ ~last(i)
      BY <2>3
    <3>6. body(f, i) = IF f[p] = <<>> THEN <<>> ELSE <<<<c>> \o f[p][1]>>
      BY <3>5
    <3> HIDE DEF body, p, c, S, step
    <3> QED
      BY <3>3, <3>4, <3>6
  <2> QED
    BY <2>2, <2>3
<1>8. Eq(f)
  <2>1. f = [i \in 1 .. hi |-> f[i]]
    BY <1>6 DEF UpSolution
  <2> HIDE DEF body
  <2>2. f = [i \in 1 .. hi |-> body(f, i)]
    BY <1>7, <2>1
  <2> QED
    BY <2>2
<1>9. Eq(F)
  <2> HIDE DEF Eq
  <2> QED
    BY <1>8
<1>10. Reads(t) = F[2]
  BY DEF Reads
<1> HIDE DEF F
<1>11. ASSUME NEW i \in 1 .. hi PROVE F[i] = body(F, i)
  <2> HIDE DEF body, hi
  <2> QED
    BY <1>9
<1>12. ASSUME NEW i \in 1 .. Len(t)
       PROVE  /\ i = Len(t) /\ t[i] = Quote => Found(F, i, <<>>)
              /\ \A z \in Seq(C) :
                   /\ /\ t[i] \notin {Quote, Backslash, Newline, Control}
                      /\ Found(F, i + 1, z)
                      => Found(F, i, <<t[i]>> \o z)
                   /\ /\ t[i] = Backslash /\ i < Len(t) /\ Found(F, i + 2, z)
                      => Found(F, i, <<Unescaped(t[i + 1])>> \o z)
  <2>0. i \in 1 .. hi /\ ~(i > Len(t))
    BY <1>1
  <2>1. F[i] = body(F, i) /\ ~(i > Len(t))
    <3> HIDE DEF body, hi
    <3> QED
      BY <1>11, <2>0
  <2>2. i = Len(t) /\ t[i] = Quote => F[i] = <<<<>>>>
    BY <2>1, CharsAssumption
  <2>3. ASSUME NEW z \in Seq(C), t[i] \notin {Quote, Backslash, Newline, Control},
               F[i + 1] = <<z>>
        PROVE  F[i] = <<<<t[i]>> \o z>>
    <3>1. /\ t[i] \notin {Newline, Control} /\ t[i] # Quote /\ t[i] # Backslash
          /\ F[i + 1] # <<>> /\ F[i + 1][1] = z
      BY <2>3
    <3>2. body(F, i) = <<<<t[i]>> \o F[i + 1][1]>>
      BY <2>1, <3>1
    <3> HIDE DEF body
    <3> QED
      BY <2>1, <3>1, <3>2
  <2>4. ASSUME NEW z \in Seq(C), t[i] = Backslash, i < Len(t), F[i + 2] = <<z>>
        PROVE  F[i] = <<<<Unescaped(t[i + 1])>> \o z>>
    <3>1. /\ t[i] \notin {Newline, Control} /\ t[i] # Quote /\ t[i] = Backslash
          /\ i # Len(t) /\ F[i + 2] # <<>> /\ F[i + 2][1] = z
      BY <1>1, <2>4, CharsAssumption
    <3>2. body(F, i) = <<<<Unescaped(t[i + 1])>> \o F[i + 2][1]>>
      BY <2>1, <3>1
    <3> HIDE DEF body
    <3> QED
      BY <2>1, <3>1, <3>2
  <2> QED
    BY <2>2, <2>3, <2>4 DEF Found
<1> QED
  BY <1>10, <1>12

\* Whatever a text without control characters is, a reader of the string that
\* _toml_escape makes of it gets that text: no quote closes it early, and no
\* backslash of it is taken for an escape.
THEOREM EscapeRoundTrip ==
    ASSUME NEW V, NEW v \in Seq(V), \A i \in DOMAIN v : v[i] # Control
    PROVE  Reads(Escape(v)) = <<v>>
<1> DEFINE n == Len(v)
           C == V \cup {Quote, Backslash, Newline, LetterN, Tab, LetterT}
           parts == [i \in DOMAIN v |-> EscapedChar(v[i])]
           all == FlattenSeq(parts)
           t == <<Quote>> \o all \o <<Quote>>
           m == Len(all)
<1>1. n \in Nat /\ DOMAIN v = 1 .. n /\ \A i \in 1 .. n : v[i] \in V /\ v[i] # Control
  BY LenProperties, ElementOfSeq
<1>2. ASSUME NEW k \in 1 .. n
      PROVE  /\ v[k] \in {Quote, Backslash} => parts[k] = <<Backslash, v[k]>>
             /\ v[k] = Newline => parts[k] = <<Backslash, LetterN>>
             /\ v[k] = Tab => parts[k] = <<Backslash, LetterT>>
             /\ v[k] \notin {Quote, Backslash, Newline, Tab} => parts[k] = <<v[k]>>
             /\ parts[k] \in Seq(C)
  <2>1. parts[k] = EscapedChar(v[k])
    BY <1>1
  <2>2. /\ v[k] \in {Quote, Backslash} => parts[k] = <<Backslash, v[k]>>
        /\ v[k] = Newline => parts[k] = <<Backslash, LetterN>>
        /\ v[k] = Tab => parts[k] = <<Backslash, LetterT>>
        /\ v[k] \notin {Quote, Backslash, Newline, Tab} => parts[k] = <<v[k]>>
    BY <2>1, CharsAssumption DEF EscapedChar
  <2>3. v[k] \in C /\ Backslash \in C /\ LetterN \in C /\ LetterT \in C
    BY <1>1
  <2> HIDE DEF C, parts
  <2>4. parts[k] \in {<<Backslash, v[k]>>, <<Backslash, LetterN>>, <<Backslash, LetterT>>, <<v[k]>>}
    BY <2>2
  <2>5. /\ <<Backslash, v[k]>> \in Seq(C) /\ <<Backslash, LetterN>> \in Seq(C)
        /\ <<Backslash, LetterT>> \in Seq(C) /\ <<v[k]>> \in Seq(C)
    BY <2>3
  <2> QED
    BY <2>2, <2>4, <2>5
<1>3. AreParts(parts, n, C)
  <2>1. DOMAIN parts = 1 .. n /\ \A k \in 1 .. n : parts[k] \in Seq(C)
    BY <1>1, <1>2
  <2>2. parts \in [1 .. n -> Seq(C)]
    <3>1. parts = [k \in 1 .. n |-> parts[k]]
      BY <1>1
    <3> HIDE DEF parts, C
    <3> QED
      BY <2>1, <3>1
  <2>3. Len(parts) = n
    BY <1>1, <2>1
  <2> QED
    BY <1>1, <2>2, <2>3 DEF AreParts
<1> HIDE DEF parts, C
<1>4. PICK f \in [0 .. n -> Seq(C)] : Flattens(f, parts, n, all)
  BY <1>3, Flattened
<1> HIDE DEF all
<1>5. /\ \A k \in 1 .. n :
           /\ Len(f[k]) = Len(f[k - 1]) + Len(parts[k])
           /\ \A i \in 1 .. Len(parts[k]) : all[Len(f[k - 1]) + i] = parts[k][i]
      /\ \A k \in 0 .. n : Len(f[k]) \in Nat /\ Len(f[k]) <= m
      /\ Len(f[0]) = 0 /\ Len(f[n]) = m /\ all \in Seq(C)
  <2>1. Placed(f, parts, n, all, C)
    BY <1>3, <1>4, FlatPlaces
  <2> QED
    BY <2>1, Zenon DEF Placed
<1>6. /\ t \in Seq(C) /\ Len(t) = m + 2 /\ m \in Nat
      /\ t[1] = Quote /\ t[m + 2] = Quote
      /\ \A i \in 1 .. m : t[i + 1] = all[i]
  <2> DEFINE q == <<Quote>>
             x == q \o all
  <2>1. q \in Seq(C) /\ Len(q) = 1 /\ q[1] = Quote
    BY DEF C
  <2> HIDE DEF q
  <2>2. /\ x \in Seq(C) /\ Len(x) = m + 1 /\ m \in Nat
        /\ \A i \in 1 .. 1 + m : x[i] = IF i <= 1 THEN q[i] ELSE all[i - 1]
    <3>1. all \in Seq(C) /\ m \in Nat
      BY <1>5
    <3>2. /\ x \in Seq(C) /\ Len(x) = Len(q) + m
          /\ \A i \in 1 .. Len(q) + m : x[i] = IF i <= Len(q) THEN q[i] ELSE all[i - Len(q)]
      BY <2>1, <3>1, ConcatProperties
    <3> HIDE DEF x, m
    <3> QED
      BY <2>1, <3>1, <3>2
  <2>3. t = x \o q
    BY DEF q
  <2> HIDE DEF x, t, m
  <2>4. /\ t \in Seq(C) /\ Len(t) = m + 1 + 1
        /\ \A i \in 1 .. m + 1 + 1 : t[i] = IF i <= m + 1 THEN x[i] ELSE q[i - (m + 1)]
    <3>1. /\ x \o q \in Seq(C) /\ Len(x \o q) = Len(x) + Len(q)
          /\ \A i \in 1 .. Len(x) + Len(q) :
               (x \o q)[i] = IF i <= Len(x) THEN x[i] ELSE q[i - Len(x)]
      BY <2>1, <2>2, ConcatProperties
    <3> QED
      BY <2>1, <2>2, <2>3, <3>1
  <2>5. t[1] = Quote
    BY <2>1, <2>2, <2>4
  <2>6. t[m + 2] = Quote
    <3> DEFINE p == m + 2
    <3>1. p \in 1 .. m + 1 + 1 /\ ~(p <= m + 1) /\ p - (m + 1) = 1
      BY <2>2
    <3> HIDE DEF p
    <3>2. t[p] = q[p - (m + 1)]
      BY <2>4, <3>1
    <3> QED
      BY <2>1, <3>1, <3>2 DEF p
  <2>7. ASSUME NEW i \in 1 .. m PROVE t[i + 1] = all[i]
    <3>1. i + 1 \in 1 .. 1 + m /\ i + 1 \in 1 .. m + 1 + 1 /\ i + 1 <= m + 1
          /\ ~(i + 1 <= 1) /\ i + 1 - 1 = i
      BY <2>2
    <3> QED
      BY <2>2, <2>4, <3>1
  <2> QED
    BY <2>2, <2>4, <2>5, <2>6, <2>7
<1>7. Escape(v) = t
  BY DEF Escape, t, all, parts
<1> HIDE DEF t
<1>8. PICK F :
        /\ Reads(t) = F[2]
        /\ \A i \in 1 .. Len(t) :
             /\ i = Len(t) /\ t[i] = Quote => Found(F, i, <<>>)
             /\ \A z \in Seq(C) :
                  /\ /\ t[i] \notin {Quote, Backslash, Newline, Control}
                     /\ Found(F, i + 1, z)
                     => Found(F, i, <<t[i]>> \o z)
                  /\ /\ t[i] = Backslash /\ i < Len(t) /\ Found(F, i + 2, z)
                     => Found(F, i, <<Unescaped(t[i + 1])>> \o z)
  <2>1. t # <<>> /\ Newline \in C /\ Tab \in C
    <3>1. t # <<>>
      BY <1>6
    <3> QED
      BY <3>1 DEF C
  <2> QED
    BY <1>6, <2>1, ReadsFrom
<1> DEFINE place(k) == Len(f[k]) + 2
<1>9. ASSUME NEW k \in 1 .. n, NEW z \in Seq(C), Found(F, place(k), z)
      PROVE  Found(F, place(k - 1), <<v[k]>> \o z)
  <2> DEFINE i == place(k - 1)
             l == Len(f[k - 1])
  <2>1. /\ l \in Nat /\ i = l + 2 /\ place(k) = i + Len(parts[k])
        /\ Len(f[k]) = l + Len(parts[k]) /\ Len(f[k]) \in Nat /\ Len(f[k]) <= m
    <3>1. k - 1 \in 0 .. n /\ k \in 0 .. n
      BY <1>1
    <3>2. l \in Nat /\ Len(f[k]) = l + Len(parts[k]) /\ Len(f[k]) \in Nat /\ Len(f[k]) <= m
      BY <1>5, <3>1
    <3>3. Len(parts[k]) \in Nat
      BY <1>2
    <3> DEFINE y == Len(f[k])
               w == Len(parts[k])
    <3>4. i = l + 2 /\ place(k) = y + 2
      OBVIOUS
    <3> HIDE DEF i, l, y, w, place, m
    <3>5. l \in Nat /\ y = l + w /\ y \in Nat /\ y <= m /\ w \in Nat
      BY <3>2, <3>3 DEF y, w
    <3>6. place(k) = i + w
      BY <3>4, <3>5
    <3> QED
      BY <3>4, <3>5, <3>6 DEF y, w
  <2>2. \A j \in 1 .. Len(parts[k]) : all[l + j] = parts[k][j]
    BY <1>5
  <2> HIDE DEF l, m
  <2>3. ASSUME NEW j \in 1 .. Len(parts[k]), Len(parts[k]) \in Nat
        PROVE  t[l + j + 1] = parts[k][j] /\ l + j \in 1 .. m
    <3>1. l + j \in 1 .. m
      BY <1>6, <2>1, <2>3
    <3> QED
      BY <1>6, <2>2, <3>1
  <2> HIDE DEF place
  <2>4. CASE v[k] \notin {Quote, Backslash, Newline, Tab}
    <3>0. parts[k] = <<v[k]>>
      BY <1>2, <2>4
    <3>1. Len(parts[k]) = 1 /\ parts[k][1] = v[k]
      BY <3>0
    <3>2. 1 \in 1 .. Len(parts[k]) /\ Len(parts[k]) \in Nat /\ l + 1 + 1 = i
      BY <2>1, <3>1
    <3>3. t[i] = v[k] /\ i \in 1 .. Len(t) /\ place(k) = i + 1
      BY <1>6, <2>1, <2>3, <3>1, <3>2
    <3>4. t[i] \notin {Quote, Backslash, Newline, Control}
      BY <1>1, <2>4, <3>3
    <3> QED
      BY <1>8, <1>9, <3>3, <3>4
  <2>5. CASE v[k] \in {Quote, Backslash, Newline, Tab}
    <3> DEFINE c == CASE v[k] = Newline -> LetterN
                      [] v[k] = Tab -> LetterT
                      [] OTHER -> v[k]
    <3>0. parts[k] = <<Backslash, c>>
      BY <1>2, <2>5, CharsAssumption
    <3> HIDE DEF c
    <3>1. Len(parts[k]) = 2 /\ parts[k][1] = Backslash /\ parts[k][2] = c
      BY <3>0
    <3>2. /\ 1 \in 1 .. Len(parts[k]) /\ 2 \in 1 .. Len(parts[k])
          /\ Len(parts[k]) \in Nat /\ l + 1 + 1 = i /\ l + 2 + 1 = i + 1
      BY <2>1, <3>1
    <3>3. t[l + 1 + 1] = Backslash /\ t[l + 2 + 1] = c /\ l + 2 \in 1 .. m
      BY <2>3, <3>1, <3>2
    <3>4. /\ t[i] = Backslash /\ t[i + 1] = c /\ i \in 1 .. Len(t) /\ i < Len(t)
          /\ place(k) = i + 2
      BY <1>6, <2>1, <3>1, <3>2, <3>3
    <3>5. Found(F, i, <<Unescaped(t[i + 1])>> \o z)
      BY <1>8, <1>9, <3>4
    <3>6. Unescaped(c) = v[k]
      BY <2>5, CharsAssumption DEF c, Unescaped
    <3> QED
      BY <3>4, <3>5, <3>6
  <2> QED
    BY <2>4, <2>5
<1> DEFINE T == {j \in Nat : j <= n => Found(F, place(n - j), SubSeq(v, n - j + 1, n))}
<1>10. 0 \in T
  <2>1. SubSeq(v, n + 1, n) = <<>> /\ n - 0 = n
    BY <1>1, SubSeqEmpty
  <2>2. place(n) = Len(t) /\ Len(t) \in 1 .. Len(t)
    BY <1>5, <1>6
  <2>3. Found(F, place(n), <<>>)
    BY <1>6, <1>8, <2>2
  <2> HIDE DEF place
  <2> QED
    BY <2>1, <2>3
<1>11. ASSUME NEW j \in Nat, j \in T PROVE j + 1 \in T
  <2> SUFFICES ASSUME j + 1 <= n
               PROVE  Found(F, place(n - (j + 1)), SubSeq(v, n - (j + 1) + 1, n))
    OBVIOUS
  <2> DEFINE k == n - j
             z == SubSeq(v, k + 1, n)
  <2>1. k \in 1 .. n /\ k - 1 = n - (j + 1) /\ n - (j + 1) + 1 = k
    BY <1>1
  <2>2. Found(F, place(k), z)
    BY <1>11, <2>1
  <2>3. z \in Seq(C)
    <3>1. \A i \in k + 1 .. n : v[i] \in C
      BY <1>1, <2>1 DEF C
    <3> QED
      BY <1>1, <2>1, <3>1, SubSeqProperties
  <2>4. SubSeq(v, k, n) = <<v[k]>> \o z
    BY <2>1, SubSeqRecursiveFirst
  <2> HIDE DEF z, place, k
  <2>5. Found(F, place(k - 1), <<v[k]>> \o z)
    BY <1>9, <2>1, <2>2, <2>3
  <2> QED
    BY <2>1, <2>4, <2>5
<1>12. Found(F, 2, v)
  <2> HIDE DEF T
  <2>1. n \in T
    BY <1>1, <1>10, <1>11, NatSets
  <2>2. Found(F, place(n - n), SubSeq(v, n - n + 1, n))
    BY <1>1, <2>1 DEF T
  <2>3. n - n = 0 /\ place(0) = 2
    BY <1>1, <1>5
  <2>4. SubSeq(v, 1, n) = v
    BY SubSeqFull
  <2> HIDE DEF place
  <2> QED
    BY <2>2, <2>3, <2>4
<1> QED
  BY <1>7, <1>8, <1>12 DEF Found

----------------------------------------------------------------------------
(* The login. *)

\* Where the five fields of an exported link are.
LEMMA OneOfEach ==
    ASSUME NEW s, NEW a
    PROVE  LET x == ExportedFields(s, a)
           IN /\ Tagged(x, HOSTNAME) = {2} /\ Tagged(x, ADDRESS) = {3}
              /\ Tagged(x, USERNAME) = {4} /\ Tagged(x, PASSWORD) = {5}
<1> DEFINE x == ExportedFields(s, a)
<1>1. /\ Len(x) \in Nat /\ Len(x) >= 5 /\ DOMAIN x = 1 .. Len(x)
      /\ x[1].tag = VERSION /\ x[2].tag = HOSTNAME /\ x[3].tag = ADDRESS
      /\ x[4].tag = USERNAME /\ x[5].tag = PASSWORD
      /\ \A i \in 6 .. Len(x) : x[i].tag \in {HAS_IPV6, NAME, CERTIFICATE}
  BY ExportedShape
<1> HIDE DEF x
<1>2. \A i \in DOMAIN x : i \in {1, 2, 3, 4, 5} \/ i \in 6 .. Len(x)
  BY <1>1
<1>3. {1, 2, 3, 4, 5} \subseteq DOMAIN x
  BY <1>1
<1> USE DEF VERSION, HOSTNAME, ADDRESS, USERNAME, PASSWORD, HAS_IPV6, NAME, CERTIFICATE, Tagged
<1>4. Tagged(x, HOSTNAME) = {2}
  BY <1>1, <1>2, <1>3
<1>5. Tagged(x, ADDRESS) = {3}
  BY <1>1, <1>2, <1>3
<1>6. Tagged(x, USERNAME) = {4}
  BY <1>1, <1>2, <1>3
<1>7. Tagged(x, PASSWORD) = {5}
  BY <1>1, <1>2, <1>3
<1> QED
  BY <1>4, <1>5, <1>6, <1>7 DEF x

\* What a text field that has one place gives.
LEMMA OneText ==
    ASSUME NEW fs, NEW t \in {HOSTNAME, USERNAME, PASSWORD}, NEW k,
           Tagged(fs, t) = {k}, fs[k].tag = t, Gives(fs, t, cfg[t]), cfg[t] # <<>>
    PROVE  cfg[t] = <<fs[k].val>>
<1> USE DEF VERSION, HOSTNAME, ADDRESS, USERNAME, PASSWORD, HAS_IPV6, NAME, CERTIFICATE
<1>1. GivenBy(fs, {k}, t, cfg[t])
  BY DEF Gives
<1>2. \E i \in {k} : (\A j \in {k} : j <= i) /\ cfg[t] = Meaning(fs[i])
  <2>1. t # ADDRESS /\ {k} # {}
    OBVIOUS
  <2>2. GivenBy(fs, {k}, t, cfg[t]) =
          \E i \in {k} : (\A j \in {k} : j <= i) /\ cfg[t] = Meaning(fs[i])
    BY <2>1, Zenon DEF GivenBy
  <2> QED
    BY <1>1, <2>2
<1>3. cfg[t] = Meaning(fs[k])
  BY <1>2
<1>4. Meaning(fs[k]) = IF IsText(fs[k].val) THEN <<fs[k].val>> ELSE <<>>
  BY DEF Meaning, PROTOCOL, Flags, SKIP_VERIFICATION, ANTI_DPI, DNS_UPSTREAMS
<1> QED
  BY <1>3, <1>4

\* What an address field that has one place gives.
LEMMA OneAddress ==
    ASSUME NEW fs, NEW k \in Nat, NEW v \in Seq(Seq(Byte)), InOrder(fs, {k}, v)
    PROVE  v = <<fs[k].val>>
<1>1. PICK pos \in [DOMAIN v -> {k}] :
        /\ \A i \in {k} : \E l \in DOMAIN v : pos[l] = i
        /\ \A l \in DOMAIN v :
             /\ v[l] = fs[pos[l]].val
             /\ \A n \in DOMAIN v : l < n => pos[l] < pos[n]
  BY DEF InOrder
<1>2. DOMAIN v = 1 .. Len(v) /\ Len(v) \in Nat
  OBVIOUS
<1>3. \A l \in DOMAIN v : pos[l] = k
  OBVIOUS
<1>4. DOMAIN v # {}
  BY <1>1
<1>5. \A l, n \in DOMAIN v : ~(l < n)
  BY <1>1, <1>3
<1>6. Len(v) = 1
  <2>1. Len(v) >= 1
    BY <1>2, <1>4
  <2> DEFINE n == Len(v)
  <2>2. 1 \in DOMAIN v /\ n \in DOMAIN v /\ n \in Nat /\ n >= 1
    BY <1>2, <2>1
  <2> HIDE DEF n
  <2>3. ~(1 < n)
    BY <1>5, <2>2
  <2>4. n = 1
    BY <2>2, <2>3
  <2> QED
    BY <2>4 DEF n
<1>7. v[1] = fs[k].val
  BY <1>1, <1>2, <1>3, <1>6
<1> QED
  BY <1>2, <1>6, <1>7

\* The client's setting of the endpoint and the login is the endpoint's.
LEMMA LoginHere ==
    ASSUME IInv, SInv, stage = "done", ask.user # <<>>
    PROVE  LET u == FindUser(srv, ask.user)
           IN /\ cfg[HOSTNAME] = <<srv.host>> /\ cfg[ADDRESS] = <<Address(srv)>>
              /\ cfg[USERNAME] = <<ask.user>> /\ cfg[PASSWORD] = <<u.pass>>
              /\ srv.host \in Seq(Byte) /\ Address(srv) \in Seq(Byte)
              /\ ask.user \in Seq(Byte) /\ u.pass \in Seq(Byte)
              /\ Named(srv, ask.user) # {} /\ srv.host # <<>>
<1> DEFINE x == ExportedFields(srv, ask)
           u == FindUser(srv, ask.user)
<1>1. /\ Len(x) \in Nat /\ Len(x) >= 5 /\ DOMAIN x = 1 .. Len(x)
      /\ x[1].tag = VERSION /\ x[2].tag = HOSTNAME /\ x[3].tag = ADDRESS
      /\ x[4].tag = USERNAME /\ x[5].tag = PASSWORD
      /\ x[2].val = srv.host /\ x[3].val = Address(srv) /\ x[4].val = ask.user
      /\ x[5].val = u.pass
  BY ExportedShape
<1>2. /\ Tagged(x, HOSTNAME) = {2} /\ Tagged(x, ADDRESS) = {3}
      /\ Tagged(x, USERNAME) = {4} /\ Tagged(x, PASSWORD) = {5}
  BY OneOfEach
<1>3. /\ Exportable(srv, ask) /\ srv \in Servers /\ ask \in Asks
      /\ \A t \in Required : cfg[t] # <<>>
  BY LinkBegins
<1>4. \A t \in {VERSION, HOSTNAME, ADDRESS, USERNAME, PASSWORD} : Gives(x, t, cfg[t])
  BY LoginKept DEF CutKeepsLogin
<1>5. x \in Seq([tag : Nat, val : Seq(Byte)])
  BY <1>3, FieldsAssumption
<1> HIDE DEF x, u
<1>6. \A i \in 1 .. 5 : x[i].val \in Seq(Byte)
  <2> TAKE i \in 1 .. 5
  <2>1. i \in 1 .. Len(x)
    BY <1>1
  <2>2. x[i] \in [tag : Nat, val : Seq(Byte)]
    BY <1>5, <2>1, ElementOfSeq
  <2> QED
    BY <2>2
<1>7. cfg[HOSTNAME] = <<srv.host>>
  BY <1>1, <1>2, <1>3, <1>4, OneText DEF Required
<1>8. cfg[USERNAME] = <<ask.user>>
  BY <1>1, <1>2, <1>3, <1>4, OneText DEF Required
<1>9. cfg[PASSWORD] = <<u.pass>>
  BY <1>1, <1>2, <1>3, <1>4, OneText DEF Required
<1>10. cfg[ADDRESS] = <<Address(srv)>>
  <2>1. InOrder(x, {3}, cfg[ADDRESS])
    BY <1>2, <1>4 DEF Gives, GivenBy
  <2>2. cfg[ADDRESS] \in Seq(Seq(Byte))
    BY DEF SInv, Typed
  <2>3. cfg[ADDRESS] = <<x[3].val>>
    BY <2>1, <2>2, OneAddress
  <2> QED
    BY <1>1, <2>3
<1>11. Named(srv, ask.user) # {} /\ srv.host # <<>>
  BY <1>3 DEF Exportable
<1>12. /\ srv.host \in Seq(Byte) /\ Address(srv) \in Seq(Byte)
       /\ ask.user \in Seq(Byte) /\ u.pass \in Seq(Byte)
  BY <1>1, <1>6
<1> QED
  BY <1>7, <1>8, <1>9, <1>10, <1>11, <1>12 DEF u

\* find_user finds an account of that name.
LEMMA UserFound ==
    ASSUME srv \in Servers, NEW name, Named(srv, name) # {}
    PROVE  \E i \in DOMAIN srv.users :
             FindUser(srv, name) = srv.users[i] /\ srv.users[i].name = name
<1> DEFINE N == Named(srv, name)
<1>1. srv.users \in Seq([name : Seq(Byte), pass : Seq(Byte)])
  BY MasksAssumption
<1>2. N \subseteq DOMAIN srv.users /\ N \subseteq Nat /\ \A i \in N : srv.users[i].name = name
  BY <1>1 DEF Named
<1> HIDE DEF N
<1>3. \E i \in N : \A j \in N : i <= j
  <2>1. N # {}
    BY DEF N
  <2> QED
    BY <1>2, <2>1, LeastElement
<1> DEFINE i == CHOOSE k \in N : \A j \in N : k <= j
<1>4. i \in N
  BY <1>3
<1>5. FindUser(srv, name) = srv.users[i]
  BY DEF FindUser, N
<1> HIDE DEF i
<1> QED
  BY <1>2, <1>4, <1>5

\* Both programs write a text the same way, and read it the same way.
LEMMA OneToml ==
    ASSUME NEW v
    PROVE  /\ Server!Escape(v) = Escape(v) /\ Client!Escape(v) = Escape(v)
           /\ Server!Reads(v) = Reads(v) /\ Client!Reads(v) = Reads(v)
<1>1. Server!Escape(v) = Escape(v)
  BY DEF Server!Escape, Escape, Server!EscapedChar, EscapedChar, Server!FlattenSeq, FlattenSeq
<1>2. Client!Escape(v) = Escape(v)
  BY DEF Client!Escape, Escape, Client!EscapedChar, EscapedChar, Client!FlattenSeq, FlattenSeq
<1>3. Server!Reads(v) = Reads(v)
  BY DEF Server!Reads, Reads, Server!Unescaped, Unescaped
<1>4. Client!Reads(v) = Reads(v)
  BY DEF Client!Reads, Reads, Client!Unescaped, Unescaped
<1> QED
  BY <1>1, <1>2, <1>3, <1>4

\* A text that is not refused is read by the other program as it was.
LEMMA ReadBack ==
    ASSUME NEW v \in Seq(Byte), \A i \in DOMAIN v : v[i] # Control
    PROVE  /\ Server!Reads(Server!Escape(v)) = <<v>> /\ Client!Reads(Server!Escape(v)) = <<v>>
           /\ Server!Reads(Client!Escape(v)) = <<v>> /\ Client!Reads(Client!Escape(v)) = <<v>>
<1>1. Reads(Escape(v)) = <<v>>
  BY EscapeRoundTrip
<1> DEFINE t == Escape(v)
<1>2. Server!Escape(v) = t /\ Client!Escape(v) = t
  BY OneToml
<1> HIDE DEF t
<1>3. Server!Reads(t) = Reads(t) /\ Client!Reads(t) = Reads(t)
  BY OneToml
<1> QED
  BY <1>1, <1>2, <1>3 DEF t

LEMMA LoginAgrees == IInv /\ SInv => LoginMatches
<1> SUFFICES ASSUME IInv, SInv, Enrolling, Server!Accepted(srv), NEW s \in Settings
             PROVE  LET mine == Client!File(s, Row)
                    IN \E c \in Server!Files(srv).clients :
                         /\ Server!Reads(c.name) = <<ask.user>>
                         /\ Client!Reads(mine.username) = Server!Reads(c.name)
                         /\ Client!Reads(mine.password) = Server!Reads(c.pass)
                         /\ Server!Reads(c.pass) # <<>>
  BY DEF LoginMatches
<1> DEFINE u == FindUser(srv, ask.user)
           mine == Client!File(s, Row)
           c == [name |-> Server!Escape(u.name), pass |-> Server!Escape(u.pass)]
<1>1. /\ cfg[USERNAME] = <<ask.user>> /\ cfg[PASSWORD] = <<u.pass>>
      /\ ask.user \in Seq(Byte) /\ u.pass \in Seq(Byte)
      /\ Named(srv, ask.user) # {}
  BY LoginHere DEF Enrolling
<1>2. PICK i \in DOMAIN srv.users : u = srv.users[i] /\ u.name = ask.user
  <2>1. srv \in Servers
    BY DEF SInv, Typed
  <2> QED
    BY <1>1, <2>1, UserFound
<1>3. Server!UserAccepted(u)
  BY <1>2 DEF Server!Accepted
<1>4. c \in Server!Files(srv).clients
  <2>1. u \in Server!ToSet(srv.users)
    BY <1>2 DEF Server!ToSet
  <2> HIDE DEF u
  <2> QED
    BY <2>1 DEF Server!Files, Server!CredentialsToml
<1>5. Row.username = ask.user /\ Row.password = u.pass
  <2>1. cfg[USERNAME][1] = ask.user /\ cfg[PASSWORD][1] = u.pass
    BY <1>1
  <2> HIDE DEF u
  <2> QED
    BY <2>1 DEF Row, Client!Row
<1>6. mine.username = Client!Escape(ask.user) /\ mine.password = Client!Escape(u.pass)
  <2> HIDE DEF u
  <2> QED
    BY <1>5 DEF Client!File
<1>7. \A k \in DOMAIN ask.user : ask.user[k] # Control
  BY <1>2, <1>3, MasksAssumption DEF Server!UserAccepted, Server!IsName
<1>8. \A k \in DOMAIN u.pass : u.pass[k] # Control
  BY <1>3 DEF Server!UserAccepted, Server!Refuses
<1> HIDE DEF u, mine
<1>9. c.name = Server!Escape(ask.user) /\ c.pass = Server!Escape(u.pass)
  BY <1>2
<1>10. Server!Reads(c.name) = <<ask.user>> /\ Client!Reads(mine.username) = <<ask.user>>
  BY <1>1, <1>6, <1>7, <1>9, ReadBack
<1>11. Server!Reads(c.pass) = <<u.pass>> /\ Client!Reads(mine.password) = <<u.pass>>
  BY <1>1, <1>6, <1>8, <1>9, ReadBack
<1>12. Server!Reads(c.pass) # <<>>
  <2>1. \A z : <<z>> # <<>>
    OBVIOUS
  <2> HIDE DEF c
  <2> QED
    BY <1>11, <2>1
<1> HIDE DEF c
<1> QED
  BY <1>4, <1>10, <1>11, <1>12 DEF mine

\* A user who was set up with a link logs in with what the endpoint has for
\* that user, whatever the name, the password and the other accounts are.
THEOREM LoginsAgree == Spec => []LoginMatches
BY LoginAgrees, Inductive, SInvInductive, PTL

----------------------------------------------------------------------------
(* The address. *)

\* The first and the last place of a text where something is.
LEMMA Extremes ==
    ASSUME NEW n \in Nat, NEW T, T \subseteq 1 .. n, T # {}
    PROVE  /\ Client!Min(T) \in T /\ \A k \in T : Client!Min(T) <= k
           /\ Client!Max(T) \in T /\ \A k \in T : k <= Client!Max(T)
<1>1. \E m \in T : \A k \in T : m <= k
  <2>1. T \subseteq Nat
    OBVIOUS
  <2> QED
    BY <2>1, LeastElement
<1>2. \E m \in T : \A k \in T : m >= k
  <2> DEFINE U == {j \in Nat : n - j \in T}
  <2>1. \A k \in T : k \in Nat /\ n - k \in Nat /\ n - (n - k) = k
    OBVIOUS
  <2>2. U # {}
    BY <2>1
  <2>3. PICK j \in U : \A k \in U : j <= k
    BY <2>2, LeastElement
  <2>4. n - j \in T /\ j \in Nat
    OBVIOUS
  <2>5. ASSUME NEW k \in T PROVE n - j >= k
    <3>1. n - k \in U
      BY <2>1
    <3>2. j <= n - k
      BY <2>3, <3>1
    <3> QED
      BY <2>1, <2>4, <3>2
  <2> QED
    BY <2>4, <2>5
<1>3. Client!Min(T) \in T /\ \A k \in T : Client!Min(T) <= k
  BY <1>1 DEF Client!Min
<1>4. Client!Max(T) \in T /\ \A k \in T : Client!Max(T) >= k
  BY <1>2 DEF Client!Max
<1>5. \A k \in T : k \in Nat
  OBVIOUS
<1> QED
  BY <1>3, <1>4, <1>5

\* What strip() leaves: a part of the text, all of it when neither its first
\* nor its last character is a blank, nothing of an empty text.
LEMMA TrimmedType ==
    ASSUME NEW C, NEW s \in Seq(C)
    PROVE  Client!Trimmed(s) \in Seq(C)
<1> DEFINE solid == {i \in DOMAIN s : s[i] \notin Blanks}
<1>1. CASE solid = {}
  BY <1>1, EmptySeq DEF Client!Trimmed
<1>2. CASE solid # {}
  <2> DEFINE lo == Client!Min(solid)
             hi == Client!Max(solid)
  <2>1. Len(s) \in Nat /\ DOMAIN s = 1 .. Len(s) /\ solid \subseteq 1 .. Len(s)
    OBVIOUS
  <2>2. lo \in solid /\ hi \in solid
    <3> HIDE DEF solid
    <3> QED
      BY <1>2, <2>1, Extremes
  <2> HIDE DEF lo, hi
  <2>3. lo \in 1 .. Len(s) /\ hi \in 1 .. Len(s)
    BY <2>1, <2>2
  <2>4. \A i \in lo .. hi : i \in 1 .. Len(s)
    BY <2>1, <2>3
  <2>5. \A i \in lo .. hi : s[i] \in C
    BY <2>4, ElementOfSeq
  <2>6. SubSeq(s, lo, hi) \in Seq(C)
    BY <2>1, <2>3, <2>5, SubSeqProperties
  <2> QED
    BY <1>2, <2>6 DEF Client!Trimmed, lo, hi
<1> QED
  BY <1>1, <1>2

LEMMA TrimmedSame ==
    ASSUME NEW C, NEW s \in Seq(C), s # <<>>, s[1] \notin Blanks, s[Len(s)] \notin Blanks
    PROVE  Client!Trimmed(s) = s
<1> DEFINE solid == {i \in DOMAIN s : s[i] \notin Blanks}
           n == Len(s)
<1>1. n \in Nat \ {0} /\ DOMAIN s = 1 .. n
  BY EmptySeq
<1>2. 1 \in solid /\ n \in solid /\ solid \subseteq 1 .. n
  BY <1>1
<1>3. Client!Min(solid) = 1 /\ Client!Max(solid) = n
  <2> HIDE DEF solid, n
  <2>1. /\ Client!Min(solid) \in solid /\ \A k \in solid : Client!Min(solid) <= k
        /\ Client!Max(solid) \in solid /\ \A k \in solid : k <= Client!Max(solid)
    BY <1>1, <1>2, Extremes
  <2>2. /\ Client!Min(solid) \in 1 .. n /\ Client!Min(solid) <= 1
        /\ Client!Max(solid) \in 1 .. n /\ n <= Client!Max(solid)
    BY <1>2, <2>1
  <2> QED
    BY <1>1, <2>2
<1>4. Client!Trimmed(s) = SubSeq(s, 1, n)
  <2>1. Client!Trimmed(s) = SubSeq(s, Client!Min(solid), Client!Max(solid))
    BY <1>2 DEF Client!Trimmed
  <2> HIDE DEF solid, n
  <2> QED
    BY <1>3, <2>1
<1>5. SubSeq(s, 1, n) = s
  BY SubSeqFull
<1> QED
  BY <1>4, <1>5

LEMMA TrimmedEmpty == Client!Trimmed(<<>>) = <<>>
BY DEF Client!Trimmed

\* What _csv comes to from each place of the text on.
LEMMA ItemsFrom ==
    ASSUME NEW C, NEW t \in Seq(C)
    PROVE  \E F :
             /\ Client!Items(t) = F[1]
             /\ \A i \in 1 .. Len(t) + 1 :
                  (\A j \in i .. Len(t) : t[j] # Comma)
                  => LET x == Client!Trimmed(SubSeq(t, i, Len(t)))
                     IN F[i] = IF x = <<>> THEN <<>> ELSE <<x>>
             /\ \A i \in 1 .. Len(t), e \in 1 .. Len(t) :
                  i < e /\ t[e] = Comma /\ (\A j \in i .. e - 1 : t[j] # Comma)
                  => LET x == Client!Trimmed(SubSeq(t, i, e - 1))
                     IN x # <<>> => F[i] = <<x>> \o F[e + 1]
<1> DEFINE n == Len(t)
           S == Seq(Seq(C))
           Commas(i) == {j \in i .. n : t[j] = Comma}
           end(i) == IF Commas(i) = {} THEN n + 1 ELSE Client!Min(Commas(i))
           piece(i) == Client!Trimmed(SubSeq(t, i, end(i) - 1))
           rest(f, i) == IF Commas(i) = {} THEN <<>> ELSE f[end(i) + 1]
           body(f, i) == IF piece(i) = <<>> THEN rest(f, i) ELSE <<piece(i)>> \o rest(f, i)
           Eq(f) == f = [i \in 1 .. n + 1 |-> body(f, i)]
           F == CHOOSE f : Eq(f)
           stop == {i \in 1 .. n + 1 : Commas(i) = {}}
           given == [i \in 1 .. n + 1 |-> IF piece(i) = <<>> THEN <<>> ELSE <<piece(i)>> \o <<>>]
           to == [i \in 1 .. n + 1 |-> end(i) + 1]
           step == [i \in 1 .. n + 1 |->
                      [r \in S |-> IF piece(i) = <<>> THEN r ELSE <<piece(i)>> \o r]]
<1>1. n \in Nat /\ \A i \in 1 .. n : t[i] \in C
  BY ElementOfSeq
<1>2. ASSUME NEW i \in 1 .. n + 1, Commas(i) # {}
      PROVE  /\ end(i) \in i .. n /\ t[end(i)] = Comma
             /\ \A j \in i .. n : t[j] = Comma => end(i) <= j
  <2> DEFINE T == Commas(i)
  <2>1. T \subseteq Nat /\ T # {}
    BY <1>1, <1>2
  <2>2. PICK m \in T : \A j \in T : m <= j
    <3> HIDE DEF T
    <3> QED
      BY <2>1, LeastElement
  <2>3. Client!Min(T) \in T /\ \A j \in T : Client!Min(T) <= j
    <3> HIDE DEF T
    <3> QED
      BY <2>2 DEF Client!Min
  <2>4. end(i) = Client!Min(T)
    BY <1>2
  <2> HIDE DEF end
  <2> QED
    BY <2>3, <2>4
<1>3. \A i \in 1 .. n + 1 : Commas(i) = {} => end(i) = n + 1
  OBVIOUS
<1>4. ASSUME NEW i \in 1 .. n + 1
      PROVE  <<piece(i)>> \in S
  <2>1. end(i) \in Int /\ end(i) - 1 <= n /\ i \in Int
    BY <1>1, <1>2, <1>3
  <2> HIDE DEF end
  <2>2. \A j \in i .. end(i) - 1 : t[j] \in C
    BY <1>1, <2>1
  <2>3. SubSeq(t, i, end(i) - 1) \in Seq(C)
    BY <2>1, <2>2, SubSeqProperties
  <2> HIDE DEF piece
  <2>4. piece(i) \in Seq(C)
    BY <2>3, TrimmedType DEF piece
  <2> QED
    BY <2>4
<1>5. <<>> \in S /\ \A r, s \in S : r \o s \in S /\ s \o <<>> = s
  BY EmptySeq, ConcatProperties, ConcatEmptySeq
<1> HIDE DEF n, S, Commas, end, piece
<1>6. UpRule(S, 1, n + 1, stop, given, to, step)
  <2>1. \A i \in 1 .. n + 1 : i \in stop => given[i] \in S
    BY <1>4, <1>5
  <2>2. ASSUME NEW i \in 1 .. n + 1, i \notin stop
        PROVE  to[i] \in i + 1 .. n + 1 /\ step[i] \in [S -> S]
    <3>1. end(i) \in i .. n
      BY <1>2, <2>2
    <3>2. end(i) + 1 \in i + 1 .. n + 1
      BY <1>1, <3>1
    <3>3. \A r \in S : (IF piece(i) = <<>> THEN r ELSE <<piece(i)>> \o r) \in S
      BY <1>4, <1>5
    <3> QED
      BY <3>2, <3>3
  <2>3. 1 \in Int /\ n + 1 \in Int
    BY <1>1
  <2> QED
    BY <2>1, <2>2, <2>3 DEF UpRule
<1>7. PICK g : UpSolution(g, S, 1, n + 1, stop, given, to, step)
  <2> HIDE DEF stop, given, to, step
  <2> QED
    BY <1>6, UpRecursion
<1>8. g \in [1 .. n + 1 -> S]
  BY <1>7 DEF UpSolution
<1>9. \A i \in 1 .. n + 1 : g[i] = body(g, i)
  <2> TAKE i \in 1 .. n + 1
  <2>1. CASE i \in stop
    <3>1. g[i] = given[i] /\ Commas(i) = {}
      BY <1>7, <2>1 DEF UpSolution
    <3> QED
      BY <3>1
  <2>2. CASE i \notin stop
    <3>1. end(i) \in i .. n /\ Commas(i) # {}
      BY <1>2, <2>2
    <3>2. to[i] = end(i) + 1 /\ end(i) + 1 \in 1 .. n + 1
      BY <1>1, <3>1
    <3>3. g[i] = step[i][g[to[i]]] /\ g[end(i) + 1] \in S
      BY <1>7, <1>8, <2>2, <3>2 DEF UpSolution
    <3> QED
      BY <3>1, <3>2, <3>3
  <2> QED
    BY <2>1, <2>2
<1>10. Eq(g)
  <2> HIDE DEF body
  <2>1. g = [i \in 1 .. n + 1 |-> g[i]]
    BY <1>8
  <2> QED
    BY <1>9, <2>1
<1> HIDE DEF stop, given, to, step
<1>11. Eq(F)
  <2> HIDE DEF Eq
  <2> QED
    BY <1>10
<1>12. Client!Items(t) = F[1]
  BY DEF Client!Items, F, Eq, body, rest, piece, end, Commas, n
<1> HIDE DEF F
<1>13. \A i \in 1 .. n + 1 : F[i] = body(F, i)
  <2> HIDE DEF body
  <2> QED
    BY <1>11
<1>14. ASSUME NEW i \in 1 .. n + 1, \A j \in i .. n : t[j] # Comma
       PROVE  LET x == Client!Trimmed(SubSeq(t, i, n))
              IN F[i] = IF x = <<>> THEN <<>> ELSE <<x>>
  <2>1. Commas(i) = {}
    BY <1>14 DEF Commas
  <2>2. end(i) = n + 1 /\ n + 1 - 1 = n
    BY <1>1, <1>3, <2>1
  <2>3. piece(i) = Client!Trimmed(SubSeq(t, i, n))
    <3>1. end(i) - 1 = n
      BY <1>1, <2>2
    <3> QED
      BY <3>1, Zenon DEF piece
  <2>4. CASE piece(i) = <<>>
    BY <1>13, <2>1, <2>3, <2>4
  <2>5. CASE piece(i) # <<>>
    <3>1. F[i] = <<piece(i)>> \o <<>> /\ <<piece(i)>> \in S
      BY <1>4, <1>13, <2>1, <2>5
    <3> QED
      BY <1>5, <2>3, <2>5, <3>1
  <2> QED
    BY <2>4, <2>5
<1>15. ASSUME NEW i \in 1 .. n, NEW e \in 1 .. n, i < e, t[e] = Comma,
              \A j \in i .. e - 1 : t[j] # Comma,
              Client!Trimmed(SubSeq(t, i, e - 1)) # <<>>
       PROVE  F[i] = <<Client!Trimmed(SubSeq(t, i, e - 1))>> \o F[e + 1]
  <2>1. e \in Commas(i) /\ i \in 1 .. n + 1
    BY <1>1, <1>15 DEF Commas
  <2>2. /\ end(i) \in i .. n /\ t[end(i)] = Comma /\ end(i) <= e
    BY <1>1, <1>2, <1>15, <2>1
  <2>3. end(i) = e
    BY <1>1, <1>15, <2>2
  <2>4. piece(i) = Client!Trimmed(SubSeq(t, i, e - 1))
    BY <2>3 DEF piece
  <2>5. Commas(i) # {} /\ piece(i) # <<>>
    BY <1>15, <2>1, <2>4
  <2>6. F[i] = <<piece(i)>> \o rest(F, i)
    BY <1>13, <2>1, <2>5
  <2>7. rest(F, i) = F[e + 1]
    BY <2>3, <2>5
  <2> HIDE DEF rest
  <2> QED
    BY <2>4, <2>6, <2>7
<1> QED
  BY <1>12, <1>14, <1>15 DEF n

\* A text without a comma is one item of a CSV field, or none if it is blank.
LEMMA UncutItems ==
    ASSUME NEW C, NEW v \in Seq(C), \A i \in 1 .. Len(v) : v[i] # Comma
    PROVE  LET x == Client!Trimmed(v)
           IN Client!Items(v) = IF x = <<>> THEN <<>> ELSE <<x>>
<1>1. Len(v) \in Nat
  OBVIOUS
<1>2. LET x == Client!Trimmed(SubSeq(v, 1, Len(v)))
      IN Client!Items(v) = IF x = <<>> THEN <<>> ELSE <<x>>
  <2>1. 1 \in 1 .. Len(v) + 1
    BY <1>1
  <2> QED
    BY <2>1, ItemsFrom, Zenon
<1>3. SubSeq(v, 1, Len(v)) = v
  BY SubSeqFull
<1> QED
  BY <1>2, <1>3

LEMMA OneItem ==
    ASSUME NEW C, NEW v \in Seq(C), v # <<>>,
           \A i \in DOMAIN v : v[i] # Comma /\ v[i] \notin Blanks
    PROVE  Client!Items(v) = <<v>>
<1>1. Len(v) \in DOMAIN v /\ 1 \in DOMAIN v /\ DOMAIN v = 1 .. Len(v)
  BY EmptySeq
<1>2. Client!Trimmed(v) = v
  BY <1>1, TrimmedSame
<1> QED
  BY <1>1, <1>2, UncutItems

LEMMA NoItems == Client!Items(<<>>) = <<>>
<1> DEFINE v == <<>>
           C == {}
<1>1. v \in Seq(C) /\ Len(v) = 0 /\ \A i \in 1 .. Len(v) : v[i] # Comma
  OBVIOUS
<1> HIDE DEF C, v
<1>2. LET x == Client!Trimmed(v) IN Client!Items(v) = IF x = <<>> THEN <<>> ELSE <<x>>
  BY <1>1, UncutItems
<1>3. Client!Items(v) = <<>>
  <2>1. Client!Trimmed(v) = <<>>
    BY TrimmedEmpty DEF v
  <2> QED
    BY <1>2, <2>1
<1> QED
  BY <1>3 DEF v

LEMMA JoinedOne ==
    ASSUME NEW C, NEW v \in Seq(C)
    PROVE  Client!Joined(<<v>>) = v
<1> DEFINE parts == [i \in DOMAIN <<v>> |-> IF i = 1 THEN <<v>>[1] ELSE <<Comma>> \o <<v>>[i]]
<1>1. parts = [i \in 1 .. 1 |-> v]
  OBVIOUS
<1>2. Client!Joined(<<v>>) = FlattenSeq(parts)
  BY DEF Client!Joined, Client!FlattenSeq, FlattenSeq
<1>3. AreParts(parts, 1, C) /\ parts[1] = v
  BY <1>1 DEF AreParts
<1> HIDE DEF parts
<1>4. PICK f \in [0 .. 1 -> Seq(C)] : Flattens(f, parts, 1, FlattenSeq(parts))
  BY <1>3, Flattened
<1>5. f[0] = <<>> /\ f[1] = f[1 - 1] \o parts[1] /\ f[1] = FlattenSeq(parts)
  BY <1>4 DEF Flattens
<1>6. <<>> \o v = v
  BY ConcatEmptySeq
<1>7. f[1] = <<>> \o v
  <2>1. 1 - 1 = 0
    OBVIOUS
  <2> QED
    BY <1>3, <1>5, <2>1
<1> QED
  BY <1>2, <1>5, <1>6, <1>7

\* A link without DNS upstreams leaves that field of the row empty.
LEMMA JoinedNone == Client!Joined(<<>>) = <<>>
<1> DEFINE parts == [i \in DOMAIN <<>> |-> IF i = 1 THEN <<>>[1] ELSE <<Comma>> \o <<>>[i]]
           C == {}
<1>1. parts = <<>>
  OBVIOUS
<1>2. Client!Joined(<<>>) = FlattenSeq(parts)
  BY DEF Client!Joined, Client!FlattenSeq, FlattenSeq
<1> HIDE DEF parts
<1>3. AreParts(parts, 0, C)
  BY <1>1 DEF AreParts
<1> HIDE DEF C
<1>4. PICK f \in [0 .. 0 -> Seq(C)] : Flattens(f, parts, 0, FlattenSeq(parts))
  BY <1>3, Flattened
<1> QED
  BY <1>2, <1>4 DEF Flattens

\* The items v[k] of the text t, a comma between any two; o[k] characters are
\* before item k, which has q[k] of them.
Laid(t, v, n, o, q) ==
    /\ n \in Nat \ {0} /\ Len(t) \in Nat
    /\ o \in [1 .. n -> Nat] /\ q \in [1 .. n -> Nat \ {0}]
    /\ o[1] = 0 /\ o[n] + q[n] = Len(t)
    /\ \A k \in 1 .. n : /\ o[k] + q[k] <= Len(t) /\ Len(v[k]) = q[k]
                         /\ \A i \in 1 .. q[k] : t[o[k] + i] = v[k][i] /\ v[k][i] # Comma
    /\ \A k \in 1 .. n : k < n => /\ o[k + 1] = o[k] + q[k] + 1 /\ o[k + 1] <= Len(t)
                                  /\ t[o[k] + q[k] + 1] = Comma

\* The items w are the items v stripped, and something is left of each.
Stripped(v, w, n) ==
    /\ Len(v) = n /\ Len(w) = n
    /\ \A k \in 1 .. n : w[k] = Client!Trimmed(v[k]) /\ w[k] # <<>>

LEMMA LaidItems ==
    ASSUME NEW D, NEW t \in Seq(D), NEW v \in Seq(Seq(D)), NEW w \in Seq(Seq(D)),
           NEW n, NEW o, NEW q, Laid(t, v, n, o, q), Stripped(v, w, n)
    PROVE  Client!Items(t) = w
<1> USE DEF Laid, Stripped
<1>1. ASSUME NEW k \in 1 .. n
      PROVE  /\ \A j \in o[k] + 1 .. o[k] + q[k] : t[j] # Comma
             /\ SubSeq(t, o[k] + 1, o[k] + q[k]) = v[k]
  <2> DEFINE a == o[k]
             b == q[k]
             x == v[k]
             y == SubSeq(t, a + 1, a + b)
  <2>1. a \in Nat /\ b \in Nat \ {0} /\ a + b <= Len(t) /\ Len(t) \in Nat
    OBVIOUS
  <2>2. x \in Seq(D) /\ Len(x) = b /\ \A i \in 1 .. b : t[a + i] = x[i] /\ x[i] # Comma
    <3>1. k \in 1 .. Len(v) /\ v[k] \in Seq(D)
      BY ElementOfSeq
    <3> QED
      BY <3>1
  <2> HIDE DEF a, b, x, Laid
  <2>3. \A j \in a + 1 .. a + b : j - a \in 1 .. b /\ a + (j - a) = j /\ j \in 1 .. Len(t)
    BY <2>1
  <2>4. \A j \in a + 1 .. a + b : t[j] # Comma /\ t[j] \in D
    BY <2>2, <2>3, ElementOfSeq
  <2>5. a + 1 \in Int /\ a + b \in Int /\ a + 1 <= a + b /\ a + b - (a + 1) + 1 = b
        /\ \A i \in 1 .. b : a + 1 + i - 1 = a + i
    BY <2>1
  <2>6. /\ y \in Seq(D) /\ Len(y) = b
        /\ \A i \in 1 .. b : y[i] = t[a + i]
    <3> DEFINE c == a + 1
               e == a + b
    <3>1. c \in Int /\ e \in Int /\ c <= e /\ \A j \in c .. e : t[j] \in D
      BY <2>4, <2>5
    <3>2. e - c + 1 = b /\ \A i \in 1 .. b : c + i - 1 = a + i
      BY <2>1
    <3> HIDE DEF c, e
    <3>3. /\ SubSeq(t, c, e) \in Seq(D) /\ Len(SubSeq(t, c, e)) = e - c + 1
          /\ \A i \in 1 .. e - c + 1 : SubSeq(t, c, e)[i] = t[c + i - 1]
      BY <3>1, SubSeqProperties
    <3>4. y = SubSeq(t, c, e)
      BY DEF c, e
    <3> HIDE DEF y
    <3> QED
      BY <3>2, <3>3, <3>4
  <2> HIDE DEF y
  <2>7. y = x
    BY <2>2, <2>6, SeqEqual
  <2> QED
    BY <2>4, <2>7 DEF y, a, b, x
<1>2. PICK F :
        /\ Client!Items(t) = F[1]
        /\ \A i \in 1 .. Len(t) + 1 :
             (\A j \in i .. Len(t) : t[j] # Comma)
             => LET x == Client!Trimmed(SubSeq(t, i, Len(t)))
                IN F[i] = IF x = <<>> THEN <<>> ELSE <<x>>
        /\ \A i \in 1 .. Len(t), e \in 1 .. Len(t) :
             i < e /\ t[e] = Comma /\ (\A j \in i .. e - 1 : t[j] # Comma)
             => LET x == Client!Trimmed(SubSeq(t, i, e - 1))
                IN x # <<>> => F[i] = <<x>> \o F[e + 1]
  <2> HIDE DEF Laid
  <2>1. t \in Seq(D)
    OBVIOUS
  <2> QED
    BY <2>1, ItemsFrom, Zenon
<1> DEFINE Good(k) == F[o[k] + 1] = SubSeq(w, k, n)
           T == {j \in Nat : j < n => Good(n - j)}
<1> HIDE DEF Good
<1>3. 0 \in T
  <2> DEFINE i == o[n] + 1
             m == Len(t)
             a == o[n]
             b == q[n]
  <2>0. /\ n \in Nat \ {0} /\ n \in 1 .. n /\ a \in Nat /\ b \in Nat \ {0}
        /\ a + b = m /\ m \in Nat /\ i = a + 1
    OBVIOUS
  <2>1. n \in 1 .. n /\ n - 0 = n /\ i \in 1 .. m + 1 /\ i # m + 1 /\ a + b = m /\ i = a + 1
    <3> HIDE DEF i, a, b, m, Laid
    <3> QED
      BY <2>0
  <2>2. (\A j \in i .. m : t[j] # Comma) /\ SubSeq(t, i, m) = v[n]
    <3> HIDE DEF m, Laid
    <3> QED
      BY <1>1, <2>1
  <2> HIDE DEF Laid, i, a, b, m
  <2>3. F[i] = <<w[n]>>
    BY <1>2, <2>1, <2>2 DEF m
  <2>4. SubSeq(w, n, n) = <<w[n]>>
    <3> DEFINE y == SubSeq(w, n, n)
    <3>1. n \in Int /\ \A j \in n .. n : w[j] \in Seq(D)
      BY <2>1, ElementOfSeq
    <3>2. y \in Seq(Seq(D)) /\ Len(y) = 1 /\ y[1] = w[n]
      <4>1. n - n + 1 = 1 /\ n + 1 - 1 = n /\ n <= n /\ 1 \in 1 .. 1
        BY <3>1
      <4> QED
        BY <3>1, <4>1, SubSeqProperties
    <3> HIDE DEF y
    <3>3. y = <<w[n]>>
      BY <3>2
    <3> QED
      BY <3>3 DEF y
  <2> QED
    BY <2>1, <2>3, <2>4 DEF Good, i
<1>4. ASSUME NEW j \in Nat, j \in T PROVE j + 1 \in T
  <2> SUFFICES ASSUME j + 1 < n PROVE Good(n - (j + 1))
    OBVIOUS
  <2> DEFINE k == n - (j + 1)
             i == o[k] + 1
             e == o[k] + q[k] + 1
  <2>1. k \in 1 .. n /\ k < n /\ k + 1 \in 1 .. n /\ k + 1 = n - j /\ j < n
    OBVIOUS
  <2>2. Good(k + 1)
    BY <1>4, <2>1
  <2> HIDE DEF k
  <2>3. /\ i \in 1 .. Len(t) /\ e \in 1 .. Len(t) /\ i < e /\ t[e] = Comma
        /\ e - 1 = o[k] + q[k] /\ o[k + 1] + 1 = e + 1
    <3> DEFINE a == o[k]
               b == q[k]
               c == o[k + 1]
               m == Len(t)
    <3>1. /\ a \in Nat /\ b \in Nat \ {0} /\ c = a + b + 1 /\ c <= m /\ m \in Nat
          /\ t[a + b + 1] = Comma
      BY <2>1
    <3>2. i = a + 1 /\ e = a + b + 1
      OBVIOUS
    <3> HIDE DEF a, b, c, m, i, e, Laid, Stripped
    <3>3. i \in 1 .. m /\ e \in 1 .. m /\ i < e /\ e - 1 = a + b /\ c + 1 = e + 1
      BY <3>1, <3>2
    <3>4. t[e] = Comma
      BY <3>1, <3>2, Zenon
    <3> QED
      BY <3>3, <3>4 DEF a, b, c, m
  <2>4. (\A h \in i .. e - 1 : t[h] # Comma) /\ SubSeq(t, i, e - 1) = v[k]
    <3> HIDE DEF Laid, e
    <3> QED
      BY <1>1, <2>1, <2>3
  <2> HIDE DEF i, e, Laid
  <2>5. F[i] = <<w[k]>> \o F[e + 1]
    <3>1. w[k] = Client!Trimmed(SubSeq(t, i, e - 1)) /\ w[k] # <<>>
      BY <2>1, <2>4
    <3> QED
      BY <1>2, <2>3, <2>4, <3>1
  <2>6. <<w[k]>> \o SubSeq(w, k + 1, n) = SubSeq(w, k, n)
    <3>1. k \in 1 .. Len(w) /\ n \in k .. Len(w)
      BY <2>1
    <3> QED
      BY <3>1, SubSeqRecursiveFirst
  <2>7. F[e + 1] = SubSeq(w, k + 1, n)
    BY <2>2, <2>3 DEF Good
  <2>8. F[i] = SubSeq(w, k, n)
    BY <2>5, <2>6, <2>7
  <2> QED
    BY <2>8 DEF Good, k, i
<1>5. n - 1 \in Nat /\ n - 1 < n /\ n - (n - 1) = 1 /\ o[1] + 1 = 1
  OBVIOUS
<1>6. n - 1 \in T
  <2> HIDE DEF T, Laid
  <2> QED
    BY <1>3, <1>4, <1>5, NatSets
<1> HIDE DEF Laid
<1>7. F[1] = SubSeq(w, 1, n)
  BY <1>5, <1>6 DEF Good
<1>8. SubSeq(w, 1, n) = w
  OBVIOUS
<1> QED
  BY <1>2, <1>7, <1>8

\* implode lays the items out like that.
LEMMA JoinedLaid ==
    ASSUME NEW D, Comma \in D, NEW v \in Seq(Seq(D)), NEW n, Len(v) = n, n # 0,
           \A k \in 1 .. n : v[k] # <<>> /\ \A i \in 1 .. Len(v[k]) : v[k][i] # Comma
    PROVE  LET t == Client!Joined(v)
           IN t \in Seq(D) /\ \E o, q : Laid(t, v, n, o, q)
<1> DEFINE parts == [k \in DOMAIN v |-> IF k = 1 THEN v[1] ELSE <<Comma>> \o v[k]]
           t == FlattenSeq(parts)
           q == [k \in 1 .. n |-> Len(v[k])]
           z == [k \in 1 .. n |-> IF k = 1 THEN q[1] ELSE q[k] + 1]
<1>1. /\ n \in Nat \ {0} /\ DOMAIN v = 1 .. n
      /\ \A k \in 1 .. n : v[k] \in Seq(D)
  BY ElementOfSeq
<1>2. q \in [1 .. n -> Nat \ {0}] /\ \A k \in 1 .. n : Len(v[k]) = q[k]
  <2>1. ASSUME NEW k \in 1 .. n PROVE Len(v[k]) \in Nat \ {0}
    <3> DEFINE x == v[k]
    <3>1. x \in Seq(D) /\ x # <<>>
      BY <1>1
    <3> HIDE DEF x
    <3>2. Len(x) \in Nat \ {0}
      BY <3>1, EmptySeq
    <3> QED
      BY <3>2 DEF x
  <2> QED
    BY <2>1
<1>3. ASSUME NEW k \in 1 .. n
      PROVE  /\ parts[k] \in Seq(D) /\ Len(parts[k]) = z[k]
             /\ k = 1 => \A i \in 1 .. q[k] : parts[k][i] = v[k][i]
             /\ k # 1 => /\ parts[k][1] = Comma
                         /\ \A i \in 1 .. q[k] : parts[k][i + 1] = v[k][i]
  <2> DEFINE x == v[k]
             y == <<Comma>> \o x
  <2>1. x \in Seq(D) /\ Len(x) = q[k] /\ q[k] \in Nat \ {0}
    BY <1>1, <1>2
  <2>2. CASE k = 1
    <3>1. parts[k] = x /\ z[k] = q[k]
      BY <1>1, <2>2
    <3> QED
      BY <2>1, <2>2, <3>1
  <2>3. CASE k # 1
    <3>1. parts[k] = y /\ z[k] = q[k] + 1
      BY <1>1, <2>3
    <3> HIDE DEF x
    <3>2. /\ y \in Seq(D) /\ Len(y) = Len(x) + 1 /\ y[1] = Comma
          /\ \A i \in 1 .. Len(x) : y[i + 1] = x[i]
      BY <2>1, ConcatProperties
    <3> QED
      BY <2>1, <2>3, <3>1, <3>2 DEF x
  <2> QED
    BY <2>2, <2>3
<1>4. Client!Joined(v) = t
  BY DEF Client!Joined, Client!FlattenSeq, FlattenSeq
<1>5. AreParts(parts, n, D)
  <2>1. parts \in [1 .. n -> Seq(D)]
    BY <1>1, <1>3
  <2>2. Len(parts) = n
    BY <1>1
  <2> HIDE DEF parts
  <2> QED
    BY <1>1, <2>1, <2>2 DEF AreParts
<1> HIDE DEF parts, t, z
<1>6. PICK f \in [0 .. n -> Seq(D)] : Flattens(f, parts, n, t)
  BY <1>5, Flattened DEF t
<1> HIDE DEF q
<1>14. /\ \A k \in 1 .. n :
            /\ Len(f[k]) = Len(f[k - 1]) + Len(parts[k])
            /\ \A i \in 1 .. Len(parts[k]) : t[Len(f[k - 1]) + i] = parts[k][i]
       /\ \A k \in 0 .. n : Len(f[k]) \in Nat /\ Len(f[k]) <= Len(t)
       /\ Len(f[0]) = 0 /\ Len(f[n]) = Len(t) /\ t \in Seq(D)
  <2>1. Placed(f, parts, n, t, D)
    BY <1>5, <1>6, FlatPlaces
  <2> QED
    BY <2>1, Zenon DEF Placed
<1> DEFINE p == [k \in 0 .. n |-> Len(f[k])]
           o == [k \in 1 .. n |-> IF k = 1 THEN 0 ELSE p[k - 1] + 1]
<1>7. /\ \A k \in 1 .. n :
           /\ p[k] = p[k - 1] + z[k]
           /\ \A i \in 1 .. z[k] : t[p[k - 1] + i] = parts[k][i]
      /\ p \in [0 .. n -> Nat] /\ \A k \in 0 .. n : p[k] <= Len(t)
      /\ p[0] = 0 /\ p[n] = Len(t) /\ t \in Seq(D)
  <2>2. (\A k \in 0 .. n : p[k] = Len(f[k])) /\ 0 \in 0 .. n /\ n \in 0 .. n
    BY <1>1
  <2>3. \A k \in 1 .. n : k \in 0 .. n /\ k - 1 \in 0 .. n
    BY <1>1
  <2>4. p \in [0 .. n -> Nat]
    BY <1>14
  <2> HIDE DEF p
  <2>5. /\ \A k \in 0 .. n : p[k] <= Len(t)
        /\ p[0] = 0 /\ p[n] = Len(t) /\ t \in Seq(D)
    BY <1>14, <2>2, Zenon
  <2>6. ASSUME NEW k \in 1 .. n
        PROVE  /\ p[k] = p[k - 1] + z[k]
               /\ \A i \in 1 .. z[k] : t[p[k - 1] + i] = parts[k][i]
    <3>1. p[k] = Len(f[k]) /\ p[k - 1] = Len(f[k - 1]) /\ Len(parts[k]) = z[k]
      BY <1>3, <2>2, <2>3, Zenon
    <3>2. /\ Len(f[k]) = Len(f[k - 1]) + Len(parts[k])
          /\ \A i \in 1 .. Len(parts[k]) : t[Len(f[k - 1]) + i] = parts[k][i]
      BY <1>14, Zenon
    <3> QED
      BY <3>1, <3>2, Zenon
  <2> QED
    BY <2>4, <2>5, <2>6
<1> HIDE DEF p, q
<1>8. ASSUME NEW k \in 1 .. n
      PROVE  /\ k - 1 \in 0 .. n /\ p[k - 1] \in Nat /\ p[k] \in Nat /\ q[k] \in Nat \ {0}
             /\ o[k] \in Nat /\ o[k] + q[k] = p[k]
             /\ \A i \in 1 .. q[k] : t[o[k] + i] = v[k][i]
  <2> DEFINE a == o[k]
             b == q[k]
             l == p[k - 1]
             h == p[k]
  <2>1. k - 1 \in 0 .. n /\ k \in 0 .. n
    BY <1>1
  <2>2. p[k - 1] \in Nat /\ p[k] \in Nat /\ q[k] \in Nat \ {0} /\ p[k] = p[k - 1] + z[k]
    BY <1>2, <1>7, <2>1
  <2>3. CASE k = 1
    <3>1. a = 0 /\ z[k] = b /\ l = 0
      BY <1>7, <2>3 DEF z
    <3>2. l \in Nat /\ h \in Nat /\ b \in Nat \ {0} /\ h = l + b
      BY <2>2, <3>1
    <3> HIDE DEF a, b, l, h, o
    <3>3. \A i \in 1 .. b : t[l + i] = parts[k][i] /\ parts[k][i] = v[k][i]
      <4>1. \A i \in 1 .. b : parts[k][i] = v[k][i]
        BY <1>3, <2>3, Zenon DEF b
      <4>2. \A i \in 1 .. z[k] : t[l + i] = parts[k][i]
        BY <1>7, Zenon DEF l
      <4> QED
        BY <3>1, <4>1, <4>2
    <3>4. a \in Nat /\ a + b = h /\ a = l
      BY <3>1, <3>2
    <3>5. \A i \in 1 .. b : t[a + i] = v[k][i]
      BY <3>3, <3>4
    <3> QED
      BY <2>1, <3>2, <3>4, <3>5 DEF a, b, l, h
  <2>4. CASE k # 1
    <3>1. a = l + 1 /\ z[k] = b + 1
      BY <2>4 DEF z
    <3>2. l \in Nat /\ h \in Nat /\ b \in Nat \ {0} /\ h = l + z[k]
      BY <2>2
    <3> HIDE DEF a, b, l, h, o
    <3>3. \A i \in 1 .. z[k] : t[l + i] = parts[k][i]
      BY <1>7 DEF l
    <3>4. \A i \in 1 .. b : parts[k][i + 1] = v[k][i]
      BY <1>3, <2>4 DEF b
    <3>5. \A i \in 1 .. b : i + 1 \in 1 .. z[k] /\ a + i = l + (i + 1)
      BY <3>1, <3>2
    <3>6. \A i \in 1 .. b : t[a + i] = v[k][i]
      BY <3>3, <3>4, <3>5
    <3>7. a \in Nat /\ a + b = h
      BY <3>1, <3>2
    <3> QED
      BY <2>1, <3>2, <3>6, <3>7 DEF a, b, l, h
  <2> QED
    BY <2>3, <2>4
<1>9. ASSUME NEW k \in 1 .. n, k < n
      PROVE  /\ o[k + 1] = o[k] + q[k] + 1 /\ o[k + 1] <= Len(t)
             /\ t[o[k] + q[k] + 1] = Comma
  <2> DEFINE m == k + 1
  <2>1. m \in 1 .. n /\ m # 1 /\ m - 1 = k
    BY <1>1, <1>9
  <2> HIDE DEF m
  <2>2. o[m] = p[k] + 1 /\ z[m] = q[m] + 1
    BY <2>1 DEF z
  <2>3. o[k] + q[k] = p[k] /\ p[k] \in Nat /\ q[m] \in Nat \ {0} /\ o[m] + q[m] = p[m]
        /\ p[m] \in Nat
    BY <1>8, <2>1
  <2>4. p[m] <= Len(t) /\ Len(t) \in Nat
    BY <1>7, <2>1
  <2>5. t[p[k] + 1] = parts[m][1]
    <3>1. 1 \in 1 .. z[m]
      BY <2>2, <2>3
    <3> QED
      BY <1>7, <2>1, <3>1
  <2>6. parts[m][1] = Comma
    BY <1>3, <2>1
  <2> HIDE DEF o
  <2> QED
    BY <2>2, <2>3, <2>4, <2>5, <2>6 DEF m
<1>10. o \in [1 .. n -> Nat] /\ o[1] = 0
  BY <1>1, <1>8
<1> HIDE DEF o
<1>11. o[n] + q[n] = Len(t) /\ \A k \in 1 .. n : o[k] + q[k] <= Len(t)
  <2>1. n \in 1 .. n /\ \A k \in 1 .. n : k \in 0 .. n
    BY <1>1
  <2> QED
    BY <1>7, <1>8, <2>1
<1>12. Laid(t, v, n, o, q)
  <2>1. Len(t) \in Nat
    BY <1>7
  <2>2. \A k \in 1 .. n : \A i \in 1 .. q[k] : v[k][i] # Comma
    BY <1>2
  <2> QED
    BY <1>1, <1>2, <1>8, <1>9, <1>10, <1>11, <2>1, <2>2 DEF Laid
<1> QED
  BY <1>4, <1>7, <1>12

\* A list of texts without commas, none of them blank, put into a CSV field
\* by the import and read back by the renderer: it comes back item by item,
\* in its order, each item stripped, which leaves an item as it is when it
\* neither begins nor ends with a blank.
THEOREM ListRoundTrip ==
    ASSUME NEW C, NEW v \in Seq(Seq(C)),
           \A k \in DOMAIN v : /\ Client!Trimmed(v[k]) # <<>>
                               /\ \A i \in DOMAIN v[k] : v[k][i] # Comma
    PROVE  LET back == Client!Items(Client!Joined(v))
           IN /\ back = [k \in DOMAIN v |-> Client!Trimmed(v[k])]
              /\ \A k \in DOMAIN v :
                   v[k][1] \notin Blanks /\ v[k][Len(v[k])] \notin Blanks => back[k] = v[k]
<1> DEFINE D == C \cup {Comma}
           n == Len(v)
           w == [k \in 1 .. n |-> Client!Trimmed(v[k])]
<1>1. n \in Nat /\ DOMAIN v = 1 .. n
  OBVIOUS
<1>2. ASSUME NEW k \in 1 .. n
      PROVE  v[k] \in Seq(D) /\ v[k] # <<>> /\ \A i \in 1 .. Len(v[k]) : v[k][i] # Comma
  <2> DEFINE x == v[k]
  <2>1. x \in Seq(C) /\ x # <<>> /\ \A i \in DOMAIN x : x[i] # Comma
    BY <1>1, ElementOfSeq, TrimmedEmpty
  <2> HIDE DEF x
  <2>2. x \in Seq(D) /\ DOMAIN x = 1 .. Len(x)
    BY <2>1
  <2> QED
    BY <2>1, <2>2 DEF x
<1>3. v \in Seq(Seq(D))
  <2> HIDE DEF D
  <2>1. v = [k \in 1 .. n |-> v[k]]
    BY <1>1
  <2> HIDE DEF n
  <2>2. v \in [1 .. n -> Seq(D)]
    BY <1>2, <2>1
  <2> QED
    BY <1>1, <2>2, SeqDef
<1>4. w \in Seq(Seq(D)) /\ Len(w) = n
  <2>1. \A k \in 1 .. n : Client!Trimmed(v[k]) \in Seq(D)
    BY <1>2, TrimmedType
  <2> HIDE DEF D
  <2>2. w \in [1 .. n -> Seq(D)]
    BY <2>1
  <2>3. Len(w) = n
    BY <1>1
  <2> HIDE DEF w, n
  <2> QED
    BY <1>1, <2>2, <2>3, SeqDef
<1>5. \A k \in 1 .. n : w[k] = Client!Trimmed(v[k]) /\ w[k] # <<>>
  BY <1>1
<1> HIDE DEF w
<1>6. Stripped(v, w, n)
  BY <1>4, <1>5 DEF Stripped
<1>7. ASSUME n = 0 PROVE Client!Items(Client!Joined(v)) = w
  <2>1. v = <<>> /\ w = <<>>
    BY <1>7, <1>4, EmptySeq
  <2> QED
    BY <2>1, JoinedNone, NoItems
<1>8. ASSUME n # 0 PROVE Client!Items(Client!Joined(v)) = w
  <2>1. Comma \in D
    OBVIOUS
  <2> HIDE DEF D, n
  <2> DEFINE t == Client!Joined(v)
  <2>2. t \in Seq(D) /\ \E o, q : Laid(t, v, n, o, q)
    BY <1>2, <1>3, <1>8, <2>1, JoinedLaid DEF n
  <2> HIDE DEF t
  <2>3. PICK o, q : Laid(t, v, n, o, q)
    BY <2>2
  <2>4. Client!Items(t) = w
    BY <1>3, <1>4, <1>6, <2>2, <2>3, LaidItems, Zenon
  <2> QED
    BY <2>4 DEF t
<1>9. Client!Items(Client!Joined(v)) = w
  BY <1>7, <1>8
<1>10. w = [k \in DOMAIN v |-> Client!Trimmed(v[k])]
  BY <1>1 DEF w
<1>11. ASSUME NEW k \in DOMAIN v, v[k][1] \notin Blanks, v[k][Len(v[k])] \notin Blanks
       PROVE  w[k] = v[k]
  <2> DEFINE x == v[k]
  <2>1. x \in Seq(D) /\ x # <<>> /\ x[1] \notin Blanks /\ x[Len(x)] \notin Blanks
    BY <1>1, <1>2, <1>11
  <2> HIDE DEF x
  <2>2. Client!Trimmed(x) = x
    BY <2>1, TrimmedSame
  <2> QED
    BY <1>1, <1>5, <2>2 DEF x
<1> DEFINE back == Client!Items(Client!Joined(v))
<1>12. back = w
  BY <1>9
<1> HIDE DEF back
<1>13. /\ back = [k \in DOMAIN v |-> Client!Trimmed(v[k])]
       /\ \A k \in DOMAIN v :
            v[k][1] \notin Blanks /\ v[k][Len(v[k])] \notin Blanks => back[k] = v[k]
  BY <1>10, <1>11, <1>12, Zenon
<1> QED
  BY <1>13 DEF back

\* The last colon of a text, as both programs find it.
LEMMA LastColon ==
    ASSUME NEW C, NEW t \in Seq(C), NEW i \in DOMAIN t, t[i] = Colon,
           \A k \in DOMAIN t : t[k] = Colon => k <= i
    PROVE  /\ AfterLast(Colon, t) = SubSeq(t, i + 1, Len(t))
           /\ Server!Positions(Colon, t) # {}
           /\ Server!Max(Server!Positions(Colon, t)) = i
<1> DEFINE S == {k \in DOMAIN t : t[k] = Colon}
           IsLast(j) == j \in DOMAIN t /\ t[j] = Colon
                        /\ \A k \in DOMAIN t : t[k] = Colon => k <= j
<1>1. DOMAIN t \subseteq Int
  OBVIOUS
<1>2. \A j : IsLast(j) => j = i
  BY <1>1
<1>3. AfterLast(Colon, t) = SubSeq(t, i + 1, Len(t))
  <2> DEFINE c == CHOOSE j \in DOMAIN t :
                    t[j] = Colon /\ \A k \in DOMAIN t : t[k] = Colon => k <= j
  <2>1. IsLast(c)
    OBVIOUS
  <2>2. AfterLast(Colon, t) = SubSeq(t, c + 1, Len(t))
    BY DEF AfterLast
  <2> HIDE DEF c, IsLast
  <2>3. c = i
    BY <1>2, <2>1
  <2> QED
    BY <2>2, <2>3
<1>4. Server!Positions(Colon, t) = S /\ i \in S
  BY DEF Server!Positions
<1>5. Server!Max(S) = i
  <2> DEFINE c == CHOOSE j \in S : \A k \in S : j >= k
  <2>1. \A k \in S : i >= k
    BY <1>1
  <2>2. c \in S /\ \A k \in S : c >= k
    <3> HIDE DEF S
    <3> QED
      BY <1>4, <2>1
  <2> HIDE DEF c
  <2>3. IsLast(c)
    BY <1>1, <2>2
  <2>4. c = i
    BY <1>2, <2>3
  <2> QED
    BY <2>4 DEF Server!Max, c
<1> QED
  BY <1>3, <1>4, <1>5

\* There is a last one as soon as there is one.
LEMMA SomeLastColon ==
    ASSUME NEW C, NEW t \in Seq(C), Server!Positions(Colon, t) # {}
    PROVE  \E i \in DOMAIN t : t[i] = Colon /\ \A k \in DOMAIN t : t[k] = Colon => k <= i
<1> DEFINE n == Len(t)
           T == {m \in Nat : n - m \in DOMAIN t /\ t[n - m] = Colon}
<1>1. DOMAIN t = 1 .. n /\ n \in Nat
  OBVIOUS
<1> HIDE DEF n
<1>2. \A k \in DOMAIN t : n - k \in Nat /\ n - (n - k) = k
  BY <1>1
<1>3. T # {}
  <2>1. PICK k \in DOMAIN t : t[k] = Colon
    BY DEF Server!Positions
  <2>2. n - k \in T
    BY <1>2, <2>1
  <2> QED
    BY <2>2
<1>4. PICK m \in T : \A j \in T : m <= j
  BY <1>3, LeastElement
<1> DEFINE i == n - m
<1>5. i \in DOMAIN t /\ t[i] = Colon /\ m \in Nat
  OBVIOUS
<1>6. ASSUME NEW k \in DOMAIN t, t[k] = Colon PROVE k <= i
  <2>1. n - k \in T
    BY <1>2, <1>6
  <2>2. m <= n - k
    BY <1>4, <2>1
  <2>3. k \in Nat
    BY <1>1
  <2> HIDE DEF T
  <2> QED
    BY <1>1, <1>5, <2>2, <2>3
<1> QED
  BY <1>5, <1>6

\* A text that goes on after position i: its end is free of what the whole
\* is free of, and of colons if what follows is.
LEMMA Rest ==
    ASSUME NEW C, NEW t \in Seq(C), NEW i \in DOMAIN t
    PROVE  LET p == SubSeq(t, i + 1, Len(t))
           IN /\ p \in Seq(C) /\ DOMAIN p = 1 .. Len(t) - i
              /\ \A k \in DOMAIN p : i + k \in DOMAIN t /\ p[k] = t[i + k]
              /\ \A k \in DOMAIN t : k > i => k - i \in DOMAIN p /\ p[k - i] = t[k]
<1> DEFINE n == Len(t)
           p == SubSeq(t, i + 1, n)
<1>1. n \in Nat /\ i \in 1 .. n /\ DOMAIN t = 1 .. n
  OBVIOUS
<1>2. \A k \in i + 1 .. n : t[k] \in C
  <2>1. \A k \in i + 1 .. n : k \in 1 .. Len(t)
    BY <1>1
  <2> QED
    BY <2>1, ElementOfSeq
<1> HIDE DEF n
<1>3. /\ p \in Seq(C)
      /\ Len(p) = IF i + 1 <= n THEN n - (i + 1) + 1 ELSE 0
      /\ \A k \in 1 .. n - (i + 1) + 1 : p[k] = t[i + 1 + k - 1]
  <2>1. i + 1 \in Int /\ n \in Int
    BY <1>1
  <2> QED
    BY <1>2, <2>1, SubSeqProperties
<1>4. Len(p) = n - i /\ DOMAIN p = 1 .. n - i
  <2>1. Len(p) = n - i
    BY <1>1, <1>3
  <2> HIDE DEF p
  <2> QED
    BY <1>3, <2>1
<1> HIDE DEF p
<1>5. \A k \in 1 .. n - i : p[k] = t[i + k] /\ i + k \in 1 .. n
  <2> TAKE k \in 1 .. n - i
  <2>1. k \in 1 .. n - (i + 1) + 1 /\ i + 1 + k - 1 = i + k /\ i + k \in 1 .. n
    BY <1>1
  <2> QED
    BY <1>3, <2>1
<1>6. \A k \in 1 .. n : k > i => k - i \in 1 .. n - i /\ p[k - i] = t[k]
  <2> SUFFICES ASSUME NEW k \in 1 .. n, k > i
               PROVE  k - i \in 1 .. n - i /\ p[k - i] = t[k]
    OBVIOUS
  <2>1. k - i \in 1 .. n - i /\ i + (k - i) = k
    BY <1>1
  <2> QED
    BY <1>5, <2>1
<1> QED
  BY <1>1, <1>3, <1>4, <1>5, <1>6 DEF p, n

\* Both programs take the same text of the listen address for the port.
LEMMA SamePort ==
    ASSUME srv \in Servers, Server!Accepted(srv)
    PROVE  LET p == AfterLast(Colon, srv.listen)
           IN /\ p = Server!PortText(srv.listen) /\ p \in DOMAIN PortOf /\ p # <<>>
              /\ p \in Seq(Byte)
              /\ \A k \in DOMAIN p : p[k] \notin {Colon, Comma, Control, Newline, B - 1} \cup Blanks
<1> DEFINE t == srv.listen
           p == Server!PortText(t)
<1>1. /\ t \in Seq(Byte)
      /\ t # <<>> /\ t[1] = Open =>
           \A i \in Server!Positions(Close, t) : (i + 1) \in Server!Positions(Colon, t)
      /\ \A x \in DOMAIN PortOf : x # <<>> /\ \A i \in DOMAIN x : x[i] \notin {Colon, Comma} \cup Blanks
  BY MasksAssumption
<1>2. p \in DOMAIN PortOf /\ \A i \in DOMAIN t : t[i] \notin {Control, Newline, B - 1}
  <2>1. p \in DOMAIN PortOf /\ \A i \in DOMAIN t : t[i] # Control /\ t[i] # Newline
    BY DEF Server!Accepted, Server!ListenAccepted, Server!Refuses
  <2>2. \A i \in DOMAIN t : t[i] # B - 1
    BY ContentsAssumption DEF IsText
  <2> HIDE DEF p, t
  <2> QED
    BY <2>1, <2>2
<1> HIDE DEF t
<1>3. p # <<>> /\ \A k \in DOMAIN p : p[k] \notin {Colon, Comma} \cup Blanks
  BY <1>1, <1>2
<1>4. \E i \in DOMAIN t : t[i] = Colon /\ p = SubSeq(t, i + 1, Len(t))
  <2>1. CASE t # <<>> /\ t[1] = Open
    <3> DEFINE S == Server!Positions(Close, t)
               j == Server!Min(S)
    <3>1. S # {} /\ p = SubSeq(t, 2 + j, Len(t))
      BY <1>3, <2>1 DEF Server!PortText
    <3>2. j \in S
      <4>1. S \subseteq Nat
        BY <1>1 DEF Server!Positions
      <4> HIDE DEF S
      <4>2. \E m \in S : \A k \in S : m <= k
        BY <3>1, <4>1, LeastElement
      <4> QED
        BY <4>2 DEF Server!Min
    <3>3. j + 1 \in Server!Positions(Colon, t) /\ j \in DOMAIN t
      BY <1>1, <2>1, <3>2 DEF Server!Positions
    <3> HIDE DEF S, j, p
    <3>4. j + 1 \in DOMAIN t /\ t[j + 1] = Colon
      BY <3>3 DEF Server!Positions
    <3>5. 2 + j = (j + 1) + 1
      BY <1>1, <3>3
    <3> QED
      BY <3>1, <3>4, <3>5
  <2>2. CASE ~(t # <<>> /\ t[1] = Open)
    <3> DEFINE S == Server!Positions(Colon, t)
    <3>1. S # {} /\ p = SubSeq(t, 1 + Server!Max(S), Len(t))
      BY <1>3, <2>2 DEF Server!PortText
    <3>2. PICK i \in DOMAIN t : t[i] = Colon /\ \A k \in DOMAIN t : t[k] = Colon => k <= i
      BY <1>1, <3>1, SomeLastColon
    <3>3. Server!Max(S) = i
      BY <1>1, <3>2, LastColon
    <3>4. 1 + i = i + 1
      BY <1>1
    <3> HIDE DEF S, p
    <3> QED
      BY <3>1, <3>2, <3>3, <3>4
  <2> QED
    BY <2>1, <2>2
<1> HIDE DEF p
<1>5. PICK i \in DOMAIN t : t[i] = Colon /\ p = SubSeq(t, i + 1, Len(t))
  BY <1>4
<1>6. /\ p \in Seq(Byte)
      /\ \A k \in DOMAIN p : i + k \in DOMAIN t /\ p[k] = t[i + k]
      /\ \A k \in DOMAIN t : k > i => k - i \in DOMAIN p /\ p[k - i] = t[k]
  <2>1. t \in Seq(Byte)
    BY <1>1
  <2> HIDE DEF t
  <2> QED
    BY <1>5, <2>1, Rest
<1>7. ASSUME NEW k \in DOMAIN t, t[k] = Colon PROVE k <= i
  <2>1. k \in Int /\ i \in Int
    BY <1>1
  <2>2. ~(k > i)
    BY <1>3, <1>6, <1>7
  <2> QED
    BY <2>1, <2>2
<1>8. AfterLast(Colon, t) = p
  BY <1>1, <1>5, <1>7, LastColon
<1>9. \A k \in DOMAIN p : p[k] \notin {Control, Newline, B - 1}
  BY <1>2, <1>6
<1> QED
  BY <1>2, <1>3, <1>6, <1>8, <1>9 DEF p, t

\* What the address of a link is made of, and what the port of it is.
LEMMA AddressShape ==
    ASSUME srv \in Servers, Server!Accepted(srv)
    PROVE  LET a == Address(srv)
               p == Server!PortText(srv.listen)
           IN /\ a = srv.host \o <<Colon>> \o p /\ p \in DOMAIN PortOf
              /\ a # <<>>
              /\ \A k \in DOMAIN a : a[k] \notin {Comma, Control, Newline, B - 1} \cup Blanks
              /\ Server!PortText(a) = p
<1> DEFINE h == srv.host
           p == AfterLast(Colon, srv.listen)
           V == Byte \cup {Colon}
           c == <<Colon>>
           a == h \o c \o p
<1>1. /\ p = Server!PortText(srv.listen) /\ p \in DOMAIN PortOf /\ p # <<>>
      /\ p \in Seq(Byte)
      /\ \A k \in DOMAIN p : p[k] \notin {Colon, Comma, Control, Newline, B - 1} \cup Blanks
  BY SamePort
<1>2. /\ h \in Seq(Byte)
      /\ \A k \in DOMAIN h : h[k] \notin {Comma, Open, Control, Newline} \cup Blanks
      /\ Colon \notin {Comma, Control, Newline, Open, B - 1} \cup Blanks
  <2>1. h \in Seq(Byte) /\ (h = <<>> \/ Client!IsHost(h))
    BY MasksAssumption
  <2>2. Colon \notin {Comma, Control, Newline, Open, B - 1} \cup Blanks
    BY MasksAssumption
  <2> HIDE DEF h
  <2>3. \A k \in DOMAIN h : h[k] \in NameBytes \cup {Colon}
    BY <2>1 DEF Client!IsHost
  <2>4. \A k \in DOMAIN h : h[k] \notin {Comma, Open, Control, Newline} \cup Blanks
    BY <2>3, MasksAssumption
  <2> QED
    BY <2>1, <2>2, <2>4
<1>3. h # <<>> /\ \A k \in DOMAIN h : h[k] # B - 1
  BY ContentsAssumption DEF Server!Accepted, IsText
<1>4. Address(srv) = a
  BY DEF Address
<1>5. h \in Seq(V) /\ p \in Seq(V) /\ c \in Seq(V) /\ Len(c) = 1 /\ c[1] = Colon
  <2>1. c \in Seq(V) /\ Len(c) = 1 /\ c[1] = Colon
    OBVIOUS
  <2>2. Byte \subseteq V
    OBVIOUS
  <2> HIDE DEF V, c, p, h
  <2> QED
    BY <1>1, <1>2, <2>1, <2>2, SeqMonotonic
<1> HIDE DEF V, c, p, h
<1> DEFINE n == Len(h)
           m == Len(p)
           x == h \o c
<1>6. /\ n \in Nat /\ m \in Nat /\ n >= 1
      /\ DOMAIN h = 1 .. n /\ DOMAIN p = 1 .. m
  BY <1>3, <1>5, EmptySeq
<1>7. /\ x \in Seq(V) /\ Len(x) = n + 1
      /\ \A k \in 1 .. n + 1 : x[k] = IF k <= n THEN h[k] ELSE Colon
  <2>1. /\ x \in Seq(V) /\ Len(x) = n + Len(c)
        /\ \A k \in 1 .. n + Len(c) : x[k] = IF k <= n THEN h[k] ELSE c[k - n]
    BY <1>5, ConcatProperties
  <2> HIDE DEF x, n
  <2>2. \A k \in 1 .. n + 1 : ~(k <= n) => k - n = 1
    BY <1>6
  <2> QED
    BY <1>5, <2>1, <2>2
<1>8. /\ a \in Seq(V) /\ Len(a) = n + 1 + m /\ DOMAIN a = 1 .. n + 1 + m
      /\ \A k \in 1 .. n : a[k] = h[k]
      /\ a[n + 1] = Colon
      /\ \A k \in n + 2 .. n + 1 + m : k - (n + 1) \in 1 .. m /\ a[k] = p[k - (n + 1)]
  <2> HIDE DEF x
  <2>1. a = x \o p
    BY DEF x
  <2>2. /\ a \in Seq(V) /\ Len(a) = Len(x) + m
        /\ \A k \in 1 .. Len(x) + m : a[k] = IF k <= Len(x) THEN x[k] ELSE p[k - Len(x)]
    BY <1>5, <1>7, <2>1, ConcatProperties
  <2> HIDE DEF a, n, m
  <2>3. \A k \in 1 .. n : k \in 1 .. n + 1 /\ k \in 1 .. n + 1 + m /\ k <= n + 1
    BY <1>6
  <2>4. \A k \in 1 .. n : a[k] = h[k]
    BY <1>7, <2>2, <2>3
  <2>5. n + 1 \in 1 .. n + 1 /\ n + 1 \in 1 .. n + 1 + m /\ ~(n + 1 <= n)
    BY <1>6
  <2>6. a[n + 1] = Colon
    BY <1>6, <1>7, <2>2, <2>5
  <2>7. \A k \in n + 2 .. n + 1 + m :
          k - (n + 1) \in 1 .. m /\ k \in 1 .. n + 1 + m /\ ~(k <= n + 1)
    BY <1>6
  <2>8. \A k \in n + 2 .. n + 1 + m : a[k] = p[k - (n + 1)]
    BY <1>7, <2>2, <2>7
  <2> QED
    BY <1>7, <2>2, <2>4, <2>6, <2>7, <2>8
<1> HIDE DEF a, n, m
<1>9. \A k \in DOMAIN a : k \in 1 .. n \/ k = n + 1 \/ k \in n + 2 .. n + 1 + m
  BY <1>6, <1>8
<1>10. \A k \in DOMAIN a : a[k] \notin {Comma, Control, Newline, B - 1} \cup Blanks
  <2> DEFINE Bad == {Comma, Control, Newline, B - 1} \cup Blanks
  <2>1. \A k \in 1 .. n : h[k] \notin Bad
    BY <1>2, <1>3, <1>6
  <2>2. \A k \in 1 .. m : p[k] \notin Bad
    BY <1>1, <1>6
  <2>3. Colon \notin Bad
    BY <1>2
  <2> HIDE DEF Bad
  <2>4. \A k \in DOMAIN a : a[k] \notin Bad
    BY <1>8, <1>9, <2>1, <2>2, <2>3
  <2> QED
    BY <2>4 DEF Bad
<1>11. \A k \in DOMAIN a : a[k] = Colon => k <= n + 1
  <2> SUFFICES ASSUME NEW k \in DOMAIN a, a[k] = Colon PROVE k <= n + 1
    OBVIOUS
  <2>1. k \notin n + 2 .. n + 1 + m
    BY <1>1, <1>6, <1>8
  <2> QED
    BY <1>6, <1>9, <2>1
<1>12. n + 1 \in DOMAIN a /\ a # <<>> /\ a[1] # Open
  <2>1. n + 1 \in DOMAIN a /\ 1 \in 1 .. n
    BY <1>6, <1>8
  <2>2. a[1] # Open
    BY <1>2, <1>6, <1>8, <2>1
  <2>3. a # <<>>
    BY <2>1
  <2> QED
    BY <2>1, <2>2, <2>3
<1>13. Server!PortText(a) = SubSeq(a, 1 + (n + 1), Len(a))
  <2> DEFINE i == n + 1
  <2>1. i \in DOMAIN a /\ a[i] = Colon /\ \A k \in DOMAIN a : a[k] = Colon => k <= i
    BY <1>8, <1>11, <1>12
  <2> HIDE DEF i
  <2>2. Server!Positions(Colon, a) # {} /\ Server!Max(Server!Positions(Colon, a)) = i
    BY <1>8, <2>1, LastColon
  <2>3. Server!PortText(a) = SubSeq(a, 1 + i, Len(a))
    BY <1>12, <2>2 DEF Server!PortText
  <2> QED
    BY <2>3 DEF i
<1>14. SubSeq(a, 1 + (n + 1), Len(a)) = p
  <2> DEFINE i == n + 1
             q == SubSeq(a, i + 1, Len(a))
  <2>1. /\ q \in Seq(V) /\ DOMAIN q = 1 .. Len(a) - i
        /\ \A k \in DOMAIN q : i + k \in DOMAIN a /\ q[k] = a[i + k]
    <3>1. i \in DOMAIN a
      BY <1>12
    <3> HIDE DEF i
    <3> QED
      BY <1>8, <3>1, Rest
  <2> HIDE DEF q
  <2>2. Len(a) - i = m
    BY <1>6, <1>8
  <2>3. \A k \in 1 .. m : i + k \in n + 2 .. n + 1 + m /\ i + k - (n + 1) = k
    BY <1>6
  <2>4. \A k \in 1 .. m : q[k] = p[k]
    <3> TAKE k \in 1 .. m
    <3>1. q[k] = a[i + k]
      BY <2>1, <2>2
    <3> DEFINE j == i + k
    <3>2. j \in n + 2 .. n + 1 + m /\ j - (n + 1) = k
      BY <1>6
    <3> HIDE DEF j
    <3>3. a[j] = p[k]
      BY <1>8, <3>2
    <3> QED
      BY <3>1, <3>3 DEF j
  <2>5. q = p
    <3>1. q \in Seq(V) /\ p \in Seq(V) /\ DOMAIN q = DOMAIN p
      BY <1>5, <1>6, <2>1, <2>2
    <3>2. \A k \in DOMAIN q : q[k] = p[k]
      BY <1>6, <2>4, <3>1
    <3>3. Len(q) = Len(p)
      <4>1. DOMAIN q = 1 .. Len(q) /\ DOMAIN p = 1 .. Len(p) /\ Len(q) \in Nat /\ Len(p) \in Nat
        BY <3>1
      <4> DEFINE y == Len(q)
                 z == Len(p)
      <4>2. y \in Nat /\ z \in Nat /\ 1 .. y = 1 .. z
        BY <3>1, <4>1
      <4> HIDE DEF y, z
      <4>3. y = z
        BY <4>2
      <4> QED
        BY <4>3 DEF y, z
    <3> QED
      BY <3>1, <3>2, <3>3, SeqEqual
  <2>6. 1 + (n + 1) = i + 1
    BY <1>6
  <2> QED
    BY <2>5, <2>6 DEF q
<1> QED
  BY <1>1, <1>4, <1>8, <1>10, <1>12, <1>13, <1>14 DEF a, h, c, V, p

\* No field of a link says which protocol to use, nor anything else that the
\* exporter has no setting for.
LEMMA NotInLink ==
    ASSUME IInv, SInv, stage = "done", ask.user # <<>>,
           NEW t \in {CUSTOM_SNI, PROTOCOL, RANDOM_PREFIX, DNS_UPSTREAMS}
    PROVE  cfg[t] = Defaults[t]
<1> DEFINE x == ExportedFields(srv, ask)
           m == Len(entries)
<1>1. /\ Len(x) \in Nat /\ Len(x) >= 5 /\ DOMAIN x = 1 .. Len(x)
      /\ x[1].tag = VERSION /\ x[2].tag = HOSTNAME /\ x[3].tag = ADDRESS
      /\ x[4].tag = USERNAME /\ x[5].tag = PASSWORD
      /\ \A i \in 6 .. Len(x) : x[i].tag \in {HAS_IPV6, NAME, CERTIFICATE}
  BY ExportedShape
<1>2. /\ m \in 0 .. Len(x) /\ m \in Nat
      /\ \A i \in 1 .. m : entries[i] = x[i]
      /\ \A s \in Tags : GivenBy(entries, First(entries, m, s), s, cfg[s])
  BY LinkBegins
<1> HIDE DEF x, m
<1> USE DEF VERSION, HOSTNAME, ADDRESS, USERNAME, PASSWORD, HAS_IPV6, NAME, CERTIFICATE,
            CUSTOM_SNI, PROTOCOL, RANDOM_PREFIX, DNS_UPSTREAMS
<1>3. \A i \in 1 .. m : entries[i].tag # t
  <2> TAKE i \in 1 .. m
  <2>1. i \in {1, 2, 3, 4, 5} \/ i \in 6 .. Len(x)
    BY <1>1, <1>2
  <2>2. x[i].tag # t
    BY <1>1, <2>1
  <2> QED
    BY <1>2, <2>2
<1>4. First(entries, m, t) = {}
  BY <1>3 DEF First
<1>5. GivenBy(entries, {}, t, cfg[t])
  <2>1. t \in Tags
    BY DEF Tags
  <2> QED
    BY <1>2, <1>4, <2>1
<1>6. t # ADDRESS /\ {} = {}
  OBVIOUS
<1>7. GivenBy(entries, {}, t, cfg[t]) = (cfg[t] = Defaults[t])
  BY <1>6, Zenon DEF GivenBy
<1> QED
  BY <1>5, <1>7

LEMMA DefaultsHere ==
    ASSUME IInv, SInv, stage = "done", ask.user # <<>>
    PROVE  /\ cfg[PROTOCOL] = <<"http2">> /\ cfg[CUSTOM_SNI] = <<>>
           /\ cfg[RANDOM_PREFIX] = <<>> /\ cfg[DNS_UPSTREAMS] = <<>>
<1>1. /\ Defaults[PROTOCOL] = <<"http2">> /\ Defaults[CUSTOM_SNI] = <<>>
      /\ Defaults[RANDOM_PREFIX] = <<>> /\ Defaults[DNS_UPSTREAMS] = <<>>
  BY DEF Defaults, Tags, VERSION, HAS_IPV6, SKIP_VERIFICATION, ANTI_DPI, PROTOCOL,
         CUSTOM_SNI, RANDOM_PREFIX, DNS_UPSTREAMS
<1> QED
  BY <1>1, NotInLink

LEMMA EndpointAgrees == IInv /\ SInv => EndpointMatches
<1> SUFFICES ASSUME IInv, SInv, Enrolling, Server!Accepted(srv), NEW s \in Settings
             PROVE  LET mine == Client!File(s, Row)
                        theirs == Server!Files(srv)
                    IN /\ Client!Reads(mine.hostname) = Server!Reads(theirs.hosts.hostname)
                       /\ Client!Reads(mine.hostname) # <<>>
                       /\ Len(mine.addresses) = 1
                       /\ LET a == Client!Reads(mine.addresses[1])[1]
                          IN /\ a = srv.host \o <<Colon>> \o Server!PortText(a)
                             /\ PortOf[Server!PortText(a)] = theirs.vpn.port
                       /\ "http2" \in theirs.vpn.sections
                            => mine.protocol \in theirs.vpn.sections
  BY DEF EndpointMatches
<1> DEFINE mine == Client!File(s, Row)
           theirs == Server!Files(srv)
           a == Address(srv)
           p == Server!PortText(srv.listen)
           r == Row
<1>1. /\ cfg[HOSTNAME] = <<srv.host>> /\ cfg[ADDRESS] = <<a>> /\ cfg[PROTOCOL] = <<"http2">>
      /\ srv.host \in Seq(Byte) /\ a \in Seq(Byte)
  BY LoginHere, DefaultsHere DEF Enrolling
<1>2. /\ a = srv.host \o <<Colon>> \o p /\ a # <<>>
      /\ \A k \in DOMAIN a : a[k] \notin {Comma, Control} \cup Blanks
      /\ Server!PortText(a) = p
  <2>1. srv \in Servers
    BY DEF SInv, Typed
  <2> QED
    BY <2>1, AddressShape
<1>3. \A k \in DOMAIN srv.host : srv.host[k] # Control
  BY DEF Server!Accepted, Server!Refuses
<1>4. /\ theirs.hosts.hostname = Server!Escape(srv.host)
      /\ theirs.vpn.port = PortOf[p]
  BY DEF Server!Files, Server!HostsToml, Server!VpnToml
<1> HIDE DEF a, p
<1>5. /\ r.hostname = srv.host /\ r.addresses = a /\ r.protocol = "http2"
  <2>1. cfg[HOSTNAME][1] = srv.host /\ cfg[PROTOCOL][1] = "http2"
    BY <1>1
  <2>2. Client!Joined(cfg[ADDRESS]) = a
    BY <1>1, JoinedOne
  <2> QED
    BY <2>1, <2>2 DEF Row, Client!Row
<1>6. Client!Addresses(r) = <<a>>
  <2>1. Client!Items(a) = <<a>>
    BY <1>1, <1>2, OneItem
  <2> HIDE DEF r
  <2> QED
    BY <1>5, <2>1 DEF Client!Addresses
<1>7. /\ mine.hostname = Client!Escape(srv.host) /\ mine.protocol = "http2"
      /\ mine.addresses = [i \in DOMAIN <<a>> |-> Client!Escape(<<a>>[i])]
  <2> HIDE DEF r
  <2> QED
    BY <1>5, <1>6 DEF Client!File, r
<1>8. Len(mine.addresses) = 1 /\ mine.addresses[1] = Client!Escape(a)
  <2> HIDE DEF mine
  <2>1. DOMAIN mine.addresses = 1 .. 1 /\ mine.addresses[1] = Client!Escape(a)
    BY <1>7
  <2>2. mine.addresses = [i \in 1 .. 1 |-> mine.addresses[i]]
    BY <1>7, <2>1
  <2> QED
    BY <2>1, <2>2
<1> HIDE DEF mine, theirs, r
<1>9. Client!Reads(mine.hostname) = <<srv.host>> /\ Server!Reads(theirs.hosts.hostname) = <<srv.host>>
  BY <1>1, <1>3, <1>4, <1>7, ReadBack
<1>10. Client!Reads(mine.addresses[1]) = <<a>>
  <2>1. \A k \in DOMAIN a : a[k] # Control
    BY <1>2
  <2> QED
    BY <1>1, <1>8, <2>1, ReadBack
<1>11. Client!Reads(mine.hostname) # <<>>
  BY <1>9
<1>12. Client!Reads(mine.addresses[1])[1] = a
  BY <1>10
<1> QED
  BY <1>2, <1>4, <1>7, <1>8, <1>9, <1>11, <1>12 DEF mine, theirs

\* The client calls the name and the port that the endpoint has, for every
\* host name, every listen address and every port the endpoint accepts.
THEOREM EndpointsAgree == Spec => []EndpointMatches
BY EndpointAgrees, Inductive, SInvInductive, PTL


----------------------------------------------------------------------------
(* Nothing is refused. *)

TooLarge == Embeds(srv.cert) /\ Len(srv.cert.blocks[1]) > MaxCert

\* Where a field of a length the importer takes was written, it is read.
LEMMA TlvOk ==
    ASSUME NEW d \in Seq(Byte), NEW o \in Nat, NEW f, IsField(f),
           Holds(d, o, Tlv(f)), Len(f.val) <= MaxField
    PROVE  ReadTlv(d, o).ok
<1> DEFINE a == EncodeVarint(f.tag)
           b == EncodeVarint(Len(f.val))
           v == f.val
<1>1. /\ a \in Seq(Byte) /\ b \in Seq(Byte) /\ v \in Seq(Byte)
      /\ Len(a) \in Nat /\ Len(b) \in Nat /\ Len(v) \in Nat
      /\ f.tag \in 0 .. Widest - 1 /\ Len(v) \in 0 .. Widest - 1
      /\ Len(a \o b) = Len(a) + Len(b) /\ a \o b \in Seq(Byte)
  <2>1. /\ a \in Seq(Byte) /\ b \in Seq(Byte) /\ v \in Seq(Byte)
        /\ f.tag \in 0 .. Widest - 1 /\ Len(v) \in 0 .. Widest - 1
    BY TlvBytes DEF IsField
  <2> HIDE DEF a, b, v
  <2>2. a \o b \in Seq(Byte) /\ Len(a \o b) = Len(a) + Len(b)
    BY <2>1, ConcatProperties
  <2> QED
    BY <2>1, <2>2
<1> DEFINE p == o + Len(a)
           q == p + Len(b)
<1>2. Len(d) \in Nat /\ p \in Nat /\ q \in Nat /\ o + Len(a \o b) = q
  <2> HIDE DEF a, b
  <2> QED
    BY <1>1
<1>3. Holds(d, o, a) /\ Holds(d, p, b) /\ Holds(d, q, v)
  <2>1. Holds(d, o, (a \o b) \o v)
    BY DEF Tlv
  <2> HIDE DEF a, b, v
  <2>2. Holds(d, o, a \o b) /\ Holds(d, o + Len(a \o b), v)
    BY <1>1, <1>2, <2>1, HoldsParts
  <2>3. Holds(d, o, a) /\ Holds(d, o + Len(a), b)
    BY <1>1, <1>2, <2>2, HoldsParts
  <2> QED
    BY <1>2, <2>2, <2>3
<1>4. DecodeVarint(d, o) = Number(f.tag, p)
  BY <1>1, <1>3, Decodes
<1>5. DecodeVarint(d, p) = Number(Len(v), q)
  <2> DEFINE n == Len(v)
  <2>1. Holds(d, p, EncodeVarint(n)) /\ p \in Nat /\ n \in 0 .. Widest - 1
    BY <1>1, <1>2, <1>3
  <2> HIDE DEF p, n
  <2>2. DecodeVarint(d, p) = Number(n, p + Len(EncodeVarint(n)))
    BY <2>1, Decodes
  <2> QED
    BY <2>2 DEF n
<1>6. q + Len(v) <= Len(d) /\ Len(v) <= MaxField
  BY <1>3 DEF Holds
<1> HIDE DEF a, b, v, p, q
<1>7. /\ DecodeVarint(d, o).ok /\ DecodeVarint(d, o).next = p
      /\ DecodeVarint(d, p).ok /\ DecodeVarint(d, p).next = q /\ DecodeVarint(d, p).val = Len(v)
  BY <1>4, <1>5, NumberFields DEF Number
<1>8. ~(Len(v) > MaxField \/ q + Len(v) > Len(d))
  BY <1>1, <1>2, <1>6, MaxFieldAssumption
<1> QED
  BY <1>7, <1>8 DEF ReadTlv

LEMMA OneIsSmall == 1 \in 0 .. Widest - 1
<1>1. /\ Q \in Nat /\ Q >= 1 /\ B \in Nat /\ B >= 4
  BY QAssumption DEF B
<1>2. \A n \in Nat : n >= 1 => n * B \in Nat /\ n * B >= 4
  BY <1>1
<1> DEFINE w2 == Q * B
           w3 == w2 * B
           w4 == w3 * B
           w5 == w4 * B
           w6 == w5 * B
           w7 == w6 * B
           w8 == w7 * B
<1>3. w2 \in Nat /\ w2 >= 4
  BY <1>1, <1>2
<1>4. Widest = w8
  BY DEF Widest
<1> HIDE DEF w2
<1>5. w3 \in Nat /\ w3 >= 4
  BY <1>2, <1>3
<1> HIDE DEF w3
<1>6. w4 \in Nat /\ w4 >= 4
  BY <1>2, <1>5
<1> HIDE DEF w4
<1>7. w5 \in Nat /\ w5 >= 4
  BY <1>2, <1>6
<1> HIDE DEF w5
<1>8. w6 \in Nat /\ w6 >= 4
  BY <1>2, <1>7
<1> HIDE DEF w6
<1>9. w7 \in Nat /\ w7 >= 4
  BY <1>2, <1>8
<1> HIDE DEF w7
<1>10. w8 \in Nat /\ w8 >= 4
  BY <1>2, <1>9
<1> HIDE DEF w8
<1> QED
  BY <1>4, <1>10

\* What the kinds of field of an exported link mean.
LEMMA KindsOfField ==
    ASSUME NEW f
    PROVE  /\ f.tag = VERSION /\ DecodeVarint(f.val, 0).ok
                => Meaning(f) = <<DecodeVarint(f.val, 0).val>>
           /\ f.tag = HAS_IPV6 => Meaning(f) # <<>>
           /\ f.tag = CERTIFICATE
                => Meaning(f) = IF Len(f.val) <= MaxCert THEN <<f.val>> ELSE <<>>
<1> DEFINE v == f.val
           n == DecodeVarint(v, 0)
           number == IF n.ok THEN <<n.val>> ELSE <<>>
           version == IF n.ok THEN <<IF n.val = 2 THEN "http3" ELSE "http2">> ELSE <<>>
           flag == <<v = <<1>> >>
           cert == IF Len(v) <= MaxCert THEN <<v>> ELSE <<>>
           text == IF IsText(v) THEN <<v>> ELSE <<>>
<1> USE DEF VERSION, PROTOCOL, Flags, HAS_IPV6, SKIP_VERIFICATION, ANTI_DPI,
            CERTIFICATE, DNS_UPSTREAMS
<1>1. Meaning(f) = CASE f.tag = VERSION -> number
                     [] f.tag = PROTOCOL -> version
                     [] f.tag \in Flags -> flag
                     [] f.tag = CERTIFICATE -> cert
                     [] f.tag = DNS_UPSTREAMS -> DnsStrings(v)
                     [] OTHER -> text
  BY DEF Meaning
<1>2. flag # <<>> /\ (n.ok => number = <<n.val>>)
  <2>1. \A z : <<z>> # <<>>
    OBVIOUS
  <2>2. flag # <<>>
    BY <2>1, Zenon
  <2> HIDE DEF n
  <2>3. n.ok => number = <<n.val>>
    OBVIOUS
  <2> QED
    BY <2>2, <2>3
<1> HIDE DEF number, version, flag, cert, text
<1>3. f.tag = VERSION => Meaning(f) = number
  BY <1>1
<1>4. f.tag = HAS_IPV6 => Meaning(f) = flag
  BY <1>1
<1>5. f.tag = CERTIFICATE => Meaning(f) = cert
  BY <1>1
<1>6. f.tag = HAS_IPV6 => Meaning(f) # <<>>
  BY <1>2, <1>4
<1>7. f.tag = VERSION /\ n.ok => Meaning(f) = <<n.val>>
  BY <1>2, <1>3
<1> QED
  BY <1>5, <1>6, <1>7 DEF cert

\* Each field of a link that is read has a meaning, or it is a certificate
\* that is too large.
LEMMA FieldMeaning ==
    ASSUME srv \in Servers, ask \in Asks, Exportable(srv, ask), Server!Accepted(srv),
           NEW i \in 1 .. Len(ExportedFields(srv, ask))
    PROVE  Meaning(ExportedFields(srv, ask)[i]) # <<>> \/ TooLarge
<1> DEFINE x == ExportedFields(srv, ask)
           u == FindUser(srv, ask.user)
<1> USE DEF VERSION, HOSTNAME, ADDRESS, USERNAME, PASSWORD, HAS_IPV6, NAME, CERTIFICATE
<1>1. /\ Len(x) \in Nat /\ Len(x) >= 5
      /\ x[2] = Field(HOSTNAME, srv.host) /\ x[3] = Field(ADDRESS, Address(srv))
      /\ x[4] = Field(USERNAME, ask.user) /\ x[5] = Field(PASSWORD, u.pass)
      /\ \A k \in 6 .. Len(x) :
           \/ x[k] = Field(HAS_IPV6, <<0>>)
           \/ x[k] = Field(NAME, ask.name)
           \/ Embeds(srv.cert) /\ x[k] = Field(CERTIFICATE, srv.cert.blocks[1])
      /\ x[1] = Field(VERSION, EncodeVarint(1))
  BY ExportedShape
<1> HIDE DEF x
<1>2. \A v : IsText(v) => \A t \in {HOSTNAME, ADDRESS, USERNAME, PASSWORD, NAME} :
               Meaning(Field(t, v)) # <<>>
  <2> SUFFICES ASSUME NEW v, IsText(v),
                      NEW t \in {HOSTNAME, ADDRESS, USERNAME, PASSWORD, NAME}
               PROVE  Meaning(Field(t, v)) # <<>>
    OBVIOUS
  <2>1. Meaning(Field(t, v)) = <<v>>
    BY DEF Meaning, Field, PROTOCOL, Flags, SKIP_VERIFICATION, ANTI_DPI, DNS_UPSTREAMS
  <2> QED
    BY <2>1
<1>3. IsText(srv.host) /\ IsText(Address(srv)) /\ IsText(ask.name)
  <2>1. IsText(srv.host) /\ IsText(ask.name)
    BY ContentsAssumption
  <2>2. IsText(Address(srv))
    BY AddressShape DEF IsText
  <2> QED
    BY <2>1, <2>2
<1>4. IsText(ask.user) /\ IsText(u.pass)
  <2>1. PICK k \in DOMAIN srv.users : u = srv.users[k] /\ srv.users[k].name = ask.user
    BY UserFound DEF Exportable
  <2>2. IsText(srv.users[k].name) /\ IsText(srv.users[k].pass)
    BY ContentsAssumption
  <2> HIDE DEF u
  <2> QED
    BY <2>1, <2>2
<1> HIDE DEF u
<1>5. CASE i = 1
  <2> DEFINE v == EncodeVarint(1)
  <2>1. DecodeVarint(v, 0).ok
    <3>1. 1 \in 0 .. Widest - 1
      BY OneIsSmall
    <3>2. v \in Seq(Byte)
      BY <3>1, EncodedBytes
    <3>3. Holds(v, 0, v)
      BY <3>2 DEF Holds
    <3>4. DecodeVarint(v, 0) = Number(1, 0 + Len(v))
      BY <3>1, <3>2, <3>3, Decodes
    <3> QED
      BY <3>4 DEF Number
  <2> HIDE DEF v
  <2>2. x[1].tag = VERSION /\ x[1].val = v
    BY <1>1 DEF Field, v
  <2>3. Meaning(x[1]) = <<DecodeVarint(v, 0).val>>
    BY <2>1, <2>2, KindsOfField
  <2>4. \A z : <<z>> # <<>>
    OBVIOUS
  <2>5. Meaning(x[1]) # <<>>
    BY <2>3, <2>4
  <2> QED
    BY <1>5, <2>5 DEF x
<1>6. CASE i \in {2, 3, 4, 5}
  BY <1>1, <1>2, <1>3, <1>4, <1>6 DEF x
<1>7. CASE i \in 6 .. Len(x)
  <2>1. CASE x[i] = Field(HAS_IPV6, <<0>>)
    <3>1. x[i].tag = HAS_IPV6
      BY <2>1 DEF Field
    <3>2. Meaning(x[i]) # <<>>
      BY <3>1, KindsOfField
    <3> QED
      BY <3>2 DEF x
  <2>2. CASE x[i] = Field(NAME, ask.name)
    BY <1>2, <1>3, <2>2 DEF x
  <2>3. CASE Embeds(srv.cert) /\ x[i] = Field(CERTIFICATE, srv.cert.blocks[1])
    <3> DEFINE v == srv.cert.blocks[1]
    <3>1. x[i].tag = CERTIFICATE /\ x[i].val = v
      BY <2>3 DEF Field
    <3>2. v \in Seq(Byte)
      <4> DEFINE j == i
      <4>1. x \in Seq([tag : Nat, val : Seq(Byte)])
        BY FieldsAssumption DEF x
      <4>2. j \in 1 .. Len(x)
        BY <1>1, <1>7
      <4> HIDE DEF j
      <4>3. x[j] \in [tag : Nat, val : Seq(Byte)]
        BY <4>1, <4>2, ElementOfSeq
      <4> QED
        BY <3>1, <4>3 DEF j
    <3> HIDE DEF v
    <3>3. Meaning(x[i]) = IF Len(v) <= MaxCert THEN <<v>> ELSE <<>>
      BY <3>1, KindsOfField
    <3>4. Len(v) <= MaxCert \/ Len(v) > MaxCert
      BY <3>2, LimitsAssumption
    <3>5. Meaning(x[i]) # <<>> \/ Len(v) > MaxCert
      BY <3>3, <3>4
    <3> QED
      BY <2>3, <3>5 DEF TooLarge, x, v
  <2> QED
    BY <1>1, <1>7, <2>1, <2>2, <2>3
<1> QED
  BY <1>1, <1>5, <1>6, <1>7 DEF x

----------------------------------------------------------------------------
\* Payload, certificate and refusals of a whole link.
Short ==
    ask.user # <<>> /\ stage \in {"sent", "parse"} =>
      UriBytes(UriChars(Len(buf))) <= MaxUri

OneCert ==
    ask.user # <<>> /\ stage = "split" =>
      /\ Embeds(srv.cert) /\ cfg[CERTIFICATE] = <<srv.cert.blocks[1]>>
      /\ off \in {0, Len(srv.cert.blocks[1])}

Unrefused ==
    ask.user # <<>> /\ Whole /\ stage = "refused" /\ Server!Accepted(srv) => TooLarge

WInv == Short /\ OneCert /\ Unrefused

LEMMA HasFields ==
    ASSUME IInv, SInv, ask.user # <<>>, stage \in {"parse", "apply", "split", "done"}
    PROVE  fields # <<>>
<1>1. fields = ExportedFields(srv, ask) /\ Exportable(srv, ask)
  BY DEF SInv, Checked
<1> DEFINE x == ExportedFields(srv, ask)
<1>2. Len(x) \in Nat /\ Len(x) >= 5
  BY ExportedShape
<1> HIDE DEF x
<1>3. x # <<>>
  BY <1>2
<1> QED
  BY <1>1, <1>3 DEF x

LEMMA InitWInv == Init => WInv
<1> SUFFICES ASSUME Init PROVE WInv
  OBVIOUS
<1>1. stage \notin {"parse", "split", "refused"}
  BY DEF Init
<1>2. ask.user # <<>> => stage # "sent"
  <2>1. CASE ask = [user |-> <<>>, name |-> <<>>]
    BY <2>1
  <2>2. CASE IF Exportable(srv, ask)
             THEN fields = ExportedFields(srv, ask) /\ stage = "write"
             ELSE fields = <<>> /\ stage = "no link"
    BY <2>2, Zenon
  <2> QED
    BY <2>1, <2>2 DEF Init
<1> QED
  BY <1>1, <1>2 DEF WInv, Short, OneCert, Unrefused

LEMMA WriteWInv == IInv /\ WInv /\ (Put \/ Finish \/ NoQr) => WInv'
<1> SUFFICES ASSUME IInv, Put \/ Finish \/ NoQr PROVE WInv'
  OBVIOUS
<1>1. stage' \notin {"parse", "split", "refused"}
  BY DEF Put, Finish, NoQr
<1>2. stage' = "sent" => UriBytes(UriChars(Len(buf'))) <= MaxUri
  <2>1. stage' = "sent" => buf' = buf /\ ~(UriBytes(UriChars(Len(buf))) > MaxUri)
    BY DEF Put, Finish, NoQr, written
  <2>2. UriBytes(UriChars(Len(buf))) \in Nat
    <3> DEFINE n == Len(buf)
    <3>0. buf \in Seq(Byte)
      BY DEF IInv, Written
    <3>1. n \in Nat
      BY <3>0
    <3> HIDE DEF n
    <3>2. UriBytes(UriChars(n)) \in Nat
      BY <3>1, Base64 DEF UriBytes
    <3> QED
      BY <3>2 DEF n
  <2> HIDE DEF IInv
  <2>3. \A z \in Nat : ~(z > MaxUri) => z <= MaxUri
    BY LimitsAssumption
  <2> QED
    BY <2>1, <2>2, <2>3
<1> QED
  BY <1>1, <1>2 DEF WInv, Short, OneCert, Unrefused

\* A whole link is never cut within a group of four, and never too long.
LEMMA WholeFits ==
    ASSUME NEW n \in Nat, UriBytes(UriChars(n)) <= MaxUri
    PROVE  /\ Received(UriChars(n)) /\ UriChars(n) % 4 # 1
           /\ (3 * UriChars(n)) \div 4 = n /\ n <= MaxField
<1> DEFINE u == UriChars(n)
<1>1. 3 * u <= 4 * n + 2 /\ 4 * n + 2 <= 3 * u + 2 /\ u \in Nat
  BY DEF UriChars
<1>2. Received(u) /\ 6 + u <= MaxUri
  BY DEF Received, UriBytes
<1>3. (3 * u) \div 4 = n
  BY Base64
<1> HIDE DEF u
<1>4. u % 4 # 1
  BY <1>1
<1>5. n <= MaxField
  BY <1>1, <1>2, LimitsAssumption, MaxFieldAssumption
<1> QED
  BY <1>2, <1>3, <1>4, <1>5 DEF u

LEMMA PasteWInv == IInv /\ WInv /\ PasteAny => WInv'
<1> SUFFICES ASSUME IInv, WInv, PasteAny PROVE WInv'
  OBVIOUS
<1>1. PICK c \in 0 .. UriChars(Len(buf)) : stage = "sent" /\ Paste(c)
  BY DEF PasteAny
<1>2. /\ chars' = c /\ buf' = buf /\ ask' = ask /\ srv' = srv
      /\ stage' = IF ~Received(c) \/ c % 4 = 1 \/ Len(Copied(c)) > MaxField
                  THEN "refused" ELSE "parse"
  BY <1>1 DEF Paste, written
<1>3. ask.user # <<>> => UriBytes(UriChars(Len(buf))) <= MaxUri
  BY <1>1 DEF WInv, Short
<1>4. ASSUME ask.user # <<>>, c = UriChars(Len(buf)) PROVE stage' # "refused"
  <2> DEFINE n == Len(buf)
  <2>0. buf \in Seq(Byte)
    BY DEF IInv, Written
  <2>1. n \in Nat /\ buf \in Seq(Byte)
    BY <2>0
  <2>2. UriBytes(UriChars(n)) <= MaxUri
    BY <1>3, <1>4
  <2> HIDE DEF n
  <2>3. /\ Received(UriChars(n)) /\ UriChars(n) % 4 # 1
        /\ (3 * UriChars(n)) \div 4 = n /\ n <= MaxField
    BY <2>1, <2>2, WholeFits
  <2>4. Copied(UriChars(n)) = buf
    <3>1. SubSeq(buf, 1, n) = buf
      BY <2>1, SubSeqFull DEF n
    <3> QED
      BY <2>3, <3>1 DEF Copied
  <2>5. ~(Len(buf) > MaxField)
    BY <2>1, <2>3, MaxFieldAssumption DEF n
  <2> QED
    BY <1>2, <1>4, <2>3, <2>4, <2>5 DEF n
<1>5. stage' \in {"refused", "parse"}
  BY <1>2
<1>6. Short'
  BY <1>2, <1>3 DEF Short
<1>7. OneCert'
  BY <1>5 DEF OneCert
<1>8. Unrefused'
  BY <1>2, <1>4 DEF Unrefused, Whole
<1> QED
  BY <1>6, <1>7, <1>8 DEF WInv

LEMMA ParseWInv == IInv /\ SInv /\ WInv /\ Parse => WInv'
<1> SUFFICES ASSUME IInv, SInv, WInv, Parse PROVE WInv'
  OBVIOUS
<1> DEFINE r == ReadTlv(Data, off)
<1>1. /\ stage = "parse" /\ buf' = buf /\ chars' = chars /\ ask' = ask /\ srv' = srv
      /\ stage' = "refused" => ~(off >= Len(Data)) /\ ~r.ok
      /\ stage' \in {"parse", "apply", "refused"}
  BY DEF Parse, written
<1>2. Short'
  BY <1>1 DEF WInv, Short
<1>3. OneCert'
  BY <1>1 DEF OneCert
<1>4. ASSUME ask.user # <<>>, Whole, stage' = "refused" PROVE FALSE
  <2>1. /\ buf \in Seq(Byte) /\ chars \in 0 .. UriChars(Len(buf)) /\ off \in Nat
    BY <1>1 DEF IInv, Written, Reading
  <2>2. Data = buf
    BY <1>4, <2>1, DataIsPrefix
  <2> DEFINE n == Len(buf)
             f == fields[Len(entries) + 1]
  <2>3. n \in Nat
    BY <2>1
  <2>4. off < Len(Data)
    BY <1>1, <1>4, <2>1, <2>2
  <2>5. Holds(buf, off, Tlv(f)) /\ IsField(f)
    BY <1>1, <1>4, <2>4, HasFields, NextField
  <2>6. UriBytes(UriChars(n)) <= MaxUri
    BY <1>1, <1>4 DEF WInv, Short
  <2>7. n <= MaxField
    <3> HIDE DEF n
    <3> QED
      BY <2>3, <2>6, WholeFits
  <2> HIDE DEF f
  <2>8. Len(f.val) <= n
    <3> DEFINE a == Len(EncodeVarint(f.tag))
               b == Len(EncodeVarint(Len(f.val)))
               v == Len(f.val)
    <3>1. /\ Len(Tlv(f)) = a + b + v /\ a \in 1 .. 8 /\ b \in 1 .. 8
      BY <2>5, TlvBytes
    <3>2. v \in Nat
      BY <2>5 DEF IsField
    <3>3. off + Len(Tlv(f)) <= n
      BY <2>5 DEF Holds
    <3> HIDE DEF a, b, v, n
    <3>4. v <= n
      BY <2>1, <2>3, <3>1, <3>2, <3>3
    <3> QED
      BY <3>4 DEF v
  <2>9. Len(f.val) <= MaxField
    <3>1. Len(f.val) \in Nat
      BY <2>5 DEF IsField
    <3> HIDE DEF n
    <3> QED
      BY <2>3, <2>7, <2>8, <3>1, MaxFieldAssumption
  <2>10. r.ok
    BY <2>1, <2>2, <2>5, <2>9, TlvOk
  <2> QED
    BY <1>1, <1>4, <2>10
<1>5. Unrefused'
  BY <1>1, <1>4 DEF Unrefused, Whole
<1> QED
  BY <1>2, <1>3, <1>5 DEF WInv

LEMMA ApplyWInv == IInv /\ SInv /\ WInv /\ Apply => WInv'
<1> SUFFICES ASSUME IInv, SInv, Apply PROVE WInv'
  OBVIOUS
<1> DEFINE f == entries[seen + 1]
<1>1. /\ stage = "apply" /\ seen < Len(entries) /\ ask' = ask /\ srv' = srv
      /\ chars' = chars /\ buf' = buf
      /\ stage' = "refused" => Meaning(f) = <<>>
      /\ stage' \in {"apply", "refused"}
  BY DEF Apply, written
<1>2. Short' /\ OneCert'
  BY <1>1 DEF Short, OneCert
<1>3. ASSUME ask.user # <<>>, stage' = "refused", Server!Accepted(srv) PROVE TooLarge
  <2> DEFINE x == ExportedFields(srv, ask)
             m == Len(entries)
             i == seen + 1
  <2>1. /\ Exportable(srv, ask) /\ srv \in Servers /\ ask \in Asks
        /\ m \in 0 .. Len(x) /\ m \in Nat
        /\ \A k \in 1 .. m : entries[k] = x[k]
    BY <1>1, <1>3, HasFields, LinkSoFar
  <2>2. seen \in 0 .. m /\ seen < m
    BY <1>1 DEF SInv, Typed
  <2>3. Len(x) \in Nat
    BY ExportedShape
  <2> HIDE DEF x, m
  <2>4. i \in 1 .. m /\ i \in 1 .. Len(x)
    BY <2>1, <2>2, <2>3
  <2> HIDE DEF i
  <2>5. entries[i] = x[i]
    BY <2>1, <2>4
  <2>6. Meaning(x[i]) = <<>>
    BY <1>1, <1>3, <2>5 DEF i
  <2> QED
    BY <1>3, <2>1, <2>4, <2>6, FieldMeaning DEF x
<1>4. Unrefused'
  BY <1>1, <1>3 DEF Unrefused, TooLarge
<1> QED
  BY <1>2, <1>4 DEF WInv

\* When the fields of a whole link have been taken, every required setting
\* has its value.
LEMMA AllRequired ==
    ASSUME IInv, SInv, stage = "apply", seen = Len(entries), ask.user # <<>>, Whole,
           Server!Accepted(srv), ~TooLarge, NEW t \in Required
    PROVE  cfg[t] # <<>>
<1> DEFINE x == ExportedFields(srv, ask)
           m == Len(entries)
<1>1. /\ Exportable(srv, ask) /\ srv \in Servers /\ ask \in Asks /\ fields = x
      /\ m \in Nat /\ \A i \in 1 .. m : entries[i] = x[i]
  BY HasFields, LinkSoFar
<1>2. m = Len(x)
  BY <1>1, HasFields DEF IInv, Reading
<1>3. /\ Len(x) \in Nat /\ Len(x) >= 5 /\ DOMAIN x = 1 .. Len(x)
  BY ExportedShape
<1>4. /\ Tagged(x, HOSTNAME) = {2} /\ Tagged(x, ADDRESS) = {3}
      /\ Tagged(x, USERNAME) = {4} /\ Tagged(x, PASSWORD) = {5}
  BY OneOfEach
<1>5. \A i \in 1 .. Len(x) : Meaning(x[i]) # <<>>
  BY <1>1, FieldMeaning
<1>6. t \in Tags /\ t \in {HOSTNAME, ADDRESS, USERNAME, PASSWORD}
  BY DEF Required, Tags, HOSTNAME, ADDRESS, USERNAME, PASSWORD
<1>7. GivenBy(entries, First(entries, m, t), t, cfg[t])
  BY <1>6 DEF SInv, Building
<1> HIDE DEF x, m
<1>8. First(entries, m, t) = Tagged(x, t)
  BY <1>1, <1>2, <1>3 DEF First, Tagged
<1>9. PICK k \in 1 .. 5 : Tagged(x, t) = {k}
  BY <1>4, <1>6
<1>10. k \in 1 .. m /\ entries[k] = x[k] /\ k \in 1 .. Len(x) /\ k \in Nat
  BY <1>1, <1>2, <1>3
<1>11. GivenBy(entries, {k}, t, cfg[t])
  BY <1>7, <1>8, <1>9
<1>12. CASE t = ADDRESS
  <2>1. InOrder(entries, {k}, cfg[ADDRESS])
    BY <1>11, <1>12 DEF GivenBy
  <2>2. cfg[ADDRESS] \in Seq(Seq(Byte))
    BY DEF SInv, Typed
  <2>3. cfg[ADDRESS] = <<entries[k].val>>
    BY <1>10, <2>1, <2>2, OneAddress
  <2>4. \A z : <<z>> # <<>>
    OBVIOUS
  <2> QED
    BY <1>12, <2>3, <2>4
<1>13. CASE t # ADDRESS
  <2>1. \E i \in {k} : cfg[t] = Meaning(entries[i])
    <3>1. t # ADDRESS /\ {k} # {}
      BY <1>13
    <3>2. GivenBy(entries, {k}, t, cfg[t]) =
            \E i \in {k} : (\A j \in {k} : j <= i) /\ cfg[t] = Meaning(entries[i])
      BY <3>1, Zenon DEF GivenBy
    <3> QED
      BY <1>11, <3>2
  <2>2. cfg[t] = Meaning(x[k])
    BY <1>10, <2>1
  <2> QED
    BY <1>5, <1>10, <2>2
<1> QED
  BY <1>12, <1>13

\* A certificate that has been taken is the one the endpoint embeds.
LEMMA CertificateHere ==
    ASSUME IInv, SInv, stage = "apply", seen = Len(entries), ask.user # <<>>,
           cfg[CERTIFICATE] # <<>>
    PROVE  Embeds(srv.cert) /\ cfg[CERTIFICATE] = <<srv.cert.blocks[1]>>
<1> DEFINE x == ExportedFields(srv, ask)
           m == Len(entries)
<1>1. /\ m \in 0 .. Len(x) /\ m \in Nat /\ \A i \in 1 .. m : entries[i] = x[i]
  BY HasFields, LinkSoFar
<1>2. /\ Len(x) \in Nat /\ Len(x) >= 5 /\ DOMAIN x = 1 .. Len(x)
      /\ x[1].tag = VERSION /\ x[2].tag = HOSTNAME /\ x[3].tag = ADDRESS
      /\ x[4].tag = USERNAME /\ x[5].tag = PASSWORD
      /\ \A i \in 6 .. Len(x) :
           \/ x[i] = Field(HAS_IPV6, <<0>>)
           \/ x[i] = Field(NAME, ask.name)
           \/ Embeds(srv.cert) /\ x[i] = Field(CERTIFICATE, srv.cert.blocks[1])
  BY ExportedShape
<1> HIDE DEF x
<1> USE DEF VERSION, HOSTNAME, ADDRESS, USERNAME, PASSWORD, HAS_IPV6, NAME, CERTIFICATE
<1>3. CERTIFICATE \in Tags /\ Defaults[CERTIFICATE] = <<>> /\ CERTIFICATE # ADDRESS
  BY DEF Tags, Defaults, SKIP_VERIFICATION, ANTI_DPI, PROTOCOL
<1>4. GivenBy(entries, First(entries, m, CERTIFICATE), CERTIFICATE, cfg[CERTIFICATE])
  BY <1>3 DEF SInv, Building
<1> HIDE DEF m
<1> DEFINE at == First(entries, m, CERTIFICATE)
           v == cfg[CERTIFICATE]
<1>5. at = {} => v = Defaults[CERTIFICATE]
  BY <1>3, <1>4 DEF GivenBy
<1>6. at # {} => \E i \in at : v = Meaning(entries[i])
  <2> HIDE DEF at, v
  <2>1. at # {} => GivenBy(entries, at, CERTIFICATE, v) =
          \E i \in at : (\A j \in at : j <= i) /\ v = Meaning(entries[i])
    BY <1>3, Zenon DEF GivenBy
  <2> QED
    BY <1>4, <2>1 DEF at, v
<1>7. PICK i \in at : v = Meaning(entries[i])
  BY <1>3, <1>5, <1>6
<1>8. i \in 1 .. m /\ entries[i].tag = CERTIFICATE
  BY DEF First
<1>9. x[i] = entries[i] /\ i \in 1 .. Len(x)
  BY <1>1, <1>2, <1>8
<1>10. i \in {1, 2, 3, 4, 5} \/ i \in 6 .. Len(x)
  BY <1>2, <1>9
<1>11. i \in 6 .. Len(x)
  BY <1>2, <1>8, <1>9, <1>10
<1>12. /\ Field(HAS_IPV6, <<0>>).tag = HAS_IPV6 /\ Field(NAME, ask.name).tag = NAME
       /\ Field(CERTIFICATE, srv.cert.blocks[1]).val = srv.cert.blocks[1]
  BY DEF Field
<1>13. Embeds(srv.cert) /\ x[i].val = srv.cert.blocks[1]
  BY <1>2, <1>8, <1>9, <1>11, <1>12
<1>14. v \in {<<>>, <<x[i].val>>}
  BY <1>7, <1>8, <1>9, MeaningShape
<1> QED
  BY <1>13, <1>14

LEMMA CheckWInv == IInv /\ SInv /\ WInv /\ Check => WInv'
<1> SUFFICES ASSUME IInv, SInv, Check PROVE WInv'
  OBVIOUS
<1>1. /\ stage = "apply" /\ seen = Len(entries) /\ ask' = ask /\ srv' = srv
      /\ chars' = chars /\ buf' = buf /\ cfg' = cfg /\ off' = 0
      /\ stage' = "refused" => \E t \in Required : cfg[t] = <<>>
      /\ stage' = "split" => cfg[CERTIFICATE] # <<>>
      /\ stage' \in {"split", "done", "refused"}
  BY DEF Check, written
<1>2. Short'
  BY <1>1 DEF Short
<1>3. OneCert'
  BY <1>1, CertificateHere DEF OneCert
<1>4. Unrefused'
  <2>1. SUFFICES ASSUME ask.user # <<>>, Whole, stage' = "refused", Server!Accepted(srv),
                        ~TooLarge
                 PROVE  FALSE
    BY <1>1 DEF Unrefused, Whole, TooLarge
  <2> QED
    BY <1>1, <2>1, AllRequired
<1> QED
  BY <1>2, <1>3, <1>4 DEF WInv

\* What is split is one DER element.
LEMMA OneElement ==
    ASSUME SInv, WInv, stage = "split", ask.user # <<>>
    PROVE  LET d == srv.cert.blocks[1]
               n == Len(d)
           IN /\ Embeds(srv.cert) /\ cfg[CERTIFICATE] = <<d>> /\ d \in Seq(Byte)
              /\ n \in Nat /\ n > 0 /\ DerEnd(d, 0) = n
<1> DEFINE d == srv.cert.blocks[1]
<1>1. Embeds(srv.cert) /\ cfg[CERTIFICATE] = <<d>>
  BY DEF WInv, OneCert
<1>2. d # <<>> /\ DerEnd(d, 0) = Len(d)
  BY <1>1, ContentsAssumption DEF SInv, Typed, DerElement
<1>3. d \in Seq(Byte)
  <2>1. cfg[CERTIFICATE] # <<>>
    BY <1>1
  <2>2. PICK v \in Seq(Byte) : cfg[CERTIFICATE] = <<v>>
    BY <2>1 DEF SInv, Typed
  <2> HIDE DEF d
  <2> QED
    BY <1>1, <2>2
<1> HIDE DEF d
<1>4. Len(d) \in Nat /\ Len(d) > 0
  BY <1>2, <1>3
<1> QED
  BY <1>1, <1>2, <1>3, <1>4 DEF d

LEMMA SplitWInv == SInv /\ WInv /\ Split => WInv'
<1> SUFFICES ASSUME SInv, WInv, Split PROVE WInv'
  OBVIOUS
<1>1. /\ stage = "split" /\ ask' = ask /\ srv' = srv /\ cfg' = cfg
      /\ stage' \in {"split", "done", "refused"}
  BY DEF Split, written
<1>2. Short'
  BY <1>1 DEF Short
<1>3. CASE ask.user = <<>>
  BY <1>1, <1>2, <1>3 DEF WInv, OneCert, Unrefused
<1>4. CASE ask.user # <<>>
  <2> DEFINE d == srv.cert.blocks[1]
             n == Len(d)
  <2>1. Embeds(srv.cert) /\ cfg[CERTIFICATE] = <<d>> /\ off \in {0, n}
    BY <1>1, <1>4 DEF WInv, OneCert
  <2>2. n \in Nat /\ n > 0 /\ DerEnd(d, 0) = n
    BY <1>1, <1>4, OneElement
  <2> HIDE DEF d
  <2> HIDE DEF n
  <2>5. cfg[CERTIFICATE][1] = d /\ Len(d) = n
    BY <2>1 DEF n
  <2>6. CASE off = 0
    <3>1. ~(off >= Len(d)) /\ DerEnd(d, off) = n /\ ~(n < 0)
      BY <2>2, <2>5, <2>6
    <3>2. off' = n /\ stage' = stage
      BY <2>5, <3>1 DEF Split
    <3> QED
      BY <1>1, <1>2, <2>1, <3>2 DEF WInv, OneCert, Unrefused, n, d
  <2>7. CASE off = n
    <3>1. off >= Len(d)
      BY <2>2, <2>5, <2>7
    <3>2. stage' = "done"
      BY <2>5, <3>1 DEF Split
    <3> QED
      BY <1>2, <3>2 DEF WInv, OneCert, Unrefused
  <2> QED
    BY <2>1, <2>6, <2>7
<1> QED
  BY <1>3, <1>4

LEMMA WInvInductive == Spec => []WInv
<1>1. Init => WInv
  BY InitWInv
<1>2. IInv /\ SInv /\ WInv /\ [Next]_vars => WInv'
  <2> SUFFICES ASSUME IInv, SInv, WInv, [Next]_vars PROVE WInv'
    OBVIOUS
  <2>1. CASE Put \/ Finish \/ NoQr
    BY <2>1, WriteWInv
  <2>2. CASE PasteAny
    BY <2>2, PasteWInv
  <2>3. CASE Parse
    BY <2>3, ParseWInv
  <2>4. CASE Apply
    BY <2>4, ApplyWInv
  <2>5. CASE Check
    BY <2>5, CheckWInv
  <2>6. CASE Split
    BY <2>6, SplitWInv
  <2>7. CASE UNCHANGED vars
    BY <2>7 DEF vars, written, WInv, Short, OneCert, Unrefused, Whole, TooLarge
  <2> QED
    BY <2>1, <2>2, <2>3, <2>4, <2>5, <2>6, <2>7 DEF Next
<1> QED
  BY <1>1, <1>2, Inductive, SInvInductive, PTL DEF Spec


\* The model of the client takes the row of a link, and its renderer the row
\* in every accepted setting.
LEMMA RowWorks ==
    ASSUME IInv, SInv, stage = "done", ask.user # <<>>, Server!Accepted(srv)
    PROVE  /\ Client!IsRowName(Row.name) => Client!RowAccepted(Row)
           /\ \A s \in Settings : Client!SettingsAccepted(s) => Client!RenderAccepts(s, Row)
<1> DEFINE u == FindUser(srv, ask.user)
           a == Address(srv)
           r == Row
<1>1. /\ cfg[HOSTNAME] = <<srv.host>> /\ cfg[ADDRESS] = <<a>>
      /\ cfg[USERNAME] = <<ask.user>> /\ cfg[PASSWORD] = <<u.pass>>
      /\ cfg[PROTOCOL] = <<"http2">> /\ cfg[CUSTOM_SNI] = <<>>
      /\ cfg[RANDOM_PREFIX] = <<>> /\ cfg[DNS_UPSTREAMS] = <<>>
      /\ srv.host \in Seq(Byte) /\ a \in Seq(Byte) /\ srv.host # <<>>
      /\ Named(srv, ask.user) # {}
  BY LoginHere, DefaultsHere
<1>2. srv \in Servers
  BY DEF SInv, Typed
<1>3. PICK i \in DOMAIN srv.users : u = srv.users[i] /\ u.name = ask.user
  BY <1>1, <1>2, UserFound
<1>4. /\ \A k \in DOMAIN a : a[k] \notin {Comma, Control, Newline} \cup Blanks
      /\ a # <<>>
  BY <1>2, AddressShape
<1>5. /\ Server!IsName(u.name) /\ u.pass # <<>> /\ ~Server!Refuses(u.pass, FALSE)
      /\ ~Server!Refuses(srv.host, FALSE)
  <2>1. Server!UserAccepted(u)
    BY <1>3 DEF Server!Accepted
  <2> HIDE DEF u
  <2> QED
    BY <2>1 DEF Server!UserAccepted, Server!Accepted
<1>6. Client!IsHost(srv.host) /\ Len(u.name) <= MaxName
  BY <1>1, <1>2, <1>3, MasksAssumption
<1> HIDE DEF u, a
<1>7. Client!IsName(ask.user) /\ ask.user # <<>>
  BY <1>3, <1>5 DEF Server!IsName, Client!IsName
<1>8. Client!IsLogin(ask.user)
  BY <1>3, <1>6, <1>7 DEF Client!IsLogin
<1>9. /\ r.hostname = srv.host /\ r.addresses = a /\ r.protocol = "http2"
      /\ r.username = ask.user /\ r.password = u.pass
      /\ r.sni = <<>> /\ r.prefix = <<>> /\ r.dns = <<>>
  <2>1. /\ cfg[HOSTNAME][1] = srv.host /\ cfg[PROTOCOL][1] = "http2"
        /\ cfg[USERNAME][1] = ask.user /\ cfg[PASSWORD][1] = u.pass
    BY <1>1
  <2>2. Client!Joined(cfg[ADDRESS]) = a
    BY <1>1, JoinedOne
  <2>3. /\ Or(cfg[CUSTOM_SNI], <<>>) = <<>> /\ Or(cfg[RANDOM_PREFIX], <<>>) = <<>>
        /\ Or(cfg[DNS_UPSTREAMS], <<>>) = <<>>
    BY <1>1 DEF Or
  <2>4. Client!Joined(Or(cfg[DNS_UPSTREAMS], <<>>)) = <<>>
    BY <2>3, JoinedNone
  <2> QED
    BY <2>1, <2>2, <2>3, <2>4 DEF Row, Client!Row
<1> HIDE DEF r
<1>10. Client!IsRowName(r.name) => Client!RowAccepted(r)
  BY <1>4, <1>5, <1>6, <1>8, <1>9 DEF Client!RowAccepted
<1>11. Client!Texts(r) \subseteq {srv.host, <<>>, ask.user, u.pass, a}
  <2>1. Client!Items(a) = <<a>>
    BY <1>1, <1>4, OneItem
  <2>2. Client!Addresses(r) = <<a>>
    BY <1>9, <2>1 DEF Client!Addresses
  <2>3. Client!Items(r.dns) = <<>>
    BY <1>9, NoItems
  <2>4. Client!ToSet(<<a>>) = {a} /\ Client!ToSet(<<>>) = {}
    BY DEF Client!ToSet
  <2> QED
    BY <1>9, <2>2, <2>3, <2>4 DEF Client!Texts
<1>12. \A t \in {srv.host, <<>>, ask.user, u.pass, a} : ~Client!Refuses(t, FALSE)
  <2>1. \A t : Client!Refuses(t, FALSE) = Server!Refuses(t, FALSE)
    BY DEF Client!Refuses, Server!Refuses
  <2>2. ~Client!Refuses(ask.user, FALSE)
    <3>1. \A k \in DOMAIN ask.user : ask.user[k] \notin {Control, Newline}
      BY <1>7, MasksAssumption DEF Client!IsName
    <3> QED
      BY <3>1 DEF Client!Refuses
  <2>3. ~Client!Refuses(a, FALSE)
    BY <1>4 DEF Client!Refuses
  <2>4. ~Client!Refuses(<<>>, FALSE)
    BY DEF Client!Refuses
  <2>5. ~Client!Refuses(srv.host, FALSE) /\ ~Client!Refuses(u.pass, FALSE)
    BY <1>5, <2>1
  <2> QED
    BY <2>2, <2>3, <2>4, <2>5
<1>13. \A s : Client!SettingsAccepted(s) => Client!RenderAccepts(s, r)
  BY <1>1, <1>5, <1>7, <1>9, <1>11, <1>12 DEF Client!RenderAccepts
<1> QED
  BY <1>10, <1>13 DEF r

\* Whatever the configuration: a link that was made and arrived whole is never
\* refused but for the size of a certificate, its row is taken but for its
\* name, and the client's file can be written.
THEOREM NothingRefused == Spec => []EnrolmentWorks
<1>1. IInv /\ SInv /\ WInv => EnrolmentWorks
  <2> SUFFICES ASSUME IInv, SInv, WInv, stage \in {"refused", "done"}, ask.user # <<>>,
                      Whole, Server!Accepted(srv)
               PROVE  /\ stage = "refused" => TooLarge
                      /\ stage = "done" =>
                           /\ Client!IsRowName(Row.name) => Client!RowAccepted(Row)
                           /\ \A s \in Settings :
                                Client!SettingsAccepted(s) => Client!RenderAccepts(s, Row)
    BY DEF EnrolmentWorks, TooLarge
  <2>1. stage = "refused" => TooLarge
    BY DEF WInv, Unrefused
  <2> QED
    BY <2>1, RowWorks
<1> QED
  BY <1>1, Inductive, SInvInductive, WInvInductive, PTL

----------------------------------------------------------------------------
(* The certificate chain. *)

\* What StoresAssumption says of each certificate's store.
Store(cas, caref) ==
    /\ IsFiniteSet(DOMAIN cas) /\ NoCa \notin DOMAIN cas
    /\ caref \in DOMAIN cas \cup {NoCa}
    /\ \A r \in DOMAIN cas :
         /\ cas[r].held \in BOOLEAN /\ cas[r].blocks \in Seq(Seq(Byte))
         /\ cas[r].caref \in DOMAIN cas \cup {NoCa}

Walker(cas) == [at : DOMAIN cas \cup {NoCa}, visited : SUBSET DOMAIN cas,
                chain : Seq(Seq(Byte)), ok : BOOLEAN]

Start(caref) == [at |-> caref, visited |-> {}, chain |-> <<>>, ok |-> TRUE]

\* The rounds of the walk, as far as the m-th.
IsWalk(g, cas, caref, m) ==
    /\ g \in [0 .. m -> Walker(cas)]
    /\ g[0] = Start(caref)
    /\ \A k \in 1 .. m : g[k] = Server!CaRound(cas, g[k - 1])

LEMMA SameCardinality == \A S : Server!Cardinality(S) = Cardinality(S)
BY DEF Server!Cardinality, Cardinality

\* The three ways a round can go.
LEMMA RoundShape ==
    ASSUME NEW cas, NEW caref, Store(cas, caref), NEW w \in Walker(cas)
    PROVE  LET r == Server!CaRound(cas, w)
           IN /\ r \in Walker(cas)
              /\ w.at = NoCa \/ ~w.ok => r = w
              /\ w.at # NoCa /\ w.ok /\ (w.at \in w.visited \/ ~cas[w.at].held) => ~r.ok
              /\ w.at # NoCa /\ w.ok /\ w.at \notin w.visited /\ cas[w.at].held =>
                   /\ r.ok /\ r.at = cas[w.at].caref /\ r.visited = w.visited \cup {w.at}
                   /\ r.chain = w.chain \o cas[w.at].blocks
<1> DEFINE D == DOMAIN cas
           S == Seq(Seq(Byte))
           r == Server!CaRound(cas, w)
           on == w.at # NoCa /\ w.ok
           good == w.at \notin w.visited /\ cas[w.at].held
<1>1. /\ w.at \in D \cup {NoCa} /\ w.visited \in SUBSET D /\ w.chain \in S /\ w.ok \in BOOLEAN
      /\ w = [at |-> w.at, visited |-> w.visited, chain |-> w.chain, ok |-> w.ok]
  BY DEF Walker
<1>2. CASE ~on
  <2>1. r = w
    BY <1>2 DEF Server!CaRound
  <2> QED
    BY <1>2, <2>1
<1>3. CASE on /\ ~good
  <2>1. r = [w EXCEPT !.ok = FALSE]
    BY <1>3 DEF Server!CaRound
  <2>2. r = [at |-> w.at, visited |-> w.visited, chain |-> w.chain, ok |-> FALSE]
    BY <1>1, <2>1
  <2> QED
    BY <1>1, <1>3, <2>2 DEF Walker
<1>4. CASE on /\ good
  <2> DEFINE c == w.chain \o cas[w.at].blocks
             v == w.visited \cup {w.at}
             a == cas[w.at].caref
  <2>1. r = [w EXCEPT !.at = a, !.visited = v, !.chain = c]
    BY <1>4 DEF Server!CaRound
  <2>2. w.at \in D /\ cas[w.at].blocks \in S /\ a \in D \cup {NoCa}
    BY <1>1, <1>4 DEF Store
  <2>3. c \in S /\ v \in SUBSET D
    <3> HIDE DEF S
    <3>1. \A x, y : x \in S /\ y \in S => x \o y \in S
      BY ConcatProperties DEF S
    <3> QED
      BY <1>1, <2>2, <3>1
  <2> HIDE DEF c, v, a
  <2>4. r = [at |-> a, visited |-> v, chain |-> c, ok |-> w.ok]
    BY <1>1, <2>1
  <2>5. r \in Walker(cas)
    BY <1>1, <2>2, <2>3, <2>4 DEF Walker
  <2>6. r.ok /\ r.at = a /\ r.visited = v /\ r.chain = c
    BY <1>1, <1>4, <2>4
  <2> QED
    BY <1>4, <2>5, <2>6 DEF c, v, a
<1> QED
  BY <1>2, <1>3, <1>4

\* A round that meets a CA of the store it has not met goes on from it, and a
\* walk that is well after a round met such a CA in it.
LEMMA GoodRound ==
    ASSUME NEW cas, NEW caref, Store(cas, caref), NEW w \in Walker(cas), NEW r,
           r = Server!CaRound(cas, w), w.at # NoCa, w.ok,
           r.ok \/ (w.at \notin w.visited /\ cas[w.at].held)
    PROVE  /\ w.at \in DOMAIN cas /\ w.at \notin w.visited /\ cas[w.at].held
           /\ r.ok /\ r.at = cas[w.at].caref /\ r.visited = w.visited \cup {w.at}
           /\ r.chain = w.chain \o cas[w.at].blocks
<1> DEFINE good == w.at \notin w.visited /\ cas[w.at].held
           rest == /\ r.ok /\ r.at = cas[w.at].caref /\ r.visited = w.visited \cup {w.at}
                   /\ r.chain = w.chain \o cas[w.at].blocks
<1>1. (~good => ~r.ok) /\ (good => rest)
  BY RoundShape, Zenon
<1>2. w.at \in DOMAIN cas
  BY DEF Walker
<1>3. r.ok \/ good
  OBVIOUS
<1> HIDE DEF good, rest
<1>4. good /\ rest
  BY <1>1, <1>3
<1> QED
  BY <1>2, <1>4 DEF good, rest

LEMMA WalkFound ==
    ASSUME NEW cas, NEW caref, Store(cas, caref)
    PROVE  LET m == Cardinality(DOMAIN cas) + 1
           IN /\ Cardinality(DOMAIN cas) \in Nat
              /\ \E g : /\ IsWalk(g, cas, caref, m)
                        /\ Server!CaBlocks(cas, caref) =
                             IF g[m].ok THEN <<g[m].chain>> ELSE <<>>
<1> DEFINE m == Server!Cardinality(DOMAIN cas) + 1
           S == Walker(cas)
           a == Start(caref)
           step == [k \in 1 .. m |-> [w \in S |-> Server!CaRound(cas, w)]]
           Eq(x) == x = [k \in 0 .. m |-> IF k = 0 THEN a ELSE Server!CaRound(cas, x[k - 1])]
           h == CHOOSE x : Eq(x)
<1>1. Cardinality(DOMAIN cas) \in Nat /\ m \in Nat /\ m = Cardinality(DOMAIN cas) + 1
  BY FS_CardinalityType, SameCardinality DEF Store
<1>2. a \in S
  BY EmptySeq DEF Store, Walker, Start
<1>3. Server!CaBlocks(cas, caref) = IF h[m].ok THEN <<h[m].chain>> ELSE <<>>
  BY Zenon DEF Server!CaBlocks, Start
<1>4. step \in [1 .. m -> [S -> S]]
  BY RoundShape
<1>5. \A k \in 1 .. m, w \in S : step[k][w] = Server!CaRound(cas, w)
  OBVIOUS
<1> HIDE DEF m, S, a, step
<1>6. PICK g \in [0 .. m -> S] : g[0] = a /\ \A k \in 1 .. m : g[k] = step[k][g[k - 1]]
  <2>1. m \in Nat
    BY <1>1
  <2> QED
    BY <1>2, <1>4, <2>1, DownRecursion
<1>7. \A k \in 1 .. m : g[k] = Server!CaRound(cas, g[k - 1])
  <2>1. \A k \in 1 .. m : k - 1 \in 0 .. m
    BY <1>1
  <2> QED
    BY <1>5, <1>6, <2>1
<1>8. Eq(g)
  BY <1>1, <1>6, <1>7
<1>9. Eq(h)
  <2> HIDE DEF Eq
  <2> QED
    BY <1>8
<1>10. IsWalk(h, cas, caref, m)
  <2>1. DOMAIN h = 0 .. m /\ h[0] = a /\ \A k \in 1 .. m : h[k] = Server!CaRound(cas, h[k - 1])
    <3> HIDE DEF h
    <3> QED
      BY <1>1, <1>9
  <2> DEFINE T == {k \in Nat : k <= m => h[k] \in S}
  <2>2. 0 \in T
    BY <1>2, <2>1
  <2>3. ASSUME NEW k \in Nat, k \in T PROVE k + 1 \in T
    <3> SUFFICES ASSUME k + 1 <= m PROVE h[k + 1] \in S
      OBVIOUS
    <3>1. h[k] \in S /\ k + 1 \in 1 .. m /\ (k + 1) - 1 = k
      BY <1>1, <2>3
    <3>2. h[k + 1] = Server!CaRound(cas, h[k])
      BY <2>1, <3>1
    <3> HIDE DEF h
    <3> QED
      BY <3>1, <3>2, RoundShape DEF S
  <2>4. Nat \subseteq T
    <3> HIDE DEF T
    <3> QED
      BY <2>2, <2>3, NatSets
  <2>5. \A k \in 0 .. m : h[k] \in S
    BY <1>1, <2>4
  <2>6. h = [k \in 0 .. m |-> h[k]]
    <3> HIDE DEF h
    <3> QED
      BY <1>9
  <2> HIDE DEF h
  <2> QED
    BY <2>1, <2>5, <2>6 DEF IsWalk, S, a
<1> QED
  BY <1>1, <1>3, <1>10

\* What the rounds keep: once it has failed it stays so, and as long as it
\* goes on it has come past as many CAs as there were rounds.
LEMMA WalkKeeps ==
    ASSUME NEW cas, NEW caref, Store(cas, caref), NEW m \in Nat, NEW g,
           IsWalk(g, cas, caref, m), g[m].ok
    PROVE  /\ \A k \in 0 .. m : g[k].ok
           /\ \A k \in 0 .. m : (\A j \in 0 .. k - 1 : g[j].at # NoCa) =>
                /\ Cardinality(g[k].visited) = k
                /\ \A j \in 0 .. k - 1 : g[j].at \in g[k].visited
<1>1. ASSUME NEW k \in 0 .. m - 1
      PROVE  /\ k + 1 \in 0 .. m /\ k \in 0 .. m /\ g[k] \in Walker(cas) /\ g[k + 1] \in Walker(cas)
             /\ g[k + 1] = Server!CaRound(cas, g[k])
  <2>1. k + 1 \in 1 .. m /\ (k + 1) - 1 = k /\ k \in 0 .. m /\ k + 1 \in 0 .. m
    OBVIOUS
  <2> QED
    BY <2>1 DEF IsWalk
<1>2. ASSUME NEW k \in 0 .. m PROVE g[k].ok
  <2> DEFINE T == {j \in Nat : j <= m => g[m - j].ok}
  <2>1. 0 \in T
    OBVIOUS
  <2>2. ASSUME NEW j \in Nat, j \in T PROVE j + 1 \in T
    <3> SUFFICES ASSUME j + 1 <= m PROVE g[m - (j + 1)].ok
      OBVIOUS
    <3> DEFINE i == m - (j + 1)
    <3>1. i \in 0 .. m - 1 /\ i + 1 = m - j
      OBVIOUS
    <3>2. g[i + 1].ok
      BY <2>2, <3>1
    <3> HIDE DEF i
    <3>3. g[i].ok \in BOOLEAN
      BY <1>1, <3>1 DEF Walker
    <3>4. g[i].ok
      BY <1>1, <3>1, <3>2, <3>3, RoundShape
    <3> QED
      BY <3>4 DEF i
  <2>3. m - k \in T
    <3>1. m - k \in Nat
      OBVIOUS
    <3> HIDE DEF T
    <3> QED
      BY <2>1, <2>2, <3>1, NatSets
  <2>4. m - k <= m /\ m - (m - k) = k
    OBVIOUS
  <2> QED
    BY <2>3, <2>4
<1> DEFINE On(k) == \A j \in 0 .. k - 1 : g[j].at # NoCa
           Seen(k) == /\ IsFiniteSet(g[k].visited) /\ Cardinality(g[k].visited) = k
                      /\ \A j \in 0 .. k - 1 : g[j].at \in g[k].visited
           T == {k \in Nat : k <= m /\ On(k) => Seen(k)}
<1>3. 0 \in T
  <2>1. g[0].visited = {} /\ 0 .. 0 - 1 = {}
    BY DEF IsWalk, Start
  <2> QED
    BY <2>1, FS_EmptySet
<1>4. ASSUME NEW k \in Nat, k \in T PROVE k + 1 \in T
  <2> SUFFICES ASSUME k + 1 <= m, On(k + 1) PROVE Seen(k + 1)
    OBVIOUS
  <2>1. k \in 0 .. m - 1 /\ k \in 0 .. (k + 1) - 1 /\ On(k) /\ k + 1 \in 0 .. m
    OBVIOUS
  <2>2. Seen(k) /\ g[k].at # NoCa /\ g[k].ok /\ g[k + 1].ok
    BY <1>2, <1>4, <2>1
  <2> DEFINE v == g[k].visited
             a == g[k].at
  <2>3. a \notin v /\ g[k + 1].visited = v \cup {a}
    <3> DEFINE x == g[k]
               r == g[k + 1]
    <3> HIDE DEF On, T, Seen
    <3>1. /\ x \in Walker(cas) /\ r = Server!CaRound(cas, x)
          /\ x.at # NoCa /\ x.ok /\ r.ok
      BY <1>1, <2>1, <2>2
    <3> HIDE DEF x, r
    <3>2. x.at \notin x.visited /\ r.visited = x.visited \cup {x.at}
      BY <3>1, GoodRound, ZenonT(60)
    <3> QED
      BY <3>2 DEF x, r
  <2>4. /\ IsFiniteSet(v) /\ Cardinality(v) = k
        /\ \A j \in 0 .. k - 1 : g[j].at \in v
    BY <2>2
  <2> HIDE DEF On, T, Seen
  <2>5. IsFiniteSet(v \cup {a}) /\ Cardinality(v \cup {a}) = k + 1
    BY <2>3, <2>4, FS_AddElement, ZenonT(60)
  <2>6. \A j \in 0 .. (k + 1) - 1 : j \in 0 .. k - 1 \/ j = k
    OBVIOUS
  <2>7. \A j \in 0 .. (k + 1) - 1 : g[j].at \in v \cup {a}
    BY <2>4, <2>6
  <2> HIDE DEF v, a
  <2> QED
    BY <2>3, <2>5, <2>7 DEF Seen
<1>5. Nat \subseteq T
  <2> HIDE DEF T
  <2> QED
    BY <1>3, <1>4, NatSets
<1>6. ASSUME NEW k \in 0 .. m, On(k) PROVE Seen(k)
  <2>1. k \in T
    BY <1>5
  <2>2. k <= m
    OBVIOUS
  <2> HIDE DEF On, Seen
  <2> QED
    BY <1>6, <2>1, <2>2
<1> QED
  BY <1>2, <1>6

IsWay(w, cas, caref) ==
    LET next(i) == IF i > Len(w) THEN NoCa ELSE w[i]
    IN /\ IsInjective(w) /\ caref = next(1)
       /\ \A i \in DOMAIN w : cas[w[i]].held /\ cas[w[i]].caref = next(i + 1)

\* A walk that did not fail is a way.
LEMMA WalkIsWay ==
    ASSUME NEW cas, NEW caref, Store(cas, caref), NEW n \in Nat, n = Cardinality(DOMAIN cas),
           NEW g, IsWalk(g, cas, caref, n + 1), g[n + 1].ok
    PROVE  \E l \in 0 .. n : \E w \in [1 .. l -> DOMAIN cas] : IsWay(w, cas, caref)
<1> DEFINE m == n + 1
           D == DOMAIN cas
           On(k) == \A j \in 0 .. k - 1 : g[j].at # NoCa
<1>1. /\ m \in Nat /\ \A k \in 0 .. m : g[k].ok
      /\ \A k \in 0 .. m : On(k) =>
           /\ Cardinality(g[k].visited) = k
           /\ \A j \in 0 .. k - 1 : g[j].at \in g[k].visited
  <2>1. m \in Nat
    OBVIOUS
  <2> HIDE DEF m
  <2> QED
    BY <2>1, WalkKeeps DEF m
<1>2. \A k \in 0 .. m : g[k] \in Walker(cas)
  BY DEF IsWalk
<1>3. \A k \in 0 .. m : On(k) => k <= n
  <2> SUFFICES ASSUME NEW k \in 0 .. m, On(k) PROVE k <= n
    OBVIOUS
  <2>1. g[k].visited \in SUBSET D /\ Cardinality(g[k].visited) = k
    BY <1>1, <1>2 DEF Walker
  <2>2. Cardinality(g[k].visited) <= Cardinality(D)
    BY <2>1, FS_Subset DEF Store
  <2> QED
    BY <2>1, <2>2
<1> DEFINE E == {k \in 0 .. m : g[k].at = NoCa}
<1>4. E # {}
  <2> SUFFICES ASSUME E = {} PROVE FALSE
    OBVIOUS
  <2>1. m \in 0 .. m /\ \A j \in 0 .. m - 1 : j \in 0 .. m
    OBVIOUS
  <2>2. On(m)
    BY <2>1
  <2>3. ~(m <= n)
    OBVIOUS
  <2> HIDE DEF On, m
  <2> QED
    BY <1>3, <2>1, <2>2, <2>3
<1>5. PICK l \in E : \A k \in E : l <= k
  <2>1. E \subseteq Nat
    OBVIOUS
  <2> HIDE DEF E
  <2> QED
    BY <1>4, <2>1, LeastElement
<1>6. l \in 0 .. m /\ On(l) /\ g[l].at = NoCa
  <2>1. \A j \in 0 .. l - 1 : j \in 0 .. m /\ ~(l <= j)
    OBVIOUS
  <2> QED
    BY <1>5, <2>1
<1>7. l \in 0 .. n
  BY <1>3, <1>6
<1> DEFINE w == [i \in 1 .. l |-> g[i - 1].at]
<1>8. \A i \in 1 .. l : i - 1 \in 0 .. l - 1 /\ i - 1 \in 0 .. m /\ i \in 0 .. m /\ i \in 1 .. m
  BY <1>7
<1>9. ASSUME NEW i \in 1 .. l
      PROVE  /\ w[i] \in D /\ cas[w[i]].held /\ g[i].at = cas[w[i]].caref
             /\ w[i] \notin g[i - 1].visited
  <2>1. /\ g[i - 1] \in Walker(cas) /\ g[i - 1].at # NoCa /\ g[i - 1].ok /\ g[i].ok
        /\ w[i] = g[i - 1].at
    BY <1>1, <1>2, <1>6, <1>8
  <2>2. g[i] = Server!CaRound(cas, g[i - 1])
    BY <1>8 DEF IsWalk
  <2> DEFINE x == g[i - 1]
             r == g[i]
  <2> HIDE DEF w, r, x
  <2>3. x \in Walker(cas) /\ x.at # NoCa /\ x.ok /\ r.ok /\ r = Server!CaRound(cas, x)
    BY <2>1, <2>2 DEF r, x
  <2>4. /\ x.at \in D /\ cas[x.at].held /\ r.at = cas[x.at].caref
        /\ x.at \notin x.visited
    BY <2>3, GoodRound
  <2> QED
    BY <2>1, <2>4 DEF r, x
<1>10. w \in [1 .. l -> D] /\ Len(w) = l
  <2>1. \A i \in 1 .. l : w[i] \in D
    BY <1>9
  <2>2. l \in Nat
    BY <1>7
  <2> QED
    BY <2>1, <2>2
<1>11. ASSUME NEW i \in 1 .. l, NEW j \in 1 .. l, i < j PROVE w[i] # w[j]
  <2>1. On(j - 1)
    BY <1>6, <1>7
  <2>2. i - 1 \in 0 .. (j - 1) - 1
    BY <1>7, <1>11
  <2>3. g[i - 1].at \in g[j - 1].visited
    <3> HIDE DEF On
    <3> QED
      BY <1>1, <1>8, <2>1, <2>2
  <2>4. w[j] \notin g[j - 1].visited
    BY <1>9
  <2> QED
    BY <2>3, <2>4
<1>12. IsInjective(w)
  <2>1. \A i, j \in 1 .. l : i = j \/ i < j \/ j < i
    BY <1>7
  <2> HIDE DEF w
  <2>2. DOMAIN w = 1 .. l
    BY <1>10
  <2>3. \A i, j \in 1 .. l : w[i] = w[j] => i = j
    BY <1>11, <2>1
  <2> QED
    BY <2>2, <2>3 DEF IsInjective
<1> DEFINE next(i) == IF i > Len(w) THEN NoCa ELSE w[i]
<1>13. \A i \in 0 .. l : g[i].at = next(i + 1)
  <2> SUFFICES ASSUME NEW i \in 0 .. l PROVE g[i].at = next(i + 1)
    OBVIOUS
  <2>1. CASE i = l
    BY <1>6, <1>7, <1>10, <2>1
  <2>2. CASE i # l
    <3>1. i + 1 \in 1 .. l /\ (i + 1) - 1 = i /\ ~(i + 1 > l)
      BY <1>7, <2>2
    <3>2. w[i + 1] = g[i].at
      BY <3>1
    <3> HIDE DEF w
    <3> QED
      BY <1>10, <3>1, <3>2
  <2> QED
    BY <2>1, <2>2
<1>14. caref = next(1)
  <2>1. g[0].at = caref
    BY DEF IsWalk, Start
  <2>2. 0 \in 0 .. l /\ 0 + 1 = 1
    BY <1>7
  <2> HIDE DEF next
  <2>3. g[0].at = next(0 + 1)
    BY <1>13, <2>2
  <2> QED
    BY <2>1, <2>2, <2>3
<1>15. \A i \in DOMAIN w : cas[w[i]].held /\ cas[w[i]].caref = next(i + 1)
  <2>1. DOMAIN w = 1 .. l /\ \A i \in 1 .. l : i \in 0 .. l
    BY <1>7, <1>10
  <2> HIDE DEF next, w
  <2> QED
    BY <1>9, <1>13, <2>1
<1>16. IsWay(w, cas, caref)
  <2> HIDE DEF w
  <2> QED
    BY <1>12, <1>14, <1>15 DEF IsWay
<1> QED
  BY <1>7, <1>10, <1>16

\* Where there is a way the walk takes it.
LEMMA WayIsWalked ==
    ASSUME NEW cas, NEW caref, Store(cas, caref), NEW n \in Nat, n = Cardinality(DOMAIN cas),
           NEW g, IsWalk(g, cas, caref, n + 1),
           NEW l \in 0 .. n, NEW w \in [1 .. l -> DOMAIN cas], IsWay(w, cas, caref)
    PROVE  /\ g[n + 1].ok
           /\ g[n + 1].chain = FlattenSeq([i \in DOMAIN w |-> cas[w[i]].blocks])
<1> DEFINE m == n + 1
           D == DOMAIN cas
           C == Seq(Byte)
           next(i) == IF i > Len(w) THEN NoCa ELSE w[i]
           parts == [i \in DOMAIN w |-> cas[w[i]].blocks]
           past(k) == {w[i] : i \in 1 .. k}
<1>1. /\ l \in Nat /\ Len(w) = l /\ DOMAIN w = 1 .. l
      /\ IsInjective(w) /\ caref = next(1)
      /\ \A i \in 1 .. l : /\ w[i] \in D /\ cas[w[i]].held /\ cas[w[i]].caref = next(i + 1)
                           /\ cas[w[i]].blocks \in Seq(C)
  <2>1. l \in Nat /\ DOMAIN w = 1 .. l /\ Len(w) = l
    OBVIOUS
  <2> QED
    BY <2>1 DEF IsWay, Store
<1> HIDE DEF C
<1>2. AreParts(parts, l, C)
  BY <1>1 DEF AreParts
<1> HIDE DEF parts
<1>3. PICK f \in [0 .. l -> Seq(C)] : Flattens(f, parts, l, FlattenSeq(parts))
  BY <1>1, <1>2, Flattened
<1>4. \A k \in 1 .. l : parts[k] = cas[w[k]].blocks
  BY <1>1 DEF parts
<1> DEFINE There(k) == /\ g[k].ok /\ g[k].at = next(k + 1) /\ g[k].visited = past(k)
                       /\ g[k].chain = f[k]
           T == {k \in Nat : k <= l => There(k)}
<1>5. 0 \in T
  <2>1. g[0] = Start(caref) /\ past(0) = {} /\ f[0] = <<>>
    BY <1>3 DEF IsWalk, Flattens
  <2> HIDE DEF past, next
  <2>2. There(0)
    BY <1>1, <2>1 DEF Start
  <2> HIDE DEF There
  <2> QED
    BY <2>2
<1>6. ASSUME NEW k \in Nat, k \in T PROVE k + 1 \in T
  <2> SUFFICES ASSUME k + 1 <= l PROVE There(k + 1)
    OBVIOUS
  <2>1. /\ k + 1 \in 1 .. l /\ (k + 1) - 1 = k /\ k \in 0 .. m /\ k + 1 \in 1 .. m
        /\ ~(k + 1 > l) /\ k \in 0 .. l
    BY <1>1
  <2> DEFINE a == w[k + 1]
  <2>2. next(k + 1) = a
    BY <1>1, <2>1
  <2>3. There(k)
    BY <1>6, <2>1
  <2>4. a \notin past(k)
    <3> SUFFICES ASSUME NEW i \in 1 .. k, w[i] = a PROVE FALSE
      OBVIOUS
    <3>1. i \in 1 .. l /\ i # k + 1
      BY <2>1
    <3> QED
      BY <1>1, <2>1, <3>1 DEF IsInjective
  <2>5. past(k + 1) = past(k) \cup {a}
    <3>1. \A i : i \in 1 .. k + 1 <=> i \in 1 .. k \/ i = k + 1
      OBVIOUS
    <3> QED
      BY <3>1
  <2>6. a \in D /\ cas[a].held /\ cas[a].caref = next((k + 1) + 1) /\ parts[k + 1] = cas[a].blocks
    BY <1>1, <1>4, <2>1
  <2> HIDE DEF next, past
  <2>7. g[k].ok /\ g[k].at = a /\ g[k].visited = past(k) /\ g[k].chain = f[k] /\ a # NoCa
    BY <2>2, <2>3, <2>6 DEF Store
  <2>8. g[k] \in Walker(cas) /\ g[k + 1] = Server!CaRound(cas, g[k])
    BY <2>1 DEF IsWalk
  <2>9. /\ g[k + 1].ok /\ g[k + 1].at = cas[a].caref
        /\ g[k + 1].visited = past(k) \cup {a} /\ g[k + 1].chain = f[k] \o cas[a].blocks
    <3> DEFINE x == g[k]
               r == g[k + 1]
    <3>1. /\ x \in Walker(cas) /\ r = Server!CaRound(cas, x)
          /\ x.at # NoCa /\ x.ok /\ x.at \notin x.visited /\ cas[x.at].held
      BY <2>4, <2>6, <2>7, <2>8
    <3> HIDE DEF a, x, r
    <3>2. /\ r.ok /\ r.at = cas[x.at].caref /\ r.visited = x.visited \cup {x.at}
          /\ r.chain = x.chain \o cas[x.at].blocks
      BY <3>1, GoodRound, ZenonT(60)
    <3> QED
      BY <2>7, <3>2 DEF x, r
  <2>10. f[k + 1] = f[k] \o parts[k + 1]
    BY <1>3, <2>1 DEF Flattens
  <2> QED
    BY <2>5, <2>6, <2>9, <2>10
<1>7. There(l)
  <2>1. l \in T
    <3> HIDE DEF T
    <3> QED
      BY <1>1, <1>5, <1>6, NatSets
  <2> HIDE DEF There
  <2> QED
    BY <1>1, <2>1
<1>8. g[l].ok /\ g[l].at = NoCa /\ g[l].chain = FlattenSeq(parts)
  <2>1. next(l + 1) = NoCa
    BY <1>1
  <2>2. f[l] = FlattenSeq(parts)
    BY <1>3 DEF Flattens
  <2> HIDE DEF next, past
  <2> QED
    BY <1>7, <2>1, <2>2
<1> DEFINE R == {j \in Nat : l + j <= m => g[l + j] = g[l]}
<1>9. 0 \in R
  BY <1>1
<1>10. ASSUME NEW j \in Nat, j \in R PROVE j + 1 \in R
  <2> SUFFICES ASSUME l + (j + 1) <= m PROVE g[l + (j + 1)] = g[l]
    OBVIOUS
  <2>1. l + (j + 1) \in 1 .. m /\ (l + (j + 1)) - 1 = l + j /\ l + j \in 0 .. m
    BY <1>1
  <2>2. g[l + j] = g[l]
    BY <1>10, <2>1
  <2>3. g[l + j] \in Walker(cas) /\ g[l + (j + 1)] = Server!CaRound(cas, g[l + j])
    BY <2>1 DEF IsWalk
  <2> QED
    BY <1>8, <2>2, <2>3, RoundShape
<1>11. g[m] = g[l]
  <2>1. m - l \in Nat /\ l + (m - l) = m /\ m <= m
    BY <1>1
  <2>2. m - l \in R
    <3> HIDE DEF R
    <3> QED
      BY <1>9, <1>10, <2>1, NatSets
  <2> QED
    BY <2>1, <2>2
<1> QED
  BY <1>8, <1>11 DEF parts

\* The walk gives the certificates of the way, and fails if there is none.
LEMMA CaBlocksOfWay ==
    ASSUME srv \in Servers, srv.cert.ref
    PROVE  LET c == srv.cert
               above == Server!CaBlocks(c.cas, c.caref)
           IN /\ above # <<>> <=> Ways(c) # {}
              /\ \A w \in Ways(c) :
                   above = <<FlattenSeq([i \in DOMAIN w |-> c.cas[w[i]].blocks])>>
              /\ above # <<>> => above[1] \in Seq(Seq(Byte))
<1> DEFINE cas == srv.cert.cas
           caref == srv.cert.caref
           above == Server!CaBlocks(cas, caref)
           n == Cardinality(DOMAIN cas)
<1>1. Store(cas, caref)
  BY StoresAssumption DEF Store
<1> HIDE DEF cas, caref
<1>2. n \in Nat
  BY <1>1, WalkFound
<1>3. PICK g : /\ IsWalk(g, cas, caref, n + 1)
               /\ above = IF g[n + 1].ok THEN <<g[n + 1].chain>> ELSE <<>>
  BY <1>1, WalkFound
<1>4. \A w : w \in Ways(srv.cert) <=>
              (\E l \in 0 .. n : w \in [1 .. l -> DOMAIN cas]) /\ IsWay(w, cas, caref)
  BY DEF Ways, IsWay, cas, caref
<1> HIDE DEF n, above
<1>5. n = Cardinality(DOMAIN cas)
  BY DEF n
<1>6. g[n + 1].ok => Ways(srv.cert) # {}
  <2> SUFFICES ASSUME g[n + 1].ok PROVE Ways(srv.cert) # {}
    OBVIOUS
  <2>1. PICK l \in 0 .. n : \E w \in [1 .. l -> DOMAIN cas] : IsWay(w, cas, caref)
    BY <1>1, <1>2, <1>3, <1>5, WalkIsWay
  <2> QED
    BY <1>4, <2>1
<1>7. ASSUME NEW w \in Ways(srv.cert)
      PROVE  /\ g[n + 1].ok
             /\ g[n + 1].chain = FlattenSeq([i \in DOMAIN w |-> cas[w[i]].blocks])
  <2>1. PICK l \in 0 .. n : w \in [1 .. l -> DOMAIN cas]
    BY <1>4
  <2>2. IsWay(w, cas, caref)
    BY <1>4
  <2> QED
    BY <1>1, <1>2, <1>3, <1>5, <2>1, <2>2, WayIsWalked
<1>8. g[n + 1] \in Walker(cas)
  BY <1>2, <1>3 DEF IsWalk
<1>9. g[n + 1].chain \in Seq(Seq(Byte))
  BY <1>8 DEF Walker
<1>10. /\ above # <<>> <=> g[n + 1].ok
       /\ above # <<>> => above = <<g[n + 1].chain>> /\ above[1] = g[n + 1].chain
  BY <1>3
<1> QED
  BY <1>6, <1>7, <1>9, <1>10 DEF above, cas, caref

\* What a whole link has brought along so far.
Brought ==
    ask.user # <<>> =>
      \/ certs = <<>> /\ (stage = "split" => off = 0)
      \/ /\ Embeds(srv.cert) /\ certs = <<srv.cert.blocks[1]>>
         /\ stage \in {"split", "done"}
         /\ stage = "split" => off = Len(srv.cert.blocks[1])

LEMMA SplitBrought == SInv /\ WInv /\ Brought /\ Split => Brought'
<1> SUFFICES ASSUME SInv, WInv, Brought, Split, ask.user # <<>> PROVE Brought'
  BY DEF Brought, Split, written
<1>1. /\ stage = "split" /\ ask' = ask /\ srv' = srv /\ cfg' = cfg
  BY DEF Split, written
<1> DEFINE d == srv.cert.blocks[1]
           n == Len(d)
<1>2. /\ Embeds(srv.cert) /\ cfg[CERTIFICATE] = <<d>> /\ d \in Seq(Byte)
      /\ n \in Nat /\ n > 0 /\ DerEnd(d, 0) = n
  BY <1>1, OneElement
<1>5. (certs = <<>> /\ off = 0) \/ (certs = <<d>> /\ off = n)
  BY <1>1 DEF Brought
<1> HIDE DEF d
<1>6. n \in Nat /\ n > 0 /\ SubSeq(d, 0 + 1, n) = d
  <2>1. n \in Nat /\ n > 0
    BY <1>2
  <2>2. 0 + 1 = 1 /\ SubSeq(d, 1, n) = d
    BY <1>2
  <2> QED
    BY <2>1, <2>2
<1> HIDE DEF n
<1>7. cfg[CERTIFICATE][1] = d /\ Len(d) = n
  BY <1>2 DEF n
<1>8. CASE certs = <<>> /\ off = 0
  <2>1. ~(off >= n) /\ DerEnd(d, off) = n /\ ~(n < 0)
    BY <1>2, <1>6, <1>8
  <2>2. off' = n /\ stage' = stage /\ certs' = Append(certs, SubSeq(d, 0 + 1, n))
    BY <1>7, <1>8, <2>1 DEF Split
  <2>3. certs' = <<d>>
    BY <1>6, <1>8, <2>2
  <2> QED
    BY <1>1, <1>2, <2>2, <2>3 DEF Brought, n, d
<1>9. CASE certs = <<d>> /\ off = n
  <2>1. off >= n
    BY <1>6, <1>9
  <2>2. stage' = "done" /\ certs' = certs
    BY <1>7, <2>1 DEF Split
  <2> QED
    BY <1>1, <1>2, <1>9, <2>2 DEF Brought, d
<1> QED
  BY <1>5, <1>8, <1>9

LEMMA BroughtInductive == Spec => []Brought
<1>1. Init => Brought
  <2>1. Init => certs = <<>> /\ off = 0
    BY DEF Init, Fresh
  <2> QED
    BY <2>1 DEF Brought
<1>2. SInv /\ WInv /\ Brought /\ [Next]_vars => Brought'
  <2> SUFFICES ASSUME SInv, WInv, Brought, [Next]_vars PROVE Brought'
    OBVIOUS
  <2>1. CASE Put \/ Finish \/ NoQr \/ PasteAny \/ Parse
    <3>1. stage \notin {"split", "done"} /\ stage' # "split" /\ ask' = ask /\ certs' = certs
      BY <2>1 DEF Put, Finish, NoQr, PasteAny, Paste, Parse, written
    <3> QED
      BY <3>1 DEF Brought
  <2>2. CASE Apply
    <3>1. stage = "apply" /\ stage' # "split" /\ ask' = ask /\ certs' = certs
      BY <2>2 DEF Apply, written
    <3> QED
      BY <3>1 DEF Brought
  <2>3. CASE Check
    <3>1. stage = "apply" /\ off' = 0 /\ ask' = ask /\ certs' = certs
      BY <2>3 DEF Check, written
    <3> QED
      BY <3>1 DEF Brought
  <2>4. CASE Split
    BY <2>4, SplitBrought
  <2>5. CASE UNCHANGED vars
    BY <2>5 DEF vars, written, Brought
  <2> QED
    BY <2>1, <2>2, <2>3, <2>4, <2>5 DEF Next
<1> QED
  BY <1>1, <1>2, SInvInductive, WInvInductive, PTL DEF Spec

\* Whatever the trust store: the endpoint has a chain exactly when there is a
\* whole one, it is that one, and a link carries its first certificate or none.
THEOREM ChainIsTheWay == Spec => []CertificateMatches
<1>1. SInv /\ Brought => CertificateMatches
  <2> DEFINE c == srv.cert
             chain == Server!Chain(c)
             above == Server!CaBlocks(c.cas, c.caref)
             Flat(w) == FlattenSeq([i \in DOMAIN w |-> c.cas[w[i]].blocks])
  <2> SUFFICES ASSUME SInv, Brought, stage = "done", c.ref
               PROVE  /\ chain # <<>> <=> c.held /\ c.blocks # <<>> /\ Ways(c) # {}
                      /\ \A w \in Ways(c) : chain # <<>> => chain = <<c.blocks \o Flat(w)>>
                      /\ Enrolling /\ chain # <<>> /\ certs # <<>> => certs = <<chain[1][1]>>
    BY DEF CertificateMatches
  <2>1. srv \in Servers
    BY DEF SInv, Typed
  <2>2. /\ above # <<>> <=> Ways(c) # {}
        /\ \A w \in Ways(c) : above = <<Flat(w)>>
        /\ above # <<>> => above[1] \in Seq(Seq(Byte))
    BY <2>1, CaBlocksOfWay
  <2>3. chain = IF ~c.held \/ c.blocks = <<>> \/ above = <<>> THEN <<>>
                ELSE <<c.blocks \o above[1]>>
    BY DEF Server!Chain
  <2>4. c.blocks \in Seq(Seq(Byte))
    BY <2>1, StoresAssumption
  <2>5. Enrolling /\ certs # <<>> => Len(c.blocks) = 1 /\ certs = <<c.blocks[1]>>
    BY DEF Brought, Enrolling, Embeds
  <2> HIDE DEF above, c, chain, Flat
  <2>6. above # <<>> /\ Len(c.blocks) = 1 => (c.blocks \o above[1])[1] = c.blocks[1]
    <3> DEFINE x == above[1]
    <3> SUFFICES ASSUME above # <<>>, Len(c.blocks) = 1 PROVE (c.blocks \o x)[1] = c.blocks[1]
      OBVIOUS
    <3>1. x \in Seq(Seq(Byte)) /\ c.blocks \in Seq(Seq(Byte))
      BY <2>2, <2>4
    <3> HIDE DEF x
    <3> QED
      BY <3>1
  <2>7. chain # <<>> <=> c.held /\ c.blocks # <<>> /\ above # <<>>
    BY <2>3
  <2>8. \A w \in Ways(c) : chain # <<>> => chain = <<c.blocks \o Flat(w)>>
    <3> SUFFICES ASSUME NEW w \in Ways(c), chain # <<>> PROVE chain = <<c.blocks \o Flat(w)>>
      OBVIOUS
    <3>1. above = <<Flat(w)>>
      BY <2>2
    <3>2. above[1] = Flat(w)
      BY <3>1
    <3> QED
      BY <2>3, <3>2
  <2>9. chain # <<>> => chain[1] = c.blocks \o above[1]
    BY <2>3
  <2> QED
    BY <2>2, <2>5, <2>6, <2>7, <2>8, <2>9
<1> QED
  BY <1>1, SInvInductive, BroughtInductive, PTL

----------------------------------------------------------------------------
(* The certificate field is cut, not changed. *)

LEMMA FlatNone == FlattenSeq(<<>>) = <<>>
<1> DEFINE C == {}
           parts == <<>>
<1>1. AreParts(parts, 0, C)
  BY DEF AreParts
<1> HIDE DEF C, parts
<1>2. PICK f \in [0 .. 0 -> Seq(C)] : Flattens(f, parts, 0, FlattenSeq(parts))
  BY <1>1, Flattened
<1> QED
  BY <1>2 DEF Flattens, parts

LEMMA FlatAppend ==
    ASSUME NEW C, NEW s \in Seq(Seq(C)), NEW x \in Seq(C)
    PROVE  FlattenSeq(Append(s, x)) = FlattenSeq(s) \o x
<1> DEFINE n == Len(s)
           t == Append(s, x)
           S == Seq(C)
<1>1. /\ n \in Nat /\ \A k \in 1 .. n : s[k] \in S
      /\ s \in [1 .. n -> S] /\ Len(t) = n + 1 /\ t \in [1 .. n + 1 -> S]
      /\ t[n + 1] = x /\ \A k \in 1 .. n : t[k] = s[k]
  <2>1. n \in Nat /\ DOMAIN s = 1 .. n /\ s \in Seq(S) /\ x \in S
    OBVIOUS
  <2> HIDE DEF S
  <2>2. /\ t \in Seq(S) /\ Len(t) = n + 1 /\ t[n + 1] = x
        /\ \A k \in 1 .. n : t[k] = s[k]
    BY <2>1
  <2> HIDE DEF t, n
  <2>3. t \in [1 .. n + 1 -> S] /\ s \in [1 .. n -> S]
    BY <2>1, <2>2
  <2> QED
    BY <2>1, <2>2, <2>3
<1> HIDE DEF t, S, n
<1>2. AreParts(s, n, C) /\ AreParts(t, n + 1, C)
  BY <1>1 DEF AreParts, n, S
<1>3. PICK f \in [0 .. n -> Seq(C)] : Flattens(f, s, n, FlattenSeq(s))
  BY <1>2, Flattened
<1>4. PICK g \in [0 .. n + 1 -> Seq(C)] : Flattens(g, t, n + 1, FlattenSeq(t))
  BY <1>2, Flattened
<1> DEFINE T == {k \in Nat : k <= n => g[k] = f[k]}
<1>5. 0 \in T
  BY <1>3, <1>4 DEF Flattens
<1>6. ASSUME NEW k \in Nat, k \in T PROVE k + 1 \in T
  <2> SUFFICES ASSUME k + 1 <= n PROVE g[k + 1] = f[k + 1]
    OBVIOUS
  <2>1. k + 1 \in 1 .. n /\ k + 1 \in 1 .. n + 1 /\ (k + 1) - 1 = k /\ g[k] = f[k]
    BY <1>1, <1>6
  <2>2. f[k + 1] = f[k] \o s[k + 1] /\ g[k + 1] = g[k] \o t[k + 1]
    BY <1>3, <1>4, <2>1 DEF Flattens
  <2> QED
    BY <1>1, <2>1, <2>2
<1>7. n \in T
  <2> HIDE DEF T
  <2> QED
    BY <1>1, <1>5, <1>6, NatSets
<1>8. n + 1 \in 1 .. n + 1 /\ (n + 1) - 1 = n /\ g[n] = f[n]
  BY <1>1, <1>7
<1>9. g[n + 1] = g[n] \o t[n + 1]
  BY <1>4, <1>8 DEF Flattens
<1> QED
  BY <1>1, <1>3, <1>4, <1>8, <1>9 DEF Flattens, t

\* The bytes alone make the number.
LEMMA BigEndianSame ==
    ASSUME NEW n \in Nat, NEW d, NEW o \in Nat, NEW s, \A k \in 1 .. n : s[2 + k] = d[o + 2 + k]
    PROVE  BigEndianOf(s, 0, n) = BigEndianOf(d, o, n)
<1> DEFINE P(f) == f = [k \in 0 .. n |->
                          IF k = 0 THEN 0 ELSE f[k - 1] * B + s[0 + 2 + k]]
           R(f) == f = [k \in 0 .. n |->
                          IF k = 0 THEN 0 ELSE f[k - 1] * B + d[o + 2 + k]]
<1>1. \A f : P(f) <=> R(f)
  <2>1. \A k \in 0 .. n : k # 0 => s[0 + 2 + k] = d[o + 2 + k]
    OBVIOUS
  <2> QED
    BY <2>1
<1> HIDE DEF P, R
<1>2. (CHOOSE f : P(f)) = (CHOOSE f : R(f))
  BY <1>1, Zenon
<1> QED
  BY <1>2 DEF P, R, BigEndianOf

\* What the first bytes of an element say of its length.
LEMMA DerEndOfOne ==
    ASSUME NEW s, NEW first \in Nat, NEW n \in Nat, NEW m \in Nat, Len(s) = m, m >= 2,
           s[1] = DerSeq, s[2] = first, first % (2 * Q) = n,
           \/ first < 2 * Q /\ 2 + first = m
           \/ /\ ~(first < 2 * Q) /\ first >= 2 * Q /\ n # 0 /\ 2 + n <= m
              /\ 2 + n + BigEndianOf(s, 0, n)[n] = m
    PROVE  DerEnd(s, 0) = m
<1> DEFINE r == s[0 + 2]
           k == r % (2 * Q)
           big == BigEndianOf(s, 0, k)
           end == IF r < 2 * Q THEN 0 + 2 + r ELSE 0 + 2 + k + big[k]
<1>1. s[0 + 1] = DerSeq /\ r = first /\ k = n
  OBVIOUS
<1>2. DerEnd(s, 0) = IF \/ s[0 + 1] # DerSeq \/ 0 + 2 > Len(s)
                        \/ r >= 2 * Q /\ (k = 0 \/ 0 + 2 + k > Len(s))
                     THEN -1
                     ELSE IF end > Len(s) THEN -1 ELSE end
  BY DEF DerEnd, BigEndianOf
<1>3. Q \in Nat
  BY QAssumption
<1> HIDE DEF r, k
<1>4. big = BigEndianOf(s, 0, n)
  BY <1>1
<1> HIDE DEF big
<1> QED
  BY <1>1, <1>2, <1>3, <1>4

\* An element has the same length where it is cut out.
LEMMA DerElementCut ==
    ASSUME NEW d \in Seq(Byte), NEW o \in Nat, DerEnd(d, o) # -1
    PROVE  DerElement(SubSeq(d, o + 1, DerEnd(d, o)))
<1> DEFINE e == DerEnd(d, o)
           s == SubSeq(d, o + 1, e)
           m == e - o
           first == d[o + 2]
           n == first % (2 * Q)
           big(x, p) == CHOOSE f : f = [k \in 0 .. n |->
                           IF k = 0 THEN 0 ELSE f[k - 1] * B + x[p + 2 + k]]
           end(x, p) == IF first < 2 * Q THEN p + 2 + first ELSE p + 2 + n + big(x, p)[n]
<1>1. e \in o + 1 .. Len(d) /\ Len(d) \in Nat /\ m \in Nat \ {0} /\ e = o + m
  BY DerEndsInside
<1>2. /\ s \in Seq(Byte) /\ Len(s) = m
      /\ \A i \in 1 .. m : s[i] = d[o + i]
  <2>1. \A i \in o + 1 .. e : d[i] \in Byte
    <3> HIDE DEF e
    <3> QED
      BY <1>1, ElementOfSeq
  <2>2. o + 1 \in Int /\ e \in Int /\ o + 1 <= e
    BY <1>1
  <2> HIDE DEF e
  <2>3. /\ s \in Seq(Byte) /\ Len(s) = e - (o + 1) + 1
        /\ \A i \in 1 .. e - (o + 1) + 1 : s[i] = d[o + 1 + i - 1]
    BY <2>1, <2>2, SubSeqProperties
  <2>4. e - (o + 1) + 1 = m /\ \A i \in 1 .. m : o + 1 + i - 1 = o + i
    BY <1>1
  <2> QED
    BY <2>3, <2>4
<1>3. /\ d[o + 1] = DerSeq /\ ~(o + 2 > Len(d))
      /\ ~(first >= 2 * Q /\ (n = 0 \/ o + 2 + n > Len(d)))
      /\ ~(end(d, o) > Len(d)) /\ e = end(d, o)
  BY DEF DerEnd
<1> HIDE DEF e, s
<1>4. first \in Nat /\ n \in Nat
  <2>0. ~(o + 2 > Len(d))
    BY <1>3
  <2>1. o + 2 \in 1 .. Len(d)
    BY <1>1, <2>0
  <2>2. first \in Byte
    BY <2>1, ElementOfSeq
  <2> QED
    BY <2>2, BNat, QAssumption DEF Byte
<1>5. o + 2 <= e => s[1] = DerSeq /\ s[2] = first /\ m >= 2
  <2>1. o + 2 <= e => m >= 2 /\ 1 \in 1 .. m /\ 2 \in 1 .. m
    BY <1>1
  <2> QED
    BY <1>2, <1>3, <2>1
<1> HIDE DEF first, n
<1> DEFINE longer == first >= 2 * Q
<1>6. longer \/ first < 2 * Q
  BY <1>4, QAssumption
<1>7. CASE first < 2 * Q
  <2>1. e = o + 2 + first /\ ~longer
    BY <1>3, <1>4, <1>7, QAssumption
  <2>2. o + 2 <= e /\ 0 + 2 + first = m /\ m >= 2
    BY <1>1, <1>4, <2>1
  <2>3. m \in Nat /\ first % (2 * Q) = n
    BY <1>1 DEF n
  <2>4. 2 + first = m /\ Len(s) = m
    BY <1>2, <1>4, <2>2
  <2>5. DerEnd(s, 0) = m
    BY <1>4, <1>5, <1>7, <2>2, <2>3, <2>4, DerEndOfOne
  <2> QED
    BY <1>1, <1>2, <2>5 DEF DerElement, s, e
<1>8. CASE longer
  <2> DEFINE b == BigEndianOf(d, o, n)[n]
  <2>1. n \in Nat \ {0} /\ o + 2 + n <= Len(d) /\ ~(first < 2 * Q)
    BY <1>1, <1>3, <1>4, <1>8, QAssumption
  <2>2. b \in Nat
    <3>1. \A k \in 1 .. n : o + 2 + k \in 1 .. Len(d)
      BY <1>1, <2>1
    <3>2. \A k \in 1 .. n : d[o + 2 + k] \in Nat
      BY <3>1, ElementOfSeq, BNat DEF Byte
    <3> QED
      BY <1>4, <3>2, BigEndianNat
  <2>3. e = o + 2 + n + b
    BY <1>3, <2>1 DEF BigEndianOf
  <2> HIDE DEF b
  <2>4. o + 2 <= e /\ 0 + 2 + n + b = m /\ m >= 2 /\ 2 + n <= m
    BY <1>1, <1>4, <2>2, <2>3
  <2>5. BigEndianOf(s, 0, n)[n] = b
    <3>1. \A k \in 1 .. n : 2 + k \in 1 .. m /\ o + (2 + k) = o + 2 + k
      BY <1>1, <1>4, <2>4
    <3>2. \A k \in 1 .. n : s[2 + k] = d[o + 2 + k]
      BY <1>2, <3>1
    <3> QED
      BY <1>4, <3>2, BigEndianSame DEF b
  <2>6. first % (2 * Q) = n
    BY DEF n
  <2>8. /\ m \in Nat /\ Len(s) = m /\ s[1] = DerSeq /\ s[2] = first /\ m >= 2
        /\ n # 0 /\ 2 + n <= m /\ 2 + n + BigEndianOf(s, 0, n)[n] = m
    <3>1. 0 + 2 + n + b = m /\ 2 + n + b = m
      BY <1>4, <2>2, <2>4
    <3> QED
      BY <1>1, <1>2, <1>5, <2>1, <2>4, <2>5, <3>1
  <2>7. DerEnd(s, 0) = m
    BY <1>4, <1>8, <2>1, <2>6, <2>8, DerEndOfOne
  <2> QED
    BY <1>1, <1>2, <2>7 DEF DerElement, s, e
<1> QED
  BY <1>6, <1>7, <1>8

\* What the splitting loop has cut off so far.
CutSoFar ==
    /\ stage \notin {"split", "done", "refused"} => certs = <<>>
    /\ stage \in {"split", "done"} =>
         IF cfg[CERTIFICATE] = <<>> THEN certs = <<>>
         ELSE LET der == cfg[CERTIFICATE][1]
              IN /\ off <= Len(der) /\ (stage = "done" => off = Len(der))
                 /\ FlattenSeq(certs) = SubSeq(der, 1, off)
                 /\ \A i \in 1 .. Len(certs) : DerElement(certs[i])

\* The cut parts side by side.
LEMMA SideBySide ==
    ASSUME NEW C, NEW d \in Seq(C), NEW m \in Nat, NEW n \in Nat, m <= n, n <= Len(d)
    PROVE  SubSeq(d, 1, m) \o SubSeq(d, m + 1, n) = SubSeq(d, 1, n)
OBVIOUS

LEMMA InitCut == SInv /\ Init => CutSoFar
<1> SUFFICES ASSUME Init PROVE CutSoFar
  OBVIOUS
<1>1. certs = <<>> /\ stage \in {"no link", "write", "sent"}
  BY DEF Init, Fresh
<1> QED
  BY <1>1, Zenon DEF CutSoFar

LEMMA CheckCut == SInv /\ CutSoFar /\ Check => CutSoFar'
<1> SUFFICES ASSUME SInv, CutSoFar, Check PROVE CutSoFar'
  OBVIOUS
<1>1. /\ stage = "apply" /\ certs' = certs /\ cfg' = cfg /\ off' = 0
      /\ stage' \in {"refused", "done", "split"}
      /\ cfg[CERTIFICATE] # <<>> => stage' # "done"
  BY DEF Check
<1>2. certs' = <<>>
  BY <1>1 DEF CutSoFar
<1>3. cfg[CERTIFICATE] # <<>> =>
        0 <= Len(cfg[CERTIFICATE][1]) /\ SubSeq(cfg[CERTIFICATE][1], 1, 0) = <<>>
  <2> SUFFICES ASSUME cfg[CERTIFICATE] # <<>>
               PROVE  0 <= Len(cfg[CERTIFICATE][1]) /\ SubSeq(cfg[CERTIFICATE][1], 1, 0) = <<>>
    OBVIOUS
  <2>1. PICK v \in Seq(Byte) : cfg[CERTIFICATE] = <<v>>
    BY DEF SInv, Typed
  <2>2. cfg[CERTIFICATE][1] = v
    BY <2>1
  <2> QED
    BY <2>2
<1>4. CASE cfg[CERTIFICATE] = <<>>
  BY <1>1, <1>2, <1>4, Zenon DEF CutSoFar
<1>5. CASE cfg[CERTIFICATE] # <<>> /\ stage' = "split"
  <2>1. Len(certs') = 0
    BY <1>2
  <2>2. /\ off' <= Len(cfg[CERTIFICATE][1])
        /\ FlattenSeq(certs') = SubSeq(cfg[CERTIFICATE][1], 1, off')
        /\ \A i \in 1 .. Len(certs') : DerElement(certs'[i])
    <3>1. 1 .. Len(certs') = {}
      BY <2>1
    <3>2. FlattenSeq(certs') = <<>>
      BY <1>2, FlatNone
    <3>3. off' = 0
      BY <1>1
    <3> QED
      BY <1>3, <1>5, <3>1, <3>2, <3>3, Zenon
  <2>3. cfg'[CERTIFICATE] # <<>> /\ cfg'[CERTIFICATE][1] = cfg[CERTIFICATE][1]
    BY <1>1, <1>5
  <2> QED
    BY <1>5, <2>2, <2>3 DEF CutSoFar
<1> QED
  BY <1>1, <1>4, <1>5, Zenon DEF CutSoFar

LEMMA SplitCut == SInv /\ CutSoFar /\ Split => CutSoFar'
<1> SUFFICES ASSUME SInv, CutSoFar, Split PROVE CutSoFar'
  OBVIOUS
<1> DEFINE d == cfg[CERTIFICATE][1]
           end == DerEnd(d, off)
<1>1. stage = "split" /\ cfg' = cfg
  BY DEF Split
<1>2. cfg[CERTIFICATE] # <<>>
  BY <1>1 DEF SInv, Checked
<1>3. /\ off <= Len(d) /\ FlattenSeq(certs) = SubSeq(d, 1, off)
      /\ \A i \in 1 .. Len(certs) : DerElement(certs[i])
  BY <1>1, <1>2 DEF CutSoFar
<1>4. /\ d \in Seq(Byte) /\ off \in Nat /\ Len(d) \in Nat /\ certs \in Seq(Seq(Byte))
  BY SplitStep DEF SInv, Typed
<1>5. \/ off' = off /\ certs' = certs /\ stage' = "done" /\ off = Len(d)
      \/ stage' = "refused"
      \/ /\ off' = end /\ end \in off + 1 .. Len(d) /\ stage' = stage
         /\ certs' = Append(certs, SubSeq(d, off + 1, end))
  <2>1. CASE off >= Len(d)
    <3>1. off = Len(d)
      BY <1>3, <1>4, <2>1
    <3>2. stage' = "done" /\ off' = off /\ certs' = certs
      BY <2>1 DEF Split
    <3> QED
      BY <3>1, <3>2
  <2>2. CASE ~(off >= Len(d))
    <3>1. stage' # "done"
      BY <1>1, <2>2 DEF Split
    <3> QED
      BY <3>1, SplitStep
  <2> QED
    BY <2>1, <2>2
<1>6. CASE off' = off /\ certs' = certs /\ stage' = "done" /\ off = Len(d)
  <2>1. d' = d
    BY <1>1
  <2> HIDE DEF d
  <2> QED
    BY <1>1, <1>2, <1>3, <1>6, <2>1 DEF CutSoFar, d
<1>7. CASE stage' = "refused"
  BY <1>7 DEF CutSoFar
<1>8. CASE /\ off' = end /\ end \in off + 1 .. Len(d) /\ stage' = stage
           /\ certs' = Append(certs, SubSeq(d, off + 1, end))
  <2> DEFINE x == SubSeq(d, off + 1, end)
  <2>1. DerElement(x) /\ end # -1
    <3>1. end # -1
      BY <1>4, <1>8
    <3> QED
      BY <1>4, <3>1, DerElementCut
  <2> HIDE DEF d, end
  <2>2. x \in Seq(Byte) /\ end \in Nat /\ off <= end /\ end <= Len(d)
    BY <1>4, <1>8
  <2>3. SubSeq(d, 1, off) \o x = SubSeq(d, 1, end)
    BY <1>4, <2>2, SideBySide
  <2>4. FlattenSeq(certs') = SubSeq(d, 1, end)
    <3> HIDE DEF x
    <3>1. FlattenSeq(Append(certs, x)) = FlattenSeq(certs) \o x
      BY <1>4, <2>2, FlatAppend
    <3> QED
      BY <1>3, <1>8, <2>3, <3>1 DEF x
  <2>5. \A i \in 1 .. Len(certs') : DerElement(certs'[i])
    <3> HIDE DEF x
    <3>1. /\ Len(Append(certs, x)) = Len(certs) + 1
          /\ \A i \in 1 .. Len(certs) + 1 :
               Append(certs, x)[i] = IF i = Len(certs) + 1 THEN x ELSE certs[i]
      BY <1>4, <2>2
    <3>2. certs' = Append(certs, x) /\ Len(certs) \in Nat
      BY <1>4, <1>8 DEF x
    <3>3. \A i \in 1 .. Len(certs) + 1 : i = Len(certs) + 1 \/ i \in 1 .. Len(certs)
      BY <3>2
    <3> QED
      BY <1>3, <2>1, <3>1, <3>2, <3>3
  <2>6. off' = end /\ stage' = "split"
    BY <1>1, <1>8
  <2>7. cfg'[CERTIFICATE] # <<>> /\ cfg'[CERTIFICATE][1] = d
    BY <1>1, <1>2 DEF d
  <2> QED
    BY <2>2, <2>4, <2>5, <2>6, <2>7 DEF CutSoFar
<1> QED
  BY <1>5, <1>6, <1>7, <1>8

LEMMA CutInductive == Spec => []CutSoFar
<1>1. SInv /\ CutSoFar /\ [Next]_vars => CutSoFar'
  <2> SUFFICES ASSUME SInv, CutSoFar, [Next]_vars PROVE CutSoFar'
    OBVIOUS
  <2>1. CASE Put \/ Finish \/ NoQr \/ PasteAny \/ Parse \/ Apply
    <3>1. stage \notin {"split", "done", "refused"} /\ certs' = certs
      BY <2>1 DEF Put, Finish, NoQr, PasteAny, Paste, Parse, Apply
    <3>2. stage' \notin {"split", "done"}
      BY <2>1 DEF Put, Finish, NoQr, PasteAny, Paste, Parse, Apply
    <3> QED
      BY <3>1, <3>2, Zenon DEF CutSoFar
  <2>2. CASE Check
    BY <2>2, CheckCut
  <2>3. CASE Split
    BY <2>3, SplitCut
  <2>4. CASE UNCHANGED vars
    <3>1. stage' = stage /\ certs' = certs /\ cfg' = cfg /\ off' = off
      BY <2>4 DEF vars
    <3> QED
      BY <3>1 DEF CutSoFar
  <2> QED
    BY <2>1, <2>2, <2>3, <2>4 DEF Next
<1> QED
  BY <1>1, InitCut, SInvInductive, PTL DEF Spec

\* Whatever is in the link: the certificates of the row are the certificate
\* field cut between its elements, with nothing lost, added or moved.
THEOREM CertificateKept == Spec => []CertificatesWhole
<1>1. SInv /\ CutSoFar => CertificatesWhole
  <2> SUFFICES ASSUME SInv, CutSoFar, stage = "done"
               PROVE  /\ FlattenSeq(certs) = Or(cfg[CERTIFICATE], <<>>)
                      /\ \A i \in DOMAIN certs : DerElement(certs[i])
    BY DEF CertificatesWhole
  <2>1. DOMAIN certs = 1 .. Len(certs)
    BY DEF SInv, Typed
  <2>2. CASE cfg[CERTIFICATE] = <<>>
    <3>1. certs = <<>>
      BY <2>2 DEF CutSoFar
    <3> QED
      BY <2>1, <2>2, <3>1, FlatNone DEF Or
  <2>3. CASE cfg[CERTIFICATE] # <<>>
    <3>1. PICK d \in Seq(Byte) : cfg[CERTIFICATE] = <<d>>
      BY <2>3 DEF SInv, Typed
    <3>2. cfg[CERTIFICATE][1] = d
      BY <3>1
    <3>3. /\ FlattenSeq(certs) = SubSeq(d, 1, Len(d))
          /\ \A i \in 1 .. Len(certs) : DerElement(certs[i])
      BY <2>3, <3>2 DEF CutSoFar
    <3>4. SubSeq(d, 1, Len(d)) = d
      OBVIOUS
    <3> QED
      BY <2>1, <2>3, <3>2, <3>3, <3>4 DEF Or
  <2> QED
    BY <2>2, <2>3
<1> QED
  BY <1>1, SInvInductive, CutInductive, PTL
=============================================================================
