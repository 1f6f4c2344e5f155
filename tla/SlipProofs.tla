----------------------------- MODULE SlipProofs -----------------------------
(***************************************************************************)
(* Theorems about the serial line: the receiver's buffer never overflows,  *)
(* and the receiver is in step again one frame after a fault, for all      *)
(* datagrams and any number of frames and faults.                          *)
(***************************************************************************)
EXTENDS Slip, SequenceTheorems, WellFoundedInduction, TLAPS

-----------------------------------------------------------------------------
(* Induction over the natural numbers, for sets *)

\* A set of natural numbers that is not empty has a least element.
LEMMA NatMin ==
  ASSUME NEW T \in SUBSET Nat, T # {}
  PROVE  \E m \in T : \A k \in T : m <= k
<1>1. PICK m \in T : \A k \in T : <<k, m>> \notin OpToRel(<, Nat)
  BY NatLessThanWellFounded, WFMin, Zenon
<1>2. \A k \in T : ~ (k < m)
  <2> SUFFICES ASSUME NEW k \in T, k < m PROVE FALSE OBVIOUS
  <2>1. k \in Nat /\ m \in Nat OBVIOUS
  <2>2. <<k, m>> \in OpToRel(<, Nat) BY <2>1 DEF OpToRel
  <2> QED BY <2>2, <1>1
<1> QED BY <1>2

\* A set that holds 0 and the successor of each of its numbers holds them all.
LEMMA SetInduction ==
  ASSUME NEW S, 0 \in S, \A n \in Nat : n \in S => n + 1 \in S
  PROVE  \A n \in Nat : n \in S
<1> SUFFICES ASSUME NEW n \in Nat, n \notin S PROVE FALSE OBVIOUS
<1> DEFINE T == {k \in Nat : k \notin S}
<1>1. PICK m \in T : \A k \in T : m <= k
  <2> T # {} /\ T \in SUBSET Nat OBVIOUS
  <2> HIDE DEF T
  <2> QED BY NatMin
<1>2. m # 0 /\ m \in Nat OBVIOUS
<1>3. m - 1 \in Nat /\ m - 1 \in S BY <1>1, <1>2
<1> QED BY <1>1, <1>2, <1>3

-----------------------------------------------------------------------------
(* What FlattenSeq computes *)

\* f joins the sequences of q one after the other.
Joins(f, q) ==
  f = [i \in 1 .. Len(q) |-> IF i = 1 THEN q[i] ELSE f[i - 1] \o q[i]]

\* Such a function exists.
LEMMA JoinsExists ==
  ASSUME NEW q, Len(q) \in Nat
  PROVE  \E f : Joins(f, q)
<1> DEFINE Step(x, i) == IF i = 1 THEN q[i] ELSE x \o q[i]
           Upto(n, f) == f = [i \in 1 .. n |-> Step(f[i - 1], i)]
           S == {n \in Nat : \E f : Upto(n, f)}
<1>s. \A x, y : Step(x, 1) = Step(y, 1) OBVIOUS
<1>j. ASSUME NEW f, Upto(Len(q), f) PROVE Joins(f, q)
  BY <1>j, Zenon DEF Joins
<1> HIDE DEF Step
<1>1. 0 \in S
  <2> DEFINE f == [i \in 1 .. 0 |-> <<>>]
  <2>1. f = [i \in 1 .. 0 |-> Step(f[i - 1], i)] OBVIOUS
  <2> QED BY <2>1
<1>2. ASSUME NEW n \in Nat, n \in S PROVE n + 1 \in S
  <2>1. PICK f : Upto(n, f) BY <1>2
  <2>2. \A i \in 1 .. n : f[i] = Step(f[i - 1], i)
    <3> DEFINE e == [i \in 1 .. n |-> Step(f[i - 1], i)]
    <3>1. f = e BY <2>1
    <3>2. \A i \in 1 .. n : e[i] = Step(f[i - 1], i) OBVIOUS
    <3> HIDE DEF e
    <3> QED BY <3>1, <3>2
  <2> DEFINE g == [i \in 1 .. n + 1 |-> IF i <= n THEN f[i] ELSE Step(f[i - 1], i)]
             h == [i \in 1 .. n + 1 |-> Step(g[i - 1], i)]
  <2> HIDE DEF Upto
  <2>3. ASSUME NEW i \in 1 .. n + 1 PROVE g[i] = Step(g[i - 1], i)
    <3>1. g[i] = Step(f[i - 1], i)
      <4>1. CASE i <= n
        <5>1. i \in 1 .. n BY <4>1
        <5>2. g[i] = f[i] BY <4>1
        <5> QED BY <5>1, <5>2, <2>2
      <4>2. CASE i > n BY <4>2
      <4> QED BY <4>1, <4>2
    <3>2. CASE i = 1 BY <3>1, <3>2, <1>s
    <3>3. CASE i # 1
      <4>1. i - 1 \in 1 .. n + 1 /\ i - 1 <= n BY <3>3
      <4>2. g[i - 1] = f[i - 1] BY <4>1
      <4> QED BY <3>1, <4>2
    <3> QED BY <3>2, <3>3
  <2>4. g = h
    <3>1. \A i \in 1 .. n + 1 : h[i] = Step(g[i - 1], i)
      <4> HIDE DEF g
      <4> QED OBVIOUS
    <3>2. DOMAIN g = 1 .. n + 1 /\ g = [i \in DOMAIN g |-> g[i]] OBVIOUS
    <3>3. DOMAIN h = 1 .. n + 1 /\ h = [i \in DOMAIN h |-> h[i]] OBVIOUS
    <3> HIDE DEF g, h
    <3>4. \A i \in 1 .. n + 1 : g[i] = h[i] BY <2>3, <3>1
    <3> QED BY <3>2, <3>3, <3>4
  <2>5. Upto(n + 1, g)
    <3> HIDE DEF g
    <3> QED BY <2>4 DEF Upto
  <2> QED BY <2>5
<1>3. \A n \in Nat : n \in S
  <2> HIDE DEF S
  <2> QED BY <1>1, <1>2, SetInduction
<1>4. PICK f : Upto(Len(q), f) BY <1>3
<1> QED BY <1>4, <1>j

\* Each sequence stands in the result where the ones before it end.
Joined(f, q) ==
  /\ \A i \in 1 .. Len(q) : f[i] \in Seq(Byte)
  /\ Len(q) >= 1 => f[1] = q[1]
  /\ \A i \in 1 .. Len(q) : i # 1 => f[i] = f[i - 1] \o q[i]
  /\ \A i, j \in 1 .. Len(q) : i <= j =>
       /\ Len(f[i]) <= Len(f[j])
       /\ \A x \in 1 .. Len(f[i]) : f[j][x] = f[i][x]

\* So do the sequences that Joins joins.
LEMMA JoinsPlaces ==
  ASSUME NEW q \in Seq(Seq(Byte)), NEW f, Joins(f, q)
  PROVE  Joined(f, q)
<1>n. Len(q) \in Nat BY LenProperties
<1>q. \A i \in 1 .. Len(q) : q[i] \in Seq(Byte) BY ElementOfSeq
<1>e. \A i \in 1 .. Len(q) : f[i] = IF i = 1 THEN q[i] ELSE f[i - 1] \o q[i]
  <2> DEFINE e == [i \in 1 .. Len(q) |-> IF i = 1 THEN q[i] ELSE f[i - 1] \o q[i]]
  <2>1. f = e BY Zenon DEF Joins
  <2>2. \A i \in 1 .. Len(q) : e[i] = IF i = 1 THEN q[i] ELSE f[i - 1] \o q[i]
    BY Zenon
  <2> HIDE DEF e
  <2> QED BY <2>1, <2>2, Zenon
<1>2. \A i \in 1 .. Len(q) : i # 1 => f[i] = f[i - 1] \o q[i] BY <1>e, Zenon
<1>3. Len(q) >= 1 => f[1] = q[1]
  <2>1. Len(q) >= 1 => 1 \in 1 .. Len(q) BY <1>n
  <2> QED BY <2>1, <1>e, Zenon
<1>5. \A n \in Nat : n + 1 \in 1 .. Len(q) /\ n # 0 => f[n + 1] = f[n] \o q[n + 1]
  <2> SUFFICES ASSUME NEW n \in Nat, n + 1 \in 1 .. Len(q), n # 0
               PROVE  f[n + 1] = f[n] \o q[n + 1]
    OBVIOUS
  <2> DEFINE m == n + 1
  <2>1. m \in 1 .. Len(q) /\ m # 1 /\ m - 1 = n OBVIOUS
  <2> HIDE DEF m
  <2>2. f[m] = f[n] \o q[m] BY <2>1, <1>2, Zenon
  <2> QED BY <2>2, Zenon DEF m
<1>1. \A i \in 1 .. Len(q) : f[i] \in Seq(Byte)
  <2> DEFINE S == {n \in Nat : n \in 1 .. Len(q) => f[n] \in Seq(Byte)}
  <2>1. 0 \in S OBVIOUS
  <2>2. ASSUME NEW n \in Nat, n \in S PROVE n + 1 \in S
    <3> SUFFICES ASSUME n + 1 \in 1 .. Len(q) PROVE f[n + 1] \in Seq(Byte) OBVIOUS
    <3>1. CASE n = 0 BY <3>1, <1>3, <1>q
    <3>2. CASE n # 0
      <4>1. n \in 1 .. Len(q) BY <3>2, <1>n
      <4>2. f[n] \in Seq(Byte) BY <4>1, <2>2
      <4>3. f[n + 1] = f[n] \o q[n + 1] BY <3>2, <1>5, Zenon
      <4>4. q[n + 1] \in Seq(Byte) BY <1>q, Zenon
      <4> QED BY <4>2, <4>3, <4>4, ConcatProperties, Zenon
    <3> QED BY <3>1, <3>2
  <2>3. \A n \in Nat : n \in S
    <3> HIDE DEF S
    <3> QED BY <2>1, <2>2, SetInduction
  <2> QED BY <2>3
<1>4. ASSUME NEW i \in 1 .. Len(q)
      PROVE  \A j \in 1 .. Len(q) : i <= j =>
               /\ Len(f[i]) <= Len(f[j])
               /\ \A x \in 1 .. Len(f[i]) : f[j][x] = f[i][x]
  <2> DEFINE Same(j) == /\ Len(f[i]) <= Len(f[j])
                        /\ \A x \in 1 .. Len(f[i]) : f[j][x] = f[i][x]
             S == {n \in Nat : n \in i .. Len(q) => Same(n)}
  <2>1. 0 \in S BY <1>n
  <2>2. ASSUME NEW n \in Nat, n \in S PROVE n + 1 \in S
    <3> SUFFICES ASSUME n + 1 \in i .. Len(q) PROVE Same(n + 1) OBVIOUS
    <3>1. CASE n + 1 = i
      <4>1. Len(f[i]) \in Nat BY <1>1, LenProperties
      <4> QED BY <3>1, <4>1
    <3>2. CASE n >= i
      <4>1. n \in i .. Len(q) /\ n \in 1 .. Len(q) /\ n + 1 \in 1 .. Len(q) /\ n # 0
        BY <3>2, <1>n
      <4>2. Same(n) BY <4>1, <2>2
      <4>3. f[n + 1] = f[n] \o q[n + 1] BY <4>1, <1>5, Zenon
      <4>4. f[n] \in Seq(Byte) /\ q[n + 1] \in Seq(Byte) BY <4>1, <1>1, <1>q, Zenon
      <4> DEFINE a == f[i]
                 b == f[n]
                 c == f[n + 1]
                 l == q[n + 1]
      <4>5. /\ c = b \o l /\ a \in Seq(Byte) /\ b \in Seq(Byte) /\ l \in Seq(Byte)
            /\ Len(a) <= Len(b) /\ \A x \in 1 .. Len(a) : b[x] = a[x]
        BY <4>2, <4>3, <4>4, <1>1, Zenon
      <4> HIDE DEF a, b, c, l
      <4>6. /\ Len(c) = Len(b) + Len(l)
            /\ \A x \in 1 .. Len(b) + Len(l) : c[x] = IF x <= Len(b) THEN b[x] ELSE l[x - Len(b)]
        BY <4>5, ConcatProperties
      <4>7. Len(a) \in Nat /\ Len(b) \in Nat /\ Len(l) \in Nat BY <4>5, LenProperties
      <4>8. Len(a) <= Len(c) /\ \A x \in 1 .. Len(a) : c[x] = a[x]
        <5>1. Len(a) <= Len(c) BY <4>5, <4>6, <4>7
        <5>2. ASSUME NEW x \in 1 .. Len(a) PROVE c[x] = a[x]
          <6>1. x \in 1 .. Len(b) + Len(l) /\ x <= Len(b) BY <4>5, <4>7
          <6>2. c[x] = b[x] BY <6>1, <4>6
          <6>3. b[x] = a[x] BY <4>5
          <6> QED BY <6>2, <6>3
        <5> QED BY <5>1, <5>2
      <4> QED BY <4>8 DEF a, c
    <3> QED BY <3>1, <3>2
  <2>3. \A n \in Nat : n \in S
    <3> HIDE DEF S
    <3> QED BY <2>1, <2>2, SetInduction
  <2> QED BY <2>3
<1> QED BY <1>1, <1>2, <1>3, <1>4, Zenon DEF Joined

-----------------------------------------------------------------------------
(* A frame, byte by byte *)

\* In e, the codes of the bytes of s stand one after the other; pos[i] bytes of
\* e come before the code of s[i + 1].
Places(s, pos, e) ==
  /\ pos \in [0 .. Len(s) -> Nat] /\ pos[Len(s)] <= Len(e)
  /\ \A i \in 1 .. Len(s) :
       /\ pos[i] = pos[i - 1] + Len(Escaped(s[i])) /\ pos[i] <= Len(e)
       /\ \A x \in 1 .. Len(Escaped(s[i])) : e[pos[i - 1] + x] = Escaped(s[i])[x]

\* The code of a byte is one byte or two.
LEMMA EscapedType ==
  ASSUME NEW b \in Byte
  PROVE  /\ Escaped(b) \in Seq(Byte) /\ Len(Escaped(b)) \in {1, 2}
         /\ b \in {END, ESC} <=> Len(Escaped(b)) = 2
         /\ b \in {END, ESC} => Escaped(b)[1] = ESC
         /\ b = END => Escaped(b)[2] = ESC_END
         /\ b = ESC => Escaped(b)[2] = ESC_ESC
         /\ b \notin {END, ESC} => Escaped(b)[1] = b
<1>1. CASE b = END
  <2>1. Escaped(b) = <<ESC, ESC_END>> BY <1>1 DEF Escaped, END, ESC
  <2>2. /\ <<ESC, ESC_END>> \in Seq(Byte) /\ Len(<<ESC, ESC_END>>) = 2
        /\ <<ESC, ESC_END>>[1] = ESC /\ <<ESC, ESC_END>>[2] = ESC_END
    BY DEF ESC, ESC_END, Byte
  <2>3. END # ESC BY DEF END, ESC
  <2> QED BY <1>1, <2>1, <2>2, <2>3, Zenon
<1>2. CASE b = ESC
  <2>1. Escaped(b) = <<ESC, ESC_ESC>> BY <1>2 DEF Escaped, END, ESC
  <2>2. /\ <<ESC, ESC_ESC>> \in Seq(Byte) /\ Len(<<ESC, ESC_ESC>>) = 2
        /\ <<ESC, ESC_ESC>>[1] = ESC /\ <<ESC, ESC_ESC>>[2] = ESC_ESC
    BY DEF ESC, ESC_ESC, Byte
  <2>3. END # ESC BY DEF END, ESC
  <2> QED BY <1>2, <2>1, <2>2, <2>3, Zenon
<1>3. CASE b \notin {END, ESC}
  <2>1. Escaped(b) = <<b>> BY <1>3 DEF Escaped
  <2> QED BY <1>3, <2>1
<1> QED BY <1>1, <1>2, <1>3

\* encode_slip_block codes every byte in its place.
LEMMA BlockPlaces ==
  ASSUME NEW s \in Seq(Byte)
  PROVE  /\ encode_slip_block(s) \in Seq(Byte)
         /\ \E pos : /\ Places(s, pos, encode_slip_block(s)) /\ pos[0] = 0
                     /\ pos[Len(s)] = Len(encode_slip_block(s))
<1> DEFINE q == [i \in 1 .. Len(s) |-> Escaped(s[i])]
           e == encode_slip_block(s)
<1>n. Len(s) \in Nat BY LenProperties
<1>s. \A i \in 1 .. Len(s) : s[i] \in Byte BY ElementOfSeq
<1>q. q \in Seq(Seq(Byte)) /\ Len(q) = Len(s) BY <1>n, <1>s, EscapedType
<1>1. CASE Len(s) = 0
  <2>1. e = q
    <3>1. Len(q) = 0 BY <1>1, <1>q
    <3> HIDE DEF q
    <3> QED BY <3>1 DEF encode_slip_block, FlattenSeq, q
  <2>2. e \in Seq(Byte) /\ Len(e) = 0 BY <1>1, <2>1, <1>q
  <2> DEFINE pos == [i \in 0 .. 0 |-> 0]
  <2> HIDE DEF e, q
  <2>3. Places(s, pos, e) /\ pos[0] = 0 /\ pos[Len(s)] = Len(e)
    BY <1>1, <2>2 DEF Places
  <2> QED BY <2>2, <2>3 DEF e
<1>2. CASE Len(s) # 0
  <2>1. PICK f : Joins(f, q) /\ e = f[Len(q)]
    <3> DEFINE g == CHOOSE f : Joins(f, q)
    <3>1. Joins(g, q)
      <4> HIDE DEF q
      <4>1. Len(q) \in Nat BY <1>n, <1>q
      <4> QED BY <4>1, JoinsExists
    <3>2. Len(q) # 0 BY <1>2, <1>q
    <3>3. e = g[Len(q)]
      <4>1. e = FlattenSeq(q) BY DEF encode_slip_block
      <4> HIDE DEF q, e
      <4> QED BY <3>2, <4>1 DEF FlattenSeq, Joins
    <3> QED BY <3>1, <3>3
  <2>2. /\ \A i \in 1 .. Len(q) : f[i] \in Seq(Byte)
        /\ f[1] = q[1]
        /\ \A i \in 1 .. Len(q) : i # 1 => f[i] = f[i - 1] \o q[i]
        /\ \A i, j \in 1 .. Len(q) : i <= j =>
             /\ Len(f[i]) <= Len(f[j])
             /\ \A x \in 1 .. Len(f[i]) : f[j][x] = f[i][x]
    <3> HIDE DEF q, e
    <3>1. Len(q) >= 1 BY <1>2, <1>n, <1>q
    <3>2. Joined(f, q) BY <2>1, <1>q, JoinsPlaces
    <3> QED BY <3>1, <3>2, Zenon DEF Joined
  <2> DEFINE pos == [i \in 0 .. Len(s) |-> IF i = 0 THEN 0 ELSE Len(f[i])]
  <2>e. e \in Seq(Byte) /\ Len(s) \in 1 .. Len(q) /\ e = f[Len(s)] BY <1>2, <1>n, <1>q, <2>1, <2>2
  <2>3. \A i \in 1 .. Len(s) : q[i] = Escaped(s[i]) /\ q[i] \in Seq(Byte) BY <1>s, EscapedType
  <2> HIDE DEF q, e
  <2>4. pos \in [0 .. Len(s) -> Nat] BY <2>2, <1>q, LenProperties
  <2>5. pos[0] = 0 /\ pos[Len(s)] = Len(e) BY <1>2, <1>n, <2>e
  <2>6. ASSUME NEW i \in 1 .. Len(s)
        PROVE  /\ pos[i] = pos[i - 1] + Len(q[i]) /\ pos[i] <= Len(e)
               /\ \A x \in 1 .. Len(q[i]) : e[pos[i - 1] + x] = q[i][x]
    <3>1. pos[i] = Len(f[i]) /\ i \in 1 .. Len(q) BY <1>q
    <3>2. Len(f[i]) <= Len(e) /\ \A x \in 1 .. Len(f[i]) : e[x] = f[i][x]
      <4>1. i <= Len(s) BY <1>n
      <4> QED BY <4>1, <3>1, <2>e, <2>2
    <3>3. pos[i - 1] \in Nat /\ Len(q[i]) \in Nat
      <4>1. i - 1 \in 0 .. Len(s) BY <1>n
      <4> HIDE DEF pos
      <4> QED BY <4>1, <2>4, <2>3, LenProperties
    <3>4. /\ Len(f[i]) = pos[i - 1] + Len(q[i])
          /\ \A x \in 1 .. Len(q[i]) : f[i][pos[i - 1] + x] = q[i][x]
      <4>1. CASE i = 1
        <5>1. pos[i - 1] = 0 /\ f[i] = q[i] BY <4>1, <2>2, <1>n
        <5> HIDE DEF pos
        <5> QED BY <5>1, <3>3
      <4>2. CASE i # 1
        <5> DEFINE a == f[i - 1]
                   b == q[i]
                   c == f[i]
        <5>1. i - 1 \in 1 .. Len(q) /\ pos[i - 1] = Len(a) BY <4>2, <1>q, <1>n
        <5>2. c = a \o b BY <4>2, <3>1, <2>2, Zenon
        <5>3. a \in Seq(Byte) /\ b \in Seq(Byte) BY <5>1, <2>2, <2>3
        <5> HIDE DEF a, b, c, pos
        <5>4. /\ Len(c) = Len(a) + Len(b)
              /\ \A x \in 1 .. Len(a) + Len(b) : c[x] = IF x <= Len(a) THEN a[x] ELSE b[x - Len(a)]
          BY <5>2, <5>3, ConcatProperties
        <5>5. Len(a) \in Nat /\ Len(b) \in Nat BY <5>3, LenProperties
        <5>6. ASSUME NEW x \in 1 .. Len(b) PROVE c[Len(a) + x] = b[x]
          <6>1. Len(a) + x \in 1 .. Len(a) + Len(b) /\ ~(Len(a) + x <= Len(a))
                /\ (Len(a) + x) - Len(a) = x
            BY <5>5
          <6> QED BY <6>1, <5>4
        <5> QED BY <5>1, <5>4, <5>6 DEF b, c
      <4> QED BY <4>1, <4>2
    <3>5. ASSUME NEW x \in 1 .. Len(q[i]) PROVE e[pos[i - 1] + x] = q[i][x]
      <4> HIDE DEF pos
      <4>1. pos[i - 1] + x \in 1 .. Len(f[i]) BY <3>3, <3>4
      <4> QED BY <4>1, <3>2, <3>4
    <3> HIDE DEF pos
    <3> QED BY <3>1, <3>2, <3>4, <3>5
  <2>7. Places(s, pos, e)
    <3> HIDE DEF pos
    <3>1. pos[Len(s)] <= Len(e) BY <2>5, <2>e, LenProperties
    <3> QED BY <2>4, <2>6, <2>3, <3>1 DEF Places
  <2> QED BY <2>5, <2>7, <2>e DEF e
<1> QED BY <1>1, <1>2

\* What is sent between the two ENDs, before it is coded.
Raw(d) == build_headers(d) \o d.data

\* The complement of a folded sum.
Folded(n) == 255 - (IF n = 0 THEN 0 ELSE ((n - 1) % 255) + 1)

\* internet_checksum of an IP header (four bytes in the model).
LEMMA Checksum ==
  ASSUME NEW a \in Nat, NEW b \in Nat, NEW c \in Nat, NEW d \in Nat
  PROVE  internet_checksum(<<a, b, c, d>>) = Folded(a + b + c + d)
<1> DEFINE s == <<a, b, c, d>>
           Sums(f) == f = [k \in 0 .. Len(s) |-> IF k = 0 THEN 0 ELSE f[k - 1] + s[k]]
           g == [k \in 0 .. 4 |-> IF k = 0 THEN 0 ELSE IF k = 1 THEN a
                                  ELSE IF k = 2 THEN a + b
                                  ELSE IF k = 3 THEN a + b + c ELSE a + b + c + d]
           f == CHOOSE f : Sums(f)
<1>s. Len(s) = 4 /\ s[1] = a /\ s[2] = b /\ s[3] = c /\ s[4] = d OBVIOUS
<1>c. internet_checksum(s) = 255 - (IF f[Len(s)] = 0 THEN 0 ELSE ((f[Len(s)] - 1) % 255) + 1)
  BY Zenon DEF internet_checksum
<1> HIDE DEF s
<1>1. Sums(g)
  <2>1. \A k \in 0 .. 4 : g[k] = IF k = 0 THEN 0 ELSE g[k - 1] + s[k]
    <3> TAKE k \in 0 .. 4
    <3>1. k = 0 \/ k = 1 \/ k = 2 \/ k = 3 \/ k = 4 OBVIOUS
    <3> QED BY <3>1, <1>s
  <2> DEFINE h == [k \in 0 .. 4 |-> IF k = 0 THEN 0 ELSE g[k - 1] + s[k]]
  <2>2. g = h
    <3>1. \A k \in 0 .. 4 : h[k] = IF k = 0 THEN 0 ELSE g[k - 1] + s[k] OBVIOUS
    <3>2. DOMAIN g = 0 .. 4 /\ g = [k \in DOMAIN g |-> g[k]] OBVIOUS
    <3>3. DOMAIN h = 0 .. 4 /\ h = [k \in DOMAIN h |-> h[k]] OBVIOUS
    <3> HIDE DEF g, h
    <3>4. \A k \in 0 .. 4 : g[k] = h[k] BY <2>1, <3>1
    <3> QED BY <3>2, <3>3, <3>4
  <2> HIDE DEF g
  <2> QED BY <2>2, <1>s
<1>2. Sums(f)
  <2> HIDE DEF g, Sums
  <2> QED BY <1>1
<1>3. \A k \in 0 .. 4 : f[k] = IF k = 0 THEN 0 ELSE f[k - 1] + s[k]
  <2> DEFINE h == [k \in 0 .. Len(s) |-> IF k = 0 THEN 0 ELSE f[k - 1] + s[k]]
  <2> HIDE DEF f
  <2>1. f = h BY <1>2
  <2>2. \A k \in 0 .. Len(s) : h[k] = IF k = 0 THEN 0 ELSE f[k - 1] + s[k] OBVIOUS
  <2> HIDE DEF h
  <2> QED BY <2>1, <2>2, <1>s
<1> HIDE DEF f
<1>4. f[0] = 0 BY <1>3
<1>5. f[1] = a
  <2>1. f[1] = f[1 - 1] + s[1] BY <1>3
  <2> QED BY <2>1, <1>4, <1>s
<1>6. f[2] = a + b
  <2>1. f[2] = f[2 - 1] + s[2] BY <1>3
  <2> QED BY <2>1, <1>5, <1>s
<1>7. f[3] = a + b + c
  <2>1. f[3] = f[3 - 1] + s[3] BY <1>3
  <2> QED BY <2>1, <1>6, <1>s
<1>8. f[4] = a + b + c + d
  <2>1. f[4] = f[4 - 1] + s[4] BY <1>3
  <2> QED BY <2>1, <1>7, <1>s
<1> QED BY <1>8, <1>c, <1>s DEF Folded, s

\* The checksum is a byte, and the header that holds it sums up to nothing.
LEMMA HeaderChecksum ==
  ASSUME NEW n \in Nat, n > 0
  PROVE  /\ Folded(n) \in Byte
         /\ Folded(n + Folded(n)) = 0
<1>1. PICK q \in Nat, r \in Nat : n - 1 = 255 * q + r /\ r < 255 /\ (n - 1) % 255 = r
  <2> DEFINE r == (n - 1) % 255
             q == (n - 1) \div 255
  <2>1. q \in Nat /\ r \in Nat /\ n - 1 = 255 * q + r /\ r < 255 OBVIOUS
  <2> QED BY <2>1
<1>2. Folded(n) = 254 - r BY <1>1 DEF Folded
<1>3. n + Folded(n) - 1 = 255 * q + 254 BY <1>1, <1>2
<1>4. (n + Folded(n) - 1) % 255 = 254 BY <1>3
<1>5. n + Folded(n) # 0 BY <1>1, <1>2
<1> QED BY <1>1, <1>2, <1>4, <1>5 DEF Folded, Byte

\* The headers are bytes that IsDatagram accepts.
LEMMA Headers ==
  ASSUME NEW d \in Datagrams
  PROVE  /\ d.data \in Seq(Byte) /\ Len(d.data) \in Nat /\ Len(d.data) >= 1
         /\ HdrLen + Len(d.data) <= RxSize /\ RxSize \in Byte
         /\ build_headers(d) \in Seq(Byte) /\ Len(build_headers(d)) = 6
         /\ build_headers(d)[1] = IPv4 /\ build_headers(d)[2] = 6 + Len(d.data)
         /\ build_headers(d)[5] = d.port /\ build_headers(d)[6] = 2 + Len(d.data)
         /\ internet_checksum(<<build_headers(d)[1], build_headers(d)[2],
                                build_headers(d)[3], build_headers(d)[4]>>) = 0
<1> DEFINE n == Len(d.data)
           t == 6 + n
           c == internet_checksum(<<IPv4, t, 0, Address>>)
           h == <<IPv4, t, c, Address, d.port, 2 + n>>
<1>1. d.data \in Seq(Byte) /\ d.data # <<>> /\ d.port \in Byte /\ HdrLen + n <= RxSize
      /\ RxSize \in Byte
  BY SlipAssumption
<1>2. n \in Nat /\ n >= 1 BY <1>1, LenProperties, EmptySeq
<1>3. HdrLen = 6 /\ UdpLen = 2 BY DEF HdrLen, IpLen, UdpLen
<1>4. build_headers(d) = h BY <1>3 DEF build_headers
<1>5. t \in Byte /\ 2 + n \in Byte
  <2> HIDE DEF n
  <2>1. RxSize \in 0 .. 255 /\ 6 + n <= RxSize BY <1>1, <1>3 DEF Byte
  <2> QED BY <1>2, <2>1 DEF Byte
<1>6. c = Folded(261 + t) /\ c \in Byte
  <2>1. c = Folded(69 + t + 0 + 192) BY <1>5, Checksum DEF IPv4, Address, Byte
  <2>2. 69 + t + 0 + 192 = 261 + t /\ 261 + t \in Nat /\ 261 + t > 0 BY <1>5 DEF Byte
  <2> HIDE DEF c, t
  <2> QED BY <2>1, <2>2, HeaderChecksum
<1> HIDE DEF c, t, n
<1>7. h \in Seq(Byte) /\ Len(h) = 6
  BY <1>1, <1>5, <1>6 DEF Byte, IPv4, Address
<1>8. h[1] = IPv4 /\ h[2] = t /\ h[3] = c /\ h[4] = Address /\ h[5] = d.port /\ h[6] = 2 + n
  OBVIOUS
<1>9. internet_checksum(<<h[1], h[2], h[3], h[4]>>) = 0
  <2>1. internet_checksum(<<IPv4, t, c, Address>>) = Folded(69 + t + c + 192)
    <3>1. IPv4 = 69 /\ Address = 192 /\ t \in Nat /\ c \in Nat
      BY <1>5, <1>6 DEF IPv4, Address, Byte
    <3>2. 69 \in Nat /\ 192 \in Nat OBVIOUS
    <3>3. internet_checksum(<<69, t, c, 192>>) = Folded(69 + t + c + 192)
      BY <3>1, <3>2, Checksum
    <3> QED BY <3>1, <3>3
  <2>2. 69 + t + c + 192 = (261 + t) + c /\ 261 + t \in Nat /\ 261 + t > 0
    BY <1>5, <1>6 DEF Byte
  <2>3. Folded((261 + t) + c) = 0 BY <2>2, <1>6, HeaderChecksum
  <2> HIDE DEF h
  <2> QED BY <2>1, <2>2, <2>3, <1>8
<1> HIDE DEF h
<1> QED BY <1>1, <1>2, <1>4, <1>7, <1>8, <1>9 DEF n, t

\* The raw bytes: six of headers, then the data.
LEMMA RawType ==
  ASSUME NEW d \in Datagrams
  PROVE  /\ Raw(d) \in Seq(Byte) /\ Len(Raw(d)) = 6 + Len(d.data)
         /\ Len(Raw(d)) \in Nat /\ Len(Raw(d)) >= 7 /\ Len(Raw(d)) <= RxSize
         /\ \A i \in 1 .. 6 : Raw(d)[i] = build_headers(d)[i]
         /\ \A i \in 1 .. Len(d.data) : Raw(d)[6 + i] = d.data[i]
<1> DEFINE h == build_headers(d)
           t == d.data
           r == Raw(d)
<1>1. /\ h \in Seq(Byte) /\ Len(h) = 6 /\ t \in Seq(Byte) /\ Len(t) \in Nat /\ Len(t) >= 1
      /\ HdrLen + Len(t) <= RxSize /\ RxSize \in Byte
  BY Headers
<1>2. r = h \o t BY DEF Raw
<1>3. HdrLen = 6 BY DEF HdrLen, IpLen, UdpLen
<1> HIDE DEF h, t, r
<1>4. /\ r \in Seq(Byte) /\ Len(r) = Len(h) + Len(t)
      /\ \A i \in 1 .. Len(h) + Len(t) : r[i] = IF i <= Len(h) THEN h[i] ELSE t[i - Len(h)]
  BY <1>1, <1>2, ConcatProperties
<1>5. ASSUME NEW i \in 1 .. 6 PROVE r[i] = h[i]
  <2>1. i \in 1 .. Len(h) + Len(t) /\ i <= Len(h) BY <1>1
  <2> QED BY <2>1, <1>4
<1>6. ASSUME NEW i \in 1 .. Len(t) PROVE r[6 + i] = t[i]
  <2>1. 6 + i \in 1 .. Len(h) + Len(t) /\ ~(6 + i <= Len(h)) /\ (6 + i) - Len(h) = i BY <1>1
  <2> QED BY <2>1, <1>4
<1>7. Len(r) <= RxSize BY <1>1, <1>3, <1>4 DEF Byte
<1> QED BY <1>1, <1>4, <1>5, <1>6, <1>7 DEF h, t, r

\* Two sequences with the same length and elements are the same.
LEMMA SameSeq ==
  ASSUME NEW S, NEW s \in Seq(S), NEW t \in Seq(S), Len(s) = Len(t),
         \A i \in 1 .. Len(s) : s[i] = t[i]
  PROVE  s = t
BY SeqEqual

\* parse_udp_packet gives back the datagram that build_headers was made for.
LEMMA RawAccepted ==
  ASSUME NEW d \in Datagrams
  PROVE  /\ IsDatagram(Raw(d)) /\ parse_udp_packet(Raw(d)) = d.data
         /\ Raw(d)[5] = d.port /\ d.data # <<>>
<1> DEFINE h == build_headers(d)
           t == d.data
           r == Raw(d)
<1>1. /\ r \in Seq(Byte) /\ Len(r) = 6 + Len(t) /\ Len(r) \in Nat /\ Len(r) >= 7
      /\ \A i \in 1 .. 6 : r[i] = h[i]
      /\ \A i \in 1 .. Len(t) : r[6 + i] = t[i]
  BY RawType
<1>2. /\ t \in Seq(Byte) /\ Len(t) \in Nat /\ Len(t) >= 1
      /\ h[1] = IPv4 /\ h[2] = 6 + Len(t) /\ h[5] = d.port /\ h[6] = 2 + Len(t)
      /\ internet_checksum(<<h[1], h[2], h[3], h[4]>>) = 0
  BY Headers
<1>3. HdrLen = 6 /\ IpLen = 4 /\ UdpLen = 2 BY DEF HdrLen, IpLen, UdpLen
<1> HIDE DEF h, t, r
<1>4. r[1] = h[1] /\ r[2] = h[2] /\ r[3] = h[3] /\ r[4] = h[4] /\ r[5] = h[5] /\ r[6] = h[6]
  BY <1>1
<1>5. SubSeq(r, 1, 4) = <<h[1], h[2], h[3], h[4]>>
  <2> DEFINE a == SubSeq(r, 1, 4)
             b == <<h[1], h[2], h[3], h[4]>>
  <2>1. a \in Seq(Byte) /\ Len(a) = 4 /\ \A i \in 1 .. 4 : a[i] = r[i]
    BY <1>1, SubSeqProperties
  <2>2. \A i \in 1 .. 4 : r[i] \in Byte BY <1>1, ElementOfSeq
  <2>3. h[1] \in Byte /\ h[2] \in Byte /\ h[3] \in Byte /\ h[4] \in Byte
    BY <2>2, <1>4
  <2>4. b \in Seq(Byte) /\ Len(b) = 4 /\ b[1] = h[1] /\ b[2] = h[2] /\ b[3] = h[3] /\ b[4] = h[4]
    BY <2>3
  <2> HIDE DEF a, b
  <2>5. \A i \in 1 .. 4 : i = 1 \/ i = 2 \/ i = 3 \/ i = 4 OBVIOUS
  <2>6. \A i \in 1 .. 4 : a[i] = b[i] BY <2>1, <2>4, <2>5, <1>4
  <2>7. a = b BY <2>1, <2>4, <2>6, SameSeq
  <2> QED BY <2>7 DEF a, b
<1>6. SubSeq(r, 7, 6 + Len(t)) = t
  <2> DEFINE a == SubSeq(r, 7, 6 + Len(t))
  <2>1. a \in Seq(Byte) /\ Len(a) = Len(t) /\ \A i \in 1 .. Len(t) : a[i] = r[7 + i - 1]
    BY <1>1, <1>2, SubSeqProperties
  <2> HIDE DEF a
  <2>2. \A i \in 1 .. Len(t) : a[i] = t[i]
    <3> TAKE i \in 1 .. Len(t)
    <3>1. 7 + i - 1 = 6 + i BY <1>2
    <3> QED BY <3>1, <2>1, <1>1
  <2>3. a = t BY <2>1, <2>2, <1>2, SameSeq
  <2> QED BY <2>3 DEF a
<1>7. IsDatagram(r)
  <2>1. internet_checksum(SubSeq(r, 1, IpLen)) = 0 BY <1>2, <1>3, <1>5
  <2>2. r[1] = IPv4 /\ r[2] = 6 + Len(t) /\ r[6] = 2 + Len(t) BY <1>2, <1>4
  <2>3. Len(r) >= HdrLen /\ Len(r) >= r[2] /\ r[6] >= UdpLen /\ Len(r) >= IpLen + r[6]
    BY <2>2, <1>1, <1>2, <1>3
  <2> QED BY <2>1, <2>2, <2>3 DEF IsDatagram
<1>8. parse_udp_packet(r) = t
  <2>1. IpLen + r[6] = 6 + Len(t) /\ HdrLen + 1 = 7 BY <1>2, <1>3, <1>4
  <2> QED BY <2>1, <1>6 DEF parse_udp_packet
<1>9. t # <<>> BY <1>2
<1> QED BY <1>2, <1>4, <1>7, <1>8, <1>9 DEF r, t, h

\* c is a and then b.
After(a, b, c) ==
  /\ c \in Seq(Byte) /\ Len(c) = Len(a) + Len(b)
  /\ \A i \in 1 .. Len(a) + Len(b) : c[i] = IF i <= Len(a) THEN a[i] ELSE b[i - Len(a)]

\* What \o gives for two sequences of bytes.
LEMMA AfterConcat ==
  ASSUME NEW a \in Seq(Byte), NEW b \in Seq(Byte)
  PROVE  After(a, b, a \o b)
BY ConcatProperties DEF After

\* A frame is two blocks between two ENDs.
Framed(a, b, f) ==
  /\ f \in Seq(Byte) /\ Len(f) = 2 + Len(a) + Len(b)
  /\ f[1] = END /\ f[2 + Len(a) + Len(b)] = END
  /\ \A x \in 1 .. Len(a) : f[1 + x] = a[x]
  /\ \A x \in 1 .. Len(b) : f[1 + Len(a) + x] = b[x]

\* encode_slip makes such a frame.
LEMMA FrameElements ==
  ASSUME NEW a \in Seq(Byte), NEW b \in Seq(Byte)
  PROVE  Framed(a, b, <<END>> \o a \o b \o <<END>>)
<1> DEFINE f == <<END>> \o a \o b \o <<END>>
           e == <<END>>
           g == e \o a
           h == g \o b
<1>e. e \in Seq(Byte) /\ Len(e) = 1 /\ e[1] = END BY DEF END, Byte
<1>n. Len(a) \in Nat /\ Len(b) \in Nat BY LenProperties
<1> HIDE DEF e
<1>1. /\ g \in Seq(Byte) /\ Len(g) = 1 + Len(a)
      /\ \A i \in 1 .. 1 + Len(a) : g[i] = IF i <= 1 THEN e[i] ELSE a[i - 1]
  <2>1. After(e, a, g) BY <1>e, AfterConcat
  <2> HIDE DEF g
  <2> QED BY <2>1, <1>e DEF After
<1> HIDE DEF g
<1>2. /\ h \in Seq(Byte) /\ Len(h) = 1 + Len(a) + Len(b)
      /\ \A i \in 1 .. Len(g) + Len(b) : h[i] = IF i <= Len(g) THEN g[i] ELSE b[i - Len(g)]
  BY <1>1, <1>n, ConcatProperties
<1>f. f = h \o e BY DEF e, h, g
<1> HIDE DEF h, f
<1>3. /\ f \in Seq(Byte) /\ Len(f) = 2 + Len(a) + Len(b)
      /\ \A i \in 1 .. Len(h) + Len(e) : f[i] = IF i <= Len(h) THEN h[i] ELSE e[i - Len(h)]
  <2>1. /\ f \in Seq(Byte) /\ Len(f) = Len(h) + Len(e)
        /\ \A i \in 1 .. Len(h) + Len(e) : f[i] = IF i <= Len(h) THEN h[i] ELSE e[i - Len(h)]
    <3>1. After(h, e, h \o e) BY <1>2, <1>e, AfterConcat
    <3>2. After(h, e, f) BY <3>1, <1>f, Zenon
    <3> QED BY <3>2, Zenon DEF After
  <2>2. Len(h) + Len(e) = 2 + Len(a) + Len(b) BY <1>2, <1>e, <1>n
  <2> QED BY <2>1, <2>2
<1>4. \A i \in 1 .. 1 + Len(a) : f[i] = g[i]
  <2> TAKE i \in 1 .. 1 + Len(a)
  <2>1. i \in 1 .. Len(h) + Len(e) /\ i <= Len(h) /\ i \in 1 .. Len(g) + Len(b) /\ i <= Len(g)
    BY <1>1, <1>2, <1>e, <1>n
  <2> QED BY <2>1, <1>2, <1>3
<1>5. f[1] = END
  <2>1. 1 \in 1 .. 1 + Len(a) BY <1>n
  <2>2. g[1] = e[1] BY <2>1, <1>1
  <2> QED BY <2>1, <2>2, <1>4, <1>e
<1>6. f[2 + Len(a) + Len(b)] = END
  <2> DEFINE i == 2 + Len(a) + Len(b)
  <2>1. i \in 1 .. Len(h) + Len(e) /\ ~(i <= Len(h)) /\ i - Len(h) = 1 BY <1>2, <1>e, <1>n
  <2>2. f[i] = e[i - Len(h)]
    <3> HIDE DEF i
    <3> QED BY <2>1, <1>3
  <2> QED BY <2>1, <2>2, <1>e
<1>7. ASSUME NEW x \in 1 .. Len(a) PROVE f[1 + x] = a[x]
  <2>1. 1 + x \in 1 .. 1 + Len(a) /\ ~(1 + x <= 1) /\ (1 + x) - 1 = x BY <1>n
  <2> QED BY <2>1, <1>1, <1>4
<1>8. ASSUME NEW x \in 1 .. Len(b) PROVE f[1 + Len(a) + x] = b[x]
  <2> DEFINE i == 1 + Len(a) + x
  <2>1. /\ i \in 1 .. Len(h) + Len(e) /\ i <= Len(h) /\ i \in 1 .. Len(g) + Len(b)
        /\ ~(i <= Len(g)) /\ i - Len(g) = x
    BY <1>1, <1>2, <1>e, <1>n
  <2> HIDE DEF i
  <2>2. f[i] = h[i] /\ h[i] = b[i - Len(g)] BY <2>1, <1>2, <1>3
  <2> QED BY <2>1, <2>2 DEF i
<1> QED BY <1>3, <1>5, <1>6, <1>7, <1>8 DEF Framed, f

\* pos says where the bytes of the datagram d stand in its frame.
FramePos(d, pos) ==
  /\ Places(Raw(d), pos, encode_slip(d))
  /\ pos[0] = 1 /\ pos[Len(Raw(d))] = Len(encode_slip(d)) - 1
  /\ \A i \in 0 .. Len(Raw(d)) : pos[i] <= Len(encode_slip(d)) - 1

\* encode_slip codes every byte in its place, between two ENDs.
LEMMA FramePlaces ==
  ASSUME NEW d \in Datagrams
  PROVE  /\ encode_slip(d) \in Seq(Byte) /\ Len(encode_slip(d)) >= 2
         /\ encode_slip(d)[1] = END /\ encode_slip(d)[Len(encode_slip(d))] = END
         /\ \E pos : FramePos(d, pos)
<1> DEFINE h == build_headers(d)
           t == d.data
           r == Raw(d)
           eh == encode_slip_block(h)
           et == encode_slip_block(t)
           f == encode_slip(d)
<1>1. /\ r \in Seq(Byte) /\ Len(r) = 6 + Len(t) /\ Len(r) \in Nat /\ Len(r) >= 7
      /\ \A i \in 1 .. 6 : r[i] = h[i]
      /\ \A i \in 1 .. Len(t) : r[6 + i] = t[i]
  BY RawType
<1>2. /\ h \in Seq(Byte) /\ Len(h) = 6 /\ t \in Seq(Byte) /\ Len(t) \in Nat /\ Len(t) >= 1
  BY Headers
<1>3. f = <<END>> \o eh \o et \o <<END>> BY DEF encode_slip
<1> HIDE DEF h, t, r
<1>4. eh \in Seq(Byte) /\ \E pos : Places(h, pos, eh) /\ pos[0] = 0 /\ pos[Len(h)] = Len(eh)
  BY <1>2, BlockPlaces
<1>5. et \in Seq(Byte) /\ \E pos : Places(t, pos, et) /\ pos[0] = 0 /\ pos[Len(t)] = Len(et)
  BY <1>2, BlockPlaces
<1> HIDE DEF eh, et, f
<1>6. /\ f \in Seq(Byte) /\ Len(f) = 2 + Len(eh) + Len(et)
      /\ f[1] = END /\ f[2 + Len(eh) + Len(et)] = END
      /\ \A x \in 1 .. Len(eh) : f[1 + x] = eh[x]
      /\ \A x \in 1 .. Len(et) : f[1 + Len(eh) + x] = et[x]
  <2>1. Framed(eh, et, <<END>> \o eh \o et \o <<END>>) BY <1>4, <1>5, FrameElements
  <2>2. Framed(eh, et, f) BY <2>1, <1>3, Zenon
  <2> QED BY <2>2, Zenon DEF Framed
<1>7. Len(eh) \in Nat /\ Len(et) \in Nat BY <1>4, <1>5, LenProperties
<1>8. PICK hp : Places(h, hp, eh) /\ hp[0] = 0 /\ hp[Len(h)] = Len(eh) BY <1>4
<1>9. PICK tp : Places(t, tp, et) /\ tp[0] = 0 /\ tp[Len(t)] = Len(et) BY <1>5
<1>r. Len(r) \in Nat BY <1>1
<1>10. \A i \in 0 .. 6 : hp[i] \in Nat BY <1>8, <1>2 DEF Places
<1>11. \A i \in 0 .. Len(t) : tp[i] \in Nat BY <1>9, <1>2 DEF Places
<1>h. \A k \in 1 .. 6 :
        /\ hp[k] = hp[k - 1] + Len(Escaped(h[k])) /\ hp[k] <= Len(eh)
        /\ \A x \in 1 .. Len(Escaped(h[k])) : eh[hp[k - 1] + x] = Escaped(h[k])[x]
  BY <1>2, <1>8 DEF Places
<1> DEFINE pos == [i \in 0 .. Len(r) |->
                     IF i <= 6 THEN 1 + hp[i] ELSE 1 + Len(eh) + tp[i - 6]]
           L(i) == Len(Escaped(r[i]))
<1>12. pos \in [0 .. Len(r) -> Nat]
  <2> SUFFICES ASSUME NEW i \in 0 .. Len(r) PROVE pos[i] \in Nat OBVIOUS
  <2>1. CASE i <= 6 BY <2>1, <1>10, <1>1, SMTT(30)
  <2>2. CASE i > 6
    <3>1. i - 6 \in 0 .. Len(t) BY <2>2, <1>1, <1>2
    <3> QED BY <2>2, <3>1, <1>11, <1>7
  <2> QED BY <2>1, <2>2, <1>1
<1>13. pos[0] = 1 BY <1>8, <1>1
<1>14. pos[Len(r)] = Len(f) - 1
  <2>1. pos[Len(r)] = 1 + Len(eh) + tp[Len(r) - 6] BY <1>1
  <2>2. Len(r) - 6 = Len(t) BY <1>1, <1>2
  <2>3. tp[Len(r) - 6] = Len(et) BY <2>2, <1>9, Zenon
  <2> HIDE DEF pos
  <2> QED BY <2>1, <2>3, <1>6, <1>7
<1>15. ASSUME NEW i \in 1 .. Len(r)
       PROVE  /\ pos[i] = pos[i - 1] + L(i) /\ pos[i] <= Len(f) - 1
              /\ \A x \in 1 .. L(i) : f[pos[i - 1] + x] = Escaped(r[i])[x]
  <2>l. L(i) \in Nat
    <3>1. r[i] \in Byte BY <1>1, ElementOfSeq
    <3> QED BY <3>1, EscapedType
  <2>1. CASE i <= 6
    <3>1. /\ i \in 1 .. 6 /\ i - 1 \in 0 .. 6 /\ i \in 0 .. Len(r) /\ i - 1 \in 0 .. Len(r)
          /\ i - 1 <= 6
      BY <2>1, <1>1
    <3>2. pos[i] = 1 + hp[i] /\ pos[i - 1] = 1 + hp[i - 1] /\ r[i] = h[i]
      BY <2>1, <3>1, <1>1
    <3> HIDE DEF pos
    <3>3. /\ hp[i] = hp[i - 1] + L(i) /\ hp[i] <= Len(eh)
          /\ \A x \in 1 .. L(i) : eh[hp[i - 1] + x] = Escaped(r[i])[x]
      BY <3>1, <3>2, <1>h, Zenon
    <3>4. hp[i] \in Nat /\ hp[i - 1] \in Nat
      <4>1. i \in 0 .. 6 BY <3>1
      <4> QED BY <3>1, <4>1, <1>10, Zenon
    <3> DEFINE l == L(i)
    <3> HIDE DEF L, l
    <3>5. ASSUME NEW x \in 1 .. l PROVE f[pos[i - 1] + x] = eh[hp[i - 1] + x]
      <4> DEFINE y == hp[i - 1] + x
      <4>1. y \in 1 .. Len(eh) /\ pos[i - 1] + x = 1 + y
        <5> DEFINE u == hp[i - 1]
                   v == hp[i]
        <5>1. u \in Nat /\ v = u + l /\ v <= Len(eh) /\ l \in Nat /\ y = u + x /\ pos[i - 1] = 1 + u
          BY <2>l, <3>2, <3>3, <3>4, Zenon DEF l
        <5> HIDE DEF u, v, y
        <5> QED BY <5>1, <1>7
      <4> HIDE DEF y
      <4>2. f[1 + y] = eh[y] BY <4>1, <1>6
      <4> QED BY <4>1, <4>2 DEF y
    <3>6. pos[i] = pos[i - 1] + l /\ pos[i] <= Len(f) - 1
      BY <1>r, <2>l, <3>2, <3>3, <3>4, <1>6, <1>7, SMTT(30) DEF l
    <3> QED BY <3>3, <3>5, <3>6 DEF l
  <2>2. CASE i > 6
    <3> DEFINE j == i - 6
    <3>1. j \in 1 .. Len(t) /\ j - 1 \in 0 .. Len(t) /\ j \in 0 .. Len(t) /\ i = 6 + j
      BY <2>2, <1>1, <1>2
    <3>2. pos[i] = 1 + Len(eh) + tp[j] BY <2>2
    <3>3. pos[i - 1] = 1 + Len(eh) + tp[j - 1]
      <4>1. CASE i = 7
        <5>1. i - 1 = 6 /\ j - 1 = 0 BY <4>1
        <5>2. pos[6] = 1 + hp[6] BY <1>1
        <5> QED BY <5>1, <5>2, <1>2, <1>7, <1>8, <1>9
      <4>2. CASE i > 7
        <5>1. i - 1 \in 0 .. Len(r) /\ ~(i - 1 <= 6) /\ (i - 1) - 6 = j - 1 BY <4>2, <1>1
        <5> QED BY <5>1
      <4> QED BY <2>2, <4>1, <4>2
    <3>4. r[i] = t[j] BY <3>1, <1>1
    <3> HIDE DEF pos, j
    <3>5. /\ tp[j] = tp[j - 1] + L(i) /\ tp[j] <= Len(et)
          /\ \A x \in 1 .. L(i) : et[tp[j - 1] + x] = Escaped(r[i])[x]
      BY <3>1, <3>4, <1>9 DEF Places
    <3>6. tp[j] \in Nat /\ tp[j - 1] \in Nat BY <3>1, <1>11
    <3> DEFINE l == L(i)
    <3> HIDE DEF L, l
    <3>7. ASSUME NEW x \in 1 .. l PROVE f[pos[i - 1] + x] = et[tp[j - 1] + x]
      <4> DEFINE y == tp[j - 1] + x
      <4>1. y \in 1 .. Len(et) /\ pos[i - 1] + x = 1 + Len(eh) + y
        BY <2>l, <3>3, <3>5, <3>6, <1>7 DEF l
      <4> HIDE DEF y
      <4>2. f[1 + Len(eh) + y] = et[y] BY <4>1, <1>6
      <4> QED BY <4>1, <4>2 DEF y
    <3>8. pos[i] = pos[i - 1] + l /\ pos[i] <= Len(f) - 1
      BY <2>l, <3>2, <3>3, <3>5, <3>6, <1>6, <1>7 DEF l
    <3> QED BY <3>5, <3>7, <3>8 DEF l
  <2>3. i <= 6 \/ i > 6 BY <1>r
  <2> QED BY <2>1, <2>2, <2>3, Zenon
<1>16. Places(r, pos, f)
  <2> HIDE DEF pos
  <2>1. pos[Len(r)] <= Len(f) BY <1>14, <1>6, <1>7
  <2>2. \A i \in 1 .. Len(r) : pos[i] <= Len(f)
    <3> TAKE i \in 1 .. Len(r)
    <3>1. i \in 0 .. Len(r) BY <1>r
    <3>2. pos[i] \in Nat /\ Len(f) \in Nat BY <3>1, <1>12, <1>6, <1>7
    <3>3. pos[i] <= Len(f) - 1 BY <1>15
    <3> QED BY <3>2, <3>3
  <2> QED BY <2>1, <2>2, <1>12, <1>15 DEF Places
<1>18. \A i \in 0 .. Len(r) : pos[i] <= Len(f) - 1
  <2> HIDE DEF pos
  <2> TAKE i \in 0 .. Len(r)
  <2>1. CASE i = 0 BY <2>1, <1>6, <1>7, <1>13
  <2>2. CASE i # 0
    <3>1. i \in 1 .. Len(r) BY <2>2, <1>r
    <3> QED BY <3>1, <1>15
  <2> QED BY <2>1, <2>2
<1>17. Len(f) >= 2 /\ f[Len(f)] = END BY <1>6, <1>7
<1> HIDE DEF pos
<1> QED BY <1>6, <1>13, <1>14, <1>16, <1>17, <1>18 DEF f, r, FramePos

-----------------------------------------------------------------------------
(* The buffer of the receiver *)

\* The line and the counters; bytes on the line belong to the frame sent last.
LineOK ==
  /\ sent \in Seq(Datagrams) /\ Len(sent) <= MaxFrames
  /\ line \in Seq(Byte) /\ (line # <<>> => Len(sent) >= 1)
  /\ faults \in 0 .. MaxFaults /\ hit \subseteq 1 .. Len(sent) /\ damaged \in BOOLEAN

\* The locals of recv_decode_slip after n frames: there is room for the byte that
\* follows an ESC, since ESC is read only while the buffer is not full.
RxOK(r, n) ==
  /\ r \in [started : BOOLEAN, esc : BOOLEAN, buf : Seq(Byte), from : 0 .. n]
  /\ Len(r.buf) <= RxSize /\ (r.esc => Len(r.buf) < RxSize)
  /\ r.buf # <<>> => r.from >= 1

GotOK(g, n) == g \in Seq([from : 1 .. n, data : Seq(Byte)])

\* The inductive invariant behind TypeOK.
SlipInv == LineOK /\ RxOK(rx, Len(sent)) /\ GotOK(got, Len(sent))

\* It holds at the start.
LEMMA InitSlip == Init => SlipInv
<1> SUFFICES ASSUME Init PROVE SlipInv OBVIOUS
<1>1. sent \in Seq(Datagrams) /\ Len(sent) = 0 /\ line \in Seq(Byte) /\ line = <<>>
  BY DEF Init
<1>2. LineOK
  <2>1. MaxFaults \in Nat /\ MaxFrames \in Nat BY SlipAssumption
  <2>2. faults = 0 /\ hit = {} /\ damaged = FALSE BY DEF Init
  <2>3. hit \subseteq 1 .. Len(sent) BY <2>2
  <2>4. faults \in 0 .. MaxFaults /\ Len(sent) <= MaxFrames BY <1>1, <2>1, <2>2
  <2> QED BY <1>1, <2>2, <2>3, <2>4, Zenon DEF LineOK
<1>3. RxOK(rx, Len(sent))
  <2>1. NewCall.buf \in Seq(Byte) /\ Len(NewCall.buf) = 0 BY DEF NewCall
  <2>2. RxSize \in Nat BY SlipAssumption DEF Byte
  <2> QED BY <1>1, <2>1, <2>2 DEF Init, RxOK, NewCall
<1>4. GotOK(got, Len(sent)) BY DEF Init, GotOK
<1> QED BY <1>2, <1>3, <1>4 DEF SlipInv

\* The state of a new call is fine.
LEMMA NewCallOK ==
  ASSUME NEW n \in Nat
  PROVE  RxOK(NewCall, n)
<1>1. NewCall.buf \in Seq(Byte) /\ Len(NewCall.buf) = 0 BY DEF NewCall
<1>2. RxSize \in Nat BY SlipAssumption DEF Byte
<1> QED BY <1>1, <1>2 DEF RxOK, NewCall

\* recv_decode_slip returns.
LEMMA ReturnOK ==
  ASSUME NEW n \in Nat, RxOK(rx, n), GotOK(got, n),
         NEW buf, buf = rx.buf \/ buf = <<>>, Return(buf)
  PROVE  RxOK(rx', n) /\ GotOK(got', n)
<1>1. RxOK(rx', n) BY NewCallOK DEF Return
<1>2. GotOK(got', n)
  <2>1. CASE got' = got BY <2>1 DEF GotOK
  <2>2. CASE /\ IsDatagram(buf)
             /\ got' = Append(got, [from |-> rx.from, data |-> parse_udp_packet(buf)])
    <3>1. Len(buf) >= 6 /\ buf[6] >= 2 /\ Len(buf) >= 4 + buf[6]
      BY <2>2 DEF IsDatagram, HdrLen, IpLen, UdpLen
    <3>2. buf \in Seq(Byte)
      <4>1. rx.buf \in Seq(Byte) BY DEF RxOK
      <4>2. <<>> \in Seq(Byte) OBVIOUS
      <4> QED BY <4>1, <4>2
    <3>3. Len(buf) \in Nat /\ buf # <<>> BY <3>1, <3>2, LenProperties
    <3>4. buf[6] \in Byte BY <3>1, <3>2, <3>3, ElementOfSeq
    <3>5. parse_udp_packet(buf) \in Seq(Byte)
      <4>1. parse_udp_packet(buf) = SubSeq(buf, 7, 4 + buf[6])
        BY DEF parse_udp_packet, HdrLen, IpLen, UdpLen
      <4> DEFINE m == 4 + buf[6]
      <4>2. m \in Nat /\ m <= Len(buf)
        <5>2. \A x \in Byte : x \in Nat BY DEF Byte
        <5>1. buf[6] \in Nat BY <3>4, <5>2, Zenon
        <5> QED BY <3>1, <3>3, <5>1
      <4> HIDE DEF m
      <4>3. \A i \in 7 .. m : buf[i] \in Byte BY <3>2, <3>3, <4>2, ElementOfSeq
      <4>4. SubSeq(buf, 7, m) \in Seq(Byte) BY <4>2, <4>3, SubSeqProperties
      <4> QED BY <4>1, <4>4 DEF m
    <3>6. rx.from \in 1 .. n BY <3>3 DEF RxOK
    <3> QED BY <2>2, <3>5, <3>6, AppendProperties DEF GotOK
  <2> QED BY <2>1, <2>2 DEF Return
<1> QED BY <1>1, <1>2

\* A byte is stored.
LEMMA StoreOK ==
  ASSUME NEW n \in Nat, n = Len(sent), n >= 1, RxOK(rx, n), Len(rx.buf) < RxSize,
         NEW b \in Byte, Store(b)
  PROVE  RxOK(rx', n)
<1>1. /\ rx.buf \in Seq(Byte) /\ rx.from \in 0 .. n /\ rx.started \in BOOLEAN
      /\ rx.buf # <<>> => rx.from >= 1
  BY DEF RxOK
<1>2. rx' = [started |-> rx.started, esc |-> FALSE, buf |-> Append(rx.buf, b),
             from |-> IF rx.buf = <<>> THEN n ELSE rx.from]
  BY DEF Store, RxOK
<1>3. Append(rx.buf, b) \in Seq(Byte) /\ Len(Append(rx.buf, b)) = Len(rx.buf) + 1
  BY <1>1, AppendProperties
<1>4. Len(rx.buf) \in Nat /\ RxSize \in Nat 
  <2>1. RxSize \in Nat BY SlipAssumption DEF Byte
  <2> QED BY <1>1, <2>1, LenProperties
<1>5. Len(rx.buf) + 1 <= RxSize BY <1>4
<1> QED BY <1>1, <1>2, <1>3, <1>5 DEF RxOK

\* One byte is decoded.
LEMMA DecodeOK ==
  ASSUME NEW n \in Nat, n = Len(sent), n >= 1, RxOK(rx, n), GotOK(got, n),
         NEW b \in Byte, Decode(b)
  PROVE  RxOK(rx', n) /\ GotOK(got', n)
<1>n. Len(rx.buf) \in Nat /\ RxSize \in Nat
  <2>1. rx.buf \in Seq(Byte) BY DEF RxOK
  <2>2. RxSize \in Nat BY SlipAssumption DEF Byte
  <2> QED BY <2>1, <2>2, LenProperties
<1>1. CASE ReadEnd(b)
  <2>1. CASE Return(rx.buf) BY <2>1, ReturnOK
  <2>2. CASE rx' = [rx EXCEPT !.started = TRUE] /\ UNCHANGED got
    BY <2>2 DEF RxOK, GotOK
  <2> QED BY <1>1, <2>1, <2>2 DEF ReadEnd
<1>2. CASE ReadIgnored(b) BY <1>2 DEF ReadIgnored, RxOK, GotOK
<1>3. CASE ReadOverflow(b) BY <1>3, ReturnOK DEF ReadOverflow
<1>4. CASE ReadEsc(b)
  <2>1. rx' = [rx EXCEPT !.esc = TRUE] /\ got' = got BY <1>4 DEF ReadEsc
  <2>2. Len(rx.buf) < RxSize BY <1>4, <1>n DEF ReadEsc, Full, RxOK
  <2>3. rx' = [started |-> rx.started, esc |-> TRUE, buf |-> rx.buf, from |-> rx.from]
    BY <2>1 DEF RxOK
  <2>4. RxOK(rx', n) BY <2>2, <2>3 DEF RxOK
  <2> QED BY <2>1, <2>4 DEF GotOK
<1>5. CASE ReadPlain(b)
  <2>1. Len(rx.buf) < RxSize BY <1>5, <1>n DEF ReadPlain, Full, RxOK
  <2> QED BY <1>5, <2>1, StoreOK DEF ReadPlain, GotOK
<1>6. CASE ReadEscaped(b)
  <2>1. Len(rx.buf) < RxSize BY <1>6 DEF ReadEscaped, RxOK
  <2>2. END \in Byte /\ ESC \in Byte BY DEF END, ESC, Byte
  <2>3. Store(END) \/ Store(ESC) \/ rx' = [rx EXCEPT !.esc = FALSE]
    BY <1>6, Zenon DEF ReadEscaped
  <2>6. got' = got BY <1>6 DEF ReadEscaped
  <2>4. CASE rx' = [rx EXCEPT !.esc = FALSE] BY <2>4, <2>6 DEF RxOK, GotOK
  <2>5. CASE Store(END) \/ Store(ESC)
    BY <2>1, <2>2, <2>5, <2>6, StoreOK DEF GotOK
  <2> QED BY <2>3, <2>4, <2>5
<1> QED BY <1>1, <1>2, <1>3, <1>4, <1>5, <1>6 DEF Decode

\* The state after n frames is a state after n + 1.
LEMMA OneMore ==
  ASSUME NEW n \in Nat, NEW r, NEW g, RxOK(r, n), GotOK(g, n)
  PROVE  RxOK(r, n + 1) /\ GotOK(g, n + 1)
<1>1. 0 .. n \subseteq 0 .. n + 1 /\ 1 .. n \subseteq 1 .. n + 1 OBVIOUS
<1>2. RxOK(r, n + 1)
  <2>1. r \in [started : BOOLEAN, esc : BOOLEAN, buf : Seq(Byte), from : 0 .. n + 1]
    BY DEF RxOK
  <2> QED BY <2>1, Zenon DEF RxOK
<1>3. GotOK(g, n + 1)
  <2> DEFINE A == [from : 1 .. n, data : Seq(Byte)]
             B == [from : 1 .. n + 1, data : Seq(Byte)]
  <2>1. A \subseteq B BY <1>1
  <2>2. g \in Seq(A) BY DEF GotOK
  <2> HIDE DEF A, B
  <2>3. g \in Seq(B)
    <3>1. \A i \in 1 .. Len(g) : g[i] \in B BY <2>1, <2>2, ElementOfSeq
    <3>2. Len(g) \in Nat /\ g \in [1 .. Len(g) -> A] BY <2>2, LenProperties
    <3>3. g \in [1 .. Len(g) -> B] BY <3>1, <3>2
    <3> QED BY <3>2, <3>3
  <2> QED BY <2>3 DEF GotOK, B
<1> QED BY <1>2, <1>3

\* A frame, or a part of one, is written.
LEMMA WriteOK ==
  ASSUME SlipInv, NEW d \in Datagrams, NEW n \in 1 .. Len(encode_slip(d)), Write(d, n)
  PROVE  /\ sent' = Append(sent, d) /\ sent' \in Seq(Datagrams)
         /\ Len(sent) \in Nat /\ Len(sent') = Len(sent) + 1 /\ Len(sent') <= MaxFrames
         /\ line' \in Seq(Byte)
         /\ RxOK(rx', Len(sent')) /\ GotOK(got', Len(sent'))
<1> DEFINE f == encode_slip(d)
<1>1. sent \in Seq(Datagrams) /\ Len(sent) \in Nat BY LenProperties DEF SlipInv, LineOK
<1>2. sent' = Append(sent, d) BY DEF Write
<1>3. sent' \in Seq(Datagrams) /\ Len(sent') = Len(sent) + 1
  BY <1>1, <1>2, AppendProperties
<1>4. Len(sent') <= MaxFrames BY <1>1, <1>3, SlipAssumption DEF Write
<1>5. line' \in Seq(Byte)
  <2>1. f \in Seq(Byte) BY FramePlaces
  <2>2. line' = SubSeq(f, 1, n) BY DEF Write
  <2>3. Len(f) \in Nat BY <2>1, LenProperties
  <2> HIDE DEF f
  <2>4. \A i \in 1 .. n : f[i] \in Byte BY <2>1, <2>3, ElementOfSeq DEF f
  <2>5. n \in Nat BY <2>3 DEF f
  <2>6. SubSeq(f, 1, n) \in Seq(Byte) BY <2>4, <2>5, SubSeqProperties
  <2> QED BY <2>2, <2>6
<1>6. RxOK(rx, Len(sent) + 1) /\ GotOK(got, Len(sent) + 1) BY <1>1, OneMore DEF SlipInv
<1>7. rx' = rx /\ got' = got BY DEF Write
<1> QED BY <1>1, <1>2, <1>3, <1>4, <1>5, <1>6, <1>7

\* Every step keeps the invariant.
LEMMA NextSlip ==
  ASSUME SlipInv, [Next]_vars
  PROVE  SlipInv'
<1> USE DEF SlipInv
<1>a. MaxFaults \in Nat /\ MaxFrames \in Nat /\ Noise \subseteq Byte BY SlipAssumption
<1>n. Len(sent) \in Nat BY LenProperties DEF LineOK
<1>f. ASSUME line # <<>>
      PROVE  /\ Head(line) \in Byte /\ Tail(line) \in Seq(Byte) /\ Len(sent) >= 1
  <2>1. line \in Seq(Byte) /\ Len(sent) >= 1 BY <1>f DEF LineOK
  <2> QED BY <1>f, <2>1, HeadTailProperties
<1>1. ASSUME NEW d \in Datagrams, Send(d) PROVE SlipInv'
  <2>1. encode_slip(d) \in Seq(Byte) /\ Len(encode_slip(d)) >= 2 BY FramePlaces
  <2>2. Len(encode_slip(d)) \in 1 .. Len(encode_slip(d)) BY <2>1, LenProperties
  <2>3. /\ sent' \in Seq(Datagrams) /\ Len(sent) \in Nat /\ Len(sent') = Len(sent) + 1
        /\ Len(sent') <= MaxFrames /\ line' \in Seq(Byte)
        /\ RxOK(rx', Len(sent')) /\ GotOK(got', Len(sent'))
    BY <1>1, <2>2, WriteOK DEF Send
  <2>4. faults' = faults /\ hit' = hit /\ damaged' = damaged BY <1>1 DEF Send, Write
  <2>5. LineOK' BY <2>3, <2>4 DEF LineOK
  <2> QED BY <2>3, <2>5
<1>2. ASSUME NEW d \in Datagrams, SendCutShort(d) PROVE SlipInv'
  <2>1. PICK n \in 1 .. Len(encode_slip(d)) - 1 : Write(d, n) BY <1>2 DEF SendCutShort
  <2>2. n \in 1 .. Len(encode_slip(d))
    <3>1. encode_slip(d) \in Seq(Byte) BY FramePlaces
    <3> QED BY <3>1, LenProperties
  <2>3. /\ sent' \in Seq(Datagrams) /\ Len(sent) \in Nat /\ Len(sent') = Len(sent) + 1
        /\ Len(sent') <= MaxFrames /\ line' \in Seq(Byte)
        /\ RxOK(rx', Len(sent')) /\ GotOK(got', Len(sent'))
    BY <2>1, <2>2, WriteOK
  <2>4. /\ faults < MaxFaults /\ faults' = faults + 1 /\ hit' = hit \cup {Len(sent) + 1}
        /\ damaged' = damaged
    BY <1>2, <2>1 DEF SendCutShort, Fault, Write
  <2>5. LineOK'
    <3>1. faults' \in 0 .. MaxFaults BY <2>4, <1>a DEF LineOK
    <3>2. hit' \subseteq 1 .. Len(sent')
      <4>1. hit \subseteq 1 .. Len(sent) BY DEF LineOK
      <4>2. 1 .. Len(sent) \subseteq 1 .. Len(sent') /\ Len(sent) + 1 \in 1 .. Len(sent')
        BY <2>3
      <4> QED BY <2>4, <4>1, <4>2, Zenon
    <3> QED BY <2>3, <2>4, <3>1, <3>2 DEF LineOK
  <2> QED BY <2>3, <2>5
<1>3. CASE Read
  <2>1. line # <<>> /\ line' = Tail(line) /\ Decode(Head(line)) BY <1>3 DEF Read
  <2>2. sent' = sent /\ faults' = faults /\ hit' = hit /\ damaged' = damaged
    BY <1>3 DEF Read
  <2>3. RxOK(rx', Len(sent)) /\ GotOK(got', Len(sent)) BY <1>n, <1>f, <2>1, DecodeOK
  <2>4. LineOK' BY <1>f, <2>1, <2>2 DEF LineOK
  <2> QED BY <2>2, <2>3, <2>4
<1>4. CASE Timeout
  <2>1. RxOK(rx', Len(sent)) /\ GotOK(got', Len(sent)) BY <1>4, <1>n, ReturnOK DEF Timeout
  <2>2. LineOK' BY <1>4 DEF LineOK, Timeout
  <2>3. sent' = sent BY <1>4 DEF Timeout
  <2> QED BY <2>1, <2>2, <2>3
<1>g. ASSUME line # <<>>, Fault(Len(sent)), sent' = sent, line' \in Seq(Byte),
             damaged' \in BOOLEAN
      PROVE  LineOK'
  <2>1. faults < MaxFaults /\ faults' = faults + 1 /\ hit' = hit \cup {Len(sent)}
    BY <1>g DEF Fault
  <2>2. Len(sent) >= 1 BY <1>f, <1>g
  <2>3. faults' \in 0 .. MaxFaults BY <2>1, <1>a DEF LineOK
  <2>4. hit' \subseteq 1 .. Len(sent)
    <3>1. hit \subseteq 1 .. Len(sent) BY DEF LineOK
    <3>2. Len(sent) \in 1 .. Len(sent) BY <2>2, <1>n
    <3> QED BY <2>1, <3>1, <3>2, Zenon
  <2> QED BY <1>g, <2>2, <2>3, <2>4 DEF LineOK
<1>5. CASE Pause
  <2>1. RxOK(rx', Len(sent)) /\ GotOK(got', Len(sent)) BY <1>5, <1>n, ReturnOK DEF Pause
  <2>2. LineOK' BY <1>5, <1>g DEF LineOK, Pause
  <2>3. sent' = sent BY <1>5 DEF Pause
  <2> QED BY <2>1, <2>2, <2>3
<1>6. CASE Lose
  <2>1. LineOK' BY <1>6, <1>f, <1>g DEF LineOK, Lose
  <2>2. sent' = sent /\ rx' = rx /\ got' = got BY <1>6 DEF Lose
  <2> QED BY <2>1, <2>2
<1>7. CASE Damage
  <2>1. PICK b \in Noise \ {Head(line)} : Decode(b) BY <1>7 DEF Damage
  <2>2. b \in Byte BY <1>a
  <2>3. line # <<>> /\ sent' = sent BY <1>7 DEF Damage
  <2>4. RxOK(rx', Len(sent)) /\ GotOK(got', Len(sent)) BY <1>n, <1>f, <2>1, <2>2, <2>3, DecodeOK
  <2>5. LineOK' BY <1>7, <1>f, <1>g DEF Damage
  <2> QED BY <2>3, <2>4, <2>5
<1>8. CASE UNCHANGED vars BY <1>8 DEF vars, LineOK
<1> QED BY <1>1, <1>2, <1>3, <1>4, <1>5, <1>6, <1>7, <1>8 DEF Next

\* The invariant gives TypeOK.
LEMMA SlipInvType == SlipInv => TypeOK
<1> SUFFICES ASSUME SlipInv PROVE TypeOK OBVIOUS
<1>1. LineOK /\ RxOK(rx, Len(sent)) /\ GotOK(got, Len(sent)) BY DEF SlipInv
<1>2. \A i \in DOMAIN got : got[i].from \in 1 .. Len(sent) /\ got[i].data \in Seq(Byte)
  <2> DEFINE A == [from : 1 .. Len(sent), data : Seq(Byte)]
  <2>1. got \in Seq(A) BY <1>1 DEF GotOK
  <2>2. \A x \in A : x.from \in 1 .. Len(sent) /\ x.data \in Seq(Byte) OBVIOUS
  <2> HIDE DEF A
  <2>3. \A i \in DOMAIN got : got[i] \in A BY <2>1
  <2> QED BY <2>2, <2>3
<1>3. /\ rx.started \in BOOLEAN /\ rx.esc \in BOOLEAN /\ rx.from \in 0 .. Len(sent)
      /\ rx.buf \in Seq(Byte) /\ Len(rx.buf) <= RxSize
  BY <1>1 DEF RxOK
<1> QED BY <1>1, <1>2, <1>3 DEF LineOK, TypeOK

\* Whatever bytes the line loses, damages or delays and however frames run
\* together, recv_decode_slip never writes beyond rx_buffer, for every size of the
\* buffer that holds the largest datagram.
THEOREM SlipTypeOK == Spec => []TypeOK
<1>1. Init => SlipInv BY InitSlip
<1>2. SlipInv /\ [Next]_vars => SlipInv' BY NextSlip
<1>3. SlipInv => TypeOK BY SlipInvType
<1> QED BY <1>1, <1>2, <1>3, PTL DEF Spec

-----------------------------------------------------------------------------
(* Being in step *)

\* Frame k was handed on, unchanged.
Delivered(k) ==
  \E i \in DOMAIN got : got[i] = [from |-> k, data |-> sent[k].data]

\* The receiver is not inside of a frame.
Fresh == ~rx.esc /\ rx.buf = <<>>

\* What is left of the frame of d after p bytes.
Rest(d, p) == SubSeq(encode_slip(d), p + 1, Len(encode_slip(d)))

\* The receiver holds the first i bytes of d.
Holds(d, i) ==
  rx.started /\ rx.buf = SubSeq(Raw(d), 1, i) /\ (i > 0 => rx.from = Len(sent))

\* Where the receiver is in the last frame, that of d, of which no byte was lost
\* or damaged.  Before it was begun the receiver may be in any state, unless the
\* frame before it met no fault either (clean).  Its first END at the latest ends
\* an open ESC; the closing END finds the receiver outside of a code and leaves it
\* outside of a frame.
Between(d, pos, i, clean) ==
  /\ line = Rest(d, pos[i]) /\ ~rx.esc
  /\ clean => Holds(d, i)

AfterEsc(d, pos, i, clean) ==
  /\ i < Len(Raw(d)) /\ Raw(d)[i + 1] \in {END, ESC}
  /\ line = Rest(d, pos[i] + 1) /\ (rx.esc \/ ~rx.started)
  /\ clean => rx.esc /\ Holds(d, i)

Track(d, pos, clean) ==
  \/ line = encode_slip(d) /\ (clean => Fresh)
  \/ \E i \in 0 .. Len(Raw(d)) : Between(d, pos, i, clean) \/ AfterEsc(d, pos, i, clean)
  \/ line = <<>> /\ Fresh /\ (clean /\ d.port = BindPort => Delivered(Len(sent)))

\* Before the first END nothing is stored.
Outside == ~rx.started => rx.buf = <<>> /\ ~rx.esc

\* The frames before the last one, when neither it nor its predecessor was hit.
PastDelivered ==
  \A k \in 1 .. Len(sent) - 1 :
    sent[k].port = BindPort /\ {k - 1, k} \cap hit = {} => Delivered(k)

\* The receiver is somewhere in the last frame.
LastTracked ==
  \E d \in Datagrams, clean \in BOOLEAN : \E pos :
    /\ d = sent[Len(sent)] /\ clean = (Len(sent) - 1 \notin hit)
    /\ FramePos(d, pos) /\ Track(d, pos, clean)

\* The inductive invariant behind Resync.
ResyncInv ==
  /\ SlipInv /\ Outside /\ PastDelivered
  /\ sent = <<>> => Fresh
  /\ sent # <<>> /\ Len(sent) \notin hit => LastTracked

\* END is read: outside of a code it ends or begins a frame.
LEMMA DecodeEnd ==
  ASSUME NEW n \in Nat, RxOK(rx, n), Outside, Decode(END)
  PROVE  /\ ~rx'.esc
         /\ ~rx.esc => rx'.buf = <<>>
         /\ Fresh => rx'.started /\ rx'.buf = <<>>
         /\ ~rx.esc /\ rx.started /\ rx.buf # <<>> => Return(rx.buf)
<1>n. END # ESC /\ END # ESC_END /\ END # ESC_ESC BY DEF END, ESC, ESC_END, ESC_ESC
<1>1. CASE rx.esc
  <2>1. ReadEscaped(END)
    BY <1>1 DEF Decode, ReadEnd, ReadIgnored, ReadOverflow, ReadEsc, ReadPlain
  <2>2. rx' = [rx EXCEPT !.esc = FALSE] BY <2>1, <1>n DEF ReadEscaped
  <2>3. ~rx'.esc BY <2>2 DEF RxOK
  <2> QED BY <1>1, <2>3 DEF Fresh
<1>2. CASE ~rx.esc
  <2>1. ReadEnd(END)
    BY <1>2, <1>n DEF Decode, ReadEscaped, ReadIgnored, ReadOverflow, ReadEsc, ReadPlain
  <2>2. CASE rx.started /\ rx.buf # <<>>
    <3>1. Return(rx.buf) BY <2>1, <2>2 DEF ReadEnd
    <3>2. rx' = NewCall BY <3>1 DEF Return
    <3>3. ~rx'.esc /\ rx'.buf = <<>> BY <3>2 DEF NewCall
    <3> QED BY <2>2, <3>1, <3>3 DEF Fresh
  <2>3. CASE ~(rx.started /\ rx.buf # <<>>)
    <3>1. rx' = [rx EXCEPT !.started = TRUE] BY <2>1, <2>3 DEF ReadEnd
    <3>2. rx.buf = <<>> BY <2>3 DEF Outside
    <3>3. ~rx'.esc /\ rx'.buf = <<>> /\ rx'.started BY <1>2, <3>1, <3>2 DEF RxOK
    <3> QED BY <2>3, <3>3
  <2> QED BY <2>2, <2>3
<1> QED BY <1>1, <1>2

\* ESC is read outside of a code.
LEMMA DecodeEsc ==
  ASSUME NEW n \in Nat, RxOK(rx, n), ~rx.esc, Decode(ESC)
  PROVE  /\ rx'.esc \/ ~rx'.started
         /\ rx.started /\ Len(rx.buf) < RxSize => rx' = [rx EXCEPT !.esc = TRUE]
<1>n. END # ESC BY DEF END, ESC
<1>1. CASE ReadIgnored(ESC) BY <1>1 DEF ReadIgnored
<1>2. CASE ReadOverflow(ESC)
  <2>1. rx' = NewCall BY <1>2 DEF ReadOverflow, Return
  <2>2. Len(rx.buf) = RxSize BY <1>2 DEF ReadOverflow, Full
  <2>3. RxSize \in Nat BY SlipAssumption DEF Byte
  <2> QED BY <2>1, <2>2, <2>3 DEF NewCall
<1>3. CASE ReadEsc(ESC)
  <2>1. rx' = [rx EXCEPT !.esc = TRUE] BY <1>3 DEF ReadEsc
  <2> QED BY <2>1 DEF RxOK
<1> QED BY <1>n, <1>1, <1>2, <1>3 DEF Decode, ReadEnd, ReadPlain, ReadEscaped

\* A byte that needs no code is read outside of a code.
LEMMA DecodePlain ==
  ASSUME NEW n \in Nat, RxOK(rx, n), ~rx.esc, NEW b \in Byte, b \notin {END, ESC}, Decode(b)
  PROVE  /\ ~rx'.esc
         /\ rx.started /\ Len(rx.buf) < RxSize => Store(b)
<1>1. CASE ReadIgnored(b) BY <1>1 DEF ReadIgnored
<1>2. CASE ReadOverflow(b)
  <2>1. rx' = NewCall BY <1>2 DEF ReadOverflow, Return
  <2>2. Len(rx.buf) = RxSize BY <1>2 DEF ReadOverflow, Full
  <2>3. RxSize \in Nat BY SlipAssumption DEF Byte
  <2> QED BY <2>1, <2>2, <2>3 DEF NewCall
<1>3. CASE ReadPlain(b)
  <2>1. Store(b) BY <1>3 DEF ReadPlain
  <2>2. ~rx'.esc BY <2>1 DEF Store, RxOK
  <2> QED BY <2>1, <2>2
<1> QED BY <1>1, <1>2, <1>3 DEF Decode, ReadEnd, ReadEsc, ReadEscaped

\* The second byte of a code is read after its ESC.
LEMMA DecodeCode ==
  ASSUME NEW n \in Nat, RxOK(rx, n), rx.esc \/ ~rx.started,
         NEW b \in Byte, b \in {END, ESC}, Decode(Escaped(b)[2])
  PROVE  /\ ~rx'.esc
         /\ rx.esc => Store(b)
<1> DEFINE c == Escaped(b)[2]
<1>1. (b = END /\ c = ESC_END) \/ (b = ESC /\ c = ESC_ESC) BY EscapedType
<1> HIDE DEF c
<1>2. c # END /\ c # ESC /\ ESC_ESC # ESC_END BY <1>1 DEF END, ESC, ESC_END, ESC_ESC
<1>d. Decode(c) BY DEF c
<1>3. CASE rx.esc
  <2>1. ReadEscaped(c)
    BY <1>3, <1>d DEF Decode, ReadEnd, ReadIgnored, ReadOverflow, ReadEsc, ReadPlain
  <2>2. Store(b) BY <2>1, <1>1, <1>2 DEF ReadEscaped
  <2>3. ~rx'.esc BY <2>2 DEF Store, RxOK
  <2> QED BY <2>2, <2>3
<1>4. CASE ~rx.esc
  <2>1. ReadIgnored(c)
    BY <1>2, <1>4, <1>d DEF Decode, ReadEnd, ReadEscaped, ReadOverflow, ReadEsc, ReadPlain
  <2> QED BY <1>4, <2>1 DEF ReadIgnored
<1> QED BY <1>3, <1>4

\* Nothing is stored before the first END, whatever is read.
LEMMA DecodeOutside ==
  ASSUME NEW n \in Nat, RxOK(rx, n), Outside, NEW b, Decode(b)
  PROVE  Outside'
<1>1. CASE rx' = NewCall BY <1>1 DEF Outside, NewCall
<1>2. CASE rx' = rx BY <1>2 DEF Outside
<1>3. CASE rx' = [rx EXCEPT !.started = TRUE] BY <1>3 DEF Outside, RxOK
<1>4. CASE rx.started /\ rx' = [rx EXCEPT !.esc = TRUE] BY <1>4 DEF Outside, RxOK
<1>5. CASE rx' = [rx EXCEPT !.esc = FALSE] BY <1>5 DEF Outside, RxOK
<1>6. ASSUME NEW c, Store(c), rx.started PROVE Outside'
  <2>1. rx'.started BY <1>6 DEF Store, RxOK
  <2> QED BY <2>1 DEF Outside
<1>7. ReadEnd(b) => rx' = NewCall \/ rx' = [rx EXCEPT !.started = TRUE]
  BY DEF ReadEnd, Return
<1>8. ReadIgnored(b) => rx' = rx BY DEF ReadIgnored
<1>9. ReadOverflow(b) => rx' = NewCall BY DEF ReadOverflow, Return
<1>10. ReadEsc(b) => rx.started /\ rx' = [rx EXCEPT !.esc = TRUE] BY DEF ReadEsc
<1>11. ReadPlain(b) => rx.started /\ Store(b) BY DEF ReadPlain
<1>12. ReadEscaped(b) =>
         /\ rx.started
         /\ Store(END) \/ Store(ESC) \/ rx' = [rx EXCEPT !.esc = FALSE]
  <2> SUFFICES ASSUME ReadEscaped(b)
               PROVE  /\ rx.started
                      /\ Store(END) \/ Store(ESC) \/ rx' = [rx EXCEPT !.esc = FALSE]
    OBVIOUS
  <2>1. rx.esc BY DEF ReadEscaped
  <2>2. rx.started BY <2>1 DEF Outside
  <2>3. Store(END) \/ Store(ESC) \/ rx' = [rx EXCEPT !.esc = FALSE]
    BY Zenon DEF ReadEscaped
  <2> QED BY <2>2, <2>3
<1> QED BY <1>1, <1>2, <1>3, <1>4, <1>5, <1>6, <1>7, <1>8, <1>9, <1>10, <1>11, <1>12
        DEF Decode

\* The first byte of the rest of a frame, and what is left after it.
LEMMA RestHead ==
  ASSUME NEW d \in Datagrams, NEW p \in Nat, p < Len(encode_slip(d))
  PROVE  /\ Rest(d, p) # <<>>
         /\ Head(Rest(d, p)) = encode_slip(d)[p + 1]
         /\ Tail(Rest(d, p)) = Rest(d, p + 1)
<1> DEFINE f == encode_slip(d)
<1>1. f \in Seq(Byte) /\ Len(f) \in Nat BY FramePlaces, LenProperties
<1>2. Rest(d, p) = SubSeq(f, p + 1, Len(f)) /\ Rest(d, p + 1) = SubSeq(f, (p + 1) + 1, Len(f))
  BY DEF Rest
<1>3. p < Len(f) OBVIOUS
<1> HIDE DEF f
<1> DEFINE a == SubSeq(f, p + 1, Len(f))
           b == SubSeq(f, (p + 1) + 1, Len(f))
<1>4. a \in Seq(Byte) /\ Len(a) = Len(f) - p /\ \A i \in 1 .. Len(f) - p : a[i] = f[p + i]
  <2>1. \A i \in p + 1 .. Len(f) : f[i] \in Byte BY <1>1, ElementOfSeq
  <2>2. a \in Seq(Byte) /\ Len(a) = Len(f) - p BY <1>1, <1>3, <2>1, SubSeqProperties
  <2>3. \A i \in 1 .. Len(f) - p : a[i] = f[p + i] BY <1>1, <1>3
  <2> QED BY <2>2, <2>3
<1>5. b \in Seq(Byte) /\ Len(b) = Len(f) - (p + 1) /\ \A i \in 1 .. Len(f) - (p + 1) : b[i] = f[p + 1 + i]
  <2>1. \A i \in (p + 1) + 1 .. Len(f) : f[i] \in Byte BY <1>1, ElementOfSeq
  <2>2. b \in Seq(Byte) /\ Len(b) = Len(f) - (p + 1) BY <1>1, <1>3, <2>1, SubSeqProperties
  <2>3. \A i \in 1 .. Len(f) - (p + 1) : b[i] = f[p + 1 + i] BY <1>1, <1>3
  <2> QED BY <2>2, <2>3
<1> HIDE DEF a, b
<1>6. a # <<>> /\ Head(a) = f[p + 1]
  <2>1. Len(a) >= 1 BY <1>1, <1>3, <1>4
  <2>2. a # <<>> BY <2>1
  <2>3. Head(a) = a[1] BY <1>4, <2>2, HeadTailProperties
  <2>4. a[1] = f[p + 1] BY <1>1, <1>3, <1>4
  <2> QED BY <2>2, <2>3, <2>4
<1>7. Tail(a) = b
  <2>1. /\ Tail(a) \in Seq(Byte) /\ Len(Tail(a)) = Len(a) - 1
        /\ \A i \in 1 .. Len(Tail(a)) : Tail(a)[i] = a[i + 1]
    BY <1>4, <1>6, HeadTailProperties
  <2> DEFINE t == Tail(a)
  <2> HIDE DEF t
  <2>2. t \in Seq(Byte) /\ Len(t) = Len(f) - (p + 1) /\ \A i \in 1 .. Len(t) : t[i] = a[i + 1]
    BY <2>1, <1>1, <1>4 DEF t
  <2>3. \A i \in 1 .. Len(t) : t[i] = b[i]
    <3> TAKE i \in 1 .. Len(t)
    <3>1. i + 1 \in 1 .. Len(f) - p /\ i \in 1 .. Len(f) - (p + 1) /\ p + (i + 1) = p + 1 + i
      BY <1>1, <2>2
    <3>2. t[i] = f[p + (i + 1)] BY <3>1, <2>2, <1>4
    <3>3. b[i] = f[p + 1 + i] BY <3>1, <1>5
    <3> QED BY <3>1, <3>2, <3>3
  <2>4. t = b BY <2>2, <2>3, <1>5, SameSeq
  <2> QED BY <2>4 DEF t
<1> QED BY <1>2, <1>6, <1>7 DEF a, b, f

\* Nothing is left after all bytes, and all before any.
LEMMA RestEnds ==
  ASSUME NEW d \in Datagrams
  PROVE  /\ Rest(d, Len(encode_slip(d))) = <<>>
         /\ Rest(d, 0) = encode_slip(d)
<1> DEFINE f == encode_slip(d)
<1>1. f \in Seq(Byte) /\ Len(f) \in Nat BY FramePlaces, LenProperties
<1> HIDE DEF f
<1>2. SubSeq(f, Len(f) + 1, Len(f)) = <<>> BY <1>1
<1>3. SubSeq(f, 0 + 1, Len(f)) = f
  <2> DEFINE a == SubSeq(f, 0 + 1, Len(f))
  <2>1. \A i \in 0 + 1 .. Len(f) : f[i] \in Byte BY <1>1, ElementOfSeq
  <2>2. a \in Seq(Byte) /\ Len(a) = Len(f) BY <1>1, <2>1, SubSeqProperties
  <2>3. \A i \in 1 .. Len(f) : a[i] = f[i] BY <1>1
  <2> HIDE DEF a
  <2>4. a = f BY <1>1, <2>2, <2>3, SameSeq
  <2> QED BY <2>4 DEF a
<1> QED BY <1>2, <1>3 DEF Rest, f

\* One more byte is held.
LEMMA HoldsMore ==
  ASSUME NEW n \in Nat, RxOK(rx, n), n = Len(sent), sent' = sent,
         NEW d \in Datagrams, NEW i \in 0 .. Len(Raw(d)) - 1, Holds(d, i), Store(Raw(d)[i + 1])
  PROVE  Holds(d, i + 1)'
<1> DEFINE r == Raw(d)
<1>1. r \in Seq(Byte) /\ Len(r) \in Nat BY RawType
<1>2. /\ rx' = [started |-> rx.started, esc |-> FALSE, buf |-> Append(rx.buf, r[i + 1]),
                from |-> IF rx.buf = <<>> THEN n ELSE rx.from]
  BY DEF Store, RxOK
<1>3. rx.started /\ rx.buf = SubSeq(r, 1, i) /\ (i > 0 => rx.from = n) BY DEF Holds
<1>i. i \in Nat /\ i < Len(r) BY <1>1
<1> HIDE DEF r
<1>4. Append(SubSeq(r, 1, i), r[i + 1]) = SubSeq(r, 1, i + 1)
  <2> DEFINE a == SubSeq(r, 1, i)
             b == SubSeq(r, 1, i + 1)
             c == Append(a, r[i + 1])
  <2>1. \A k \in 1 .. i + 1 : r[k] \in Byte BY <1>1, <1>i, ElementOfSeq
  <2>2. a \in Seq(Byte) /\ Len(a) = i /\ \A k \in 1 .. i : a[k] = r[k]
    BY <1>1, <1>i, <2>1, SubSeqProperties
  <2>3. b \in Seq(Byte) /\ Len(b) = i + 1 /\ \A k \in 1 .. i + 1 : b[k] = r[k]
    BY <1>1, <1>i, <2>1, SubSeqProperties
  <2> HIDE DEF a, b
  <2>4. c \in Seq(Byte) /\ Len(c) = i + 1 /\ (\A k \in 1 .. i : c[k] = a[k]) /\ c[i + 1] = r[i + 1]
    BY <1>i, <2>1, <2>2, AppendProperties
  <2> HIDE DEF c
  <2>5. \A k \in 1 .. i + 1 : c[k] = b[k]
    <3> TAKE k \in 1 .. i + 1
    <3>1. CASE k = i + 1 BY <3>1, <2>3, <2>4
    <3>2. CASE k # i + 1
      <4>1. k \in 1 .. i BY <3>2, <1>i
      <4> QED BY <4>1, <2>2, <2>3, <2>4
    <3> QED BY <3>1, <3>2
  <2>6. c = b BY <2>3, <2>4, <2>5, SameSeq
  <2> QED BY <2>6 DEF a, b, c
<1>5. rx'.started /\ rx'.buf = SubSeq(r, 1, i + 1) BY <1>2, <1>3, <1>4
<1>6. rx'.from = n
  <2>1. CASE i = 0
    <3>1. rx.buf = <<>> BY <1>3, <2>1, <1>1
    <3> QED BY <1>2, <3>1
  <2>2. CASE i > 0 BY <1>2, <1>3, <2>2
  <2> QED BY <2>1, <2>2, <1>i
<1>7. Len(sent') = n OBVIOUS
<1> QED BY <1>5, <1>6, <1>7 DEF Holds, r

\* The frame of d is being read: a byte more, wherever the receiver is in it.
LEMMA ReadTracks ==
  ASSUME SlipInv, Outside, NEW n \in Nat, n = Len(sent), sent' = sent,
         NEW d \in Datagrams, d = sent[n], NEW pos, FramePos(d, pos),
         NEW clean \in BOOLEAN, Track(d, pos, clean),
         line # <<>>, line' = Tail(line), Decode(Head(line))
  PROVE  Track(d, pos, clean)'
<1> DEFINE f == encode_slip(d)
           r == Raw(d)
           N == Len(r)
<1>1. /\ f \in Seq(Byte) /\ Len(f) \in Nat /\ Len(f) >= 2 /\ f[1] = END /\ f[Len(f)] = END
  BY FramePlaces, LenProperties
<1>2. r \in Seq(Byte) /\ N \in Nat /\ N >= 7 /\ N <= RxSize BY RawType
<1>3. /\ pos \in [0 .. N -> Nat] /\ pos[0] = 1 /\ pos[N] = Len(f) - 1
      /\ \A i \in 0 .. N : pos[i] <= Len(f) - 1
  BY DEF FramePos, Places
<1>4. \A i \in 1 .. N :
        /\ pos[i] = pos[i - 1] + Len(Escaped(r[i]))
        /\ \A x \in 1 .. Len(Escaped(r[i])) : f[pos[i - 1] + x] = Escaped(r[i])[x]
  BY DEF FramePos, Places
<1>5. RxOK(rx, n) BY DEF SlipInv
<1>6. Len(sent') = n OBVIOUS
<1>r. \A i \in 1 .. N : r[i] \in Byte BY <1>2, ElementOfSeq
<1> HIDE DEF f, N
<1>7. CASE line = f /\ (clean => Fresh)
  <2>1. f = Rest(d, 0) BY RestEnds DEF f
  <2>2. Head(line) = END /\ line' = Rest(d, 1)
    <3>1. Head(Rest(d, 0)) = f[0 + 1] /\ Tail(Rest(d, 0)) = Rest(d, 0 + 1)
      BY <1>1, RestHead, SMTT(30) DEF f
    <3> QED BY <3>1, <2>1, <1>1, <1>7
  <2>3. /\ ~rx'.esc /\ (Fresh => rx'.started /\ rx'.buf = <<>>)
    BY <2>2, <1>5, DecodeEnd
  <2>4. SubSeq(r, 1, 0) = <<>> BY <1>2
  <2>5. Between(d, pos, 0, clean)'
    <3>1. ASSUME clean PROVE Holds(d, 0)'
      <4>1. rx'.started /\ rx'.buf = SubSeq(Raw(d), 1, 0) BY <1>7, <2>3, <2>4, <3>1, Zenon
      <4>2. ~(0 > 0) OBVIOUS
      <4> QED BY <4>1, <4>2, Zenon DEF Holds
    <3>2. line' = Rest(d, pos[0]) BY <2>2, <1>3
    <3> QED BY <3>1, <3>2, <2>3 DEF Between
  <2>6. 0 \in 0 .. Len(Raw(d)) BY <1>2 DEF N
  <2> QED BY <2>5, <2>6 DEF Track
<1>8. ASSUME NEW i \in 0 .. N, Between(d, pos, i, clean) PROVE Track(d, pos, clean)'
  <2>1. line = Rest(d, pos[i]) /\ ~rx.esc /\ (clean => Holds(d, i)) BY <1>8 DEF Between
  <2>2. i \in Nat /\ pos[i] \in Nat /\ pos[i] < Len(f) BY <1>1, <1>2, <1>3
  <2>3. Head(line) = f[pos[i] + 1] /\ line' = Rest(d, pos[i] + 1)
    BY <2>1, <2>2, RestHead DEF f
  <2>4. clean => rx.started /\ rx.buf = SubSeq(r, 1, i) /\ Len(rx.buf) = i
    <3>1. Len(SubSeq(r, 1, i)) = i BY <1>2, <2>2
    <3> QED BY <2>1, <3>1 DEF Holds
  <2>5. CASE i = N
    <3>1. pos[i] + 1 = Len(f) BY <2>5, <1>1, <1>3
    <3>2. Decode(END) /\ line' = <<>>
      <4>1. Rest(d, Len(f)) = <<>> BY RestEnds DEF f
      <4> QED BY <3>1, <2>3, <1>1, <4>1
    <3>3. /\ ~rx'.esc /\ rx'.buf = <<>>
          /\ rx.started /\ rx.buf # <<>> => Return(rx.buf)
      BY <3>2, <2>1, <1>5, DecodeEnd
    <3>4. ASSUME clean, d.port = BindPort PROVE Delivered(n)'
      <4>1. rx.buf = r
        <5> DEFINE a == SubSeq(r, 1, N)
        <5>1. \A k \in 1 .. N : r[k] \in Byte BY <1>r
        <5>2. a \in Seq(Byte) /\ Len(a) = N /\ \A k \in 1 .. N : a[k] = r[k]
          BY <1>2, <5>1, SubSeqProperties
        <5>3. rx.buf = a BY <2>4, <2>5, <3>4
        <5> HIDE DEF a
        <5>4. a = r BY <5>2, <1>2, SameSeq DEF N
        <5> QED BY <5>3, <5>4
      <4>2. rx.from = n BY <2>1, <2>5, <3>4, <1>2 DEF Holds
      <4>3. rx.buf # <<>> /\ rx.started
        <5>1. Len(rx.buf) >= 7 BY <2>4, <2>5, <3>4, <1>2
        <5>2. rx.buf # <<>> BY <5>1
        <5> QED BY <5>2, <2>4, <3>4
      <4>4. Return(rx.buf) BY <4>3, <3>3
      <4>5. /\ IsDatagram(r) /\ parse_udp_packet(r) = d.data /\ r[5] = BindPort
            /\ d.data # <<>>
        BY RawAccepted, <3>4
      <4> DEFINE m == [from |-> n, data |-> d.data]
      <4>6. got' = Append(got, m)
        <5>1. Return(r) BY <4>1, <4>4
        <5>2. got' = Append(got, [from |-> rx.from, data |-> parse_udp_packet(r)])
          BY <5>1, <4>5 DEF Return
        <5> QED BY <5>2, <4>2, <4>5
      <4>7. got \in Seq([from : 1 .. n, data : Seq(Byte)]) BY DEF SlipInv, GotOK
      <4>8. Len(got) + 1 \in DOMAIN Append(got, m) /\ Append(got, m)[Len(got) + 1] = m
        <5> HIDE DEF m
        <5>1. Len(got) \in Nat BY <4>7, LenProperties
        <5> QED BY <4>7, <5>1
      <4>9. \E x \in DOMAIN got' : got'[x] = [from |-> n, data |-> sent'[n].data]
        BY <4>6, <4>8, Zenon
      <4> QED BY <4>9 DEF Delivered
    <3>5. Fresh' BY <3>3 DEF Fresh
    <3>6. clean /\ d.port = BindPort => Delivered(Len(sent))'
      BY <3>4, <1>6 DEF Delivered
    <3> QED BY <3>2, <3>5, <3>6 DEF Track
  <2>6. CASE i < N
    <3> DEFINE b == r[i + 1]
               j == i + 1
    <3>1. j \in 1 .. N /\ j - 1 = i /\ i \in 0 .. N - 1 /\ j \in 0 .. N BY <2>2, <2>6, <1>2
    <3>2. b \in Byte BY <3>1, <1>r
    <3>3. /\ pos[j] = pos[i] + Len(Escaped(b))
          /\ \A x \in 1 .. Len(Escaped(b)) : f[pos[i] + x] = Escaped(b)[x]
      BY <3>1, <1>4
    <3>4. Decode(Escaped(b)[1])
      <4>1. 1 \in 1 .. Len(Escaped(b))
        <5> DEFINE l == Len(Escaped(b))
        <5>1. l = 1 \/ l = 2 BY <3>2, EscapedType
        <5> HIDE DEF l
        <5>2. 1 \in 1 .. l BY <5>1
        <5> QED BY <5>2 DEF l
      <4>2. f[pos[i] + 1] = Escaped(b)[1] BY <4>1, <3>3
      <4> QED BY <4>2, <2>3
    <3>5. clean => Len(rx.buf) < RxSize
      <4>1. RxSize \in Nat BY SlipAssumption DEF Byte
      <4> QED BY <2>2, <2>4, <2>6, <1>2, <4>1
    <3>6. CASE b \in {END, ESC}
      <4>1. Decode(ESC) BY <3>2, <3>4, <3>6, EscapedType
      <4>2. /\ rx'.esc \/ ~rx'.started
            /\ rx.started /\ Len(rx.buf) < RxSize => rx' = [rx EXCEPT !.esc = TRUE]
        BY <4>1, <1>5, <2>1, DecodeEsc
      <4>3. ASSUME clean PROVE rx'.esc /\ Holds(d, i)'
        <5>1. rx' = [rx EXCEPT !.esc = TRUE] BY <4>3, <4>2, <2>4, <3>5
        <5>2. rx'.esc /\ rx'.started = rx.started /\ rx'.buf = rx.buf /\ rx'.from = rx.from
          BY <5>1, <1>5 DEF RxOK
        <5> QED BY <5>2, <4>3, <2>1 DEF Holds
      <4>4. AfterEsc(d, pos, i, clean)'
        BY <2>3, <2>6, <3>6, <4>2, <4>3 DEF AfterEsc, N
      <4> QED BY <4>4 DEF Track, N
    <3>7. CASE b \notin {END, ESC}
      <4>1. Decode(b) /\ Len(Escaped(b)) = 1
        <5>1. Escaped(b)[1] = b /\ Len(Escaped(b)) = 1 BY <3>2, <3>7, EscapedType
        <5> QED BY <5>1, <3>4
      <4>2. ~rx'.esc /\ (rx.started /\ Len(rx.buf) < RxSize => Store(b))
        BY <4>1, <1>5, <2>1, <3>2, <3>7, DecodePlain
      <4>3. ASSUME clean PROVE Holds(d, i + 1)'
        <5>1. Store(Raw(d)[i + 1]) BY <4>3, <4>2, <2>4, <3>5
        <5>2. Holds(d, i) BY <4>3, <2>1
        <5> QED BY <5>1, <5>2, <3>1, <1>5, HoldsMore DEF N
      <4>4. line' = Rest(d, pos[j]) BY <4>1, <2>3, <3>3
      <4>5. Between(d, pos, j, clean)' BY <4>2, <4>3, <4>4 DEF Between
      <4> QED BY <3>1, <4>5 DEF Track, N
    <3> QED BY <3>6, <3>7
  <2> QED BY <2>2, <2>5, <2>6, <1>2
<1>9. ASSUME NEW i \in 0 .. N, AfterEsc(d, pos, i, clean) PROVE Track(d, pos, clean)'
  <2> DEFINE b == r[i + 1]
             j == i + 1
  <2>1. /\ i < N /\ b \in {END, ESC} /\ line = Rest(d, pos[i] + 1)
        /\ (rx.esc \/ ~rx.started) /\ (clean => rx.esc /\ Holds(d, i))
    BY <1>9 DEF AfterEsc, N
  <2>2. /\ i \in Nat /\ j \in 1 .. N /\ j - 1 = i /\ i \in 0 .. N - 1 /\ j \in 0 .. N
    BY <2>1, <1>2
  <2>3. b \in Byte BY <2>2, <1>r
  <2>4. Len(Escaped(b)) = 2 BY <2>1, <2>3, EscapedType
  <2>5. pos[j] = pos[i] + 2 /\ f[pos[i] + 2] = Escaped(b)[2]
    <3>1. /\ pos[j] = pos[i] + Len(Escaped(b))
          /\ \A x \in 1 .. Len(Escaped(b)) : f[pos[i] + x] = Escaped(b)[x]
      BY <2>2, <1>4
    <3>2. 2 \in 1 .. Len(Escaped(b)) BY <2>4
    <3> QED BY <2>4, <3>1, <3>2
  <2>6. pos[i] \in Nat /\ pos[i] + 1 < Len(f) BY <1>1, <1>3, <2>2, <2>5
  <2>7. Decode(Escaped(b)[2]) /\ line' = Rest(d, pos[j])
    <3> DEFINE p == pos[i] + 1
    <3>1. p \in Nat /\ p < Len(f) /\ p + 1 = pos[i] + 2 BY <2>6
    <3>2. line = Rest(d, p) BY <2>1
    <3> HIDE DEF p
    <3>3. Head(line) = f[p + 1] /\ line' = Rest(d, p + 1) BY <3>1, <3>2, RestHead DEF f
    <3> QED BY <3>1, <3>3, <2>5
  <2>8. ~rx'.esc /\ (rx.esc => Store(b)) BY <2>1, <2>3, <2>7, <1>5, DecodeCode
  <2>9. ASSUME clean PROVE Holds(d, i + 1)'
    <3>1. Store(Raw(d)[i + 1]) BY <2>9, <2>8, <2>1
    <3>2. Holds(d, i) BY <2>9, <2>1
    <3> QED BY <3>1, <3>2, <2>2, <1>5, HoldsMore DEF N
  <2>10. Between(d, pos, j, clean)' BY <2>7, <2>8, <2>9 DEF Between
  <2> QED BY <2>2, <2>10 DEF Track, N
<1> QED BY <1>7, <1>8, <1>9 DEF Track, N, f

\* An unhurt frame that is read to its end leaves the receiver outside of a
\* frame, and was handed on if the receiver was in step.
LEMMA FrameEnd ==
  ASSUME NEW d \in Datagrams, NEW pos, FramePos(d, pos), NEW clean \in BOOLEAN,
         Track(d, pos, clean), line = <<>>
  PROVE  Fresh /\ (clean /\ d.port = BindPort => Delivered(Len(sent)))
<1> DEFINE f == encode_slip(d)
           N == Len(Raw(d))
<1>1. f \in Seq(Byte) /\ Len(f) \in Nat /\ Len(f) >= 2 BY FramePlaces, LenProperties
<1>2. N \in Nat /\ Raw(d) \in Seq(Byte) BY RawType
<1>3. pos \in [0 .. N -> Nat] /\ \A i \in 0 .. N : pos[i] <= Len(f) - 1
  BY DEF FramePos, Places
<1>4. \A p \in Nat : p < Len(f) => line # Rest(d, p) BY RestHead
<1> HIDE DEF f, N
<1>5. line # f BY <1>1
<1>6. ASSUME NEW i \in 0 .. N PROVE ~Between(d, pos, i, clean)
  <2>1. pos[i] \in Nat /\ pos[i] < Len(f) BY <1>1, <1>2, <1>3
  <2> QED BY <2>1, <1>4 DEF Between
<1>7. ASSUME NEW i \in 0 .. N PROVE ~AfterEsc(d, pos, i, clean)
  <2> SUFFICES ASSUME AfterEsc(d, pos, i, clean) PROVE FALSE OBVIOUS
  <2> DEFINE b == Raw(d)[i + 1]
             j == i + 1
  <2>1. i < N /\ b \in {END, ESC} /\ line = Rest(d, pos[i] + 1) BY DEF AfterEsc, N
  <2>2. i \in Nat /\ j \in 1 .. N /\ j - 1 = i /\ j \in 0 .. N BY <2>1, <1>2
  <2>3. b \in Byte BY <2>2, <1>2, ElementOfSeq DEF N
  <2>4. Len(Escaped(b)) = 2 BY <2>1, <2>3, EscapedType
  <2>5. pos[j] = pos[i] + Len(Escaped(b)) BY <2>2 DEF FramePos, Places, N
  <2>6. pos[i] \in Nat /\ pos[i] + 1 < Len(f) BY <1>1, <1>3, <2>2, <2>4, <2>5
  <2>7. pos[i] + 1 \in Nat BY <2>6
  <2> QED BY <2>1, <2>6, <2>7, <1>4
<1> QED BY <1>5, <1>6, <1>7 DEF Track, f, N

\* The invariant gives Resync.
LEMMA ResyncInvResync == ResyncInv => Resync
<1> SUFFICES ASSUME ResyncInv, line = <<>>, NEW k \in DOMAIN sent,
                    sent[k].port = BindPort, {k - 1, k} \cap hit = {}
             PROVE  \E i \in DOMAIN got : got[i] = [from |-> k, data |-> sent[k].data]
  BY DEF Resync
<1> DEFINE n == Len(sent)
<1>1. sent \in Seq(Datagrams) /\ n \in Nat /\ k \in 1 .. n /\ sent[k] \in Datagrams
  <2>1. sent \in Seq(Datagrams) BY DEF ResyncInv, SlipInv, LineOK
  <2> QED BY <2>1, LenProperties, ElementOfSeq
<1> HIDE DEF n
<1>2. CASE k # n
  <2>1. k \in 1 .. Len(sent) - 1 BY <1>1, <1>2 DEF n
  <2>2. Delivered(k) BY <2>1 DEF ResyncInv, PastDelivered
  <2> QED BY <2>2 DEF Delivered
<1>3. CASE k = n
  <2>1. sent # <<>> /\ Len(sent) = k BY <1>1, <1>3 DEF n
  <2>2. k \notin hit /\ k - 1 \notin hit OBVIOUS
  <2>3. LastTracked BY <2>1, <2>2 DEF ResyncInv
  <2>4. PICK d \in Datagrams, clean \in BOOLEAN : \E pos :
          /\ d = sent[Len(sent)] /\ clean = (Len(sent) - 1 \notin hit)
          /\ FramePos(d, pos) /\ Track(d, pos, clean)
    BY <2>3, Zenon DEF LastTracked
  <2>5. Delivered(Len(sent))
    <3>1. d = sent[k] /\ clean = TRUE BY <2>1, <2>2, <2>4
    <3> QED BY <3>1, <2>4, FrameEnd
  <2> QED BY <2>1, <2>5 DEF Delivered
<1> QED BY <1>2, <1>3

\* It holds at the start.
LEMMA InitResync == Init => ResyncInv
<1> SUFFICES ASSUME Init PROVE ResyncInv OBVIOUS
<1>1. SlipInv BY InitSlip
<1>2. sent = <<>> /\ rx = NewCall BY DEF Init
<1>3. Outside /\ Fresh BY <1>2 DEF Outside, Fresh, NewCall
<1>4. PastDelivered
  <2>1. 1 .. Len(sent) - 1 = {} BY <1>2
  <2> QED BY <2>1 DEF PastDelivered
<1> QED BY <1>1, <1>2, <1>3, <1>4 DEF ResyncInv

\* What was handed on stays handed on.
LEMMA DeliveredStays ==
  ASSUME NEW k, Delivered(k), NEW n \in Nat, GotOK(got, n),
         got' = got \/ \E m : got' = Append(got, m),
         sent'[k] = sent[k]
  PROVE  Delivered(k)'
<1>1. PICK i \in DOMAIN got : got[i] = [from |-> k, data |-> sent[k].data] BY DEF Delivered
<1>2. i \in DOMAIN got' /\ got'[i] = got[i]
  <2>1. CASE got' = got BY <2>1
  <2>2. CASE \E m : got' = Append(got, m)
    <3>1. PICK m : got' = Append(got, m) BY <2>2
    <3> DEFINE A == [from : 1 .. n, data : Seq(Byte)]
    <3>2. got \in Seq(A) BY DEF GotOK
    <3> HIDE DEF A
    <3>3. Len(got) \in Nat /\ DOMAIN got = 1 .. Len(got) BY <3>2, LenProperties
    <3>4. DOMAIN Append(got, m) = 1 .. Len(got) + 1 /\ Append(got, m)[i] = got[i]
      BY <3>2, <3>3
    <3>5. i \in 1 .. Len(got) + 1 BY <3>3
    <3> QED BY <3>1, <3>4, <3>5
  <2> QED BY <2>1, <2>2
<1>3. got'[i] = [from |-> k, data |-> sent'[k].data] BY <1>1, <1>2
<1> QED BY <1>2, <1>3 DEF Delivered

\* A return hands on one datagram at most.
LEMMA ReturnGrows ==
  ASSUME NEW buf, Return(buf)
  PROVE  got' = got \/ \E m : got' = Append(got, m)
BY Zenon DEF Return

\* So does every byte.
LEMMA DecodeGrows ==
  ASSUME NEW b, Decode(b)
  PROVE  got' = got \/ \E m : got' = Append(got, m)
<1>1. got' = got \/ Return(rx.buf) \/ Return(<<>>)
  BY DEF Decode, ReadEnd, ReadIgnored, ReadOverflow, ReadEsc, ReadPlain, ReadEscaped
<1> QED BY <1>1, ReturnGrows

\* Without a new frame, the frames before the last one stay handed on.
LEMMA PastStays ==
  ASSUME ResyncInv, sent' = sent, hit \subseteq hit',
         got' = got \/ \E m : got' = Append(got, m)
  PROVE  PastDelivered'
<1>1. GotOK(got, Len(sent)) /\ Len(sent) \in Nat
  <2>1. sent \in Seq(Datagrams) BY DEF ResyncInv, SlipInv, LineOK
  <2> QED BY <2>1, LenProperties DEF ResyncInv, SlipInv
<1>2. ASSUME NEW k \in 1 .. Len(sent') - 1, sent'[k].port = BindPort, {k - 1, k} \cap hit' = {}
      PROVE  Delivered(k)'
  <2>1. k \in 1 .. Len(sent) - 1 /\ sent[k].port = BindPort /\ {k - 1, k} \cap hit = {}
    BY <1>2
  <2>2. Delivered(k) BY <2>1 DEF ResyncInv, PastDelivered
  <2>3. sent'[k] = sent[k] OBVIOUS
  <2> QED BY <1>1, <2>2, <2>3, DeliveredStays
<1> QED BY <1>2 DEF PastDelivered

\* A new frame: the last one was read to its end.
LEMMA WriteResync ==
  ASSUME ResyncInv, SlipInv', NEW d \in Datagrams, sent' = Append(sent, d),
         line = <<>>, rx' = rx, got' = got, hit \subseteq hit',
         Len(sent) + 1 \notin hit' => line' = encode_slip(d)
  PROVE  ResyncInv'
<1> DEFINE n == Len(sent)
<1>1. sent \in Seq(Datagrams) /\ n \in Nat /\ GotOK(got, n)
  <2>1. sent \in Seq(Datagrams) BY DEF ResyncInv, SlipInv, LineOK
  <2> QED BY <2>1, LenProperties DEF ResyncInv, SlipInv
<1>2. /\ Len(sent') = n + 1 /\ sent' # <<>> /\ sent'[n + 1] = d
      /\ \A k \in 1 .. n : sent'[k] = sent[k]
  BY <1>1
<1>3. Resync BY ResyncInvResync
<1>4. PastDelivered'
  <2> SUFFICES ASSUME NEW k \in 1 .. Len(sent') - 1, sent'[k].port = BindPort,
                      {k - 1, k} \cap hit' = {}
               PROVE  Delivered(k)'
    BY DEF PastDelivered
  <2>1. k \in 1 .. n BY <1>1, <1>2
  <2>2. sent'[k] = sent[k] /\ k \in DOMAIN sent BY <2>1, <1>1, <1>2
  <2>3. {k - 1, k} \cap hit = {} OBVIOUS
  <2>4. Delivered(k) BY <1>3, <2>2, <2>3 DEF Resync, Delivered
  <2> QED BY <1>1, <2>2, <2>4, DeliveredStays
<1>5. Outside' BY DEF ResyncInv, Outside
<1>6. n \notin hit' => Fresh'
  <2> SUFFICES ASSUME n \notin hit' PROVE Fresh BY DEF Fresh
  <2>1. CASE sent = <<>> BY <2>1 DEF ResyncInv
  <2>2. CASE sent # <<>>
    <3>1. n \notin hit OBVIOUS
    <3>2. LastTracked BY <2>2, <3>1 DEF ResyncInv
    <3>3. PICK e \in Datagrams, clean \in BOOLEAN : \E pos :
            FramePos(e, pos) /\ Track(e, pos, clean)
      BY <3>2, Zenon DEF LastTracked
    <3> QED BY <3>3, FrameEnd
  <2> QED BY <2>1, <2>2
<1>7. ASSUME Len(sent') \notin hit' PROVE LastTracked'
  <2>1. PICK pos : FramePos(d, pos) BY FramePlaces
  <2>2. line' = encode_slip(d) /\ Len(sent') - 1 = n /\ sent'[Len(sent')] = d
    BY <1>1, <1>2, <1>7
  <2>3. ASSUME NEW clean \in BOOLEAN, clean = (n \notin hit')
        PROVE  Track(d, pos, clean)'
    BY <1>6, <2>2, <2>3 DEF Track
  <2>4. \E clean \in BOOLEAN : clean = (Len(sent') - 1 \notin hit') /\ Track(d, pos, clean)'
    <3> DEFINE c == Len(sent') - 1 \notin hit'
    <3>1. c \in BOOLEAN /\ c = (n \notin hit') BY <2>2
    <3>2. PICK clean \in BOOLEAN : clean = c BY <3>1
    <3>3. Track(d, pos, clean)' BY <2>3, <3>1, <3>2
    <3> QED BY <3>2, <3>3
  <2> QED BY <2>1, <2>2, <2>4 DEF LastTracked
<1>8. sent' # <<>> BY <1>2
<1> QED BY <1>4, <1>5, <1>7, <1>8 DEF ResyncInv

\* Every step keeps the invariant.
LEMMA NextResync ==
  ASSUME ResyncInv, [Next]_vars
  PROVE  ResyncInv'
<1>1. SlipInv /\ SlipInv' BY NextSlip DEF ResyncInv
<1>2. sent \in Seq(Datagrams) /\ Len(sent) \in Nat /\ RxOK(rx, Len(sent)) /\ GotOK(got, Len(sent))
  <2>1. sent \in Seq(Datagrams) BY <1>1 DEF SlipInv, LineOK
  <2> QED BY <1>1, <2>1, LenProperties DEF SlipInv
<1>3. ASSUME line # <<>> PROVE sent # <<>>
  <2>1. Len(sent) >= 1 BY <1>1, <1>3 DEF SlipInv, LineOK
  <2> QED BY <2>1
<1>o. Outside BY DEF ResyncInv
<1>4. ASSUME NEW d \in Datagrams, Send(d) PROVE ResyncInv'
  <2>1. /\ sent' = Append(sent, d) /\ line = <<>> /\ rx' = rx /\ got' = got /\ hit' = hit
        /\ line' = SubSeq(encode_slip(d), 1, Len(encode_slip(d)))
    BY <1>4 DEF Send, Write
  <2>2. line' = encode_slip(d)
    <3>1. Rest(d, 0) = encode_slip(d) BY RestEnds
    <3>2. 0 + 1 = 1 OBVIOUS
    <3> QED BY <2>1, <3>1, <3>2 DEF Rest
  <2> QED BY <1>1, <2>1, <2>2, WriteResync
<1>5. ASSUME NEW d \in Datagrams, SendCutShort(d) PROVE ResyncInv'
  <2>1. /\ sent' = Append(sent, d) /\ line = <<>> /\ rx' = rx /\ got' = got
        /\ hit' = hit \cup {Len(sent) + 1}
    BY <1>5 DEF SendCutShort, Fault, Write
  <2> QED BY <1>1, <2>1, WriteResync
<1>6. CASE Read
  <2>1. /\ line # <<>> /\ line' = Tail(line) /\ Decode(Head(line))
        /\ sent' = sent /\ hit' = hit
    BY <1>6 DEF Read
  <2>2. Outside' BY <1>2, <1>o, <2>1, DecodeOutside
  <2>3. PastDelivered' BY <2>1, PastStays, DecodeGrows
  <2>4. ASSUME Len(sent) \notin hit PROVE LastTracked'
    <3>1. LastTracked BY <1>3, <2>1, <2>4 DEF ResyncInv
    <3>2. PICK d \in Datagrams, clean \in BOOLEAN : \E pos :
            /\ d = sent[Len(sent)] /\ clean = (Len(sent) - 1 \notin hit)
            /\ FramePos(d, pos) /\ Track(d, pos, clean)
      BY <3>1, Zenon DEF LastTracked
    <3>3. PICK pos : FramePos(d, pos) /\ Track(d, pos, clean) BY <3>2
    <3>4. Track(d, pos, clean)' BY <1>1, <1>2, <1>o, <2>1, <3>2, <3>3, ReadTracks
    <3>5. d = sent'[Len(sent')] /\ clean = (Len(sent') - 1 \notin hit') BY <2>1, <3>2
    <3> QED BY <3>3, <3>4, <3>5 DEF LastTracked
  <2>5. sent' # <<>> BY <1>3, <2>1
  <2> QED BY <1>1, <2>1, <2>2, <2>3, <2>4, <2>5 DEF ResyncInv
<1>7. CASE Timeout
  <2>1. line = <<>> /\ line' = <<>> /\ Return(rx.buf) /\ sent' = sent /\ hit' = hit
    BY <1>7 DEF Timeout
  <2>2. rx' = NewCall BY <2>1 DEF Return
  <2>3. Outside' /\ Fresh' BY <2>2 DEF Outside, Fresh, NewCall
  <2>4. got' = got \/ \E m : got' = Append(got, m) BY <2>1, ReturnGrows
  <2>5. PastDelivered' BY <2>1, <2>4, PastStays
  <2>6. ASSUME sent # <<>>, Len(sent) \notin hit PROVE LastTracked'
    <3>1. LastTracked BY <2>6 DEF ResyncInv
    <3>2. PICK d \in Datagrams, clean \in BOOLEAN : \E pos :
            /\ d = sent[Len(sent)] /\ clean = (Len(sent) - 1 \notin hit)
            /\ FramePos(d, pos) /\ Track(d, pos, clean)
      BY <3>1, Zenon DEF LastTracked
    <3>3. PICK pos : FramePos(d, pos) /\ Track(d, pos, clean) BY <3>2
    <3>4. clean /\ d.port = BindPort => Delivered(Len(sent)) BY <2>1, <3>3, FrameEnd
    <3>5. ASSUME Delivered(Len(sent)) PROVE Delivered(Len(sent))'
      <4> DEFINE n == Len(sent)
      <4>1. ASSUME NEW k, k = Len(sent) PROVE Delivered(k)'
        <5>1. Delivered(k) BY <3>5, <4>1
        <5>2. sent'[k] = sent[k] BY <2>1
        <5> QED BY <1>2, <2>4, <5>1, <5>2, DeliveredStays
      <4>2. Len(sent') = Len(sent) BY <2>1
      <4> QED BY <4>1, <4>2 DEF Delivered
    <3>6. Track(d, pos, clean)' BY <2>1, <2>3, <3>4, <3>5 DEF Track
    <3>7. d = sent'[Len(sent')] /\ clean = (Len(sent') - 1 \notin hit') BY <2>1, <3>2
    <3> QED BY <3>3, <3>6, <3>7 DEF LastTracked
  <2> QED BY <1>1, <2>1, <2>3, <2>5, <2>6 DEF ResyncInv
<1>f. ASSUME line # <<>>, Fault(Len(sent)), sent' = sent, Outside',
             got' = got \/ \E m : got' = Append(got, m)
      PROVE  ResyncInv'
  <2>1. hit' = hit \cup {Len(sent)} BY <1>f DEF Fault
  <2>2. PastDelivered' BY <1>f, <2>1, PastStays
  <2>3. sent' # <<>> /\ Len(sent') \in hit' BY <1>3, <1>f, <2>1
  <2> QED BY <1>1, <1>f, <2>2, <2>3 DEF ResyncInv
<1>8. CASE Pause
  <2>1. line # <<>> /\ Fault(Len(sent)) /\ Return(rx.buf) /\ sent' = sent BY <1>8 DEF Pause
  <2>2. rx' = NewCall BY <2>1 DEF Return
  <2>3. Outside' BY <2>2 DEF Outside, NewCall
  <2> QED BY <1>f, <2>1, <2>3, ReturnGrows
<1>9. CASE Lose
  <2>1. line # <<>> /\ Fault(Len(sent)) /\ sent' = sent /\ rx' = rx /\ got' = got
    BY <1>9 DEF Lose
  <2>2. Outside' BY <1>o, <2>1 DEF Outside
  <2> QED BY <1>f, <2>1, <2>2
<1>10. CASE Damage
  <2>1. line # <<>> /\ Fault(Len(sent)) /\ sent' = sent BY <1>10 DEF Damage
  <2>2. PICK b \in Noise \ {Head(line)} : Decode(b) BY <1>10 DEF Damage
  <2>3. Outside' BY <1>2, <1>o, <2>2, DecodeOutside
  <2> QED BY <1>f, <2>1, <2>2, <2>3, DecodeGrows
<1>11. CASE UNCHANGED vars
  BY <1>11, SMTT(30) DEF vars, ResyncInv, SlipInv, LineOK, Outside, PastDelivered, Delivered, Fresh,
     LastTracked, Track, Between, AfterEsc, Holds
<1> QED BY <1>4, <1>5, <1>6, <1>7, <1>8, <1>9, <1>10, <1>11 DEF Next

\* One frame after a fault at the latest the receiver is in step again, whatever
\* bytes were lost, damaged or delayed before, for all datagrams, any number of
\* frames and of faults: decoding undoes encoding, and a frame that is hurt spoils
\* none but itself and the next one.
THEOREM ResyncHolds == Spec => []Resync
<1>1. Init => ResyncInv BY InitResync
<1>2. ResyncInv /\ [Next]_vars => ResyncInv' BY NextResync
<1>3. ResyncInv => Resync BY ResyncInvResync
<1> QED BY <1>1, <1>2, <1>3, PTL DEF Spec
=============================================================================
