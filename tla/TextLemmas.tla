----------------------------- MODULE TextLemmas -----------------------------
(***************************************************************************)
(* Lemmas that several of the proofs share: least elements and             *)
(* induction over the naturals, for sets, and how pieces of a text joined  *)
(* by FlattenSeq lie in it.                                                *)
(***************************************************************************)
EXTENDS Integers, Sequences, SequencesExt, SequenceTheorems, WellFoundedInduction,
        TLAPS

\* A non-empty set of naturals has a least element, and Min is it.
LEMMA MinProperties ==
    ASSUME NEW S, S \subseteq Nat, S # {}
    PROVE  Min(S) \in S /\ \A n \in S : Min(S) <= n
<1> DEFINE R == { ss \in Nat \X Nat : ss[1] < ss[2] }
<1>1. IsWellFoundedOn(R, Nat)
  BY NatLessThanWellFounded DEF OpToRel
<1>2. \A a, b \in Nat : a < b => << a, b >> \in R
  OBVIOUS
<1> HIDE DEF R
<1>3. PICK x \in S : \A y \in S : ~ (<< y, x >> \in R)
  BY <1>1, WFMin
<1>4. \E n \in S : \A y \in S : n <= y
  <2>1. \A y \in S : ~ (y < x)
    BY <1>2, <1>3
  <2> QED
    BY <2>1
<1> QED
  BY <1>4, Zenon DEF Min

\* Induction over the naturals, for a set.
LEMMA AllNaturals ==
    ASSUME NEW S, 0 \in S, \A n \in Nat : n \in S => n + 1 \in S
    PROVE  \A n \in Nat : n \in S
<1> DEFINE T == Nat \ S
<1>1. SUFFICES ASSUME T # {} PROVE FALSE
  OBVIOUS
<1>2. T \subseteq Nat
  OBVIOUS
<1>3. Min(T) \in T /\ \A n \in T : Min(T) <= n
  BY <1>1, <1>2, MinProperties
<1>4. PICK x \in T : \A n \in T : x <= n
  BY <1>3
<1>5. x \in Nat /\ x # 0 /\ x - 1 \in Nat /\ ~(x <= x - 1)
  BY <1>4
<1>6. x - 1 \in S
  BY <1>4, <1>5
<1>7. (x - 1) + 1 = x
  BY <1>5
<1> QED
  BY <1>4, <1>5, <1>6, <1>7

\* f joins the sequences: it gives each of the first of them together.
Joins(f, C, ss) ==
    /\ f \in [0 .. Len(ss) -> Seq(C)]
    /\ f[0] = << >>
    /\ \A i \in 1 .. Len(ss) : f[i] = f[i - 1] \o ss[i]

LEMMA JoinsExist ==
    ASSUME NEW C, NEW ss \in Seq(Seq(C))
    PROVE  \E f : Joins(f, C, ss)
<1> DEFINE S == { n \in Nat : \A t \in Seq(Seq(C)) : Len(t) = n => \E f : Joins(f, C, t) }
<1>1. 0 \in S
  <2> SUFFICES ASSUME NEW t \in Seq(Seq(C)), Len(t) = 0 PROVE \E f : Joins(f, C, t)
    OBVIOUS
  <2>1. PICK f : f = [i \in 0 .. 0 |-> << >>]
    OBVIOUS
  <2>2. << >> \in Seq(C)
    OBVIOUS
  <2>3. f \in [0 .. 0 -> Seq(C)] /\ f[0] = << >>
    BY <2>1, <2>2
  <2>4. Joins(f, C, t)
    BY <2>3 DEF Joins
  <2> QED
    BY <2>4
<1>2. ASSUME NEW n \in Nat, n \in S PROVE n + 1 \in S
  <2> SUFFICES ASSUME NEW t \in Seq(Seq(C)), Len(t) = n + 1 PROVE \E f : Joins(f, C, t)
    OBVIOUS
  <2>1. PICK u : u = [i \in 1 .. n |-> t[i]]
    OBVIOUS
  <2>2. u \in Seq(Seq(C)) /\ Len(u) = n /\ \A i \in 1 .. n : u[i] = t[i]
    BY <2>1
  <2>3. PICK f : Joins(f, C, u)
    BY <1>2, <2>2
  <2>4. PICK g : g = [i \in 0 .. n + 1 |-> IF i = n + 1 THEN f[n] \o t[n + 1] ELSE f[i]]
    OBVIOUS
  <2>5. t[n + 1] \in Seq(C)
    OBVIOUS
  <2>6. f[n] \in Seq(C)
    BY <2>2, <2>3 DEF Joins
  <2>7. f[n] \o t[n + 1] \in Seq(C)
    BY <2>5, <2>6
  <2>8. /\ f \in [0 .. n -> Seq(C)] /\ f[0] = << >>
        /\ \A i \in 1 .. n : f[i] = f[i - 1] \o t[i]
    BY <2>2, <2>3 DEF Joins
  <2>9. g \in [0 .. n + 1 -> Seq(C)] /\ g[0] = << >>
    BY <2>4, <2>7, <2>8
  <2>10. ASSUME NEW i \in 1 .. n + 1 PROVE g[i] = g[i - 1] \o t[i]
    <3>1. CASE i = n + 1
      <4>1. i - 1 = n /\ n # n + 1 /\ n \in 0 .. n + 1 /\ i \in 0 .. n + 1
        BY <3>1
      <4>2. g[i] = f[n] \o t[n + 1] /\ g[i - 1] = f[n]
        BY <2>4, <3>1, <4>1, Zenon
      <4> QED
        BY <3>1, <4>2, Zenon
    <3>2. CASE i # n + 1
      <4>1. i \in 1 .. n /\ i - 1 # n + 1 /\ i - 1 \in 0 .. n + 1 /\ i \in 0 .. n + 1
        BY <3>2
      <4>2. g[i] = f[i] /\ g[i - 1] = f[i - 1]
        BY <2>4, <3>2, <4>1, Zenon
      <4> QED
        BY <2>8, <4>1, <4>2, Zenon
    <3> QED
      BY <3>1, <3>2
  <2>11. Joins(g, C, t)
    BY <2>9, <2>10, Zenon DEF Joins
  <2> QED
    BY <2>11
<1> HIDE DEF S
<1>3. Len(ss) \in S
  <2>1. \A n \in Nat : n \in S
    BY <1>1, <1>2, AllNaturals
  <2> QED
    BY <2>1, LenProperties
<1> QED
  BY <1>3 DEF S

LEMMA FlattenIs ==
    ASSUME NEW C, NEW ss \in Seq(Seq(C)), NEW f, Joins(f, C, ss)
    PROVE  FlattenSeq(ss) = f[Len(ss)]
<1>1. Len(ss) \in Nat
  OBVIOUS
<1>2. CASE Len(ss) = 0
  <2>1. FlattenSeq(ss) = ss /\ ss = << >>
    BY <1>2 DEF FlattenSeq
  <2> QED
    BY <1>2, <2>1 DEF Joins
<1>3. CASE Len(ss) # 0
  <2> DEFINE Eq(h) == h = [i \in 1 .. Len(ss) |-> IF i = 1 THEN ss[i] ELSE h[i - 1] \o ss[i]]
             h == CHOOSE k : Eq(k)
  <2>1. PICK g : g = [i \in 1 .. Len(ss) |-> f[i]]
    OBVIOUS
  <2>2. f[1] = ss[1]
    <3>1. ss[1] \in Seq(C) /\ 1 \in 1 .. Len(ss)
      BY <1>1, <1>3
    <3>2. f[1] = << >> \o ss[1]
      <4>1. 1 - 1 = 0
        OBVIOUS
      <4>2. f[1] = f[1 - 1] \o ss[1] /\ f[0] = << >>
        BY <3>1, Zenon DEF Joins
      <4> QED
        BY <4>1, <4>2, Zenon
    <3> QED
      BY <3>1, <3>2
  <2>3. Eq(g)
    <3>1. ASSUME NEW i \in 1 .. Len(ss)
          PROVE  g[i] = IF i = 1 THEN ss[i] ELSE g[i - 1] \o ss[i]
      <4>1. CASE i = 1
        BY <2>1, <2>2, <4>1
      <4>2. CASE i # 1
        <5>1. i - 1 \in 1 .. Len(ss)
          BY <1>1, <4>2
        <5>2. g[i] = f[i] /\ g[i - 1] = f[i - 1]
          BY <2>1, <5>1, Zenon
        <5> QED
          BY <4>2, <5>2, Zenon DEF Joins
      <4> QED
        BY <4>1, <4>2
    <3>2. g = [i \in 1 .. Len(ss) |-> g[i]]
      BY <2>1
    <3> QED
      BY <3>1, <3>2, Zenon
  <2>4. Eq(h)
    BY <2>3, Zenon
  <2>5. FlattenSeq(ss) = h[Len(ss)]
    BY <1>3, Zenon DEF FlattenSeq
  <2> HIDE DEF h
  <2>6. \A i \in 1 .. Len(ss) : h[i] = IF i = 1 THEN ss[i] ELSE h[i - 1] \o ss[i]
    <3>1. h = [i \in 1 .. Len(ss) |-> IF i = 1 THEN ss[i] ELSE h[i - 1] \o ss[i]]
      BY <2>4
    <3>2. PICK k : k = h
      OBVIOUS
    <3>3. k = [i \in 1 .. Len(ss) |-> IF i = 1 THEN ss[i] ELSE k[i - 1] \o ss[i]]
      BY <3>1, <3>2, Zenon
    <3>4. \A i \in 1 .. Len(ss) : k[i] = IF i = 1 THEN ss[i] ELSE k[i - 1] \o ss[i]
      BY <3>3, Zenon
    <3> QED
      BY <3>2, <3>4, Zenon
  <2> DEFINE S == { n \in Nat : n + 1 <= Len(ss) => h[n + 1] = f[n + 1] }
  <2>7. 0 \in S
    BY <1>1, <1>3, <2>2, <2>6
  <2>8. ASSUME NEW n \in Nat, n \in S PROVE n + 1 \in S
    <3> SUFFICES ASSUME n + 2 <= Len(ss) PROVE h[n + 2] = f[n + 2]
      OBVIOUS
    <3>1. /\ h[n + 1] = f[n + 1] /\ n + 2 \in 1 .. Len(ss) /\ (n + 2) - 1 = n + 1
          /\ n + 2 # 1
      BY <1>1, <2>8
    <3>2. h[n + 2] = h[n + 1] \o ss[n + 2]
      BY <2>6, <3>1
    <3>3. f[n + 2] = f[n + 1] \o ss[n + 2]
      BY <3>1 DEF Joins
    <3> QED
      BY <3>1, <3>2, <3>3
  <2> HIDE DEF S
  <2>9. \A n \in Nat : n \in S
    BY <2>7, <2>8, AllNaturals
  <2>10. Len(ss) - 1 \in Nat /\ (Len(ss) - 1) + 1 = Len(ss)
    BY <1>1, <1>3
  <2>11. h[Len(ss)] = f[Len(ss)]
    <3>1. PICK n \in Nat : n = Len(ss) - 1 /\ n + 1 = Len(ss)
      BY <2>10
    <3>2. n + 1 <= Len(ss)
      BY <1>1, <3>1
    <3>3. n \in S
      BY <2>9
    <3> QED
      BY <3>1, <3>2, <3>3, Zenon DEF S
  <2> QED
    BY <2>5, <2>11
<1> QED
  BY <1>2, <1>3

\* The bytes joined so far stay where they are.
LEMMA JoinsGrow ==
    ASSUME NEW C, NEW ss \in Seq(Seq(C)), NEW f, Joins(f, C, ss),
           NEW k \in 0 .. Len(ss)
    PROVE  /\ Len(f[k]) <= Len(f[Len(ss)])
           /\ \A i \in 1 .. Len(f[k]) : f[Len(ss)][i] = f[k][i]
<1> DEFINE S == { n \in Nat : k + n <= Len(ss) =>
                     /\ Len(f[k]) <= Len(f[k + n])
                     /\ \A i \in 1 .. Len(f[k]) : f[k + n][i] = f[k][i] }
<1>1. Len(ss) \in Nat /\ k \in Nat
  OBVIOUS
<1>2. \A i \in 0 .. Len(ss) : f[i] \in Seq(C)
  BY DEF Joins
<1>3. 0 \in S
  <2>1. k + 0 = k
    BY <1>1
  <2>2. Len(f[k]) \in Nat
    BY <1>2, LenProperties
  <2> QED
    BY <2>1, <2>2
<1>4. ASSUME NEW n \in Nat, n \in S PROVE n + 1 \in S
  <2> SUFFICES ASSUME k + (n + 1) <= Len(ss)
               PROVE  /\ Len(f[k]) <= Len(f[k + (n + 1)])
                      /\ \A i \in 1 .. Len(f[k]) : f[k + (n + 1)][i] = f[k][i]
    OBVIOUS
  <2>1. PICK a, b, c, s : a = f[k] /\ b = f[k + n] /\ c = f[k + (n + 1)] /\ s = ss[k + (n + 1)]
    OBVIOUS
  <2>2. /\ k + (n + 1) \in 1 .. Len(ss) /\ k + n \in 0 .. Len(ss)
        /\ (k + (n + 1)) - 1 = k + n /\ k + n <= Len(ss)
    BY <1>1
  <2>3. c = b \o s
    BY <2>1, <2>2 DEF Joins
  <2>4. s \in Seq(C)
    BY <2>1, <2>2
  <2>5. a \in Seq(C) /\ b \in Seq(C)
    BY <1>2, <2>1, <2>2
  <2>6. Len(a) <= Len(b) /\ \A i \in 1 .. Len(a) : b[i] = a[i]
    BY <1>4, <2>1, <2>2
  <2>7. Len(c) = Len(b) + Len(s) /\ \A i \in 1 .. Len(b) : c[i] = b[i]
    BY <2>3, <2>4, <2>5
  <2>8. Len(a) \in Nat /\ Len(b) \in Nat /\ Len(s) \in Nat
    BY <2>4, <2>5, LenProperties
  <2>9. Len(a) <= Len(c) /\ \A i \in 1 .. Len(a) : c[i] = a[i]
    BY <2>6, <2>7, <2>8
  <2> QED
    BY <2>1, <2>9, Zenon
<1> HIDE DEF S
<1>5. \A n \in Nat : n \in S
  BY <1>3, <1>4, AllNaturals
<1>6. PICK n \in Nat : n = Len(ss) - k /\ k + n = Len(ss) /\ k + n <= Len(ss)
  BY <1>1
<1>7. n \in S
  BY <1>5
<1> QED
  BY <1>6, <1>7, Zenon DEF S
=============================================================================
