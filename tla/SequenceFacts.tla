---------------------------- MODULE SequenceFacts ----------------------------
(***************************************************************************)
(* Induction over the numbers and over sequences, and what FlattenSeq of   *)
(* the community modules computes: the facts that the proofs about         *)
(* containers, streams and metrics share.  The library's own induction     *)
(* theorems take an operator, which the provers cannot instantiate; here   *)
(* the predicate is a set.                                                 *)
(***************************************************************************)
EXTENDS Integers, SequencesExt, SequenceTheorems, WellFoundedInduction, TLAPS

-----------------------------------------------------------------------------
(* Induction. *)

(* Some number of a set is the least. *)
LEMMA LeastNat ==
    ASSUME NEW S \in SUBSET Nat, S # {}
    PROVE  \E n \in S : \A m \in S : n <= m
<1> DEFINE R == {ss \in Nat \X Nat : ss[1] < ss[2]}
<1>1. IsWellFoundedOn(R, Nat)
  BY NatLessThanWellFounded DEF OpToRel
<1>2. PICK x \in S : \A y \in S : ~ (<<y, x>> \in R)
  <2> HIDE DEF R
  <2> QED BY <1>1, WFMin
<1>3. ASSUME NEW y \in S
      PROVE  x <= y
  <2>1. x \in Nat /\ y \in Nat
    OBVIOUS
  <2>2. <<y, x>> \notin R
    BY <1>2
  <2>3. <<y, x>>[1] = y /\ <<y, x>>[2] = x
    OBVIOUS
  <2>4. <<y, x>> \in Nat \X Nat
    BY <2>1
  <2>5. ~ (y < x)
    BY <2>2, <2>3, <2>4
  <2> QED BY <2>1, <2>5
<1> QED BY <1>3

LEMMA Induct ==
    ASSUME NEW S, 0 \in S, \A n \in Nat : n \in S => n + 1 \in S
    PROVE  Nat \subseteq S
<1> SUFFICES ASSUME Nat \ S # {}
             PROVE  FALSE
  OBVIOUS
<1>1. PICK n \in Nat \ S : \A m \in Nat \ S : n <= m
  BY LeastNat
<1>2. n # 0 /\ n - 1 \in Nat
  BY <1>1
<1>3. n - 1 \in S
  BY <1>1, <1>2
<1>4. (n - 1) + 1 \in S
  BY <1>2, <1>3
<1> QED BY <1>1, <1>4

-----------------------------------------------------------------------------
(* Sequences: induction, and what FlattenSeq is. *)

LEMMA SeqInduct ==
    ASSUME NEW X, NEW S, <<>> \in S,
           \A s \in Seq(X), e \in X : s \in S => Append(s, e) \in S
    PROVE  Seq(X) \subseteq S
<1> DEFINE N == {n \in Nat : \A s \in Seq(X) : Len(s) = n => s \in S}
<1>1. 0 \in N
  <2>1. \A s \in Seq(X) : Len(s) = 0 => s = <<>>
    BY EmptySeq
  <2> QED BY <2>1
<1>2. ASSUME NEW n \in Nat, n \in N
      PROVE  n + 1 \in N
  <2> SUFFICES ASSUME NEW s \in Seq(X), Len(s) = n + 1
               PROVE  s \in S
    OBVIOUS
  <2> DEFINE t == [i \in 1 .. n |-> s[i]]
             e == s[n + 1]
  <2>1. n + 1 \in 1 .. Len(s) /\ \A i \in 1 .. n : i \in 1 .. Len(s)
    OBVIOUS
  <2>2. e \in X /\ t \in Seq(X)
    BY <2>1, ElementOfSeq
  <2>3. Len(t) = n
    OBVIOUS
  <2>4. s = Append(t, e)
    <3>1. Append(t, e) \in Seq(X) /\ Len(Append(t, e)) = n + 1
      BY <2>2, <2>3, AppendProperties
    <3>2. \A i \in 1 .. n + 1 : Append(t, e)[i] = s[i]
      <4> TAKE i \in 1 .. n + 1
      <4>1. CASE i = n + 1
        BY <2>2, <2>3, <4>1, AppendProperties
      <4>2. CASE i # n + 1
        <5>1. i \in 1 .. n
          BY <4>2
        <5>2. Append(t, e)[i] = t[i]
          <6> HIDE DEF t, e
          <6> QED BY <2>2, <2>3, <5>1, AppendProperties
        <5> QED BY <5>1, <5>2
      <4> QED BY <4>1, <4>2
    <3> HIDE DEF t, e
    <3> QED BY <3>1, <3>2, SeqEqual
  <2> HIDE DEF t, e
  <2>5. t \in S
    BY <1>2, <2>2, <2>3
  <2> QED BY <2>2, <2>4, <2>5
<1> HIDE DEF N
<1>3. Nat \subseteq N
  BY <1>1, <1>2, Induct
<1> SUFFICES ASSUME NEW s \in Seq(X)
             PROVE  s \in S
  OBVIOUS
<1>4. Len(s) \in N
  BY <1>3, LenProperties
<1> QED BY <1>4 DEF N

(* g gathers the sequences one after the other. *)
Gathers(g, ss) == g[0] = <<>> /\ \A i \in 1 .. Len(ss) : g[i] = g[i - 1] \o ss[i]

LEMMA GatherExists ==
    ASSUME NEW X, NEW ss \in Seq(Seq(X))
    PROVE  \E g \in [0 .. Len(ss) -> Seq(X)] : Gathers(g, ss)
<1> DEFINE S == {u \in Seq(Seq(X)) : \E g \in [0 .. Len(u) -> Seq(X)] : Gathers(g, u)}
<1>1. <<>> \in S
  <2> DEFINE g == [i \in 0 .. 0 |-> <<>>]
  <2>1. <<>> \in Seq(Seq(X)) /\ Len(<<>>) = 0
    OBVIOUS
  <2>2. g \in [0 .. 0 -> Seq(X)] /\ g[0] = <<>>
    OBVIOUS
  <2> HIDE DEF g
  <2>3. Gathers(g, <<>>)
    BY <2>1, <2>2 DEF Gathers
  <2> QED BY <2>1, <2>2, <2>3
<1>2. ASSUME NEW u \in Seq(Seq(X)), NEW e \in Seq(X), u \in S
      PROVE  Append(u, e) \in S
  <2> DEFINE n == Len(u)
             w == Append(u, e)
  <2>1. PICK g \in [0 .. n -> Seq(X)] : Gathers(g, u)
    BY <1>2
  <2>2. n \in Nat /\ w \in Seq(Seq(X)) /\ Len(w) = n + 1 /\ w[n + 1] = e /\ \A i \in 1 .. n : w[i] = u[i]
    BY AppendProperties, LenProperties
  <2> HIDE DEF n, w
  <2> DEFINE last == g[n] \o e
             h == [i \in 0 .. n + 1 |-> IF i = n + 1 THEN last ELSE g[i]]
  <2>3. g[n] \in Seq(X) /\ last \in Seq(X)
    BY <2>2, ConcatProperties
  <2> HIDE DEF last
  <2>4. h \in [0 .. n + 1 -> Seq(X)] /\ h[n + 1] = last /\ \A i \in 0 .. n : h[i] = g[i]
    BY <2>2, <2>3
  <2> HIDE DEF h
  <2>5. h[0] = <<>>
    BY <2>1, <2>2, <2>4 DEF Gathers
  <2>6. ASSUME NEW i \in 1 .. n + 1
        PROVE  h[i] = h[i - 1] \o w[i]
    <3>1. CASE i = n + 1
      <4>1. i - 1 = n /\ n \in 0 .. n
        BY <2>2, <3>1
      <4> QED BY <2>2, <2>4, <3>1, <4>1 DEF last
    <3>2. CASE i # n + 1
      <4>1. i \in 1 .. n /\ i \in 0 .. n /\ i - 1 \in 0 .. n
        BY <2>2, <3>2
      <4>2. g[i] = g[i - 1] \o u[i]
        BY <2>1, <4>1 DEF Gathers, n
      <4> QED BY <2>2, <2>4, <4>1, <4>2
    <3> QED BY <3>1, <3>2
  <2>7. Gathers(h, w)
    BY <2>2, <2>5, <2>6 DEF Gathers
  <2>8. w \in S
    BY <2>2, <2>4, <2>7
  <2> QED BY <2>8 DEF w
<1> HIDE DEF S
<1>3. Seq(Seq(X)) \subseteq S
  BY <1>1, <1>2, SeqInduct
<1> QED BY <1>3 DEF S

LEMMA FlattenIs ==
    ASSUME NEW X, NEW ss \in Seq(Seq(X)), NEW g \in [0 .. Len(ss) -> Seq(X)], Gathers(g, ss)
    PROVE  FlattenSeq(ss) = g[Len(ss)]
<1> DEFINE n == Len(ss)
<1>1. n \in Nat
  BY LenProperties
<1>2. CASE n = 0
  <2>1. ss = <<>>
    BY <1>2, EmptySeq
  <2>2. FlattenSeq(ss) = ss
    BY <1>2 DEF FlattenSeq
  <2> QED BY <1>2, <2>1, <2>2 DEF Gathers
<1>3. CASE n # 0
  <2> DEFINE Eq(f) == f = [i \in 1 .. n |-> IF i = 1 THEN ss[i] ELSE f[i - 1] \o ss[i]]
             flatten == CHOOSE f : Eq(f)
             h == [i \in 1 .. n |-> g[i]]
  <2>1. FlattenSeq(ss) = flatten[n]
    BY <1>3 DEF FlattenSeq
  <2> HIDE DEF n
  <2>2. ASSUME NEW i \in 1 .. n
        PROVE  h[i] = IF i = 1 THEN ss[i] ELSE h[i - 1] \o ss[i]
    <3>1. h[i] = g[i - 1] \o ss[i]
      BY DEF Gathers, n
    <3>2. CASE i = 1
      <4>1. g[i - 1] = <<>>
        BY <3>2 DEF Gathers
      <4>2. ss[i] \in Seq(X)
        BY ElementOfSeq DEF n
      <4> HIDE DEF h
      <4> QED BY <3>1, <3>2, <4>1, <4>2, ConcatEmptySeq
    <3>3. CASE i # 1
      <4>1. i - 1 \in 1 .. n
        BY <1>1, <3>3
      <4>2. h[i - 1] = g[i - 1]
        BY <4>1
      <4> HIDE DEF h
      <4> QED BY <3>1, <3>3, <4>2
    <3> QED BY <3>2, <3>3
  <2>3. h = [i \in 1 .. n |-> h[i]]
    OBVIOUS
  <2> HIDE DEF h
  <2>4. Eq(h)
    BY <2>2, <2>3
  <2>5. Eq(flatten)
    <3> HIDE DEF Eq
    <3> QED BY <2>4
  <2> HIDE DEF flatten
  <2>6. \A i \in 1 .. n : flatten[i] = IF i = 1 THEN ss[i] ELSE flatten[i - 1] \o ss[i]
    <3> DEFINE rhs == [i \in 1 .. n |-> IF i = 1 THEN ss[i] ELSE flatten[i - 1] \o ss[i]]
    <3>1. \A i \in 1 .. n : rhs[i] = IF i = 1 THEN ss[i] ELSE flatten[i - 1] \o ss[i]
      OBVIOUS
    <3>2. flatten = rhs
      BY <2>5
    <3> HIDE DEF rhs
    <3> QED BY <3>1, <3>2
  <2> HIDE DEF Eq
  <2> DEFINE P == {i \in Nat : i + 1 <= n => flatten[i + 1] = h[i + 1]}
  <2>7. 0 \in P
    <3>1. 1 \in 1 .. n /\ 0 + 1 = 1
      BY <1>1, <1>3
    <3>2. flatten[1] = h[1]
      BY <2>2, <2>6, <3>1
    <3> QED BY <3>2
  <2>8. ASSUME NEW i \in Nat, i \in P
        PROVE  i + 1 \in P
    <3> SUFFICES ASSUME (i + 1) + 1 <= n
                 PROVE  flatten[(i + 1) + 1] = h[(i + 1) + 1]
      OBVIOUS
    <3> DEFINE j == (i + 1) + 1
    <3>1. j \in 1 .. n /\ j # 1 /\ j - 1 = i + 1 /\ i + 1 <= n
      BY <1>1
    <3>2. flatten[i + 1] = h[i + 1]
      BY <2>8, <3>1
    <3> HIDE DEF j
    <3>3. flatten[j] = h[j]
      BY <2>2, <2>6, <3>1, <3>2
    <3> QED BY <3>3 DEF j
  <2> HIDE DEF P
  <2>9. Nat \subseteq P
    BY <2>7, <2>8, Induct
  <2>10. n - 1 \in P /\ (n - 1) + 1 = n /\ n \in 1 .. n
    BY <1>1, <1>3, <2>9
  <2>11. flatten[n] = h[n]
    BY <1>1, <2>10 DEF P
  <2> QED BY <2>1, <2>10, <2>11 DEF h, n
<1> QED BY <1>2, <1>3

(* FlattenSeq by its equations. *)
LEMMA FlattenFacts ==
    ASSUME NEW X, NEW ss \in Seq(Seq(X)), NEW s \in Seq(X)
    PROVE  /\ FlattenSeq(<<>>) = <<>>
           /\ FlattenSeq(ss) \in Seq(X)
           /\ FlattenSeq(Append(ss, s)) = FlattenSeq(ss) \o s
<1> DEFINE n == Len(ss)
           w == Append(ss, s)
<1>1. FlattenSeq(<<>>) = <<>>
  BY DEF FlattenSeq
<1>2. n \in Nat /\ w \in Seq(Seq(X)) /\ Len(w) = n + 1 /\ w[n + 1] = s /\ \A i \in 1 .. n : w[i] = ss[i]
  BY AppendProperties, LenProperties
<1> HIDE DEF w
<1>3. PICK g \in [0 .. Len(w) -> Seq(X)] : Gathers(g, w)
  BY <1>2, GatherExists
<1>4. FlattenSeq(w) = g[n + 1] /\ g[n + 1] = g[n] \o s
  <2>1. FlattenSeq(w) = g[Len(w)]
    BY <1>2, <1>3, FlattenIs
  <2>2. n + 1 \in 1 .. Len(w) /\ (n + 1) - 1 = n
    BY <1>2
  <2> QED BY <1>2, <1>3, <2>1, <2>2 DEF Gathers
<1> DEFINE h == [i \in 0 .. n |-> g[i]]
<1>5. h \in [0 .. n -> Seq(X)] /\ h[n] = g[n]
  BY <1>2, <1>3
<1>6. Gathers(h, ss)
  <2>1. h[0] = <<>>
    BY <1>2, <1>3 DEF Gathers
  <2>2. ASSUME NEW i \in 1 .. n
        PROVE  h[i] = h[i - 1] \o ss[i]
    <3>1. i \in 1 .. n + 1 /\ i \in 0 .. n /\ i - 1 \in 0 .. n
      BY <1>2
    <3>2. h[i] = g[i] /\ h[i - 1] = g[i - 1]
      BY <3>1
    <3>3. g[i] = g[i - 1] \o w[i]
      BY <1>2, <1>3, <3>1 DEF Gathers
    <3> HIDE DEF h
    <3> QED BY <1>2, <3>2, <3>3
  <2> HIDE DEF h
  <2> QED BY <2>1, <2>2 DEF Gathers
<1> HIDE DEF h
<1>7. FlattenSeq(ss) = h[n]
  BY <1>5, <1>6, FlattenIs
<1>8. h[n] \in Seq(X)
  BY <1>2, <1>5
<1> QED BY <1>1, <1>4, <1>5, <1>7, <1>8 DEF w

Mapped(F, a) == [i \in DOMAIN a |-> F[a[i]]]
Push(a, e) == Append(a, e)
Cat(s, t) == s \o t

LEMMA FlattenEmpty == FlattenSeq(<<>>) = <<>>
BY DEF FlattenSeq

LEMMA MapAppend ==
    ASSUME NEW X, NEW F, NEW a \in Seq(X), NEW e \in X
    PROVE  /\ Mapped(F, a) \in Seq({F[x] : x \in X})
           /\ Mapped(F, Push(a, e)) = Push(Mapped(F, a), F[e])
<1> DEFINE Y == {F[x] : x \in X}
           n == Len(a)
           b == Append(a, e)
           Fa == [i \in DOMAIN a |-> F[a[i]]]
           Fb == [i \in DOMAIN b |-> F[b[i]]]
<1>1. /\ n \in Nat /\ DOMAIN a = 1 .. n /\ b \in Seq(X) /\ Len(b) = n + 1 /\ DOMAIN b = 1 .. n + 1
      /\ b[n + 1] = e /\ \A i \in 1 .. n : b[i] = a[i]
  BY AppendProperties, LenProperties
<1>2. \A i \in 1 .. n : a[i] \in X
  BY ElementOfSeq
<1> HIDE DEF n, b
<1>3. Fa \in Seq(Y) /\ Len(Fa) = n /\ \A i \in 1 .. n : Fa[i] = F[a[i]]
  BY <1>1, <1>2
<1>4. \A i \in 1 .. n + 1 : b[i] \in X
  BY <1>1, <1>2
<1>5. Fb \in Seq(Y) /\ Len(Fb) = n + 1 /\ \A i \in 1 .. n + 1 : Fb[i] = F[b[i]]
  BY <1>1, <1>4
<1> HIDE DEF Fa, Fb
<1>6. F[e] \in Y
  OBVIOUS
<1> DEFINE c == Append(Fa, F[e])
<1>7. c \in Seq(Y) /\ Len(c) = n + 1 /\ c[n + 1] = F[e] /\ \A i \in 1 .. n : c[i] = Fa[i]
  BY <1>3, <1>6, AppendProperties
<1> HIDE DEF c
<1>8. \A i \in 1 .. n + 1 : Fb[i] = c[i]
  <2> TAKE i \in 1 .. n + 1
  <2>1. CASE i = n + 1
    BY <1>1, <1>5, <1>7, <2>1
  <2>2. CASE i # n + 1
    <3>1. i \in 1 .. n
      BY <1>1, <2>2
    <3> QED BY <1>1, <1>3, <1>5, <1>7, <3>1
  <2> QED BY <2>1, <2>2
<1>9. Fb = c
  BY <1>5, <1>7, <1>8, SeqEqual
<1> QED BY <1>3, <1>9 DEF Fa, Fb, c, b, Mapped, Push

LEMMA OneMore ==
    ASSUME NEW X, NEW s \in Seq(X), NEW e \in X
    PROVE  s \o <<e>> = Append(s, e) /\ s \o <<>> = s
<1>1. s \o <<>> = s
  BY ConcatEmptySeq
<1>2. s \o <<e>> = Append(s, e)
  OBVIOUS
<1> QED BY <1>1, <1>2

-----------------------------------------------------------------------------
(* One element behind, and one sequence behind another. *)

LEMMA PushFacts ==
    ASSUME NEW X, NEW s \in Seq(X), NEW e \in X
    PROVE  /\ Push(s, e) \in Seq(X) /\ Len(Push(s, e)) = Len(s) + 1
           /\ Push(s, e)[Len(s) + 1] = e /\ \A i \in 1 .. Len(s) : Push(s, e)[i] = s[i]
           /\ Len(s) \in Nat /\ DOMAIN s = 1 .. Len(s) /\ DOMAIN Push(s, e) = 1 .. Len(s) + 1
BY AppendProperties, LenProperties DEF Push

LEMMA PushAt ==
    ASSUME NEW X, NEW s \in Seq(X), NEW e \in X, NEW i \in 1 .. Len(s)
    PROVE  Push(s, e)[i] = s[i]
BY AppendProperties DEF Push

LEMMA Unpush ==
    ASSUME NEW X, NEW s \in Seq(X), Len(s) # 0
    PROVE  \E t \in Seq(X) : \E e \in X : s = Push(t, e) /\ e = s[Len(s)] /\ Len(s) = Len(t) + 1
<1> DEFINE n == Len(s) - 1
           t == [i \in 1 .. n |-> s[i]]
           e == s[Len(s)]
<1>1. Len(s) \in Nat /\ n \in Nat /\ n + 1 = Len(s)
  BY LenProperties
<1>2. \A i \in 1 .. Len(s) : s[i] \in X
  BY ElementOfSeq
<1>3. e \in X /\ t \in Seq(X) /\ Len(t) = n
  BY <1>1, <1>2
<1> DEFINE u == Push(t, e)
<1>4. \A i \in 1 .. n : t[i] = s[i]
  OBVIOUS
<1> HIDE DEF t, e, n
<1>5. u \in Seq(X) /\ Len(u) = n + 1 /\ u[n + 1] = e /\ \A i \in 1 .. n : u[i] = t[i]
  <2>1. u \in Seq(X) /\ Len(u) = Len(t) + 1 /\ u[Len(t) + 1] = e
    BY <1>3, PushFacts
  <2>2. \A i \in 1 .. Len(t) : u[i] = t[i]
    BY <1>3, PushAt
  <2> HIDE DEF u
  <2> QED BY <1>3, <2>1, <2>2
<1> HIDE DEF u
<1>6. \A i \in 1 .. Len(s) : s[i] = u[i]
  <2> TAKE i \in 1 .. Len(s)
  <2>1. CASE i = n + 1
    BY <1>1, <1>5, <2>1 DEF e
  <2>2. CASE i # n + 1
    <3>1. i \in 1 .. n
      BY <1>1, <2>2
    <3> QED BY <1>4, <1>5, <3>1
  <2> QED BY <2>1, <2>2
<1>7. s = u
  BY <1>1, <1>5, <1>6, SeqEqual
<1> QED BY <1>1, <1>3, <1>7 DEF u, e

LEMMA CatFacts ==
    ASSUME NEW X, NEW s \in Seq(X), NEW t \in Seq(X)
    PROVE  Cat(s, t) \in Seq(X) /\ Cat(s, <<>>) = s /\ Cat(<<>>, s) = s
BY ConcatProperties, ConcatEmptySeq DEF Cat

LEMMA CatPush ==
    ASSUME NEW X, NEW s \in Seq(X), NEW t \in Seq(X), NEW e \in X
    PROVE  Cat(s, Push(t, e)) = Push(Cat(s, t), e)
<1> DEFINE one == <<e>>
<1>1. one \in Seq(X)
  OBVIOUS
<1>2. t \o one = Append(t, e)
  OBVIOUS
<1>3. (s \o t) \o one = Append(s \o t, e)
  BY ConcatProperties
<1> HIDE DEF one
<1>4. (s \o t) \o one = s \o (t \o one)
  BY <1>1, ConcatAssociative
<1> QED BY <1>2, <1>3, <1>4 DEF Cat, Push

LEMMA PushInduct ==
    ASSUME NEW X, NEW S, <<>> \in S,
           \A s \in Seq(X), e \in X : s \in S => Push(s, e) \in S
    PROVE  Seq(X) \subseteq S
<1>1. \A s \in Seq(X), e \in X : s \in S => Append(s, e) \in S
  BY DEF Push
<1> QED BY <1>1, SeqInduct
=============================================================================
