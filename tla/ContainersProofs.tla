-------------------------- MODULE ContainersProofs --------------------------
(***************************************************************************)
(* Proofs about Containers.  The four parts share no state, so each has an *)
(* invariant of its own.                                                   *)
(***************************************************************************)
EXTENDS Containers, SequenceFacts, FiniteSetTheorems

-----------------------------------------------------------------------------
(* Repeated fields: the conversions of 32-bit integers. *)

LEMMA Limits32 ==
    /\ Low(W32) \in Int /\ High(W32) \in Int /\ Low(W32) <= 0 /\ 0 <= High(W32)
    /\ Low(W64) \in Int /\ High(W64) \in Int /\ 2 ^ W64 - 1 \in Int
    /\ Low(W64) <= Low(W32) /\ High(W32) <= High(W64)
    /\ W32 \in {W32, W64} /\ W64 \in {W32, W64}
<1> DEFINE h == 2 ^ (W32 - 1)
           g == 2 ^ (W64 - 1)
<1>1. /\ h \in Nat \ {0} /\ 2 ^ W32 = 2 * h
      /\ g \in Nat \ {0} /\ 2 ^ W64 = 2 * g
      /\ 2 ^ W32 <= g
  BY PowersOfTwo
<1>2. Low(W32) = -h /\ High(W32) = h - 1 /\ Low(W64) = -g /\ High(W64) = g - 1
  BY DEF Low, High
<1> HIDE DEF h, g
<1> QED BY <1>1, <1>2

LEMMA Wraps ==
    ASSUME NEW w \in {W32, W64}, NEW n \in Int
    PROVE  /\ AsSigned(n, w) \in Int /\ Low(w) <= AsSigned(n, w) /\ AsSigned(n, w) <= High(w)
           /\ Low(w) <= n /\ n <= High(w) => AsSigned(n, w) = n
<1> DEFINE q == 2 ^ w
           h == 2 ^ (w - 1)
<1>1. h \in Nat \ {0} /\ q = 2 * h
  BY PowersOfTwo
<1>2. /\ Low(w) = -h /\ High(w) = h - 1
      /\ AsSigned(n, w) = IF n % q > h - 1 THEN (n % q) - q ELSE n % q
  BY DEF AsSigned, Low, High
<1> HIDE DEF q, h
<1>3. q \in Nat \ {0}
  BY <1>1
<1>4. /\ n % q \in 0 .. q - 1
      /\ 0 <= n /\ n < q => n % q = n
      /\ -q <= n /\ n < 0 => n % q = n + q
  BY <1>3
<1> QED BY <1>1, <1>2, <1>4

LEMMA ScalarIsInteger ==
    ASSUME NEW sv, sv.n \in Int
    PROVE  SvIV(sv) \in Int
<1>1. CASE sv.k \in {"iv", "uv", "ref"}
  <2>1. SvIV(sv) = AsSigned(sv.n, W64)
    BY <1>1 DEF SvIV
  <2> QED BY <2>1, Limits32, Wraps
<1>2. CASE sv.k \in {"nv", "num", "frac", "exp", "big"}
  <2>1. SvIV(sv) = IF Number(sv) > High(W64)
                   THEN AsSigned(Clamp(Number(sv), 0, 2 ^ W64 - 1), W64)
                   ELSE Clamp(Number(sv), Low(W64), High(W64))
    BY <1>2 DEF SvIV
  <2>2. Number(sv) \in Int
    <3>1. ASSUME NEW a \in Nat, NEW b \in Int
          PROVE  a * b \in Int
      OBVIOUS
    <3>2. Radix \in Nat
      BY ConvertAssumption
    <3>3. Radix * sv.n \in Int
      BY <3>1, <3>2
    <3>4. Truncate(sv.n) \in Int
      BY DEF Truncate
    <3>5. Number(sv) \in {Truncate(sv.n), Radix * sv.n, sv.n}
      BY DEF Number
    <3> QED BY <3>3, <3>4, <3>5
  <2>3. Clamp(Number(sv), 0, 2 ^ W64 - 1) \in Int /\ Clamp(Number(sv), Low(W64), High(W64)) \in Int
    BY <2>2, Limits32 DEF Clamp
  <2>4. AsSigned(Clamp(Number(sv), 0, 2 ^ W64 - 1), W64) \in Int
    BY <2>3, Limits32, Wraps
  <2> QED BY <2>1, <2>3, <2>4
<1>3. CASE sv.k \notin {"iv", "uv", "ref", "nv", "num", "frac", "exp", "big"}
  <2>1. SvIV(sv) = 0
    BY <1>3 DEF SvIV
  <2> QED BY <2>1
<1> QED BY <1>1, <1>2, <1>3

Ints32 == {n \in Int : Low(W32) <= n /\ n <= High(W32)}

LEMMA Int32Elements ==
    /\ 0 \in Ints32
    /\ \A sv : sv.n \in Int => /\ BatchRaw(sv, "int32") \in Ints32
                               /\ ConvertSingular(sv, "int32") \subseteq Ints32
    /\ \A v \in Ints32 : BatchRaw(UpbToSv_BatchRaw(v, "int32"), "int32") = v
    /\ Least("int32") .. Greatest("int32") \subseteq Ints32
<1>1. 0 \in Ints32
  BY Limits32 DEF Ints32
<1>2. ASSUME NEW sv, sv.n \in Int
      PROVE  /\ BatchRaw(sv, "int32") \in Ints32
             /\ ConvertSingular(sv, "int32") \subseteq Ints32
  <2>1. BatchRaw(sv, "int32") = AsSigned(SvIV(sv), W32)
    BY DEF BatchRaw
  <2>2. ConvertSingular(sv, "int32") = Convert32(sv, "int32")
    BY DEF ConvertSingular
  <2>3. ConvertSingular(sv, "int32") \subseteq {AsSigned(SvIV(sv), W32)}
    BY <2>2 DEF Convert32
  <2>4. AsSigned(SvIV(sv), W32) \in Ints32
    BY <1>2, ScalarIsInteger, Limits32, Wraps DEF Ints32
  <2> QED BY <2>1, <2>3, <2>4
<1>3. ASSUME NEW v \in Ints32
      PROVE  BatchRaw(UpbToSv_BatchRaw(v, "int32"), "int32") = v
  <2> DEFINE back == [k |-> "iv", n |-> v]
  <2>1. UpbToSv_BatchRaw(v, "int32") = back
    BY DEF UpbToSv_BatchRaw
  <2>2. back.k = "iv" /\ back.n = v
    OBVIOUS
  <2> HIDE DEF back
  <2>3. SvIV(back) = AsSigned(v, W64)
    BY <2>2 DEF SvIV
  <2>4. v \in Int /\ Low(W32) <= v /\ v <= High(W32) /\ Low(W64) <= v /\ v <= High(W64)
    BY Limits32 DEF Ints32
  <2>5. AsSigned(v, W64) = v /\ AsSigned(v, W32) = v
    BY <2>4, Limits32, Wraps
  <2>6. BatchRaw(back, "int32") = AsSigned(SvIV(back), W32)
    BY DEF BatchRaw
  <2> QED BY <2>1, <2>3, <2>5, <2>6
<1>4. Least("int32") .. Greatest("int32") \subseteq Ints32
  <2>1. Least("int32") = Low(W32) /\ Greatest("int32") = High(W32)
    BY DEF Least, Greatest
  <2> QED BY <2>1, Limits32 DEF Ints32
<1> QED BY <1>1, <1>2, <1>3, <1>4
-----------------------------------------------------------------------------
(* Repeated fields: their arrays. *)

Elems ==
    CASE etype = "message" -> Nat
      [] etype = "string" -> {Own, Foreign}
      [] etype = "int32" -> Ints32

RepeatedShape ==
    /\ etype \in {"int32", "string", "message"}
    /\ arrays \in Seq(Seq(Elems))
    /\ field \in [RepeatedFields -> 0 .. Len(arrays)]
    /\ handle \in [RepeatedFields -> 0 .. Len(arrays)]
    /\ stale \in [RepeatedFields -> BOOLEAN]

(* A list that was got and not replaced is the field's, and no other field  *)
(* has it.                                                                 *)
FieldsAndHandles ==
    /\ \A f \in RepeatedFields : handle[f] # 0 /\ ~stale[f] => field[f] = handle[f]
    /\ \A f, g \in RepeatedFields : field[f] = field[g] /\ field[f] # 0 => f = g

(* No message is twice in the arrays A. *)
Unshared(A) ==
    \A a, b \in DOMAIN A : \A i \in DOMAIN A[a], j \in DOMAIN A[b] :
        A[a][i] = A[b][j] /\ A[a][i] # 0 => a = b /\ i = j

RepeatedIInv ==
    /\ RepeatedShape
    /\ FieldsAndHandles
    /\ etype = "message" /\ ~torn => Unshared(arrays)

(* Memo: what a generated getter has kept is the field's array, unless a    *)
(* write went past it.                                                     *)
MemoIInv ==
    /\ memo \in [RepeatedFields -> 0 .. Len(arrays)]
    /\ \A f \in RepeatedFields : memo[f] # 0 /\ f \notin bypassed => memo[f] = field[f]

LEMMA ElemsByType ==
    ASSUME RepeatedShape
    PROVE  /\ etype = "message" => Elems = Nat
           /\ etype = "string" => Elems = {Own, Foreign}
           /\ etype = "int32" => Elems = Ints32
BY DEF Elems

LEMMA ZeroIsElement == RepeatedShape => 0 \in Elems
<1> SUFFICES ASSUME RepeatedShape
             PROVE  0 \in Elems
  OBVIOUS
<1>1. etype \in {"int32", "string", "message"}
  BY DEF RepeatedShape
<1> QED BY <1>1, ElemsByType, Int32Elements DEF Own

LEMMA UsedElements ==
    ASSUME RepeatedShape
    PROVE  /\ Len(arrays) \in Nat /\ DOMAIN arrays = 1 .. Len(arrays)
           /\ \A a \in DOMAIN arrays : arrays[a] \in Seq(Elems)
           /\ \A a \in DOMAIN arrays : \A i \in DOMAIN arrays[a] : arrays[a][i] \in Used
           /\ Used \subseteq Elems
           /\ IsFiniteSet(Used) /\ Cardinality(Used) \in Nat
<1>1. arrays \in Seq(Seq(Elems))
  BY DEF RepeatedShape
<1>2. Len(arrays) \in Nat /\ DOMAIN arrays = 1 .. Len(arrays)
  BY <1>1, LenProperties
<1>3. \A a \in DOMAIN arrays : arrays[a] \in Seq(Elems)
  BY <1>1, <1>2, ElementOfSeq
<1>4. \A a \in DOMAIN arrays : \A i \in DOMAIN arrays[a] : arrays[a][i] \in Used
  BY DEF Used, ToSet
<1>5. ASSUME NEW a \in DOMAIN arrays
      PROVE  ToSet(arrays[a]) \subseteq Elems /\ IsFiniteSet(ToSet(arrays[a]))
  <2> DEFINE s == arrays[a]
  <2>1. s \in Seq(Elems) /\ Len(s) \in Nat /\ DOMAIN s = 1 .. Len(s)
    BY <1>3, LenProperties
  <2>2. \A i \in DOMAIN s : s[i] \in Elems
    BY <2>1, ElementOfSeq
  <2>3. IsFiniteSet(DOMAIN s)
    BY <2>1, FS_Interval
  <2>4. s \in Surjection(DOMAIN s, ToSet(s))
    <3> HIDE DEF s
    <3>1. s \in [DOMAIN s -> ToSet(s)]
      BY <2>1 DEF ToSet
    <3> QED BY <3>1 DEF Surjection, ToSet
  <2>5. IsFiniteSet(ToSet(s))
    <3> HIDE DEF s
    <3> QED BY <2>3, <2>4, FS_Surjection
  <2> QED BY <2>2, <2>5 DEF ToSet
<1> DEFINE F == [a \in DOMAIN arrays |-> ToSet(arrays[a])]
           T == {ToSet(arrays[a]) : a \in DOMAIN arrays}
<1>6. IsFiniteSet(T)
  <2>1. IsFiniteSet(DOMAIN arrays)
    BY <1>2, FS_Interval
  <2>2. F \in Surjection(DOMAIN arrays, T)
    BY DEF Surjection
  <2> HIDE DEF F, T
  <2> QED BY <2>1, <2>2, FS_Surjection
<1>7. \A S \in T : IsFiniteSet(S)
  BY <1>5
<1>8. Used = UNION T
  BY DEF Used
<1>9. IsFiniteSet(Used)
  <2> HIDE DEF T
  <2> QED BY <1>6, <1>7, <1>8, FS_UNION
<1>10. Used \subseteq Elems
  BY <1>5 DEF Used
<1> QED BY <1>2, <1>3, <1>4, <1>9, <1>10, FS_CardinalityType

(* There are always new messages: of Cardinality(Used) + n numbers n are    *)
(* not in use.                                                             *)
LEMMA FreshIsNew ==
    ASSUME RepeatedShape, etype = "message", NEW n \in Nat
    PROVE  /\ Fresh(n) \in Seq(Elems) /\ Len(Fresh(n)) = n
           /\ \A i \in 1 .. n : Fresh(n)[i] \notin Used /\ Fresh(n)[i] # 0
           /\ \A i, j \in 1 .. n : Fresh(n)[i] = Fresh(n)[j] => i = j
<1> DEFINE m == Cardinality(Used) + n
           all == 1 .. m
           free == all \ Used
<1>1. Cardinality(Used) \in Nat /\ IsFiniteSet(Used)
  BY UsedElements
<1>2. m \in Nat /\ IsFiniteSet(all) /\ Cardinality(all) = m
  <2>1. m \in Nat /\ m \in Int /\ 1 \in Int
    BY <1>1
  <2> HIDE DEF m
  <2> QED BY <2>1, FS_Interval
<1> HIDE DEF m, all
<1>3. /\ IsFiniteSet(all \cap Used) /\ Cardinality(all \cap Used) <= Cardinality(Used)
      /\ IsFiniteSet(free)
  BY <1>1, <1>2, FS_Intersection, FS_Subset
<1>4. Cardinality(free) \in Nat /\ Cardinality(all \cap Used) \in Nat
  BY <1>3, FS_CardinalityType
<1>5. Cardinality(all) = Cardinality(free) + Cardinality(all \cap Used)
  <2>1. all = free \cup (all \cap Used) /\ free \cap (all \cap Used) = {}
    OBVIOUS
  <2>2. /\ Cardinality(free \cap (all \cap Used)) = 0
        /\ Cardinality(all) = Cardinality(free \cup (all \cap Used))
    BY <2>1, FS_EmptySet
  <2>3. Cardinality(free \cup (all \cap Used))
            = Cardinality(free) + Cardinality(all \cap Used)
                - Cardinality(free \cap (all \cap Used))
    <3> DEFINE both == all \cap Used
    <3>1. IsFiniteSet(both) /\ IsFiniteSet(free)
      BY <1>3
    <3> HIDE DEF free, both
    <3>2. Cardinality(free \cup both)
              = Cardinality(free) + Cardinality(both) - Cardinality(free \cap both)
      BY <3>1, FS_Union
    <3> QED BY <3>2 DEF both
  <2> HIDE DEF free
  <2> QED BY <1>4, <2>2, <2>3
<1>6. n <= Cardinality(free)
  BY <1>1, <1>2, <1>3, <1>4, <1>5 DEF m
<1>7. PICK h : h \in Bijection(1 .. Cardinality(free), free)
  BY <1>3, FS_CardinalityType DEF ExistsBijection
<1> DEFINE c == Cardinality(free)
<1>8. h \in [1 .. c -> free] /\ \A i, j \in 1 .. c : h[i] = h[j] => i = j
  BY <1>7 DEF Bijection, Injection, IsInjective
<1> DEFINE s == [i \in 1 .. n |-> h[i]]
<1> HIDE DEF c, free
<1>9. s \in [1 .. n -> free] /\ IsInjective(s)
  <2>1. c \in Nat /\ n <= c
    BY <1>4, <1>6 DEF c
  <2> QED BY <1>8, <2>1 DEF IsInjective
<1>10. Fresh(n) \in [1 .. n -> free] /\ IsInjective(Fresh(n))
  <2>1. Fresh(n) = CHOOSE t \in [1 .. n -> free] : IsInjective(t)
    BY DEF Fresh, free, all, m
  <2> HIDE DEF s
  <2> QED BY <1>9, <2>1
<1>11. free \subseteq Elems /\ \A x \in free : x \notin Used /\ x # 0
  BY <1>2 DEF free, all, Elems
<1> QED BY <1>10, <1>11 DEF IsInjective
(* A new array at the end, of new messages if it has any. *)
LEMMA AppendUnshared ==
    ASSUME RepeatedShape, Unshared(arrays), NEW a \in Seq(Elems),
           \A i \in DOMAIN a : a[i] \notin Used,
           \A i, j \in DOMAIN a : a[i] = a[j] => i = j
    PROVE  Unshared(Append(arrays, a))
<1> DEFINE A == Append(arrays, a)
           n == Len(arrays) + 1
<1>1. /\ Len(arrays) \in Nat /\ DOMAIN arrays = 1 .. Len(arrays)
      /\ \A b \in DOMAIN arrays : \A i \in DOMAIN arrays[b] : arrays[b][i] \in Used
  BY UsedElements
<1>2. /\ DOMAIN A = 1 .. n /\ A[n] = a
      /\ \A b \in 1 .. Len(arrays) : A[b] = arrays[b]
  BY <1>1 DEF RepeatedShape
<1> HIDE DEF A
<1>3. ASSUME NEW b \in DOMAIN A, NEW c \in DOMAIN A, NEW i \in DOMAIN A[b], NEW j \in DOMAIN A[c],
             A[b][i] = A[c][j], A[b][i] # 0
      PROVE  b = c /\ i = j
  <2>1. CASE b = n /\ c = n
    BY <1>2, <1>3, <2>1
  <2>2. CASE b = n /\ c \in DOMAIN arrays
    BY <1>1, <1>2, <1>3, <2>2
  <2>3. CASE b \in DOMAIN arrays /\ c = n
    BY <1>1, <1>2, <1>3, <2>3
  <2>4. CASE b \in DOMAIN arrays /\ c \in DOMAIN arrays
    BY <1>1, <1>2, <1>3, <2>4 DEF Unshared
  <2> QED BY <1>1, <1>2, <2>1, <2>2, <2>3, <2>4
<1> QED BY <1>3 DEF Unshared, A

(* An array rewritten: its messages once each, each from it or new. *)
LEMMA RewriteUnshared ==
    ASSUME RepeatedShape, Unshared(arrays), NEW h \in DOMAIN arrays, NEW a \in Seq(Elems),
           \A i \in DOMAIN a : a[i] = 0 \/ a[i] \notin Used \/ \E k \in DOMAIN arrays[h] : a[i] = arrays[h][k],
           \A i, j \in DOMAIN a : a[i] = a[j] /\ a[i] # 0 => i = j
    PROVE  Unshared([arrays EXCEPT ![h] = a])
<1> DEFINE A == [arrays EXCEPT ![h] = a]
<1>1. \A b \in DOMAIN arrays : \A i \in DOMAIN arrays[b] : arrays[b][i] \in Used
  BY UsedElements
<1>2. /\ DOMAIN A = DOMAIN arrays /\ A[h] = a
      /\ \A b \in DOMAIN arrays : b # h => A[b] = arrays[b]
  BY DEF RepeatedShape
<1> HIDE DEF A
<1>3. ASSUME NEW b \in DOMAIN A, b # h, NEW i \in DOMAIN a, NEW j \in DOMAIN A[b], a[i] = A[b][j]
      PROVE  a[i] = 0
  <2>1. A[b][j] \in Used /\ A[b] = arrays[b] /\ b \in DOMAIN arrays
    BY <1>1, <1>2, <1>3
  <2>2. CASE \E k \in DOMAIN arrays[h] : a[i] = arrays[h][k]
    BY <1>3, <2>1, <2>2 DEF Unshared
  <2> QED BY <1>3, <2>1, <2>2
<1>4. ASSUME NEW b \in DOMAIN A, NEW c \in DOMAIN A, NEW i \in DOMAIN A[b], NEW j \in DOMAIN A[c],
             A[b][i] = A[c][j], A[b][i] # 0
      PROVE  b = c /\ i = j
  <2>1. CASE b = h /\ c = h
    BY <1>2, <1>4, <2>1
  <2>2. CASE b = h /\ c # h
    BY <1>2, <1>3, <1>4, <2>2
  <2>3. CASE b # h /\ c = h
    BY <1>2, <1>3, <1>4, <2>3
  <2>4. CASE b # h /\ c # h
    BY <1>2, <1>4, <2>4 DEF Unshared
  <2> QED BY <2>1, <2>2, <2>3, <2>4
<1> QED BY <1>4 DEF Unshared, A

(* The arrays after Make and after Write. *)
LEMMA MakeShape ==
    ASSUME RepeatedShape, NEW a \in Seq(Elems), Make(a), etype' = etype
    PROVE  /\ arrays' = Append(arrays, a) /\ arrays' \in Seq(Seq(Elems))
           /\ Len(arrays') = Len(arrays) + 1 /\ Len(arrays) \in Nat
           /\ Elems' = Elems
           /\ 0 .. Len(arrays) \subseteq 0 .. Len(arrays') /\ Len(arrays') \in 0 .. Len(arrays')
<1>1. arrays' = Append(arrays, a) /\ Elems' = Elems
  BY DEF Make, Elems
<1>2. arrays \in Seq(Seq(Elems)) /\ Len(arrays) \in Nat
  BY UsedElements DEF RepeatedShape
<1> DEFINE E == Seq(Elems)
<1>3. arrays \in Seq(E) /\ a \in E
  BY <1>2
<1> HIDE DEF E
<1>4. Append(arrays, a) \in Seq(E) /\ Len(Append(arrays, a)) = Len(arrays) + 1
  BY <1>3, AppendProperties
<1> QED BY <1>1, <1>2, <1>4 DEF E

LEMMA WriteShape ==
    ASSUME RepeatedShape, NEW f \in RepeatedFields, handle[f] # 0, NEW a \in Seq(Elems), Write(f, a)
    PROVE  /\ RepeatedShape' /\ (FieldsAndHandles => FieldsAndHandles')
           /\ etype' = etype /\ handle[f] \in DOMAIN arrays
           /\ arrays' = [arrays EXCEPT ![handle[f]] = a]
<1>1. /\ arrays' = [arrays EXCEPT ![handle[f]] = a]
      /\ field' = field /\ handle' = handle /\ stale' = stale /\ etype' = etype
  BY DEF Write
<1>2. /\ arrays \in Seq(Seq(Elems)) /\ Len(arrays) \in Nat /\ DOMAIN arrays = 1 .. Len(arrays)
      /\ handle[f] \in 1 .. Len(arrays)
  BY UsedElements DEF RepeatedShape
<1> DEFINE E == Seq(Elems)
<1>3. arrays \in Seq(E) /\ a \in E
  BY <1>2
<1>4. Elems' = Elems
  BY <1>1 DEF Elems
<1> HIDE DEF E
<1>5. arrays' \in Seq(E) /\ Len(arrays') = Len(arrays)
  BY <1>1, <1>2, <1>3, ExceptSeq
<1>6. RepeatedShape'
  BY <1>1, <1>4, <1>5 DEF RepeatedShape, E
<1> QED BY <1>1, <1>2, <1>6 DEF FieldsAndHandles
LEMMA InsertElements ==
    ASSUME NEW S, NEW s \in Seq(S), NEW i \in 1 .. Len(s) + 1, NEW e \in S
    PROVE  /\ InsertAt(s, i, e) \in Seq(S) /\ Len(InsertAt(s, i, e)) = Len(s) + 1
           /\ \A j \in 1 .. Len(s) + 1 : j < i => InsertAt(s, i, e)[j] = s[j]
           /\ InsertAt(s, i, e)[i] = e
           /\ \A j \in 1 .. Len(s) + 1 : j > i => InsertAt(s, i, e)[j] = s[j - 1]
<1> DEFINE l == SubSeq(s, 1, i - 1)
           r == SubSeq(s, i, Len(s))
           le == l \o <<e>>
<1>0. Len(s) \in Nat /\ i \in Nat /\ i >= 1 /\ i <= Len(s) + 1
  BY LenProperties
<1>1. \A k \in 1 .. Len(s) : s[k] \in S
  BY ElementOfSeq
<1>2. /\ l \in Seq(S) /\ Len(l) = i - 1
      /\ \A j \in 1 .. i - 1 : l[j] = s[j]
  <2>1. /\ l \in Seq(S) /\ Len(l) = IF 1 <= i - 1 THEN (i - 1) - 1 + 1 ELSE 0
        /\ \A j \in 1 .. (i - 1) - 1 + 1 : l[j] = s[1 + j - 1]
    BY <1>0, <1>1, SubSeqProperties
  <2> QED BY <1>0, <2>1
<1>3. /\ r \in Seq(S) /\ Len(r) = Len(s) - i + 1
      /\ \A j \in 1 .. Len(s) - i + 1 : r[j] = s[i + j - 1]
  <2>1. /\ r \in Seq(S) /\ Len(r) = IF i <= Len(s) THEN Len(s) - i + 1 ELSE 0
        /\ \A j \in 1 .. Len(s) - i + 1 : r[j] = s[i + j - 1]
    BY <1>0, <1>1, SubSeqProperties
  <2> QED BY <1>0, <2>1
<1>4. InsertAt(s, i, e) = le \o r
  BY DEF InsertAt
<1> HIDE DEF l, r
<1>5. /\ le \in Seq(S) /\ Len(le) = i /\ le[i] = e
      /\ \A j \in 1 .. i - 1 : le[j] = s[j]
  BY <1>0, <1>2
<1> HIDE DEF le
<1>6. /\ le \o r \in Seq(S) /\ Len(le \o r) = Len(s) + 1
      /\ \A j \in 1 .. Len(s) + 1 : (le \o r)[j] = IF j <= i THEN le[j] ELSE r[j - i]
  <2>1. /\ le \o r \in Seq(S) /\ Len(le \o r) = Len(le) + Len(r)
        /\ \A j \in 1 .. Len(le) + Len(r) : (le \o r)[j] = IF j <= Len(le) THEN le[j] ELSE r[j - Len(le)]
    <3>1. le \in Seq(S) /\ r \in Seq(S)
      BY <1>3, <1>5
    <3> QED BY <3>1, ConcatProperties
  <2>2. Len(le) = i /\ Len(le) + Len(r) = Len(s) + 1
    BY <1>0, <1>3, <1>5
  <2> QED BY <2>1, <2>2
<1>7. ASSUME NEW j \in 1 .. Len(s) + 1
      PROVE  (le \o r)[j] = IF j < i THEN s[j] ELSE IF j = i THEN e ELSE s[j - 1]
  <2>1. CASE j > i
    <3>1. j - i \in 1 .. Len(s) - i + 1 /\ i + (j - i) - 1 = j - 1
      BY <1>0, <2>1
    <3>2. r[j - i] = s[j - 1]
      BY <1>3, <3>1
    <3> QED BY <1>0, <1>6, <2>1, <3>2
  <2>2. CASE j < i
    BY <1>0, <1>5, <1>6, <2>2
  <2>3. CASE j = i
    <3>1. (le \o r)[i] = le[i]
      BY <1>0, <1>6
    <3> QED BY <1>0, <1>5, <2>3, <3>1
  <2>4. j > i \/ j < i \/ j = i
    BY <1>0
  <2> QED BY <2>1, <2>2, <2>3, <2>4
<1>8. i \in 1 .. Len(s) + 1
  OBVIOUS
<1>9. /\ \A j \in 1 .. Len(s) + 1 : j < i => (le \o r)[j] = s[j]
      /\ (le \o r)[i] = e
      /\ \A j \in 1 .. Len(s) + 1 : j > i => (le \o r)[j] = s[j - 1]
  <2> DEFINE t == le \o r
  <2>1. \A j \in 1 .. Len(s) + 1 : t[j] = IF j < i THEN s[j] ELSE IF j = i THEN e ELSE s[j - 1]
    BY <1>7
  <2> HIDE DEF t
  <2>2. /\ \A j \in 1 .. Len(s) + 1 : j < i => t[j] = s[j]
        /\ t[i] = e
        /\ \A j \in 1 .. Len(s) + 1 : j > i => t[j] = s[j - 1]
    BY <1>0, <1>8, <2>1
  <2> QED BY <2>2 DEF t
<1> QED BY <1>4, <1>6, <1>9

Deleted(s, i, count) == SubSeq(s, 1, i - 1) \o SubSeq(s, i + count, Len(s))

LEMMA DeleteElements ==
    ASSUME NEW S, NEW s \in Seq(S), NEW i \in 1 .. Len(s) + 1, NEW count \in Nat \ {0}
    PROVE  LET d == Deleted(s, i, count)
           IN  /\ d \in Seq(S)
               /\ \A j \in 1 .. Len(d) : j < i => j \in 1 .. Len(s) /\ d[j] = s[j]
               /\ \A j \in 1 .. Len(d) :
                     ~ (j < i) => j + count \in 1 .. Len(s) /\ d[j] = s[j + count]
<1> DEFINE l == SubSeq(s, 1, i - 1)
           r == SubSeq(s, i + count, Len(s))
<1>0. Len(s) \in Nat /\ i \in Nat /\ i >= 1 /\ i <= Len(s) + 1 /\ count \in Nat
  BY LenProperties
<1>1. \A k \in 1 .. Len(s) : s[k] \in S
  BY ElementOfSeq
<1>2. /\ l \in Seq(S) /\ Len(l) = i - 1
      /\ \A j \in 1 .. i - 1 : l[j] = s[j]
  <2>1. /\ l \in Seq(S) /\ Len(l) = IF 1 <= i - 1 THEN (i - 1) - 1 + 1 ELSE 0
        /\ \A j \in 1 .. (i - 1) - 1 + 1 : l[j] = s[1 + j - 1]
    BY <1>0, <1>1, SubSeqProperties
  <2> QED BY <1>0, <2>1
<1>3. /\ r \in Seq(S)
      /\ Len(r) = IF i + count <= Len(s) THEN Len(s) - (i + count) + 1 ELSE 0
      /\ \A j \in 1 .. Len(s) - (i + count) + 1 : r[j] = s[(i + count) + j - 1]
  <2>1. i + count \in Int /\ \A k \in i + count .. Len(s) : s[k] \in S
    BY <1>0, <1>1
  <2> QED BY <1>0, <2>1, SubSeqProperties
<1> HIDE DEF l, r
<1>4. /\ l \o r \in Seq(S) /\ Len(l \o r) = (i - 1) + Len(r)
      /\ \A j \in 1 .. (i - 1) + Len(r) : (l \o r)[j] = IF j <= i - 1 THEN l[j] ELSE r[j - (i - 1)]
  <2>1. /\ l \o r \in Seq(S) /\ Len(l \o r) = Len(l) + Len(r)
        /\ \A j \in 1 .. Len(l) + Len(r) : (l \o r)[j] = IF j <= Len(l) THEN l[j] ELSE r[j - Len(l)]
    <3>1. l \in Seq(S) /\ r \in Seq(S)
      BY <1>2, <1>3
    <3> QED BY <3>1, ConcatProperties
  <2> QED BY <1>2, <2>1
<1>5. ASSUME NEW j \in 1 .. Len(l \o r)
      PROVE  IF j < i THEN j \in 1 .. Len(s) /\ (l \o r)[j] = s[j]
             ELSE j + count \in 1 .. Len(s) /\ (l \o r)[j] = s[j + count]
  <2>1. CASE j < i
    BY <1>0, <1>2, <1>4, <2>1
  <2>2. CASE j >= i
    <3>1. j - (i - 1) \in 1 .. Len(r) /\ Len(r) \in Nat
      BY <1>0, <1>3, <1>4, <2>2
    <3>2. /\ i + count <= Len(s) /\ j - (i - 1) \in 1 .. Len(s) - (i + count) + 1
          /\ (i + count) + (j - (i - 1)) - 1 = j + count
      BY <1>0, <1>3, <3>1
    <3>3. r[j - (i - 1)] = s[j + count]
      BY <1>3, <3>2
    <3>4. j + count \in 1 .. Len(s)
      BY <1>0, <3>2
    <3> QED BY <1>0, <1>4, <2>2, <3>3, <3>4
  <2> QED BY <1>0, <2>1, <2>2
<1> DEFINE d == l \o r
<1>6. Deleted(s, i, count) = d
  BY DEF Deleted, l, r
<1>7. d \in Seq(S) /\ \A j \in 1 .. Len(d) : IF j < i THEN j \in 1 .. Len(s) /\ d[j] = s[j]
                                          ELSE j + count \in 1 .. Len(s) /\ d[j] = s[j + count]
  BY <1>4, <1>5
<1> HIDE DEF d
<1> QED BY <1>6, <1>7

LEMMA RewriteStep ==
    ASSUME RepeatedIInv, NEW f \in RepeatedFields, handle[f] # 0, NEW a \in Seq(Elems), Write(f, a),
           torn => torn',
           etype = "message" /\ ~torn' =>
               /\ \A i \in DOMAIN a : \/ a[i] = 0 \/ a[i] \notin Used
                                      \/ \E k \in DOMAIN arr(f) : a[i] = arr(f)[k]
               /\ \A i, j \in DOMAIN a : a[i] = a[j] /\ a[i] # 0 => i = j
    PROVE  RepeatedIInv'
<1>1. /\ RepeatedShape' /\ FieldsAndHandles'
      /\ etype' = etype /\ handle[f] \in DOMAIN arrays
      /\ arrays' = [arrays EXCEPT ![handle[f]] = a]
  BY WriteShape DEF RepeatedIInv
<1>2. ASSUME etype = "message", ~torn'
      PROVE  Unshared(arrays')
  <2>1. RepeatedShape /\ Unshared(arrays)
    BY <1>2 DEF RepeatedIInv
  <2> DEFINE h == handle[f]
  <2>2. h \in DOMAIN arrays /\ arr(f) = arrays[h]
    BY <1>1 DEF arr
  <2> HIDE DEF h
  <2>3. Unshared([arrays EXCEPT ![h] = a])
    BY <1>2, <2>1, <2>2, RewriteUnshared
  <2> QED BY <1>1, <2>3 DEF h
<1>3. (etype = "message" /\ ~torn => Unshared(arrays))'
  <2> SUFFICES ASSUME etype' = "message", ~torn'
               PROVE  Unshared(arrays)'
    OBVIOUS
  <2>1. Unshared(arrays')
    BY <1>1, <1>2
  <2> QED BY <2>1 DEF Unshared
<1> QED BY <1>1, <1>3 DEF RepeatedIInv

(* What a scalar becomes in a list is an element, and a message a new one. *)
LEMMA ElementIsNew ==
    ASSUME RepeatedShape, NEW sv \in Elements, NEW e \in Element(sv)
    PROVE  e \in Elems /\ (etype = "message" => e \notin Used /\ e # 0)
<1>1. CASE etype = "message"
  <2>1. e = Fresh(1)[1]
    BY <1>1 DEF Element
  <2>2. Fresh(1) \in Seq(Elems) /\ Len(Fresh(1)) = 1 /\ Fresh(1)[1] \notin Used /\ Fresh(1)[1] # 0
    <3> DEFINE one == 1
    <3>1. one \in Nat /\ one \in 1 .. one
      OBVIOUS
    <3> HIDE DEF one
    <3>2. /\ Fresh(one) \in Seq(Elems) /\ Len(Fresh(one)) = one
          /\ Fresh(one)[one] \notin Used /\ Fresh(one)[one] # 0
      BY <1>1, <3>1, FreshIsNew
    <3> QED BY <3>2 DEF one
  <2> QED BY <1>1, <2>1, <2>2, ElementOfSeq
<1>2. CASE etype = "int32"
  <2>1. e \in ConvertSingular(sv, "int32")
    BY <1>2 DEF Element
  <2> QED BY <1>2, <2>1, ElemsByType, Int32Elements, RepeatedAssumption
<1>3. CASE etype = "string"
  BY <1>3, ElemsByType DEF Element
<1> QED BY <1>1, <1>2, <1>3 DEF RepeatedShape

LEMMA HandleArray ==
    ASSUME RepeatedShape, NEW f \in RepeatedFields, handle[f] # 0
    PROVE  /\ arr(f) \in Seq(Elems) /\ Len(arr(f)) \in Nat /\ DOMAIN arr(f) = 1 .. Len(arr(f))
           /\ handle[f] \in DOMAIN arrays
           /\ \A i \in DOMAIN arr(f) : arr(f)[i] \in Elems /\ arr(f)[i] \in Used
<1>1. handle[f] \in DOMAIN arrays
  BY UsedElements DEF RepeatedShape
<1>2. arr(f) \in Seq(Elems) /\ \A i \in DOMAIN arr(f) : arr(f)[i] \in Used
  BY <1>1, UsedElements DEF arr
<1>3. Used \subseteq Elems
  BY UsedElements
<1> QED BY <1>1, <1>2, <1>3, LenProperties

(* Within one array, while nothing is shared. *)
LEMMA OnceInArray ==
    ASSUME RepeatedIInv, NEW f \in RepeatedFields, handle[f] # 0, etype = "message", ~torn
    PROVE  \A i, j \in DOMAIN arr(f) : arr(f)[i] = arr(f)[j] /\ arr(f)[i] # 0 => i = j
<1>1. handle[f] \in DOMAIN arrays
  BY HandleArray DEF RepeatedIInv
<1> QED BY <1>1 DEF RepeatedIInv, Unshared, arr
(* A new array in the arena: no field and no handle has it before. *)
LEMMA NewArray ==
    ASSUME RepeatedIInv, NEW a \in Seq(Elems), Make(a), etype' = etype, torn' = torn,
           etype = "message" => /\ \A i \in DOMAIN a : a[i] \notin Used
                                /\ \A i, j \in DOMAIN a : a[i] = a[j] => i = j
    PROVE  /\ (etype = "message" /\ ~torn => Unshared(arrays))'
           /\ arrays' \in Seq(Seq(Elems))' /\ Len(arrays') = Len(arrays) + 1 /\ Len(arrays) \in Nat
           /\ \A f \in RepeatedFields : field[f] \in 0 .. Len(arrays) /\ handle[f] \in 0 .. Len(arrays)
<1>1. RepeatedShape
  BY DEF RepeatedIInv
<1>2. /\ arrays' = Append(arrays, a) /\ arrays' \in Seq(Seq(Elems))
      /\ Len(arrays') = Len(arrays) + 1 /\ Len(arrays) \in Nat /\ Elems' = Elems
  BY <1>1, MakeShape
<1>3. (etype = "message" /\ ~torn => Unshared(arrays))'
  <2> SUFFICES ASSUME etype' = "message", ~torn'
               PROVE  Unshared(arrays)'
    OBVIOUS
  <2>1. Unshared(arrays) /\ etype = "message"
    BY DEF RepeatedIInv
  <2>2. Unshared(Append(arrays, a))
    BY <1>1, <2>1, AppendUnshared
  <2>3. Unshared(arrays')
    BY <1>2, <2>2
  <2> QED BY <2>3 DEF Unshared
<1> QED BY <1>1, <1>2, <1>3 DEF RepeatedShape

LEMMA AssignStep ==
    ASSUME RepeatedIInv, NEW f \in RepeatedFields, NEW a \in Seq(Elems), NEW fast, Assign(f, a, fast),
           etype = "message" => /\ \A i \in DOMAIN a : a[i] \notin Used
                                /\ \A i, j \in DOMAIN a : a[i] = a[j] => i = j
    PROVE  RepeatedIInv'
<1>1. /\ Make(a) /\ etype' = etype /\ torn' = torn /\ handle' = handle
      /\ field' = [field EXCEPT ![f] = Len(arrays')]
      /\ stale' = [stale EXCEPT ![f] = TRUE]
  BY DEF Assign, Same
<1>2. /\ (etype = "message" /\ ~torn => Unshared(arrays))'
      /\ arrays' \in Seq(Seq(Elems))' /\ Len(arrays') = Len(arrays) + 1 /\ Len(arrays) \in Nat
      /\ \A g \in RepeatedFields : field[g] \in 0 .. Len(arrays) /\ handle[g] \in 0 .. Len(arrays)
  BY <1>1, NewArray
<1> DEFINE n == Len(arrays')
           t == TRUE
<1>3. /\ field \in [RepeatedFields -> 0 .. Len(arrays)] /\ handle \in [RepeatedFields -> 0 .. Len(arrays)]
      /\ stale \in [RepeatedFields -> BOOLEAN] /\ etype \in {"int32", "string", "message"}
      /\ FieldsAndHandles
  BY DEF RepeatedIInv, RepeatedShape
<1>4. t \in BOOLEAN /\ t /\ n \in Nat /\ n = Len(arrays) + 1
  BY <1>2
<1>5. field' = [field EXCEPT ![f] = n] /\ stale' = [stale EXCEPT ![f] = t]
  BY <1>1
<1> HIDE DEF n, t
<1>6. field' \in [RepeatedFields -> 0 .. n] /\ handle' \in [RepeatedFields -> 0 .. n]
  <2>1. 0 .. Len(arrays) \subseteq 0 .. n /\ n \in 0 .. n
    BY <1>2, <1>4
  <2> QED BY <1>1, <1>3, <1>5, <2>1
<1>7. stale' \in [RepeatedFields -> BOOLEAN]
  BY <1>3, <1>4, <1>5
<1>8. /\ field'[f] = n /\ \A g \in RepeatedFields : g # f => field'[g] = field[g]
      /\ stale'[f] = t /\ \A g \in RepeatedFields : g # f => stale'[g] = stale[g]
  BY <1>3, <1>5
<1>9. \A g \in RepeatedFields : field[g] # n /\ handle[g] # n
  BY <1>2, <1>4
<1>10. FieldsAndHandles'
  <2>1. ASSUME NEW g \in RepeatedFields, handle'[g] # 0, ~stale'[g]
        PROVE  field'[g] = handle'[g]
    <3>1. g # f
      BY <1>4, <1>8, <2>1
    <3> QED BY <1>1, <1>3, <1>8, <2>1, <3>1 DEF FieldsAndHandles
  <2>2. ASSUME NEW g \in RepeatedFields, NEW h \in RepeatedFields, field'[g] = field'[h], field'[g] # 0
        PROVE  g = h
    BY <1>3, <1>8, <1>9, <2>2 DEF FieldsAndHandles
  <2> QED BY <2>1, <2>2 DEF FieldsAndHandles
<1>11. RepeatedShape'
  BY <1>1, <1>2, <1>3, <1>6, <1>7 DEF RepeatedShape, n
<1> QED BY <1>2, <1>10, <1>11 DEF RepeatedIInv

LEMMA FetchStep ==
    ASSUME RepeatedIInv, NEW f \in RepeatedFields, Fetch(f)
    PROVE  /\ RepeatedIInv'
           /\ \A g \in RepeatedFields : g # f \/ field[g] # 0 => field'[g] = field[g]
           /\ Len(arrays) \in Nat /\ Len(arrays') \in Nat /\ Len(arrays) <= Len(arrays')
           /\ field'[f] \in 0 .. Len(arrays')
<1> DEFINE n == field'[f]
           no == FALSE
<1>1. /\ etype' = etype /\ torn' = torn
      /\ handle' = [handle EXCEPT ![f] = n]
      /\ stale' = [stale EXCEPT ![f] = no]
  BY DEF Fetch, Same
<1>2. no \in BOOLEAN /\ ~no
  OBVIOUS
<1>3. /\ field \in [RepeatedFields -> 0 .. Len(arrays)] /\ handle \in [RepeatedFields -> 0 .. Len(arrays)]
      /\ stale \in [RepeatedFields -> BOOLEAN] /\ etype \in {"int32", "string", "message"}
      /\ FieldsAndHandles /\ RepeatedShape
  BY DEF RepeatedIInv, RepeatedShape
<1>4. /\ (etype = "message" /\ ~torn => Unshared(arrays))'
      /\ arrays' \in Seq(Seq(Elems))' /\ Len(arrays') \in Nat /\ Len(arrays) <= Len(arrays')
      /\ field' \in [RepeatedFields -> 0 .. Len(arrays')]
      /\ \A g \in RepeatedFields : g # f => field'[g] = field[g]
      /\ \A g, h \in RepeatedFields : field'[g] = field'[h] /\ field'[g] # 0 => g = h
  <2>1. CASE field[f] = 0
    <3> DEFINE m == Len(arrays')
               nil == <<>>
    <3>1. Make(nil) /\ field' = [field EXCEPT ![f] = m]
      BY <2>1 DEF Fetch
    <3>2. nil \in Seq(Elems) /\ DOMAIN nil = {}
      OBVIOUS
    <3> HIDE DEF nil, m
    <3>3. /\ (etype = "message" /\ ~torn => Unshared(arrays))'
          /\ arrays' \in Seq(Seq(Elems))' /\ Len(arrays') = Len(arrays) + 1 /\ Len(arrays) \in Nat
          /\ \A g \in RepeatedFields : field[g] \in 0 .. Len(arrays) /\ handle[g] \in 0 .. Len(arrays)
      BY <1>1, <3>1, <3>2, NewArray
    <3>4. m \in Nat /\ m = Len(arrays) + 1
      BY <3>3 DEF m
    <3>5. 0 .. Len(arrays) \subseteq 0 .. m /\ m \in 0 .. m /\ \A g \in RepeatedFields : field[g] # m
      BY <3>3, <3>4
    <3>6. field'[f] = m /\ \A g \in RepeatedFields : g # f => field'[g] = field[g]
      BY <1>3, <3>1
    <3>7. field' \in [RepeatedFields -> 0 .. m]
      BY <1>3, <3>1, <3>5
    <3>8. \A g, h \in RepeatedFields : field'[g] = field'[h] /\ field'[g] # 0 => g = h
      BY <1>3, <3>5, <3>6 DEF FieldsAndHandles
    <3>9. Len(arrays') \in Nat /\ Len(arrays) <= Len(arrays')
      BY <3>3
    <3> QED BY <3>3, <3>5, <3>6, <3>7, <3>8, <3>9 DEF m
  <2>2. CASE field[f] # 0
    <3>1. arrays' = arrays /\ field' = field
      BY <2>2 DEF Fetch
    <3>2. Elems' = Elems /\ Len(arrays') = Len(arrays) /\ Len(arrays) \in Nat
      BY <1>1, <1>3, <3>1, UsedElements DEF Elems
    <3>3. (etype = "message" /\ ~torn => Unshared(arrays))'
      BY <1>1, <3>1 DEF RepeatedIInv, Unshared
    <3>4. arrays' \in Seq(Seq(Elems))'
      BY <1>3, <3>1, <3>2 DEF RepeatedShape
    <3> QED BY <1>3, <2>2, <3>1, <3>2, <3>3, <3>4 DEF FieldsAndHandles
  <2> QED BY <2>1, <2>2
<1>5. n \in 0 .. Len(arrays') /\ 0 .. Len(arrays) \subseteq 0 .. Len(arrays')
  <2>1. Len(arrays) \in Nat
    BY <1>3, UsedElements
  <2> QED BY <1>4, <2>1
<1>6. field'[f] = n
  OBVIOUS
<1> HIDE DEF n, no
<1>7. handle' \in [RepeatedFields -> 0 .. Len(arrays')] /\ stale' \in [RepeatedFields -> BOOLEAN]
  BY <1>1, <1>2, <1>3, <1>5
<1>8. /\ handle'[f] = n /\ \A g \in RepeatedFields : g # f => handle'[g] = handle[g]
      /\ stale'[f] = no /\ \A g \in RepeatedFields : g # f => stale'[g] = stale[g]
  BY <1>1, <1>3
<1>9. FieldsAndHandles'
  <2>1. ASSUME NEW g \in RepeatedFields, handle'[g] # 0, ~stale'[g]
        PROVE  field'[g] = handle'[g]
    <3>1. CASE g = f
      BY <1>6, <1>8, <3>1
    <3>2. CASE g # f
      <4>1. field[g] = handle[g] /\ handle[g] # 0
        BY <1>3, <1>8, <2>1, <3>2 DEF FieldsAndHandles
      <4> QED BY <1>4, <1>8, <3>2, <4>1
    <3> QED BY <3>1, <3>2
  <2> QED BY <1>4, <2>1 DEF FieldsAndHandles
<1>10. RepeatedShape'
  BY <1>1, <1>3, <1>4, <1>7 DEF RepeatedShape
<1>11. RepeatedIInv'
  BY <1>4, <1>9, <1>10 DEF RepeatedIInv
<1>12. field[f] # 0 => field'[f] = field[f]
  BY DEF Fetch
<1>13. Len(arrays) \in Nat
  BY <1>3, UsedElements
<1> QED BY <1>4, <1>5, <1>6, <1>11, <1>12, <1>13

(* A getter that finds the memo takes the array from there. *)
LEMMA FastGetStep ==
    ASSUME RepeatedIInv, MemoIInv, NEW f \in RepeatedFields, FastGetRepeated(f), memo[f] # 0
    PROVE  RepeatedIInv'
<1> DEFINE n == memo[f]
           t == f \in bypassed
<1>1. /\ etype' = etype /\ torn' = torn /\ arrays' = arrays /\ field' = field
      /\ handle' = [handle EXCEPT ![f] = n] /\ stale' = [stale EXCEPT ![f] = t]
  BY DEF FastGetRepeated, Same
<1>2. RepeatedShape /\ FieldsAndHandles
  BY DEF RepeatedIInv
<1>3. n \in 0 .. Len(arrays) /\ t \in BOOLEAN /\ (~t => n = field[f])
  BY DEF MemoIInv
<1> HIDE DEF n, t
<1>4. Elems' = Elems
  BY <1>1 DEF Elems
<1>5. handle' \in [RepeatedFields -> 0 .. Len(arrays)] /\ stale' \in [RepeatedFields -> BOOLEAN]
  BY <1>1, <1>2, <1>3 DEF RepeatedShape
<1>6. /\ handle'[f] = n /\ \A g \in RepeatedFields : g # f => handle'[g] = handle[g]
      /\ stale'[f] = t /\ \A g \in RepeatedFields : g # f => stale'[g] = stale[g]
  BY <1>1, <1>2 DEF RepeatedShape
<1>7. FieldsAndHandles'
  <2>1. ASSUME NEW g \in RepeatedFields, handle'[g] # 0, ~stale'[g]
        PROVE  field'[g] = handle'[g]
    <3>1. CASE g = f
      BY <1>1, <1>3, <1>6, <2>1, <3>1
    <3>2. CASE g # f
      BY <1>1, <1>2, <1>6, <2>1, <3>2 DEF FieldsAndHandles
    <3> QED BY <3>1, <3>2
  <2> QED BY <1>1, <1>2, <2>1 DEF FieldsAndHandles
<1>8. (etype = "message" /\ ~torn => Unshared(arrays))'
  BY <1>1 DEF RepeatedIInv, Unshared
<1>9. RepeatedShape'
  BY <1>1, <1>2, <1>4, <1>5 DEF RepeatedShape
<1> QED BY <1>7, <1>8, <1>9 DEF RepeatedIInv

LEMMA ClearRepeatedStep ==
    ASSUME RepeatedIInv, NEW f \in RepeatedFields, NEW fast, ClearRepeated(f, fast)
    PROVE  RepeatedIInv'
<1> DEFINE t == TRUE
<1>1. /\ etype' = etype /\ torn' = torn /\ handle' = handle /\ arrays' = arrays
      /\ field' = [field EXCEPT ![f] = 0]
      /\ stale' = [stale EXCEPT ![f] = t]
  BY DEF ClearRepeated, Same
<1>2. t \in BOOLEAN /\ t
  OBVIOUS
<1>3. RepeatedShape /\ FieldsAndHandles
  BY DEF RepeatedIInv
<1>4. Elems' = Elems /\ Len(arrays) \in Nat
  BY <1>1, <1>3, UsedElements DEF Elems
<1> HIDE DEF t
<1>5. field' \in [RepeatedFields -> 0 .. Len(arrays)] /\ stale' \in [RepeatedFields -> BOOLEAN]
  BY <1>1, <1>2, <1>3, <1>4 DEF RepeatedShape
<1>6. /\ field'[f] = 0 /\ \A g \in RepeatedFields : g # f => field'[g] = field[g]
      /\ stale'[f] = t /\ \A g \in RepeatedFields : g # f => stale'[g] = stale[g]
  BY <1>1, <1>3 DEF RepeatedShape
<1>7. FieldsAndHandles'
  <2>1. ASSUME NEW g \in RepeatedFields, handle'[g] # 0, ~stale'[g]
        PROVE  field'[g] = handle'[g]
    <3>1. g # f
      BY <1>2, <1>6, <2>1
    <3> QED BY <1>1, <1>3, <1>6, <2>1, <3>1 DEF FieldsAndHandles
  <2>2. ASSUME NEW g \in RepeatedFields, NEW h \in RepeatedFields, field'[g] = field'[h], field'[g] # 0
        PROVE  g = h
    BY <1>3, <1>6, <2>2 DEF FieldsAndHandles
  <2> QED BY <2>1, <2>2 DEF FieldsAndHandles
<1>8. (etype = "message" /\ ~torn => Unshared(arrays))'
  BY <1>1 DEF RepeatedIInv, Unshared
<1>9. RepeatedShape'
  BY <1>1, <1>3, <1>4, <1>5 DEF RepeatedShape
<1> QED BY <1>7, <1>8, <1>9 DEF RepeatedIInv
(* The arrays that SetList and SetTied make. *)
LEMMA SetListStep ==
    ASSUME RepeatedIInv, NEW f \in RepeatedFields, NEW svs \in Lists, NEW fast,
           SetList(f, svs, fast)
    PROVE  RepeatedIInv'
<1>1. PICK a \in FromList(svs) : Assign(f, a, fast)
  BY DEF SetList
<1>2. PICK n \in Nat : svs \in [1 .. n -> Elements]
  BY RepeatedAssumption DEF Lists
<1>3. Len(svs) = n /\ DOMAIN svs = 1 .. n
  BY <1>2
<1>4. RepeatedShape
  BY DEF RepeatedIInv
<1>5. CASE etype = "message"
  <2>1. a = Fresh(n)
    BY <1>1, <1>3, <1>5 DEF FromList
  <2>2. /\ Fresh(n) \in Seq(Elems) /\ Len(Fresh(n)) = n
        /\ \A i \in 1 .. n : Fresh(n)[i] \notin Used /\ Fresh(n)[i] # 0
        /\ \A i, j \in 1 .. n : Fresh(n)[i] = Fresh(n)[j] => i = j
    BY <1>4, <1>5, FreshIsNew
  <2>3. DOMAIN Fresh(n) = 1 .. n
    BY <2>2, LenProperties
  <2> QED BY <1>1, <2>1, <2>2, <2>3, AssignStep
<1>6. CASE etype = "int32"
  <2>1. etype = "int32" /\ Elems = Ints32
    BY <1>4, <1>6, ElemsByType
  <2>2. a = [i \in 1 .. n |-> BatchRaw(svs[i], "int32")]
    BY <1>1, <1>3, <1>6, <2>1 DEF FromList
  <2>3. \A i \in 1 .. n : BatchRaw(svs[i], "int32") \in Elems
    BY <1>2, <2>1, Int32Elements, RepeatedAssumption
  <2>4. a \in Seq(Elems)
    BY <2>2, <2>3
  <2> QED BY <1>1, <1>6, <2>4, AssignStep
<1>7. CASE etype = "string"
  <2>1. a = [i \in 1 .. n |-> Own]
    BY <1>1, <1>3, <1>7 DEF FromList
  <2>2. Own \in Elems
    BY <1>4, <1>7, ElemsByType
  <2>3. a \in Seq(Elems)
    BY <2>1, <2>2
  <2> QED BY <1>1, <1>7, <2>3, AssignStep
<1> QED BY <1>4, <1>5, <1>6, <1>7 DEF RepeatedShape

(* The copy of a tied list, of this message or of another. *)
LEMMA TiedCopyStep ==
    ASSUME RepeatedIInv, NEW f \in RepeatedFields, NEW s \in Seq(Elems), NEW fast,
           Assign(f, FromTied(s), fast)
    PROVE  RepeatedIInv'
<1> DEFINE a == FromTied(s)
<1>1. Assign(f, a, fast) /\ RepeatedShape
  BY DEF RepeatedIInv
<1>2. Len(s) \in Nat
  BY LenProperties
<1>3. CASE etype = "message"
  <2> DEFINE n == Len(s)
  <2>1. a = Fresh(n) /\ n \in Nat
    BY <1>2, <1>3 DEF FromTied
  <2> HIDE DEF n
  <2>2. /\ Fresh(n) \in Seq(Elems) /\ Len(Fresh(n)) = n
        /\ \A i \in 1 .. n : Fresh(n)[i] \notin Used /\ Fresh(n)[i] # 0
        /\ \A i, j \in 1 .. n : Fresh(n)[i] = Fresh(n)[j] => i = j
    BY <1>1, <1>3, <2>1, FreshIsNew
  <2>3. DOMAIN Fresh(n) = 1 .. n
    BY <2>2, LenProperties
  <2> HIDE DEF a
  <2> QED BY <1>1, <2>1, <2>2, <2>3, AssignStep
<1>4. CASE etype # "message"
  <2>1. a = s
    BY <1>4 DEF FromTied
  <2> HIDE DEF a
  <2> QED BY <1>1, <1>4, <2>1, AssignStep
<1> QED BY <1>3, <1>4

LEMMA SetTiedStep ==
    ASSUME RepeatedIInv, NEW f \in RepeatedFields, NEW g \in RepeatedFields, NEW fast,
           SetTied(f, g, fast)
    PROVE  RepeatedIInv'
<1>1. handle[g] # 0 /\ Assign(f, FromTied(arr(g)), fast) /\ RepeatedShape
  BY DEF SetTied, RepeatedIInv, arr
<1>2. arr(g) \in Seq(Elems)
  BY <1>1, HandleArray
<1> QED BY <1>1, <1>2, TiedCopyStep

LEMMA SetOtherStep ==
    ASSUME RepeatedIInv, NEW f \in RepeatedFields, NEW fast, SetOther(f, fast)
    PROVE  RepeatedIInv'
<1> DEFINE e == IF etype = "string" THEN Foreign ELSE 0
           s == <<e>>
<1>1. Assign(f, FromTied(s), fast) /\ RepeatedShape
  BY DEF SetOther, RepeatedIInv
<1>2. e \in Elems
  BY <1>1, ZeroIsElement, ElemsByType
<1> HIDE DEF e
<1>3. s \in Seq(Elems)
  BY <1>2
<1> HIDE DEF s
<1> QED BY <1>1, <1>3, TiedCopyStep

LEMMA SetItemStep ==
    ASSUME RepeatedIInv, NEW f \in RepeatedFields, handle[f] # 0, NEW sv \in Elements,
           NEW i, SetItem(f, i, sv)
    PROVE  RepeatedIInv'
<1> DEFINE s == arr(f)
<1>1. PICK e \in Element(sv) : Write(f, [s EXCEPT ![i] = e])
  BY DEF SetItem
<1>2. i \in DOMAIN s /\ torn' = torn /\ RepeatedShape
  BY DEF SetItem, RepeatedIInv
<1>3. e \in Elems /\ (etype = "message" => e \notin Used /\ e # 0)
  BY <1>2, ElementIsNew
<1>4. /\ s \in Seq(Elems) /\ DOMAIN s = 1 .. Len(s) /\ Len(s) \in Nat
      /\ \A k \in DOMAIN s : s[k] \in Used
  BY <1>2, HandleArray
<1>5. etype = "message" /\ ~torn => \A j, k \in DOMAIN s : s[j] = s[k] /\ s[j] # 0 => j = k
  BY OnceInArray
<1> DEFINE a == [s EXCEPT ![i] = e]
<1>6. arr(f) = s
  OBVIOUS
<1> HIDE DEF s
<1>7. a \in Seq(Elems) /\ DOMAIN a = DOMAIN s /\ a[i] = e /\ \A k \in DOMAIN s : k # i => a[k] = s[k]
  BY <1>2, <1>3, <1>4, ExceptSeq
<1> HIDE DEF a
<1>8. Write(f, a)
  BY <1>1 DEF a
<1>9. ASSUME etype = "message", ~torn'
      PROVE  /\ \A j \in DOMAIN a : a[j] = 0 \/ a[j] \notin Used \/ \E k \in DOMAIN s : a[j] = s[k]
             /\ \A j, k \in DOMAIN a : a[j] = a[k] /\ a[j] # 0 => j = k
  BY <1>2, <1>3, <1>4, <1>5, <1>7, <1>9
<1> QED BY <1>2, <1>6, <1>7, <1>8, <1>9, RewriteStep

(* An element at the end: AppendItem, Add, and an Insert there that dies. *)
LEMMA AppendStep ==
    ASSUME RepeatedIInv, NEW f \in RepeatedFields, handle[f] # 0, NEW e \in Elems,
           Write(f, Append(arr(f), e)), torn => torn',
           etype = "message" /\ ~torn' => e \notin Used
    PROVE  RepeatedIInv'
<1> DEFINE s == arr(f)
           a == Append(s, e)
<1>1. RepeatedShape
  BY DEF RepeatedIInv
<1>2. /\ s \in Seq(Elems) /\ DOMAIN s = 1 .. Len(s) /\ Len(s) \in Nat
      /\ \A k \in DOMAIN s : s[k] \in Used
  BY <1>1, HandleArray
<1>3. etype = "message" /\ ~torn => \A j, k \in DOMAIN s : s[j] = s[k] /\ s[j] # 0 => j = k
  BY OnceInArray
<1>4. arr(f) = s /\ Write(f, a)
  OBVIOUS
<1> HIDE DEF s
<1>5. /\ a \in Seq(Elems) /\ DOMAIN a = 1 .. Len(s) + 1
      /\ \A k \in 1 .. Len(s) : a[k] = s[k]
  BY <1>2, AppendProperties
<1>6. a[Len(s) + 1] = e
  BY <1>2, AppendProperties
<1> HIDE DEF a
<1>7. \A k \in DOMAIN a : (k \in DOMAIN s /\ a[k] = s[k]) \/ (k = Len(s) + 1 /\ a[k] = e)
  <2> TAKE k \in DOMAIN a
  <2>1. k \in 1 .. Len(s) \/ k = Len(s) + 1
    BY <1>2, <1>5
  <2>2. CASE k \in 1 .. Len(s)
    BY <1>2, <1>5, <2>2
  <2>3. CASE k = Len(s) + 1
    BY <1>6, <2>3
  <2> QED BY <2>1, <2>2, <2>3
<1>8. ASSUME etype = "message", ~torn'
      PROVE  /\ \A j \in DOMAIN a : a[j] = 0 \/ a[j] \notin Used \/ \E k \in DOMAIN s : a[j] = s[k]
             /\ \A j, k \in DOMAIN a : a[j] = a[k] /\ a[j] # 0 => j = k
  <2>1. ~torn /\ e \notin Used
    BY <1>8
  <2>2. \A j \in DOMAIN a : a[j] = 0 \/ a[j] \notin Used \/ \E k \in DOMAIN s : a[j] = s[k]
    BY <1>7, <2>1
  <2>3. ASSUME NEW j \in DOMAIN a, NEW k \in DOMAIN a, a[j] = a[k], a[j] # 0
        PROVE  j = k
    <3>1. CASE j \in DOMAIN s /\ a[j] = s[j] /\ k \in DOMAIN s /\ a[k] = s[k]
      BY <1>3, <1>8, <2>1, <2>3, <3>1
    <3>2. CASE j = Len(s) + 1 /\ a[j] = e
      BY <1>2, <1>7, <2>1, <2>3, <3>2
    <3>3. CASE k = Len(s) + 1 /\ a[k] = e
      BY <1>2, <1>7, <2>1, <2>3, <3>3
    <3> QED BY <1>7, <3>1, <3>2, <3>3
  <2> QED BY <2>2, <2>3
<1> QED BY <1>4, <1>5, <1>8, RewriteStep

LEMMA InsertStep ==
    ASSUME RepeatedIInv, NEW f \in RepeatedFields, handle[f] # 0, NEW sv \in Elements,
           NEW i, Insert(f, i, sv)
    PROVE  RepeatedIInv'
<1> DEFINE s == arr(f)
<1>1. RepeatedShape /\ i \in 1 .. Len(s) + 1
  BY DEF RepeatedIInv, Insert
<1>2. /\ s \in Seq(Elems) /\ DOMAIN s = 1 .. Len(s) /\ Len(s) \in Nat
      /\ \A k \in DOMAIN s : s[k] \in Used /\ s[k] \in Elems
  BY <1>1, HandleArray
<1>3. etype = "message" /\ ~torn => \A j, k \in DOMAIN s : s[j] = s[k] /\ s[j] # 0 => j = k
  BY OnceInArray
<1>4. ASSUME NEW e \in Elems, Write(f, InsertAt(s, i, e)), torn => torn',
             etype = "message" /\ ~torn' => e \notin Used
      PROVE  RepeatedIInv'
  <2> DEFINE a == InsertAt(s, i, e)
  <2>1. arr(f) = s /\ Write(f, a)
    BY <1>4
  <2> HIDE DEF s
  <2>2. /\ a \in Seq(Elems) /\ Len(a) = Len(s) + 1
        /\ \A j \in 1 .. Len(s) + 1 : a[j] = IF j < i THEN s[j] ELSE IF j = i THEN e ELSE s[j - 1]
    <3> DEFINE S == Elems
    <3>1. s \in Seq(S) /\ i \in 1 .. Len(s) + 1 /\ e \in S
      BY <1>1, <1>2, <1>4 DEF s
    <3> HIDE DEF S
    <3>2. /\ InsertAt(s, i, e) \in Seq(S) /\ Len(InsertAt(s, i, e)) = Len(s) + 1
          /\ \A j \in 1 .. Len(s) + 1 : j < i => InsertAt(s, i, e)[j] = s[j]
          /\ InsertAt(s, i, e)[i] = e
          /\ \A j \in 1 .. Len(s) + 1 : j > i => InsertAt(s, i, e)[j] = s[j - 1]
      BY <3>1, InsertElements
    <3>3. i \in Nat /\ Len(s) \in Nat
      BY <1>1, <1>2 DEF s
    <3> QED BY <3>2, <3>3 DEF S
  <2> HIDE DEF a
  <2>3. DOMAIN a = 1 .. Len(s) + 1
    BY <2>2, LenProperties
  <2> DEFINE at == [j \in 1 .. Len(s) + 1 |-> IF j < i THEN j ELSE j - 1]
  <2>4. /\ \A j \in DOMAIN a : (j = i /\ a[j] = e) \/ (j # i /\ at[j] \in DOMAIN s /\ a[j] = s[at[j]])
        /\ \A j, k \in DOMAIN a : j # i /\ k # i /\ at[j] = at[k] => j = k
    <3>1. i \in Nat /\ i >= 1 /\ i <= Len(s) + 1
      BY <1>1, <1>2
    <3>2. \A j \in 1 .. Len(s) + 1 : at[j] = IF j < i THEN j ELSE j - 1
      OBVIOUS
    <3> HIDE DEF at
    <3>3. ASSUME NEW j \in DOMAIN a
          PROVE  (j = i /\ a[j] = e) \/ (j # i /\ at[j] \in DOMAIN s /\ a[j] = s[at[j]])
      <4>1. j \in 1 .. Len(s) + 1 /\ j \in Nat
        BY <1>2, <2>3
      <4>2. a[j] = IF j < i THEN s[j] ELSE IF j = i THEN e ELSE s[j - 1]
        BY <2>2, <4>1
      <4>3. at[j] = IF j < i THEN j ELSE j - 1
        BY <3>2, <4>1
      <4>4. DOMAIN s = 1 .. Len(s) /\ Len(s) \in Nat
        BY <1>2
      <4>5. CASE j = i
        BY <3>1, <4>2, <4>5
      <4>6. CASE j # i
        <5>1. at[j] \in DOMAIN s
          BY <3>1, <4>1, <4>3, <4>4, <4>6
        <5> QED BY <4>2, <4>3, <4>6, <5>1
      <4> QED BY <4>5, <4>6
    <3>4. ASSUME NEW j \in DOMAIN a, NEW k \in DOMAIN a, j # i, k # i, at[j] = at[k]
          PROVE  j = k
      <4>1. j \in 1 .. Len(s) + 1 /\ k \in 1 .. Len(s) + 1 /\ j \in Nat /\ k \in Nat
        BY <1>2, <2>3
      <4> QED BY <3>1, <3>2, <3>4, <4>1
    <3> QED BY <3>3, <3>4
  <2> HIDE DEF at
  <2>5. ASSUME etype = "message", ~torn'
        PROVE  /\ \A j \in DOMAIN a : a[j] = 0 \/ a[j] \notin Used \/ \E k \in DOMAIN s : a[j] = s[k]
               /\ \A j, k \in DOMAIN a : a[j] = a[k] /\ a[j] # 0 => j = k
    <3>1. ~torn /\ e \notin Used
      BY <1>4, <2>5
    <3>2. \A j \in DOMAIN a : a[j] = 0 \/ a[j] \notin Used \/ \E k \in DOMAIN s : a[j] = s[k]
      BY <2>4, <3>1
    <3>3. ASSUME NEW j \in DOMAIN a, NEW k \in DOMAIN a, a[j] = a[k], a[j] # 0
          PROVE  j = k
      <4>1. CASE j = i \/ k = i
        BY <1>2, <2>4, <3>1, <3>3, <4>1
      <4>2. CASE j # i /\ k # i
        BY <1>3, <2>4, <2>5, <3>1, <3>3, <4>2
      <4> QED BY <4>1, <4>2
    <3> QED BY <3>2, <3>3
  <2> QED BY <1>4, <2>1, <2>2, <2>5, RewriteStep
<1>5. CASE Element(sv) # {}
  <2>1. PICK e \in Element(sv) : Write(f, InsertAt(s, i, e))
    BY <1>5 DEF Insert
  <2>2. torn' = torn
    BY <1>5 DEF Insert
  <2>3. e \in Elems /\ (etype = "message" => e \notin Used)
    BY <1>1, ElementIsNew
  <2> QED BY <1>4, <2>1, <2>2, <2>3
<1>6. CASE Element(sv) = {} /\ i <= Len(s)
  <2>1. Write(f, InsertAt(s, i, s[i])) /\ torn'
    BY <1>6 DEF Insert
  <2>2. s[i] \in Elems
    BY <1>1, <1>2, <1>6
  <2> HIDE DEF s
  <2> QED BY <1>4, <2>1, <2>2
<1>7. CASE Element(sv) = {} /\ ~ (i <= Len(s))
  <2>1. torn' /\ \E v \in Garbage : Write(f, Append(s, v))
    BY <1>7 DEF Insert
  <2>2. PICK v \in Garbage : Write(f, Append(arr(f), v))
    BY <2>1
  <2>3. v \in Elems
    <3>1. CASE etype # "int32"
      BY <1>1, <3>1, UsedElements, ZeroIsElement DEF Garbage
    <3>2. CASE etype = "int32"
      BY <1>1, <3>2, ElemsByType, Int32Elements DEF Garbage
    <3> QED BY <3>1, <3>2
  <2> QED BY <2>1, <2>2, <2>3, AppendStep
<1> QED BY <1>5, <1>6, <1>7
LEMMA DeleteStep ==
    ASSUME RepeatedIInv, NEW f \in RepeatedFields, handle[f] # 0,
           NEW i, NEW count \in Nat \ {0}, Delete(f, i, count)
    PROVE  RepeatedIInv'
<1> DEFINE s == arr(f)
           a == Deleted(s, i, count)
<1>1. /\ RepeatedShape /\ i \in 1 .. Len(s) + 1 /\ torn' = torn
      /\ Write(f, a) /\ arr(f) = s
  BY DEF RepeatedIInv, Delete, Deleted
<1>2. /\ s \in Seq(Elems) /\ DOMAIN s = 1 .. Len(s) /\ Len(s) \in Nat
      /\ \A k \in DOMAIN s : s[k] \in Used /\ s[k] \in Elems
  BY <1>1, HandleArray
<1>3. etype = "message" /\ ~torn => \A j, k \in DOMAIN s : s[j] = s[k] /\ s[j] # 0 => j = k
  BY OnceInArray
<1> HIDE DEF s
<1>4. /\ a \in Seq(Elems)
      /\ \A j \in 1 .. Len(a) : j < i => j \in 1 .. Len(s) /\ a[j] = s[j]
      /\ \A j \in 1 .. Len(a) : ~ (j < i) => j + count \in 1 .. Len(s) /\ a[j] = s[j + count]
  BY <1>1, <1>2, DeleteElements
<1> HIDE DEF a
<1> DEFINE at == [j \in 1 .. Len(a) |-> IF j < i THEN j ELSE j + count]
<1>5. DOMAIN a = 1 .. Len(a) /\ Len(a) \in Nat
  BY <1>4, LenProperties
<1>6. i \in Nat
  BY <1>1, <1>2
<1>7. /\ \A j \in DOMAIN a : at[j] \in DOMAIN s /\ a[j] = s[at[j]]
      /\ \A j, k \in DOMAIN a : at[j] = at[k] => j = k
  <2>1. \A j \in DOMAIN a : at[j] = IF j < i THEN j ELSE j + count
    BY <1>5
  <2> HIDE DEF at
  <2>2. ASSUME NEW j \in DOMAIN a
        PROVE  at[j] \in DOMAIN s /\ a[j] = s[at[j]]
    <3>1. j \in 1 .. Len(a)
      BY <1>5
    <3>2. CASE j < i
      BY <1>2, <1>4, <2>1, <3>1, <3>2
    <3>3. CASE ~(j < i)
      BY <1>2, <1>4, <2>1, <3>1, <3>3
    <3> QED BY <3>2, <3>3
  <2>3. ASSUME NEW j \in DOMAIN a, NEW k \in DOMAIN a, at[j] = at[k]
        PROVE  j = k
    <3>1. j \in Nat /\ k \in Nat /\ count \in Nat
      BY <1>5
    <3> QED BY <1>6, <2>1, <2>3, <3>1
  <2> QED BY <2>2, <2>3
<1> HIDE DEF at
<1>8. ASSUME etype = "message", ~torn'
      PROVE  /\ \A j \in DOMAIN a : a[j] = 0 \/ a[j] \notin Used \/ \E k \in DOMAIN s : a[j] = s[k]
             /\ \A j, k \in DOMAIN a : a[j] = a[k] /\ a[j] # 0 => j = k
  BY <1>1, <1>3, <1>7, <1>8
<1> QED BY <1>1, <1>4, <1>8, RewriteStep

LEMMA ResizeStep ==
    ASSUME RepeatedIInv, NEW f \in RepeatedFields, handle[f] # 0, NEW size \in Nat, Resize(f, size)
    PROVE  RepeatedIInv'
<1> DEFINE s == arr(f)
           a == [i \in 1 .. size |-> IF i <= Len(s) THEN s[i] ELSE 0]
<1>1. RepeatedShape /\ torn' = torn /\ Write(f, a) /\ arr(f) = s
  BY DEF RepeatedIInv, Resize
<1>2. /\ s \in Seq(Elems) /\ DOMAIN s = 1 .. Len(s) /\ Len(s) \in Nat
      /\ \A k \in DOMAIN s : s[k] \in Used /\ s[k] \in Elems
  BY <1>1, HandleArray
<1>3. etype = "message" /\ ~torn => \A j, k \in DOMAIN s : s[j] = s[k] /\ s[j] # 0 => j = k
  BY OnceInArray
<1>4. 0 \in Elems
  BY <1>1, ZeroIsElement
<1> HIDE DEF s
<1>5. \A k \in 1 .. size : IF k <= Len(s) THEN k \in DOMAIN s /\ a[k] = s[k] ELSE a[k] = 0
  BY <1>2
<1>6. \A k \in 1 .. size : a[k] \in Elems
  BY <1>2, <1>4, <1>5
<1>7. a \in Seq(Elems) /\ DOMAIN a = 1 .. size
  <2>1. DOMAIN a = 1 .. size
    OBVIOUS
  <2>2. a \in [1 .. size -> Elems]
    BY <1>6
  <2> HIDE DEF a
  <2> QED BY <2>1, <2>2
<1> HIDE DEF a
<1>8. ASSUME etype = "message", ~torn'
      PROVE  /\ \A j \in DOMAIN a : a[j] = 0 \/ a[j] \notin Used \/ \E k \in DOMAIN s : a[j] = s[k]
             /\ \A j, k \in DOMAIN a : a[j] = a[k] /\ a[j] # 0 => j = k
  <2>1. \A j \in DOMAIN a : a[j] = 0 \/ (j \in DOMAIN s /\ a[j] = s[j])
    BY <1>5, <1>7
  <2> QED BY <1>1, <1>3, <1>8, <2>1
<1> QED BY <1>1, <1>7, <1>8, RewriteStep

LEMMA DropOtherStep ==
    ASSUME RepeatedIInv, DropOther
    PROVE  RepeatedIInv'
<1>1. /\ etype' = etype /\ arrays' = arrays /\ field' = field /\ handle' = handle
      /\ stale' = stale /\ torn' = torn
  BY DEF DropOther
<1> QED BY <1>1 DEF RepeatedIInv, RepeatedShape, FieldsAndHandles, Unshared, Elems

LEMMA OnFieldStep ==
    ASSUME RepeatedIInv, MemoIInv, NEW f \in RepeatedFields, OnField(f)
    PROVE  RepeatedIInv'
<1>0. RepeatedShape
  BY DEF RepeatedIInv
<1>1. CASE GetRepeated(f)
  BY <1>1, FetchStep DEF GetRepeated
<1>2. CASE FastGetRepeated(f)
  <2>1. CASE memo[f] # 0
    BY <1>2, <2>1, FastGetStep
  <2>2. CASE memo[f] = 0
    BY <1>2, <2>2, FetchStep DEF FastGetRepeated
  <2> QED BY <2>1, <2>2
<1>3. CASE \E fast \in BOOLEAN : ClearRepeated(f, fast)
  BY <1>3, ClearRepeatedStep
<1>4. CASE \E fast \in BOOLEAN : \E svs \in Lists : SetList(f, svs, fast)
  BY <1>4, SetListStep
<1>5. CASE \E fast \in BOOLEAN : SetOther(f, fast) \/ \E g \in RepeatedFields : SetTied(f, g, fast)
  BY <1>5, SetTiedStep, SetOtherStep
<1>6. CASE handle[f] # 0 /\ Add(f)
  <2> DEFINE one == 1
             e == Fresh(one)[one]
  <2>1. etype = "message" /\ Write(f, Append(arr(f), e)) /\ torn' = torn
    BY <1>6 DEF Add
  <2>2. one \in Nat /\ one \in 1 .. one
    OBVIOUS
  <2> HIDE DEF one
  <2>3. Fresh(one) \in Seq(Elems) /\ Len(Fresh(one)) = one /\ e \notin Used
    BY <1>0, <2>1, <2>2, FreshIsNew
  <2>4. e \in Elems
    BY <2>2, <2>3, ElementOfSeq
  <2> HIDE DEF e
  <2> QED BY <1>6, <2>1, <2>3, <2>4, AppendStep
<1>7. CASE handle[f] # 0 /\ \E sv \in Elements : AppendItem(f, sv)
  <2>1. PICK sv \in Elements : AppendItem(f, sv)
    BY <1>7
  <2>2. PICK e \in Element(sv) : Write(f, Append(arr(f), e))
    BY <2>1 DEF AppendItem
  <2>3. torn' = torn
    BY <2>1 DEF AppendItem
  <2>4. e \in Elems /\ (etype = "message" => e \notin Used)
    BY <1>0, ElementIsNew
  <2> QED BY <1>7, <2>2, <2>3, <2>4, AppendStep
<1>8. CASE handle[f] # 0 /\ \E sv \in Elements : \E i \in 1 .. MaxLen : SetItem(f, i, sv)
  BY <1>8, SetItemStep
<1>9. CASE handle[f] # 0 /\ \E sv \in Elements : \E i \in 1 .. MaxLen : Insert(f, i, sv)
  BY <1>9, InsertStep
<1>10. CASE handle[f] # 0 /\ \E i \in 1 .. MaxLen, count \in 1 .. MaxLen : Delete(f, i, count)
  <2>1. PICK i \in 1 .. MaxLen, count \in 1 .. MaxLen : Delete(f, i, count)
    BY <1>10
  <2>2. count \in Nat \ {0}
    BY RepeatedAssumption
  <2> QED BY <1>10, <2>1, <2>2, DeleteStep
<1>11. CASE handle[f] # 0 /\ \E size \in 0 .. MaxLen : Resize(f, size)
  <2>1. PICK size \in 0 .. MaxLen : Resize(f, size)
    BY <1>11
  <2>2. size \in Nat
    BY RepeatedAssumption
  <2> QED BY <1>11, <2>1, <2>2, ResizeStep
<1> QED BY <1>1, <1>2, <1>3, <1>4, <1>5, <1>6, <1>7, <1>8, <1>9, <1>10, <1>11 DEF OnField

(* A write through a list and the steps that assign leave the memo as its   *)
(* invariant says.                                                         *)
LEMMA MemoKept ==
    ASSUME MemoIInv, memo' = memo, bypassed' = bypassed, field' = field,
           Len(arrays') = Len(arrays)
    PROVE  MemoIInv'
BY DEF MemoIInv

LEMMA MemoTold ==
    ASSUME MemoIInv, RepeatedShape, NEW f \in RepeatedFields, NEW fast \in BOOLEAN, NEW n,
           TellMemo(f, fast), field' = [field EXCEPT ![f] = n],
           Len(arrays') \in Nat, Len(arrays) <= Len(arrays')
    PROVE  MemoIInv'
<1>1. Len(arrays) \in Nat
  BY UsedElements
<1>2. 0 .. Len(arrays) \subseteq 0 .. Len(arrays') /\ 0 \in 0 .. Len(arrays')
  BY <1>1
<1>3. CASE fast
  <2>1. memo' = [g \in RepeatedFields |-> 0]
    BY <1>3 DEF TellMemo
  <2> QED BY <1>2, <2>1 DEF MemoIInv
<1>4. CASE ~fast
  <2>1. memo' = memo /\ bypassed' = IF memo[f] # 0 THEN bypassed \cup {f} ELSE bypassed
    BY <1>4 DEF TellMemo
  <2>2. memo' \in [RepeatedFields -> 0 .. Len(arrays')]
    BY <1>2, <2>1 DEF MemoIInv
  <2>3. \A g \in RepeatedFields : g # f => field'[g] = field[g]
    BY DEF RepeatedShape
  <2>4. ASSUME NEW g \in RepeatedFields, memo'[g] # 0, g \notin bypassed'
        PROVE  memo'[g] = field'[g]
    <3>1. g # f /\ g \notin bypassed
      BY <2>1, <2>4
    <3> QED BY <2>1, <2>3, <2>4, <3>1 DEF MemoIInv
  <2> QED BY <2>2, <2>4 DEF MemoIInv
<1> QED BY <1>3, <1>4

LEMMA MemoAssigned ==
    ASSUME MemoIInv, RepeatedShape, NEW f \in RepeatedFields, NEW fast \in BOOLEAN, NEW a,
           Assign(f, a, fast)
    PROVE  MemoIInv'
<1>1. TellMemo(f, fast) /\ field' = [field EXCEPT ![f] = Len(arrays')] /\ arrays' = Append(arrays, a)
  BY DEF Assign, Make
<1>2. Len(arrays) \in Nat /\ Len(arrays') = Len(arrays) + 1
  <2>1. arrays \in Seq(Seq(Elems)) /\ Len(arrays) \in Nat
    BY UsedElements DEF RepeatedShape
  <2> QED BY <1>1, <2>1
<1>3. Len(arrays') \in Nat /\ Len(arrays) <= Len(arrays')
  BY <1>2
<1> QED BY <1>1, <1>3, MemoTold

LEMMA MemoWritten ==
    ASSUME MemoIInv, RepeatedShape, NEW f \in RepeatedFields, handle[f] # 0, NEW a, Write(f, a)
    PROVE  MemoIInv'
<1>1. /\ memo' = memo /\ bypassed' = bypassed /\ field' = field
      /\ arrays' = [arrays EXCEPT ![handle[f]] = a]
  BY DEF Write, KeepMemo
<1>2. Len(arrays') = Len(arrays)
  <2>1. arrays \in Seq(Seq(Elems))
    BY DEF RepeatedShape
  <2> QED BY <1>1, <2>1
<1> QED BY <1>1, <1>2, MemoKept

LEMMA MemoFetched ==
    ASSUME MemoIInv, RepeatedIInv, NEW f \in RepeatedFields,
           GetRepeated(f) \/ FastGetRepeated(f)
    PROVE  MemoIInv'
<1>1. CASE FastGetRepeated(f) /\ memo[f] # 0
  <2>1. memo' = memo /\ bypassed' = bypassed /\ field' = field /\ arrays' = arrays
    BY <1>1 DEF FastGetRepeated, KeepMemo
  <2> QED BY <2>1, MemoKept
<1>2. CASE Fetch(f) /\ bypassed' = bypassed
           /\ (memo' = memo \/ memo' = [memo EXCEPT ![f] = field'[f]])
  <2>1. /\ \A g \in RepeatedFields : g # f \/ field[g] # 0 => field'[g] = field[g]
        /\ Len(arrays) \in Nat /\ Len(arrays') \in Nat /\ Len(arrays) <= Len(arrays')
        /\ field'[f] \in 0 .. Len(arrays')
    BY <1>2, FetchStep
  <2>2. 0 .. Len(arrays) \subseteq 0 .. Len(arrays')
    BY <2>1
  <2> DEFINE n == field'[f]
  <2>3. /\ memo \in [RepeatedFields -> 0 .. Len(arrays')] /\ n \in 0 .. Len(arrays')
        /\ memo' = memo \/ memo' = [memo EXCEPT ![f] = n]
    BY <1>2, <2>1, <2>2 DEF MemoIInv
  <2>4. field'[f] = n
    OBVIOUS
  <2> HIDE DEF n
  <2>5. memo' \in [RepeatedFields -> 0 .. Len(arrays')]
    BY <2>3
  <2>6. ASSUME NEW g \in RepeatedFields, memo'[g] # 0, g \notin bypassed'
        PROVE  memo'[g] = field'[g]
    <3>1. CASE memo'[g] = memo[g]
      <4>1. memo[g] = field[g] /\ field[g] # 0
        BY <1>2, <2>6, <3>1 DEF MemoIInv
      <4> QED BY <2>1, <3>1, <4>1
    <3>2. CASE memo'[g] # memo[g]
      <4>1. g = f /\ memo'[g] = n
        BY <2>3, <3>2
      <4> QED BY <2>4, <4>1
    <3> QED BY <3>1, <3>2
  <2> QED BY <2>5, <2>6 DEF MemoIInv
<1>3. CASE GetRepeated(f)
  BY <1>2, <1>3 DEF GetRepeated, KeepMemo
<1>4. CASE FastGetRepeated(f) /\ memo[f] = 0
  BY <1>2, <1>4 DEF FastGetRepeated
<1> QED BY <1>1, <1>3, <1>4

LEMMA MemoStep ==
    ASSUME MemoIInv, RepeatedIInv, NEW f \in RepeatedFields, OnField(f)
    PROVE  MemoIInv'
<1>1. RepeatedShape
  BY DEF RepeatedIInv
<1>2. CASE GetRepeated(f) \/ FastGetRepeated(f)
  BY <1>2, MemoFetched
<1>3. CASE \E fast \in BOOLEAN : ClearRepeated(f, fast)
  <2>1. PICK fast \in BOOLEAN : ClearRepeated(f, fast)
    BY <1>3
  <2>2. TellMemo(f, fast) /\ field' = [field EXCEPT ![f] = 0] /\ arrays' = arrays
    BY <2>1 DEF ClearRepeated
  <2>3. Len(arrays') \in Nat /\ Len(arrays) <= Len(arrays')
    BY <1>1, <2>2, UsedElements
  <2> QED BY <1>1, <2>2, <2>3, MemoTold
<1>4. CASE \E fast \in BOOLEAN :
             \/ \E svs \in Lists : SetList(f, svs, fast)
             \/ \E g \in RepeatedFields : SetTied(f, g, fast)
             \/ SetOther(f, fast)
  <2>1. \E fast \in BOOLEAN : \E a : Assign(f, a, fast)
    BY <1>4 DEF SetList, SetTied, SetOther
  <2> QED BY <1>1, <2>1, MemoAssigned
<1>5. CASE /\ handle[f] # 0
           /\ \/ Add(f)
              \/ \E sv \in Elements :
                    \/ AppendItem(f, sv)
                    \/ \E i \in 1 .. MaxLen : SetItem(f, i, sv) \/ Insert(f, i, sv)
              \/ \E i \in 1 .. MaxLen, count \in 1 .. MaxLen : Delete(f, i, count)
              \/ \E size \in 0 .. MaxLen : Resize(f, size)
  <2>1. \E a : Write(f, a)
    <3>1. CASE Add(f)
      BY <3>1 DEF Add
    <3>2. CASE \E sv \in Elements : AppendItem(f, sv)
      BY <3>2 DEF AppendItem
    <3>3. CASE \E sv \in Elements : \E i \in 1 .. MaxLen : SetItem(f, i, sv)
      BY <3>3 DEF SetItem
    <3>4. CASE \E sv \in Elements : \E i \in 1 .. MaxLen : Insert(f, i, sv)
      BY <3>4 DEF Insert
    <3>5. CASE \E i \in 1 .. MaxLen, count \in 1 .. MaxLen : Delete(f, i, count)
      BY <3>5 DEF Delete
    <3>6. CASE \E size \in 0 .. MaxLen : Resize(f, size)
      BY <3>6 DEF Resize
    <3> QED BY <1>5, <3>1, <3>2, <3>3, <3>4, <3>5, <3>6
  <2> QED BY <1>1, <1>5, <2>1, MemoWritten
<1> QED BY <1>2, <1>3, <1>4, <1>5 DEF OnField

LEMMA RepeatedStep ==
    ASSUME RepeatedIInv, MemoIInv, RepeatedNext
    PROVE  RepeatedIInv' /\ MemoIInv'
<1>1. CASE DropOther
  <2>1. memo' = memo /\ bypassed' = bypassed /\ field' = field /\ arrays' = arrays
    BY <1>1 DEF DropOther, KeepMemo
  <2> QED BY <1>1, <2>1, DropOtherStep, MemoKept
<1>2. CASE \E f \in RepeatedFields : OnField(f)
  BY <1>2, OnFieldStep, MemoStep
<1> QED BY <1>1, <1>2 DEF RepeatedNext

LEMMA RepeatedStart == RepeatedInit => RepeatedIInv /\ MemoIInv
<1> SUFFICES ASSUME RepeatedInit
             PROVE  RepeatedIInv /\ MemoIInv
  OBVIOUS
<1>1. arrays = <<>> /\ etype \in {"int32", "string", "message"}
  BY DEF RepeatedInit
<1>2. arrays \in Seq(Seq(Elems)) /\ Len(arrays) = 0 /\ DOMAIN arrays = {}
  BY <1>1
<1>3. RepeatedIInv
  BY <1>1, <1>2 DEF RepeatedInit, RepeatedIInv, RepeatedShape, FieldsAndHandles, Unshared
<1>4. MemoIInv
  BY <1>2 DEF RepeatedInit, MemoIInv
<1> QED BY <1>3, <1>4

LEMMA RepeatedStutter ==
    ASSUME RepeatedIInv, MemoIInv, UNCHANGED rvars
    PROVE  RepeatedIInv' /\ MemoIInv'
<1>1. /\ etype' = etype /\ arrays' = arrays /\ field' = field /\ handle' = handle
      /\ stale' = stale /\ torn' = torn /\ memo' = memo /\ bypassed' = bypassed
  BY DEF rvars
<1>2. RepeatedIInv'
  BY <1>1 DEF RepeatedIInv, RepeatedShape, FieldsAndHandles, Unshared, Elems
<1> QED BY <1>1, <1>2, MemoKept

(* The repeated fields' arrays, the handles of the program and the getters' *)
(* memo agree as the invariants say, in every reachable state.             *)
THEOREM RepeatedInvariance == Spec => [](RepeatedIInv /\ MemoIInv)
<1>1. Init => RepeatedIInv /\ MemoIInv
  BY RepeatedStart DEF Init
<1>2. RepeatedIInv /\ MemoIInv /\ [Next]_vars => RepeatedIInv' /\ MemoIInv'
  <2> SUFFICES ASSUME RepeatedIInv, MemoIInv, [Next]_vars
               PROVE  RepeatedIInv' /\ MemoIInv'
    OBVIOUS
  <2>1. RepeatedNext \/ UNCHANGED rvars
    BY DEF Next, NextRepeated, NextMap, NextAux, NextDescriptors, vars
  <2> QED BY <2>1, RepeatedStep, RepeatedStutter
<1> QED BY <1>1, <1>2, PTL DEF Spec

(* A list that is assigned to no field meanwhile reaches its field, and a   *)
(* list of numbers survives the way out and back (PerlUpb_Message_ToSv,    *)
(* PerlUpb_SvToUpb), for every width and every number of fields.           *)
THEOREM HandlesReach == Spec => []HandlesReachTheField
<1>1. RepeatedIInv => HandlesReachTheField
  <2> SUFFICES ASSUME RepeatedIInv, NEW f \in RepeatedFields
               PROVE  /\ handle[f] # 0 /\ ~stale[f] => field[f] = handle[f]
                      /\ field[f] # 0 /\ etype = "int32" =>
                            FromList(ToSvList(arrays[field[f]])) = {arrays[field[f]]}
    BY DEF HandlesReachTheField
  <2>1. handle[f] # 0 /\ ~stale[f] => field[f] = handle[f]
    BY DEF RepeatedIInv, FieldsAndHandles
  <2>2. ASSUME field[f] # 0, etype = "int32"
        PROVE  FromList(ToSvList(arrays[field[f]])) = {arrays[field[f]]}
    <3> DEFINE a == arrays[field[f]]
               svs == [i \in DOMAIN a |-> UpbToSv_BatchRaw(a[i], "int32")]
               back == [i \in DOMAIN svs |-> BatchRaw(svs[i], "int32")]
    <3>1. RepeatedShape /\ etype = "int32" /\ Elems = Ints32
      BY <2>2, ElemsByType DEF RepeatedIInv
    <3>2. field[f] \in DOMAIN arrays
      BY <2>2, <3>1, UsedElements DEF RepeatedShape
    <3>3. a \in Seq(Ints32)
      BY <3>1, <3>2, UsedElements
    <3>4. ToSvList(a) = svs
      BY <3>1 DEF ToSvList
    <3>5. FromList(svs) = {back}
      <4> HIDE DEF svs
      <4> QED BY <3>1 DEF FromList
    <3> HIDE DEF a
    <3>6. \A i \in DOMAIN a : a[i] \in Ints32
      BY <3>3, ElementOfSeq, LenProperties
    <3>7. \A i \in DOMAIN a : BatchRaw(UpbToSv_BatchRaw(a[i], "int32"), "int32") = a[i]
      BY <3>6, Int32Elements
    <3>8. back = [i \in DOMAIN a |-> a[i]]
      BY <3>7
    <3>9. a = [i \in DOMAIN a |-> a[i]]
      BY <3>3
    <3> QED BY <3>4, <3>5, <3>8, <3>9 DEF a
  <2> QED BY <2>1, <2>2
<1> QED BY <1>1, RepeatedInvariance, PTL

(* No array is in two fields and no message twice an element, unless an     *)
(* insert died half way (PerlUpb_Repeated_Insert).                         *)
THEOREM NothingShared == Spec => []NothingIsShared
<1>1. RepeatedIInv => NothingIsShared
  BY DEF RepeatedIInv, FieldsAndHandles, Unshared, NothingIsShared
<1> QED BY <1>1, RepeatedInvariance, PTL
-----------------------------------------------------------------------------
(* Descriptors: what the pools hold. *)

(* The memory holds the generated pool, once it is made, and the other pool *)
(* beside it, and nothing else.                                            *)
PoolsIInv ==
    /\ gen_pool \in {"none", "wrapped", "bare"}
    /\ gen_pool # "none" =>
          /\ \A a \in DOMAIN generated : mem[a] = generated[a]
          /\ other_pool \cap DOMAIN generated = {}
    /\ other_pool # {} =>
          \E defs \in Layouts : /\ other_pool = DOMAIN defs
                                /\ \A a \in other_pool : mem[a] = defs[a]
    /\ \A a \in Addrs :
          mem[a] # NoDef => a \in other_pool \/ (gen_pool # "none" /\ a \in DOMAIN generated)

LEMMA LayoutFacts ==
    ASSUME NEW defs \in Layouts \cup {generated}
    PROVE  /\ IsLayout(defs) /\ DOMAIN defs \subseteq Addrs
           /\ \A a \in DOMAIN defs : defs[a] # NoDef
<1>1. IsLayout(defs)
  BY DescriptorsAssumption
<1>2. NoDef.kind = Undef /\ Undef = ""
  BY DEF NoDef, Undef
<1> QED BY <1>1, <1>2 DEF IsLayout

LEMMA KindIsDef ==
    ASSUME NEW d, d.kind \in {"message", "field", "file"}
    PROVE  d # NoDef
<1>1. NoDef.kind = ""
  BY DEF NoDef, Undef
<1> QED BY <1>1

(* A message lies in one of the pools, with all its fields. *)
LEMMA MessagePool ==
    ASSUME PoolsIInv, NEW p \in Addrs, mem[p] # NoDef
    PROVE  \E defs \in Layouts \cup {generated} :
              /\ p \in DOMAIN defs
              /\ \A a \in DOMAIN defs : mem[a] = defs[a]
              /\ \/ gen_pool # "none" /\ defs = generated
                 \/ other_pool # {} /\ DOMAIN defs = other_pool
<1>1. CASE p \in other_pool
  <2>1. PICK defs \in Layouts : other_pool = DOMAIN defs /\ \A a \in other_pool : mem[a] = defs[a]
    BY <1>1 DEF PoolsIInv
  <2> QED BY <1>1, <2>1
<1>2. CASE gen_pool # "none" /\ p \in DOMAIN generated
  BY <1>2 DEF PoolsIInv
<1> QED BY <1>1, <1>2 DEF PoolsIInv

LEMMA MessageFields ==
    ASSUME PoolsIInv, NEW p \in Addrs, mem[p].kind = "message"
    PROVE  /\ Len(mem[p].fields) \in Nat
           /\ \A i \in 1 .. Len(mem[p].fields) :
                 mem[p].fields[i] \in Addrs /\ mem[mem[p].fields[i]].kind = "field"
           /\ \A i, j \in 1 .. Len(mem[p].fields) :
                 \/ mem[mem[p].fields[i]].name = mem[mem[p].fields[j]].name
                 \/ mem[mem[p].fields[i]].number = mem[mem[p].fields[j]].number
                 => i = j
<1>1. mem[p] # NoDef
  BY KindIsDef
<1>2. PICK defs \in Layouts \cup {generated} :
              p \in DOMAIN defs /\ \A a \in DOMAIN defs : mem[a] = defs[a]
  BY <1>1, MessagePool
<1> DEFINE fs == mem[p].fields
           F == {b \in DOMAIN defs : defs[b].kind = "field"}
<1>3. fs = defs[p].fields
  BY <1>2
<1>4. /\ fs \in Seq(F) /\ DOMAIN defs \subseteq Addrs
      /\ \A i, j \in DOMAIN fs :
            defs[fs[i]].name = defs[fs[j]].name \/ defs[fs[i]].number = defs[fs[j]].number => i = j
  BY <1>2, <1>3, LayoutFacts DEF IsLayout
<1>5. /\ \A b \in F : b \in Addrs /\ b \in DOMAIN defs /\ mem[b] = defs[b] /\ defs[b].kind = "field"
      /\ F \subseteq Addrs
  BY <1>2, <1>4
<1> HIDE DEF F, fs
<1>6. Len(fs) \in Nat /\ DOMAIN fs = 1 .. Len(fs) /\ \A i \in 1 .. Len(fs) : fs[i] \in F
  BY <1>4, LenProperties, ElementOfSeq
<1>8. \A i \in 1 .. Len(fs) : fs[i] \in Addrs /\ mem[fs[i]].kind = "field"
  BY <1>5, <1>6
<1>9. \A i, j \in 1 .. Len(fs) :
          mem[fs[i]].name = mem[fs[j]].name \/ mem[fs[i]].number = mem[fs[j]].number => i = j
  BY <1>4, <1>5, <1>6
<1> QED BY <1>6, <1>8, <1>9 DEF fs

LEMMA GeneratedPoolStep ==
    ASSUME PoolsIInv, GeneratedPool
    PROVE  /\ PoolsIInv' /\ freed' = freed /\ other_pool' = other_pool
           /\ \A a \in Addrs : mem[a] # NoDef => mem'[a] = mem[a]
<1>1. gen_pool' = "wrapped" /\ other_pool' = other_pool /\ freed' = freed
  BY DEF GeneratedPool
<1>2. CASE gen_pool # "none"
  <2>1. mem' = mem
    BY <1>2 DEF GeneratedPool
  <2> QED BY <1>1, <1>2, <2>1 DEF PoolsIInv
<1>3. CASE gen_pool = "none"
  <2>1. /\ \A a \in DOMAIN generated : mem[a] = NoDef
        /\ mem' = [a \in Addrs |-> IF a \in DOMAIN generated THEN generated[a] ELSE mem[a]]
    BY <1>3 DEF GeneratedPool, Free, Placed
  <2>2. DOMAIN generated \subseteq Addrs /\ \A a \in DOMAIN generated : generated[a] # NoDef
    BY LayoutFacts
  <2>3. \A a \in Addrs : mem'[a] = IF a \in DOMAIN generated THEN generated[a] ELSE mem[a]
    BY <2>1
  <2>4. /\ other_pool \subseteq Addrs
        /\ \A a \in other_pool : mem[a] # NoDef
        /\ other_pool \cap DOMAIN generated = {}
    <3>1. CASE other_pool = {}
      BY <3>1
    <3>2. CASE other_pool # {}
      <4>1. PICK defs \in Layouts : other_pool = DOMAIN defs /\ \A a \in other_pool : mem[a] = defs[a]
        BY <3>2 DEF PoolsIInv
      <4>2. \A a \in DOMAIN defs : defs[a] # NoDef /\ a \in Addrs
        BY LayoutFacts
      <4> QED BY <2>1, <4>1, <4>2
    <3> QED BY <3>1, <3>2
  <2>5. \A a \in Addrs : mem[a] # NoDef => mem'[a] = mem[a] /\ a \in other_pool
    BY <1>3, <2>1, <2>3 DEF PoolsIInv
  <2>6. \A a \in DOMAIN generated : mem'[a] = generated[a]
    BY <2>2, <2>3
  <2>7. other_pool # {} =>
          \E defs \in Layouts : /\ other_pool = DOMAIN defs
                                /\ \A a \in other_pool : mem'[a] = defs[a]
    BY <2>4, <2>5 DEF PoolsIInv
  <2>8. \A a \in Addrs : mem'[a] # NoDef => a \in other_pool \/ a \in DOMAIN generated
    BY <2>3, <2>5
  <2>9. gen_pool' # "none" /\ gen_pool' \in {"none", "wrapped", "bare"}
    BY <1>1
  <2>10. PoolsIInv'
    BY <1>1, <2>4, <2>6, <2>7, <2>8, <2>9 DEF PoolsIInv
  <2> QED BY <1>1, <2>5, <2>10
<1> QED BY <1>2, <1>3

LEMMA NewPoolStep ==
    ASSUME PoolsIInv, NEW defs \in Layouts, NewPool(defs)
    PROVE  /\ PoolsIInv' /\ freed' = freed
           /\ \A a \in Addrs : mem[a] # NoDef => mem'[a] = mem[a]
<1>1. /\ gen_pool' = gen_pool /\ other_pool = {} /\ other_pool' = DOMAIN defs /\ freed' = freed
      /\ \A a \in DOMAIN defs : mem[a] = NoDef
      /\ mem' = [a \in Addrs |-> IF a \in DOMAIN defs THEN defs[a] ELSE mem[a]]
  BY DEF NewPool, Free, Placed
<1>2. DOMAIN defs \subseteq Addrs /\ \A a \in DOMAIN defs : defs[a] # NoDef
  BY LayoutFacts
<1>3. \A a \in Addrs : mem'[a] = IF a \in DOMAIN defs THEN defs[a] ELSE mem[a]
  BY <1>1
<1>4. DOMAIN generated \subseteq Addrs /\ \A a \in DOMAIN generated : generated[a] # NoDef
  BY LayoutFacts
<1>5. \A a \in Addrs : mem[a] # NoDef => mem'[a] = mem[a]
  BY <1>1, <1>3
<1>6. gen_pool # "none" =>
          /\ \A a \in DOMAIN generated : mem'[a] = generated[a]
          /\ other_pool' \cap DOMAIN generated = {}
  <2> SUFFICES ASSUME gen_pool # "none"
               PROVE  /\ \A a \in DOMAIN generated : mem'[a] = generated[a]
                      /\ other_pool' \cap DOMAIN generated = {}
    OBVIOUS
  <2>1. \A a \in DOMAIN generated : mem[a] = generated[a]
    BY DEF PoolsIInv
  <2> QED BY <1>1, <1>4, <1>5, <2>1
<1>7. \A a \in other_pool' : mem'[a] = defs[a]
  BY <1>1, <1>2, <1>3
<1>8. \A a \in Addrs :
          mem'[a] # NoDef => a \in other_pool' \/ (gen_pool # "none" /\ a \in DOMAIN generated)
  BY <1>1, <1>3 DEF PoolsIInv
<1>9. PoolsIInv'
  BY <1>1, <1>6, <1>7, <1>8 DEF PoolsIInv
<1> QED BY <1>1, <1>5, <1>9

LEMMA FreePoolStep ==
    ASSUME PoolsIInv, FreePool
    PROVE  /\ PoolsIInv' /\ freed \subseteq freed'
           /\ \A a \in Addrs : a \in other_pool \/ mem'[a] = mem[a]
           /\ mem' = mem \/ freed' = freed \cup other_pool
<1>1. CASE gen_pool = "wrapped" /\ gen_pool' = "bare" /\ UNCHANGED <<mem, other_pool, freed>>
  BY <1>1 DEF PoolsIInv
<1>2. CASE /\ other_pool # {}
           /\ mem' = [a \in Addrs |-> IF a \in other_pool THEN NoDef ELSE mem[a]]
           /\ freed' = freed \cup other_pool
           /\ other_pool' = {}
           /\ UNCHANGED gen_pool
  <2>1. \A a \in Addrs : mem'[a] = IF a \in other_pool THEN NoDef ELSE mem[a]
    BY <1>2
  <2>2. DOMAIN generated \subseteq Addrs
    BY LayoutFacts
  <2>3. gen_pool # "none" => \A a \in DOMAIN generated : mem'[a] = generated[a]
    BY <2>1, <2>2 DEF PoolsIInv
  <2>4. \A a \in Addrs : mem'[a] # NoDef => gen_pool # "none" /\ a \in DOMAIN generated
    BY <2>1 DEF PoolsIInv
  <2>5. PoolsIInv'
    BY <1>2, <2>3, <2>4 DEF PoolsIInv
  <2> QED BY <1>2, <2>1, <2>5
<1> QED BY <1>1, <1>2 DEF FreePool, DestroyRaw
(* What is kept by address is right for every address that was never freed. *)
CachesIInv ==
    /\ wrappers \in [Addrs -> {Undef, "message", "field", "file"}]
    /\ \A a \in Addrs \ freed : wrappers[a] # Undef => mem[a] # NoDef /\ wrappers[a] = mem[a].kind
    /\ DOMAIN stash_cache \subseteq Addrs
    /\ \A a \in DOMAIN stash_cache \ freed : mem[a] # NoDef /\ stash_cache[a] = mem[a].name
    /\ \A n \in DOMAIN fingerprints :
          /\ fingerprints[n] \in Addrs /\ wrappers[fingerprints[n]] # Undef
          /\ fingerprints[n] \notin freed =>
                /\ mem[fingerprints[n]].kind = "message"
                /\ fnv[mem[fingerprints[n]].name] = n

(* The memory keeps every definition that is not freed. *)
Keeps ==
    /\ freed \subseteq freed'
    /\ \A a \in Addrs \ freed' : mem[a] # NoDef => mem'[a] = mem[a]

LEMMA CachesKept ==
    ASSUME CachesIInv, Keeps, UNCHANGED <<wrappers, stash_cache, fingerprints>>
    PROVE  CachesIInv'
<1>1. wrappers' = wrappers /\ stash_cache' = stash_cache /\ fingerprints' = fingerprints
  OBVIOUS
<1>2. \A a \in Addrs : a \notin freed' => a \notin freed /\ (mem[a] # NoDef => mem'[a] = mem[a])
  BY DEF Keeps
<1>3. \A a \in Addrs \ freed' : wrappers[a] # Undef => mem'[a] # NoDef /\ wrappers[a] = mem'[a].kind
  BY <1>2 DEF CachesIInv
<1>4. \A a \in DOMAIN stash_cache \ freed' : mem'[a] # NoDef /\ stash_cache[a] = mem'[a].name
  BY <1>2 DEF CachesIInv
<1>5. ASSUME NEW n \in DOMAIN fingerprints, fingerprints[n] \notin freed'
      PROVE  mem'[fingerprints[n]].kind = "message" /\ fnv[mem'[fingerprints[n]].name] = n
  <2> DEFINE a == fingerprints[n]
  <2>1. a \in Addrs
    BY DEF CachesIInv
  <2>2. mem[a].kind = "message" /\ fnv[mem[a].name] = n
    BY <1>2, <1>5, <2>1 DEF CachesIInv
  <2>3. mem[a] # NoDef
    BY <2>2, KindIsDef
  <2>4. mem'[a] = mem[a]
    BY <1>2, <1>5, <2>1, <2>3
  <2> QED BY <2>2, <2>4
<1>6. /\ wrappers \in [Addrs -> {Undef, "message", "field", "file"}]
      /\ DOMAIN stash_cache \subseteq Addrs
      /\ \A n \in DOMAIN fingerprints : fingerprints[n] \in Addrs /\ wrappers[fingerprints[n]] # Undef
  BY DEF CachesIInv
<1> QED BY <1>1, <1>3, <1>4, <1>5, <1>6 DEF CachesIInv

(* A wrapper of the definition's own class. *)
LEMMA WrapStep ==
    ASSUME CachesIInv, KeepMemory, KeepTables, NEW a \in Addrs, NEW class,
           class \in {"message", "field", "file"}, mem[a].kind = class,
           wrappers' = Wrapped(a, class)
    PROVE  CachesIInv'
<1>1. /\ mem' = mem /\ freed' = freed
      /\ stash_cache' = stash_cache /\ fingerprints' = fingerprints
  BY DEF KeepMemory, KeepTables
<1>2. /\ wrappers' \in [Addrs -> {Undef, "message", "field", "file"}]
      /\ wrappers'[a] = IF wrappers[a] = Undef THEN class ELSE wrappers[a]
      /\ \A b \in Addrs : b # a => wrappers'[b] = wrappers[b]
  BY DEF Wrapped, CachesIInv
<1>3. mem[a] # NoDef /\ class # Undef
  <2>1. mem[a].kind \in {"message", "field", "file"}
    OBVIOUS
  <2>2. mem[a] # NoDef
    BY <2>1, KindIsDef
  <2> QED BY <2>2 DEF Undef
<1>4. \A b \in Addrs \ freed : wrappers'[b] # Undef => mem[b] # NoDef /\ wrappers'[b] = mem[b].kind
  BY <1>2, <1>3 DEF CachesIInv
<1>5. \A n \in DOMAIN fingerprints : wrappers'[fingerprints[n]] # Undef
  BY <1>2, <1>3 DEF CachesIInv
<1> QED BY <1>1, <1>2, <1>4, <1>5 DEF CachesIInv

LEMMA DropWrapperStep ==
    ASSUME CachesIInv, NEW a \in Addrs, DropWrapper(a)
    PROVE  CachesIInv'
<1>1. /\ mem' = mem /\ freed' = freed
      /\ stash_cache' = stash_cache /\ fingerprints' = fingerprints
      /\ \A n \in DOMAIN fingerprints : fingerprints[n] # a
      /\ wrappers' = [wrappers EXCEPT ![a] = Undef]
  BY DEF DropWrapper, KeepMemory, KeepTables
<1>2. /\ wrappers' \in [Addrs -> {Undef, "message", "field", "file"}]
      /\ wrappers'[a] = Undef
      /\ \A b \in Addrs : b # a => wrappers'[b] = wrappers[b]
  BY <1>1 DEF CachesIInv
<1>3. \A b \in Addrs \ freed : wrappers'[b] # Undef => mem[b] # NoDef /\ wrappers'[b] = mem[b].kind
  BY <1>2 DEF CachesIInv
<1>4. \A n \in DOMAIN fingerprints : wrappers'[fingerprints[n]] # Undef
  BY <1>1, <1>2 DEF CachesIInv
<1> QED BY <1>1, <1>2, <1>3, <1>4 DEF CachesIInv

LEMMA PerlClassNameStep ==
    ASSUME CachesIInv, NEW a \in Addrs, PerlClassName(a)
    PROVE  CachesIInv'
<1> DEFINE D == DOMAIN stash_cache
<1>1. /\ mem' = mem /\ freed' = freed /\ wrappers' = wrappers /\ fingerprints' = fingerprints
      /\ mem[a].kind = "message"
      /\ stash_cache' = [b \in D \cup {a} |-> IF b \in D THEN stash_cache[b] ELSE mem[a].name]
  BY DEF PerlClassName, Reached, KeepMemory
<1>2. mem[a] # NoDef
  BY <1>1, KindIsDef
<1>3. /\ DOMAIN stash_cache' = D \cup {a}
      /\ \A b \in D \cup {a} : stash_cache'[b] = IF b \in D THEN stash_cache[b] ELSE mem[a].name
  BY <1>1
<1>4. D \subseteq Addrs /\ \A b \in D \ freed : mem[b] # NoDef /\ stash_cache[b] = mem[b].name
  BY DEF CachesIInv
<1>5. /\ DOMAIN stash_cache' \subseteq Addrs
      /\ \A b \in DOMAIN stash_cache' \ freed : mem[b] # NoDef /\ stash_cache'[b] = mem[b].name
  BY <1>2, <1>3, <1>4
<1> QED BY <1>1, <1>5 DEF CachesIInv

LEMMA RegisterFingerprintStep ==
    ASSUME CachesIInv, NEW a \in Addrs, RegisterFingerprint(a)
    PROVE  CachesIInv'
<1> DEFINE D == DOMAIN fingerprints
           m == fnv[mem[a].name]
<1>1. /\ mem' = mem /\ freed' = freed /\ stash_cache' = stash_cache
      /\ mem[a].kind = "message"
      /\ wrappers' = Wrapped(a, "message")
      /\ fingerprints' = [n \in D \cup {m} |-> IF n = m THEN a ELSE fingerprints[n]]
  BY DEF RegisterFingerprint, GetFingerprint, KeepMemory
<1>2. mem[a] # NoDef
  BY <1>1, KindIsDef
<1>3. /\ wrappers' \in [Addrs -> {Undef, "message", "field", "file"}]
      /\ wrappers'[a] = IF wrappers[a] = Undef THEN "message" ELSE wrappers[a]
      /\ \A b \in Addrs : b # a => wrappers'[b] = wrappers[b]
  BY <1>1 DEF Wrapped, CachesIInv
<1>4. \A b \in Addrs \ freed : wrappers'[b] # Undef => mem[b] # NoDef /\ wrappers'[b] = mem[b].kind
  BY <1>1, <1>2, <1>3 DEF CachesIInv
<1>5. wrappers'[a] # Undef /\ \A b \in Addrs : wrappers[b] # Undef => wrappers'[b] # Undef
  BY <1>3 DEF Undef
<1>6. /\ DOMAIN fingerprints' = D \cup {m}
      /\ \A n \in D \cup {m} : fingerprints'[n] = IF n = m THEN a ELSE fingerprints[n]
  BY <1>1
<1>7. \A n \in D :
          /\ fingerprints[n] \in Addrs /\ wrappers[fingerprints[n]] # Undef
          /\ fingerprints[n] \notin freed =>
                /\ mem[fingerprints[n]].kind = "message"
                /\ fnv[mem[fingerprints[n]].name] = n
  BY DEF CachesIInv
<1>8. \A n \in D \cup {m} :
          /\ fingerprints'[n] \in Addrs /\ wrappers'[fingerprints'[n]] # Undef
          /\ fingerprints'[n] \notin freed =>
                /\ mem[fingerprints'[n]].kind = "message"
                /\ fnv[mem[fingerprints'[n]].name] = n
  <2> TAKE n \in D \cup {m}
  <2>1. CASE n = m
    BY <1>1, <1>5, <1>6, <2>1
  <2>2. CASE n # m
    <3>1. n \in D /\ fingerprints'[n] = fingerprints[n]
      BY <1>6, <2>2
    <3> QED BY <1>5, <1>7, <3>1
  <2> QED BY <2>1, <2>2
<1> QED BY <1>1, <1>3, <1>4, <1>6, <1>8 DEF CachesIInv

-----------------------------------------------------------------------------
(* Descriptors: the maps of fields. *)

(* While the map's message is not freed, its iterator stands within the     *)
(* fields, its key is the one there, and what it returned are pairs of a   *)
(* field's key and the field.                                              *)
ViewShape ==
    /\ view = [parent |-> view.parent, by |-> view.by, alive |-> view.alive]
    /\ cursor = [index |-> cursor.index, key |-> cursor.key, ended |-> cursor.ended]
    /\ view.alive \in BOOLEAN /\ cursor.index \in Int /\ cursor.ended \in BOOLEAN
    /\ view.alive => view.parent \in Addrs

ViewCursor ==
    /\ ~HasCursor => pairs = {}
    /\ ~view.alive /\ ~HasCursor => view = NoView
    /\ view = NoView => ~HasCursor

ViewPairs ==
    view.alive /\ view.parent \notin freed =>
        /\ mem[view.parent].kind = "message"
        /\ HasCursor => /\ cursor.index <= Count
                        /\ cursor.index >= 1 /\ ~cursor.ended => cursor.key = Key(cursor.index)
        /\ \A p \in pairs : \E i \in 1 .. Count : p = <<Key(i), Item(i)>>

MapsIInv == ViewShape /\ ViewCursor /\ ViewPairs

(* The fields of the map's message stay with it. *)
LEMMA MapsKept ==
    ASSUME PoolsIInv, MapsIInv, KeepView, freed \subseteq freed',
           view.alive /\ view.parent \notin freed' =>
               /\ mem'[view.parent] = mem[view.parent]
               /\ \A i \in 1 .. Count : mem'[mem[view.parent].fields[i]] = mem[mem[view.parent].fields[i]]
    PROVE  MapsIInv'
<1>1. view' = view /\ cursor' = cursor /\ pairs' = pairs
  BY DEF KeepView
<1>2. HasCursor' = HasCursor
  BY <1>1 DEF HasCursor
<1>3. ASSUME view.alive, view.parent \notin freed'
      PROVE  /\ mem'[view.parent].kind = "message"
             /\ HasCursor' => /\ cursor'.index <= Count'
                              /\ cursor'.index >= 1 /\ ~cursor'.ended =>
                                     cursor'.key = Key(cursor.index)'
             /\ \A p \in pairs' : \E i \in 1 .. Count' : p = <<Key(i)', Item(i)'>>
  <2>1. view.parent \in Addrs /\ view.parent \notin freed /\ mem[view.parent].kind = "message"
    BY <1>3 DEF MapsIInv, ViewShape, ViewCursor, ViewPairs
  <2>2. Count \in Nat /\ \A i \in 1 .. Count : mem[view.parent].fields[i] \in Addrs
    BY <2>1, MessageFields DEF Count
  <2>3. Count' = Count
    BY <1>1, <1>3 DEF Count
  <2>4. \A i \in 1 .. Count : Item(i) = mem[view.parent].fields[i] /\ Item(i)' = Item(i)
    BY <1>1, <1>3, <2>3 DEF Item
  <2>5. Undef \notin Addrs
    BY DescriptorsAssumption
  <2>6. \A i \in 1 .. Count : Key(i)' = Key(i)
    <3> TAKE i \in 1 .. Count
    <3> DEFINE x == mem[view.parent].fields[i]
    <3>1. Item(i) = x /\ Item(i)' = x /\ x # Undef /\ mem'[x] = mem[x]
      BY <1>3, <2>2, <2>4, <2>5
    <3>2. NameKey(i)' = NameKey(i) /\ NumberKey(i)' = NumberKey(i)
      BY <3>1 DEF NameKey, NumberKey, FieldName, FieldNumber
    <3> QED BY <1>1, <3>2 DEF Key
  <2>7. \A p \in pairs : \E i \in 1 .. Count : p = <<Key(i), Item(i)>>
    BY <1>3, <2>1 DEF MapsIInv, ViewShape, ViewCursor, ViewPairs
  <2>8. \A p \in pairs' : \E i \in 1 .. Count' : p = <<Key(i)', Item(i)'>>
    BY <1>1, <2>3, <2>4, <2>6, <2>7
  <2>9. HasCursor => /\ cursor.index <= Count /\ cursor.index \in Int
                     /\ cursor.index >= 1 /\ ~cursor.ended => cursor.key = Key(cursor.index)
    BY <1>3, <2>1 DEF MapsIInv, ViewShape, ViewCursor, ViewPairs
  <2>10. HasCursor /\ cursor.index >= 1 /\ ~cursor.ended => cursor.key = Key(cursor.index)'
    <3> SUFFICES ASSUME HasCursor, cursor.index >= 1, ~cursor.ended
                 PROVE  cursor.key = Key(cursor.index)'
      OBVIOUS
    <3> DEFINE c == cursor.index
    <3>1. c \in 1 .. Count /\ cursor.key = Key(c)
      BY <2>2, <2>9
    <3>2. Key(c)' = Key(c)
      <4>1. Item(c)' = Item(c) /\ Item(c) # Undef /\ mem'[Item(c)] = mem[Item(c)]
        BY <1>1, <1>3, <2>2, <2>3, <2>5, <3>1 DEF Item
      <4>2. NameKey(c)' = NameKey(c) /\ NumberKey(c)' = NumberKey(c)
        BY <4>1 DEF NameKey, NumberKey, FieldName, FieldNumber
      <4> QED BY <1>1, <4>2 DEF Key
    <3> QED BY <3>1, <3>2
  <2> QED BY <1>1, <1>2, <1>3, <2>1, <2>3, <2>8, <2>9, <2>10
<1> QED BY <1>1, <1>2, <1>3 DEF MapsIInv, ViewShape, ViewCursor, ViewPairs
(* The map's own view of the memory, when neither changes. *)
LEMMA SameFields ==
    ASSUME mem' = mem, view' = view
    PROVE  Count' = Count /\ \A i : Key(i)' = Key(i) /\ Item(i)' = Item(i)
<1>1. Count' = Count
  BY DEF Count
<1>2. ASSUME NEW i
      PROVE  Key(i)' = Key(i) /\ Item(i)' = Item(i)
  <2>1. Item(i)' = Item(i)
    BY <1>1 DEF Item
  <2>2. NameKey(i)' = NameKey(i) /\ NumberKey(i)' = NumberKey(i)
    BY <2>1 DEF NameKey, NumberKey, FieldName, FieldNumber
  <2> QED BY <2>1, <2>2 DEF Key
<1> QED BY <1>1, <1>2

LEMMA NewMapStep ==
    ASSUME MapsIInv, NEW a \in Addrs, NEW by, NewMap(a, by)
    PROVE  MapsIInv'
<1> DEFINE t == TRUE
<1>1. /\ view = NoView /\ mem[a].kind = "message"
      /\ view' = [parent |-> a, by |-> by, alive |-> t]
      /\ cursor' = cursor /\ pairs' = pairs /\ mem' = mem /\ freed' = freed
  BY DEF NewMap, Reached, KeepMemory
<1>2. ~HasCursor /\ pairs = {} /\ ~HasCursor'
  BY <1>1 DEF MapsIInv, ViewShape, ViewCursor, ViewPairs, HasCursor
<1>3. t /\ t \in BOOLEAN
  OBVIOUS
<1> HIDE DEF t
<1>4. /\ view'.parent = a /\ view'.by = by /\ view'.alive = t
      /\ view' = [parent |-> view'.parent, by |-> view'.by, alive |-> view'.alive]
  BY <1>1
<1>5. a # Undef /\ NoView.parent = Undef
  BY DescriptorsAssumption DEF NoView
<1>6. mem'[view'.parent].kind = "message"
  BY <1>1, <1>4
<1>7. view' # NoView
  BY <1>4, <1>5
<1> QED BY <1>1, <1>2, <1>3, <1>4, <1>6, <1>7 DEF MapsIInv, ViewShape, ViewCursor, ViewPairs

LEMMA FreeMapStep ==
    ASSUME MapsIInv, FreeMap
    PROVE  MapsIInv'
<1> DEFINE no == FALSE
<1>1. /\ view.alive /\ cursor' = cursor /\ pairs' = pairs
      /\ view' = IF ~HasCursor THEN NoView ELSE [view EXCEPT !.alive = no]
      /\ HasCursor' = HasCursor
  BY DEF FreeMap, HasCursor
<1>2. ~no /\ no \in BOOLEAN
  OBVIOUS
<1> HIDE DEF no
<1>3. CASE ~HasCursor
  <2>1. /\ view' = NoView /\ NoView.alive \in BOOLEAN /\ ~NoView.alive
        /\ NoView = [parent |-> NoView.parent, by |-> NoView.by, alive |-> NoView.alive]
    BY <1>1, <1>3 DEF NoView
  <2> QED BY <1>1, <1>3, <2>1 DEF MapsIInv, ViewShape, ViewCursor, ViewPairs
<1>4. CASE HasCursor
  <2>1. /\ view' = [parent |-> view.parent, by |-> view.by, alive |-> no]
        /\ view.parent \in Addrs
    BY <1>1, <1>4 DEF MapsIInv, ViewShape, ViewCursor, ViewPairs
  <2>2. /\ view'.parent = view.parent /\ view'.alive = no
        /\ view' = [parent |-> view'.parent, by |-> view'.by, alive |-> view'.alive]
    BY <2>1
  <2>3. view' # NoView
    <3>1. view.parent # Undef /\ NoView.parent = Undef
      BY <2>1, DescriptorsAssumption DEF NoView
    <3> QED BY <2>2, <3>1
  <2> QED BY <1>1, <1>2, <1>4, <2>2, <2>3 DEF MapsIInv, ViewShape, ViewCursor, ViewPairs
<1> QED BY <1>3, <1>4

LEMMA NewIteratorStep ==
    ASSUME MapsIInv, NewIterator, PoolsIInv
    PROVE  MapsIInv'
<1> DEFINE no == FALSE
<1>1. /\ view.alive /\ view' = view /\ pairs' = {} /\ mem' = mem /\ freed' = freed
      /\ cursor' = [index |-> 0, key |-> Undef, ended |-> no]
  BY DEF NewIterator, KeepMemory, NoCursor
<1>2. ~no /\ no \in BOOLEAN
  OBVIOUS
<1> HIDE DEF no
<1>3. /\ cursor'.index = 0 /\ cursor'.ended = no
      /\ cursor' = [index |-> cursor'.index, key |-> cursor'.key, ended |-> cursor'.ended]
  BY <1>1
<1>4. HasCursor'
  BY <1>3 DEF HasCursor
<1>5. view # NoView
  BY <1>1 DEF NoView
<1>6. view.parent \notin freed => mem[view.parent].kind = "message" /\ 0 <= Count
  <2>1. view.parent \in Addrs /\ (view.parent \notin freed => mem[view.parent].kind = "message")
    BY <1>1 DEF MapsIInv, ViewShape, ViewCursor, ViewPairs
  <2>2. view.parent \notin freed => Count \in Nat
    BY <2>1, MessageFields DEF Count
  <2> QED BY <2>1, <2>2
<1>7. Count' = Count
  BY <1>1, SameFields
<1>8. ~(cursor'.index >= 1)
  BY <1>3
<1>9. ViewPairs'
  <2>1. cursor'.index <= Count' <=> 0 <= Count
    BY <1>3, <1>7
  <2> QED BY <1>1, <1>6, <1>8, <2>1 DEF ViewPairs
<1>10. /\ view = [parent |-> view.parent, by |-> view.by, alive |-> view.alive]
       /\ view.alive \in BOOLEAN /\ view.parent \in Addrs
  BY <1>1 DEF MapsIInv, ViewShape, ViewCursor, ViewPairs
<1>11. ViewShape'
  <2>1. view' = view
    BY <1>1
  <2>2. cursor'.index \in Int /\ cursor'.ended \in BOOLEAN
    BY <1>2, <1>3
  <2> QED BY <1>3, <1>10, <2>1, <2>2 DEF ViewShape
<1>12. ViewCursor'
  BY <1>1, <1>4, <1>5 DEF ViewCursor
<1> QED BY <1>9, <1>11, <1>12 DEF MapsIInv

LEMMA FreeIteratorStep ==
    ASSUME MapsIInv, FreeIterator
    PROVE  MapsIInv'
<1>1. /\ pairs' = {} /\ mem' = mem /\ freed' = freed /\ cursor' = NoCursor
      /\ view' = IF view.alive THEN view ELSE NoView
  BY DEF FreeIterator, KeepMemory
<1>2. /\ cursor'.index = -1 /\ cursor'.ended \in BOOLEAN
      /\ cursor' = [index |-> cursor'.index, key |-> cursor'.key, ended |-> cursor'.ended]
  BY <1>1 DEF NoCursor
<1>3. ~HasCursor'
  BY <1>2 DEF HasCursor
<1>4. CASE view.alive
  <2>1. view' = view
    BY <1>1, <1>4
  <2>2. ViewPairs'
    <3>1. view.parent \notin freed => mem[view.parent].kind = "message"
      BY <1>4 DEF MapsIInv, ViewShape, ViewCursor, ViewPairs
    <3> QED BY <1>1, <1>3, <2>1, <3>1 DEF ViewPairs
  <2>3. /\ view = [parent |-> view.parent, by |-> view.by, alive |-> view.alive]
        /\ view.alive \in BOOLEAN /\ view.parent \in Addrs /\ view # NoView
    BY <1>4 DEF MapsIInv, ViewShape, ViewCursor, ViewPairs, NoView
  <2>4. ViewShape'
    BY <1>1, <1>2, <2>1, <2>3 DEF ViewShape
  <2>5. ViewCursor'
    BY <1>1, <1>4, <2>1, <2>3 DEF ViewCursor
  <2> QED BY <2>2, <2>4, <2>5 DEF MapsIInv
<1>5. CASE ~view.alive
  <2>1. /\ view' = NoView /\ NoView.alive \in BOOLEAN /\ ~NoView.alive
        /\ NoView = [parent |-> NoView.parent, by |-> NoView.by, alive |-> NoView.alive]
    BY <1>1, <1>5 DEF NoView
  <2> QED BY <1>1, <1>2, <1>3, <2>1 DEF MapsIInv, ViewShape, ViewCursor, ViewPairs
<1> QED BY <1>4, <1>5

LEMMA DescNextKeyStep ==
    ASSUME MapsIInv, DescNextKey, PoolsIInv
    PROVE  MapsIInv'
<1> DEFINE t == TRUE
           c == cursor.index
           moved == [index |-> c + 1, key |-> Key(c + 1), ended |-> cursor.ended]
           over == [index |-> c, key |-> Undef, ended |-> t]
<1>1. /\ view' = view /\ pairs' = pairs /\ mem' = mem /\ freed' = freed /\ HasCursor
  BY DEF DescNextKey, KeepMemory
<1>2. cursor' = IF view.alive /\ c < Count THEN moved ELSE over
  <2>1. cursor = [index |-> cursor.index, key |-> cursor.key, ended |-> cursor.ended]
    BY DEF MapsIInv, ViewShape, ViewCursor, ViewPairs
  <2> DEFINE k == Key(c + 1)
             n == c + 1
  <2>2. cursor' = IF view.alive /\ c < Count
                  THEN [cursor EXCEPT !.index = n, !.key = k]
                  ELSE [cursor EXCEPT !.key = Undef, !.ended = t]
    BY DEF DescNextKey
  <2> HIDE DEF k, n, t
  <2>3. /\ [cursor EXCEPT !.index = n, !.key = k]
              = [index |-> n, key |-> k, ended |-> cursor.ended]
        /\ [cursor EXCEPT !.key = Undef, !.ended = t] = [index |-> c, key |-> Undef, ended |-> t]
    <3>1. \E i, x, e : cursor = [index |-> i, key |-> x, ended |-> e]
      BY <2>1
    <3>2. PICK i, x, e : cursor = [index |-> i, key |-> x, ended |-> e]
      BY <3>1
    <3>3. cursor.index = i /\ cursor.ended = e
      BY <3>2
    <3>4. /\ [cursor EXCEPT !.index = n, !.key = k] = [index |-> n, key |-> k, ended |-> e]
          /\ [cursor EXCEPT !.key = Undef, !.ended = t] = [index |-> i, key |-> Undef, ended |-> t]
      <4> DEFINE a == [cursor EXCEPT !.index = n]
                 b == [cursor EXCEPT !.key = Undef]
      <4>1. a = [index |-> n, key |-> x, ended |-> e]
        BY <3>2
      <4>2. b = [index |-> i, key |-> Undef, ended |-> e]
        BY <3>2
      <4>3. [a EXCEPT !.key = k] = [index |-> n, key |-> k, ended |-> e]
        <5> HIDE DEF a
        <5> QED BY <4>1
      <4>4. [b EXCEPT !.ended = t] = [index |-> i, key |-> Undef, ended |-> t]
        <5> HIDE DEF b
        <5> QED BY <4>2
      <4> QED BY <4>3, <4>4
    <3> QED BY <3>3, <3>4
  <2> QED BY <2>2, <2>3 DEF k, n
<1>3. t /\ t \in BOOLEAN
  OBVIOUS
<1>4. Count' = Count /\ \A i : Key(i)' = Key(i) /\ Item(i)' = Item(i)
  BY <1>1, SameFields
<1>5. c \in Int /\ c >= 0
  BY <1>1 DEF MapsIInv, ViewShape, ViewCursor, ViewPairs, HasCursor
<1> DEFINE k == Key(c + 1)
<1> HIDE DEF t
<1>6. view.alive /\ view.parent \notin freed =>
          /\ mem[view.parent].kind = "message" /\ Count \in Nat
          /\ c <= Count
          /\ c >= 1 /\ ~cursor.ended => cursor.key = Key(c)
          /\ \A p \in pairs : \E i \in 1 .. Count : p = <<Key(i), Item(i)>>
  <2> SUFFICES ASSUME view.alive, view.parent \notin freed
               PROVE  /\ mem[view.parent].kind = "message" /\ Count \in Nat
                      /\ c <= Count
                      /\ c >= 1 /\ ~cursor.ended => cursor.key = Key(c)
                      /\ \A p \in pairs : \E i \in 1 .. Count : p = <<Key(i), Item(i)>>
    OBVIOUS
  <2>1. view.parent \in Addrs /\ mem[view.parent].kind = "message"
    BY DEF MapsIInv, ViewShape, ViewCursor, ViewPairs
  <2>2. Count \in Nat
    BY <2>1, MessageFields DEF Count
  <2> QED BY <1>1, <2>1, <2>2 DEF MapsIInv, ViewShape, ViewCursor, ViewPairs
<1>7. /\ cursor' = [index |-> cursor'.index, key |-> cursor'.key, ended |-> cursor'.ended]
      /\ cursor'.index \in Int /\ cursor'.ended \in BOOLEAN /\ cursor'.index >= 0
  <2>1. cursor.ended \in BOOLEAN
    BY DEF MapsIInv, ViewShape, ViewCursor, ViewPairs
  <2> HIDE DEF k
  <2>2. cursor' = IF view.alive /\ c < Count THEN [index |-> c + 1, key |-> k, ended |-> cursor.ended]
                                             ELSE over
    BY <1>2 DEF k
  <2> HIDE DEF c
  <2>3. CASE view.alive /\ c < Count
    <3>1. cursor' = [index |-> c + 1, key |-> k, ended |-> cursor.ended] /\ c + 1 \in Int /\ c + 1 >= 0
      BY <1>5, <2>2, <2>3
    <3>2. cursor'.index = c + 1 /\ cursor'.key = k /\ cursor'.ended = cursor.ended
      BY <3>1
    <3> QED BY <2>1, <3>1, <3>2
  <2>4. CASE ~(view.alive /\ c < Count)
    <3>1. cursor' = [index |-> c, key |-> Undef, ended |-> t]
      BY <2>2, <2>4
    <3> QED BY <1>3, <1>5, <3>1
  <2> QED BY <2>3, <2>4
<1>8. HasCursor'
  BY <1>7 DEF HasCursor
<1>9. ASSUME view.alive, view.parent \notin freed
      PROVE  /\ cursor'.index <= Count
             /\ cursor'.index >= 1 /\ ~cursor'.ended => cursor'.key = Key(cursor'.index)
  <2>1. CASE c < Count
    <3> HIDE DEF c
    <3>1. cursor'.index = c + 1 /\ cursor'.key = Key(c + 1)
      BY <1>2, <1>9, <2>1
    <3> QED BY <1>5, <1>6, <1>9, <2>1, <3>1
  <2>2. CASE ~(c < Count)
    <3> HIDE DEF c
    <3>1. cursor'.index = c /\ cursor'.ended = t
      BY <1>2, <1>9, <2>2
    <3> QED BY <1>3, <1>6, <1>9, <3>1
  <2> QED BY <2>1, <2>2
<1> DEFINE c1 == cursor'.index
<1>10. Key(cursor.index)' = Key(c1)
  BY <1>4
<1>11. /\ view = [parent |-> view.parent, by |-> view.by, alive |-> view.alive]
       /\ view.alive \in BOOLEAN /\ (view.alive => view.parent \in Addrs)
       /\ view # NoView
  BY <1>1 DEF MapsIInv, ViewShape, ViewCursor, ViewPairs
<1>12. view.alive /\ view.parent \notin freed =>
          \A p \in pairs' : \E i \in 1 .. Count' : p = <<Key(i)', Item(i)'>>
  BY <1>1, <1>4, <1>6
<1> HIDE DEF moved, over, c, k
<1> QED BY <1>1, <1>4, <1>6, <1>7, <1>8, <1>9, <1>10, <1>11, <1>12 DEF MapsIInv, ViewShape, ViewCursor, ViewPairs

LEMMA DescNextValueStep ==
    ASSUME MapsIInv, CachesIInv, PoolsIInv, DescNextValue
    PROVE  MapsIInv' /\ CachesIInv'
<1> DEFINE c == cursor.index
<1>1. /\ view' = view /\ cursor' = cursor /\ mem' = mem /\ freed' = freed /\ HasCursor
      /\ view.alive /\ c \in 1 .. Count /\ mem[view.parent].kind = "message"
      /\ wrappers' = Wrapped(Item(c), "field")
      /\ pairs' = IF cursor.ended THEN pairs ELSE pairs \cup {<<cursor.key, Item(c)>>}
      /\ KeepMemory /\ KeepTables
  BY DEF DescNextValue, KeepMemory, MapIsUsable, Current
<1>2. view.parent \in Addrs
  BY <1>1 DEF MapsIInv, ViewShape, ViewCursor, ViewPairs
<1>3. /\ Count \in Nat
      /\ \A i \in 1 .. Count : mem[view.parent].fields[i] \in Addrs
                               /\ mem[mem[view.parent].fields[i]].kind = "field"
  BY <1>1, <1>2, MessageFields DEF Count
<1>4. Item(c) \in Addrs /\ mem[Item(c)].kind = "field"
  BY <1>1, <1>3 DEF Item
<1>5. CachesIInv'
  <2> DEFINE x == Item(c)
             fk == "field"
  <2>1. x \in Addrs /\ mem[x].kind = fk /\ wrappers' = Wrapped(x, fk) /\ fk \in {"message", "field", "file"}
    BY <1>1, <1>4
  <2> HIDE DEF x, fk
  <2> QED BY <1>1, <2>1, WrapStep
<1>6. Count' = Count /\ \A i : Key(i)' = Key(i) /\ Item(i)' = Item(i)
  BY <1>1, SameFields
<1>7. HasCursor' = HasCursor /\ Key(cursor.index)' = Key(cursor.index)
  BY <1>1, <1>6 DEF HasCursor
<1>8. view.parent \notin freed => \A p \in pairs' : \E i \in 1 .. Count' : p = <<Key(i)', Item(i)'>>
  <2> SUFFICES ASSUME view.parent \notin freed, NEW p \in pairs'
               PROVE  \E i \in 1 .. Count : p = <<Key(i), Item(i)>>
    BY <1>6
  <2>1. CASE p \in pairs
    BY <1>1, <2>1 DEF MapsIInv, ViewShape, ViewCursor, ViewPairs
  <2>2. CASE p \notin pairs
    <3>1. p = <<cursor.key, Item(c)>> /\ ~cursor.ended
      BY <1>1, <2>2
    <3>2. cursor.key = Key(c)
      BY <1>1, <1>3, <3>1 DEF MapsIInv, ViewShape, ViewCursor, ViewPairs
    <3> QED BY <1>1, <3>1, <3>2
  <2> QED BY <2>1, <2>2
<1>9. MapsIInv'
  BY <1>1, <1>6, <1>7, <1>8 DEF MapsIInv, ViewShape, ViewCursor, ViewPairs
<1> QED BY <1>5, <1>9
DescriptorsIInv == PoolsIInv /\ CachesIInv /\ MapsIInv

(* The fields of a message stay where they are as long as the message does. *)
LEMMA MessageStays ==
    ASSUME PoolsIInv, NEW p \in Addrs, mem[p].kind = "message", p \notin freed',
           \A a \in Addrs : a \in other_pool \/ mem[a] = NoDef \/ mem'[a] = mem[a],
           mem' = mem \/ freed' = freed \cup other_pool
    PROVE  /\ mem'[p] = mem[p]
           /\ \A i \in 1 .. Len(mem[p].fields) : mem'[mem[p].fields[i]] = mem[mem[p].fields[i]]
<1>1. mem[p] # NoDef
  BY KindIsDef
<1>2. CASE mem' = mem
  BY <1>2
<1>3. CASE freed' = freed \cup other_pool
  <2>1. PICK defs \in Layouts \cup {generated} :
              /\ p \in DOMAIN defs
              /\ \A a \in DOMAIN defs : mem[a] = defs[a]
              /\ \/ gen_pool # "none" /\ defs = generated
                 \/ other_pool # {} /\ DOMAIN defs = other_pool
    BY <1>1, MessagePool
  <2>2. gen_pool # "none" /\ defs = generated
    BY <1>3, <2>1
  <2>3. other_pool \cap DOMAIN defs = {}
    BY <2>2 DEF PoolsIInv
  <2>4. DOMAIN defs \subseteq Addrs /\ \A a \in DOMAIN defs : defs[a] # NoDef
    BY LayoutFacts
  <2>5. \A a \in DOMAIN defs : mem'[a] = mem[a]
    BY <2>1, <2>3, <2>4
  <2> DEFINE F == {b \in DOMAIN defs : defs[b].kind = "field"}
  <2>6. defs[p].fields \in Seq(F)
    BY <2>1, LayoutFacts DEF IsLayout
  <2>7. \A b \in F : b \in DOMAIN defs
    OBVIOUS
  <2> HIDE DEF F
  <2>8. \A i \in 1 .. Len(defs[p].fields) : defs[p].fields[i] \in F
    BY <2>6, ElementOfSeq
  <2> QED BY <2>1, <2>5, <2>7, <2>8
<1> QED BY <1>2, <1>3

LEMMA DescriptorsStep ==
    ASSUME DescriptorsIInv, DescriptorsNext
    PROVE  DescriptorsIInv'
<1> USE DEF DescriptorsIInv
<1>1. ASSUME GeneratedPool \/ \E defs \in Layouts : NewPool(defs)
      PROVE  DescriptorsIInv'
  <2>1. /\ PoolsIInv' /\ freed' = freed
        /\ \A a \in Addrs : mem[a] # NoDef => mem'[a] = mem[a]
    BY <1>1, GeneratedPoolStep, NewPoolStep
  <2>2. UNCHANGED <<wrappers, stash_cache, fingerprints>> /\ KeepView
    BY <1>1 DEF GeneratedPool, NewPool, KeepTables
  <2>3. CachesIInv'
    BY <2>1, <2>2, CachesKept DEF Keeps
  <2>4. ASSUME view.alive, view.parent \notin freed'
        PROVE  /\ mem'[view.parent] = mem[view.parent]
               /\ \A i \in 1 .. Count : mem'[mem[view.parent].fields[i]] = mem[mem[view.parent].fields[i]]
    <3>1. view.parent \in Addrs /\ mem[view.parent].kind = "message"
      BY <2>1, <2>4 DEF MapsIInv, ViewShape, ViewPairs
    <3>2. \A i \in 1 .. Count : /\ mem[view.parent].fields[i] \in Addrs
                                /\ mem[mem[view.parent].fields[i]].kind = "field"
      BY <3>1, MessageFields DEF Count
    <3>3. \A a \in Addrs : mem[a].kind \in {"message", "field"} => mem'[a] = mem[a]
      BY <2>1, KindIsDef
    <3> QED BY <3>1, <3>2, <3>3
  <2>5. MapsIInv'
    BY <2>1, <2>2, <2>4, MapsKept
  <2> QED BY <2>1, <2>3, <2>5
<1>2. ASSUME FreePool
      PROVE  DescriptorsIInv'
  <2>1. /\ PoolsIInv' /\ freed \subseteq freed'
        /\ \A a \in Addrs : a \in other_pool \/ mem'[a] = mem[a]
        /\ mem' = mem \/ freed' = freed \cup other_pool
    BY <1>2, FreePoolStep
  <2>2. UNCHANGED <<wrappers, stash_cache, fingerprints>> /\ KeepView
    BY <1>2 DEF FreePool, KeepTables
  <2>3. CachesIInv'
    BY <2>1, <2>2, CachesKept DEF Keeps
  <2>4. ASSUME view.alive, view.parent \notin freed'
        PROVE  /\ mem'[view.parent] = mem[view.parent]
               /\ \A i \in 1 .. Count : mem'[mem[view.parent].fields[i]] = mem[mem[view.parent].fields[i]]
    <3>1. view.parent \in Addrs /\ mem[view.parent].kind = "message"
      BY <2>1, <2>4 DEF MapsIInv, ViewShape, ViewPairs
    <3> QED BY <2>1, <2>4, <3>1, MessageStays DEF Count
  <2>5. MapsIInv'
    BY <2>1, <2>2, <2>4, MapsKept
  <2> QED BY <2>1, <2>3, <2>5
<1>3. ASSUME KeepMemory
      PROVE  /\ PoolsIInv' /\ Keeps
             /\ KeepView => MapsIInv'
             /\ KeepTables /\ wrappers' = wrappers => CachesIInv'
  <2>1. mem' = mem /\ gen_pool' = gen_pool /\ other_pool' = other_pool /\ freed' = freed
    BY <1>3 DEF KeepMemory
  <2>2. PoolsIInv'
    BY <2>1 DEF PoolsIInv
  <2>3. Keeps
    BY <2>1 DEF Keeps
  <2>4. KeepView => MapsIInv'
    BY <2>1, MapsKept
  <2>5. KeepTables /\ wrappers' = wrappers => CachesIInv'
    BY <2>3, CachesKept DEF KeepTables
  <2> QED BY <2>2, <2>3, <2>4, <2>5
<1>4. ASSUME NEW a \in Addrs, Find(a)
      PROVE  DescriptorsIInv'
  <2> DEFINE k == mem[a].kind
  <2>1. mem[a] # NoDef /\ wrappers' = Wrapped(a, k) /\ KeepMemory /\ KeepTables /\ KeepView
    BY <1>4 DEF Find
  <2>2. k \in {"message", "field", "file"}
    <3>1. PICK defs \in Layouts \cup {generated} :
              a \in DOMAIN defs /\ \A b \in DOMAIN defs : mem[b] = defs[b]
      BY <2>1, MessagePool
    <3> QED BY <3>1, LayoutFacts DEF IsLayout
  <2>3. mem[a].kind = k
    OBVIOUS
  <2> HIDE DEF k
  <2>4. CachesIInv'
    BY <2>1, <2>2, <2>3, WrapStep
  <2> QED BY <1>3, <2>1, <2>4
<1>5. ASSUME NEW a \in Addrs, DropWrapper(a)
      PROVE  DescriptorsIInv'
  <2>1. KeepMemory /\ KeepView
    BY <1>5 DEF DropWrapper
  <2> QED BY <1>3, <1>5, <2>1, DropWrapperStep
<1>6. ASSUME NEW a \in Addrs, PerlClassName(a)
      PROVE  DescriptorsIInv'
  <2>1. KeepMemory /\ KeepView
    BY <1>6 DEF PerlClassName
  <2> QED BY <1>3, <1>6, <2>1, PerlClassNameStep
<1>7. ASSUME NEW a \in Addrs, RegisterFingerprint(a)
      PROVE  DescriptorsIInv'
  <2>1. KeepMemory /\ KeepView
    BY <1>7 DEF RegisterFingerprint
  <2> QED BY <1>3, <1>7, <2>1, RegisterFingerprintStep
<1>8. ASSUME NEW a \in Addrs, NewByNameMap(a) \/ NewByNumberMap(a)
      PROVE  DescriptorsIInv'
  <2>1. PICK by \in {"name", "number"} : NewMap(a, by)
    BY <1>8 DEF NewByNameMap, NewByNumberMap
  <2>2. KeepMemory /\ KeepTables /\ wrappers' = wrappers
    BY <2>1 DEF NewMap
  <2> QED BY <1>3, <2>1, <2>2, NewMapStep
<1>9. ASSUME FreeMap
      PROVE  DescriptorsIInv'
  <2>1. KeepMemory /\ KeepTables /\ wrappers' = wrappers
    BY <1>9 DEF FreeMap
  <2> QED BY <1>3, <1>9, <2>1, FreeMapStep
<1>10. ASSUME NewIterator
      PROVE  DescriptorsIInv'
  <2>1. KeepMemory /\ KeepTables /\ wrappers' = wrappers
    BY <1>10 DEF NewIterator
  <2> QED BY <1>3, <1>10, <2>1, NewIteratorStep
<1>11. ASSUME FreeIterator
      PROVE  DescriptorsIInv'
  <2>1. KeepMemory /\ KeepTables /\ wrappers' = wrappers
    BY <1>11 DEF FreeIterator
  <2> QED BY <1>3, <1>11, <2>1, FreeIteratorStep
<1>12. ASSUME DescNextKey
      PROVE  DescriptorsIInv'
  <2>1. KeepMemory /\ KeepTables /\ wrappers' = wrappers
    BY <1>12 DEF DescNextKey
  <2> QED BY <1>3, <1>12, <2>1, DescNextKeyStep
<1>13. ASSUME DescNextValue
      PROVE  DescriptorsIInv'
  <2>1. KeepMemory
    BY <1>13 DEF DescNextValue
  <2> QED BY <1>3, <1>13, <2>1, DescNextValueStep
<1> QED BY <1>1, <1>2, <1>4, <1>5, <1>6, <1>7, <1>8, <1>9, <1>10, <1>11, <1>12, <1>13
        DEF DescriptorsNext

LEMMA DescriptorsStart == DescriptorsInit => DescriptorsIInv
<1> SUFFICES ASSUME DescriptorsInit
             PROVE  DescriptorsIInv
  OBVIOUS
<1>1. /\ mem = [a \in Addrs |-> NoDef] /\ gen_pool = "none" /\ other_pool = {}
      /\ wrappers = [a \in Addrs |-> Undef]
      /\ stash_cache = [a \in {} |-> Undef] /\ fingerprints = [n \in {} |-> Undef]
      /\ view = NoView /\ cursor = NoCursor /\ pairs = {} /\ freed = {}
  BY DEF DescriptorsInit
<1>2. PoolsIInv
  BY <1>1 DEF PoolsIInv
<1>3. CachesIInv
  BY <1>1 DEF CachesIInv
<1>4. /\ cursor.index = -1 /\ cursor.ended \in BOOLEAN
      /\ cursor = [index |-> cursor.index, key |-> cursor.key, ended |-> cursor.ended]
  BY <1>1 DEF NoCursor
<1>5. /\ view.alive \in BOOLEAN /\ ~view.alive
      /\ view = [parent |-> view.parent, by |-> view.by, alive |-> view.alive]
  BY <1>1 DEF NoView
<1>6. MapsIInv
  BY <1>1, <1>4, <1>5 DEF MapsIInv, ViewShape, ViewCursor, ViewPairs, HasCursor
<1> QED BY <1>2, <1>3, <1>6 DEF DescriptorsIInv

LEMMA DescriptorsStutter ==
    ASSUME DescriptorsIInv, UNCHANGED dvars
    PROVE  DescriptorsIInv'
<1>1. /\ mem' = mem /\ gen_pool' = gen_pool /\ other_pool' = other_pool /\ freed' = freed
      /\ KeepView /\ UNCHANGED <<wrappers, stash_cache, fingerprints>>
  BY DEF dvars, KeepView
<1>2. PoolsIInv'
  BY <1>1 DEF PoolsIInv, DescriptorsIInv
<1>3. CachesIInv'
  BY <1>1, CachesKept DEF DescriptorsIInv, Keeps
<1>4. MapsIInv'
  BY <1>1, MapsKept DEF DescriptorsIInv
<1> QED BY <1>2, <1>3, <1>4 DEF DescriptorsIInv

(* The pools hold their definitions, the caches agree with them for every   *)
(* address that was never freed, and the iterators with their messages.    *)
THEOREM DescriptorsInvariance == Spec => []DescriptorsIInv
<1>1. Init => DescriptorsIInv
  BY DescriptorsStart DEF Init
<1>2. DescriptorsIInv /\ [Next]_vars => DescriptorsIInv'
  <2> SUFFICES ASSUME DescriptorsIInv, [Next]_vars
               PROVE  DescriptorsIInv'
    OBVIOUS
  <2>1. DescriptorsNext \/ UNCHANGED dvars
    BY DEF Next, NextRepeated, NextMap, NextAux, NextDescriptors, vars
  <2> QED BY <2>1, DescriptorsStep, DescriptorsStutter
<1> QED BY <1>1, <1>2, PTL DEF Spec

(* The definitions of the generated pool, their wrappers, classes and       *)
(* fingerprints stay right while other pools come and go                   *)
(* (PerlUpb_DescriptorPool_DestroyRaw), however the pools lie.             *)
THEOREM GeneratedStay == Spec => []GeneratedDescriptorsStay
<1>1. DescriptorsIInv => GeneratedDescriptorsStay
  <2> SUFFICES ASSUME DescriptorsIInv
               PROVE  GeneratedDescriptorsStay
    OBVIOUS
  <2> USE DEF DescriptorsIInv
  <2>1. ASSUME gen_pool # "none", NEW a \in DOMAIN generated \ freed
        PROVE  mem[a] = generated[a] /\ wrappers[a] \in {Undef, generated[a].kind}
    <3>1. mem[a] = generated[a]
      BY <2>1 DEF PoolsIInv
    <3>2. a \in Addrs
      BY LayoutFacts
    <3> QED BY <3>1, <3>2 DEF CachesIInv
  <2>2. \A a \in DOMAIN stash_cache \ freed : stash_cache[a] = mem[a].name
    BY DEF CachesIInv
  <2>3. ASSUME NEW n \in DOMAIN fingerprints, fingerprints[n] \notin freed
        PROVE  /\ FindByFingerprint(n) # Undef
               /\ mem[FindByFingerprint(n)].kind = "message"
               /\ fnv[mem[FindByFingerprint(n)].name] = n
    <3> DEFINE a == fingerprints[n]
    <3>1. a \in Addrs /\ wrappers[a] # Undef /\ mem[a].kind = "message" /\ fnv[mem[a].name] = n
      BY <2>3 DEF CachesIInv
    <3>2. wrappers[a] = "message"
      BY <2>3, <3>1 DEF CachesIInv
    <3>3. FindByFingerprint(n) = a
      BY <3>2 DEF FindByFingerprint, Extracts
    <3>4. a # Undef
      BY <3>1, DescriptorsAssumption
    <3> QED BY <3>1, <3>3, <3>4
  <2> QED BY <2>1, <2>2, <2>3 DEF GeneratedDescriptorsStay
<1> QED BY <1>1, DescriptorsInvariance, PTL

(* A loop over a map of fields gets each key with the field the map's own   *)
(* lookup and its hash give (PerlUpb_DescriptorMapIterator_NextKey and     *)
(* NextValue, PerlUpb_ByNameMap_Lookup, PerlUpb_ByNameMap_AsHash).         *)
THEOREM KeysWithValues == Spec => []KeysComeWithTheirValues
<1>1. DescriptorsIInv => KeysComeWithTheirValues
  <2> SUFFICES ASSUME DescriptorsIInv, view.alive, view.parent \notin freed, NEW p \in pairs
               PROVE  Lookup(p[1]) = p[2] /\ (view.by = "name" => AsHash[p[1]] = p[2])
    BY DEF KeysComeWithTheirValues
  <2>1. view.parent \in Addrs /\ mem[view.parent].kind = "message" /\ PoolsIInv
    BY DEF DescriptorsIInv, MapsIInv, ViewShape, ViewPairs
  <2>2. PICK i \in 1 .. Count : p = <<Key(i), Item(i)>>
    BY DEF DescriptorsIInv, MapsIInv, ViewPairs
  <2> DEFINE fs == mem[view.parent].fields
  <2>3. /\ Count \in Nat
        /\ \A j \in 1 .. Count : fs[j] \in Addrs
        /\ \A j, k \in 1 .. Count :
              mem[fs[j]].name = mem[fs[k]].name \/ mem[fs[j]].number = mem[fs[k]].number => j = k
    BY <2>1, MessageFields DEF Count
  <2>4. \A j \in 1 .. Count : Item(j) = fs[j] /\ fs[j] # Undef
    BY <2>3, DescriptorsAssumption DEF Item
  <2>5. \A j \in 1 .. Count : NameKey(j) = mem[fs[j]].name /\ NumberKey(j) = mem[fs[j]].number
    BY <2>4 DEF NameKey, NumberKey, FieldName, FieldNumber
  <2>6. \A j, k \in 1 .. Count : Key(j) = Key(k) => j = k
    BY <2>3, <2>5 DEF Key
  <2>7. p[1] = Key(i) /\ p[2] = Item(i)
    BY <2>2
  <2> DEFINE hits == {j \in 1 .. Count : Key(j) = p[1]}
  <2>8. hits = {i}
    BY <2>6, <2>7
  <2>9. Lookup(p[1]) = Item(i)
    <3>1. Lookup(p[1]) = IF hits = {} THEN Undef ELSE Item(CHOOSE j \in hits : \A k \in hits : j <= k)
      BY DEF Lookup
    <3> DEFINE c == CHOOSE j \in hits : \A k \in hits : j <= k
    <3>2. \E j \in hits : \A k \in hits : j <= k
      BY <2>3, <2>8
    <3>3. c \in hits
      <4> HIDE DEF hits
      <4> QED BY <3>2
    <3> HIDE DEF c, hits
    <3>4. c = i /\ hits # {}
      BY <2>8, <3>3
    <3> QED BY <3>1, <3>4 DEF c
  <2>10. AsHash[p[1]] = Item(i)
    <3> DEFINE last == CHOOSE j \in 1 .. Count : Key(j) = p[1] /\ \A k \in j + 1 .. Count : Key(k) # p[1]
    <3>1. AsHash[p[1]] = Item(last)
      BY <2>7 DEF AsHash
    <3>2. \A k \in i + 1 .. Count : Key(k) # p[1]
      <4> SUFFICES ASSUME NEW k \in i + 1 .. Count, Key(k) = Key(i)
                   PROVE  FALSE
        BY <2>7
      <4>1. k \in 1 .. Count /\ k # i
        BY <2>3
      <4> QED BY <2>6, <4>1
    <3>3. last \in 1 .. Count /\ Key(last) = p[1]
      BY <2>7, <3>2
    <3>4. last = i
      BY <2>6, <2>7, <3>3
    <3> HIDE DEF last
    <3> QED BY <3>1, <3>4
  <2> QED BY <2>7, <2>9, <2>10
<1> QED BY <1>1, DescriptorsInvariance, PTL
-----------------------------------------------------------------------------
(* Maps: chains.  P are the places in use, home gives the main position of  *)
(* the key in each place, nx the next place of its chain and h a height    *)
(* that falls along the chain: the places of one home are one chain, the   *)
(* highest of them in the home itself.                                     *)

HomesAreHeads(P, home, h) ==
    /\ h \in [P -> Nat]
    /\ \A i \in P : home[i] \in P /\ home[home[i]] = home[i] /\ h[i] <= h[home[i]]
    /\ \A i, j \in P : home[i] = home[j] /\ h[i] = h[j] => i = j

NextIsBelow(P, home, nx, h) ==
    \A i \in P : IF nx[i] = None THEN \A j \in P : home[j] = home[i] => h[i] <= h[j]
                 ELSE /\ nx[i] \in P /\ home[nx[i]] = home[i] /\ h[nx[i]] < h[i]
                      /\ \A j \in P : home[j] = home[i] /\ h[j] < h[i] => h[j] <= h[nx[i]]

Chain(P, home, nx, h) == HomesAreHeads(P, home, h) /\ NextIsBelow(P, home, nx, h)

(* A key in an empty home: nothing has that home. *)
LEMMA ChainAlone ==
    ASSUME NEW P, NEW home, NEW nx, NEW h, Chain(P, home, nx, h),
           NEW m, m \notin P,
           NEW home2, NEW nx2, home2[m] = m, nx2[m] = None,
           \A i \in P : home2[i] = home[i] /\ nx2[i] = nx[i]
    PROVE  \E g : Chain(P \cup {m}, home2, nx2, g)
<1> DEFINE Q == P \cup {m}
           g == [i \in Q |-> IF i = m THEN 0 ELSE h[i]]
<1>1. h \in [P -> Nat] /\ \A i \in P : h[i] \in Nat
  BY DEF Chain, HomesAreHeads
<1>2. g \in [Q -> Nat] /\ g[m] = 0 /\ \A i \in P : g[i] = h[i]
  BY <1>1
<1>3. \A i \in P : i # m /\ home[i] # m /\ home2[i] # m
  BY DEF Chain, HomesAreHeads
<1>4. \A i \in Q : i = m \/ i \in P
  OBVIOUS
<1>5. m \in Q /\ P \subseteq Q
  OBVIOUS
<1> HIDE DEF Q, g
<1>6. \A i \in Q : home2[i] \in Q /\ home2[home2[i]] = home2[i] /\ g[i] <= g[home2[i]]
  <2> TAKE i \in Q
  <2>1. CASE i = m
    BY <1>2, <1>5, <2>1
  <2>2. CASE i \in P
    <3>1. home[i] \in P /\ home[home[i]] = home[i] /\ h[i] <= h[home[i]]
      BY <2>2 DEF Chain, HomesAreHeads
    <3> QED BY <1>2, <1>5, <2>2, <3>1
  <2> QED BY <1>4, <2>1, <2>2
<1>7. \A i, j \in Q : home2[i] = home2[j] /\ g[i] = g[j] => i = j
  BY <1>2, <1>3, <1>4 DEF Chain, HomesAreHeads
<1>8. NextIsBelow(Q, home2, nx2, g)
  <2> SUFFICES ASSUME NEW i \in Q
               PROVE  IF nx2[i] = None THEN \A j \in Q : home2[j] = home2[i] => g[i] <= g[j]
                      ELSE /\ nx2[i] \in Q /\ home2[nx2[i]] = home2[i] /\ g[nx2[i]] < g[i]
                           /\ \A j \in Q : home2[j] = home2[i] /\ g[j] < g[i] => g[j] <= g[nx2[i]]
    BY DEF NextIsBelow
  <2>1. CASE i = m
    BY <1>1, <1>2, <1>3, <1>4, <2>1
  <2>2. CASE i \in P /\ nx[i] = None
    <3>1. \A j \in P : home[j] = home[i] => h[i] <= h[j]
      BY <2>2 DEF Chain, NextIsBelow
    <3> QED BY <1>2, <1>3, <1>4, <2>2, <3>1
  <2>3. CASE i \in P /\ nx[i] # None
    <3>1. /\ nx[i] \in P /\ home[nx[i]] = home[i] /\ h[nx[i]] < h[i]
          /\ \A j \in P : home[j] = home[i] /\ h[j] < h[i] => h[j] <= h[nx[i]]
      BY <2>3 DEF Chain, NextIsBelow
    <3> QED BY <1>2, <1>3, <1>4, <1>5, <2>3, <3>1
  <2> QED BY <1>4, <2>1, <2>2, <2>3
<1>9. HomesAreHeads(Q, home2, g)
  BY <1>2, <1>6, <1>7 DEF HomesAreHeads
<1>10. Chain(Q, home2, nx2, g)
  BY <1>8, <1>9 DEF Chain
<1> QED BY <1>10 DEF Q

(* A key behind the head of its chain. *)
LEMMA ChainBehind ==
    ASSUME NEW P, NEW home, NEW nx, NEW h, Chain(P, home, nx, h),
           NEW m \in P, home[m] = m, NEW n, n \notin P, n # None,
           NEW home2, NEW nx2,
           home2[n] = m, nx2[n] = nx[m], nx2[m] = n,
           \A i \in P : home2[i] = home[i] /\ (i # m => nx2[i] = nx[i])
    PROVE  \E g : Chain(P \cup {n}, home2, nx2, g)
<1> DEFINE Q == P \cup {n}
           g == [i \in Q |-> IF i = n THEN 2 * h[m] ELSE 2 * h[i] + 1]
<1>1. h \in [P -> Nat] /\ \A i \in P : h[i] \in Nat
  BY DEF Chain, HomesAreHeads
<1>2. g \in [Q -> Nat] /\ g[n] = 2 * h[m] /\ \A i \in P : g[i] = 2 * h[i] + 1
  BY <1>1
<1>3. \A i \in Q : i = n \/ (i \in P /\ i # n)
  OBVIOUS
<1>4. n \in Q /\ P \subseteq Q /\ n # m
  OBVIOUS
<1> HIDE DEF Q, g
<1>5. \A i \in P : home[i] \in P /\ home[home[i]] = home[i] /\ h[i] <= h[home[i]]
  BY DEF Chain, HomesAreHeads
<1>6. \A i, j \in P : home[i] = home[j] /\ h[i] = h[j] => i = j
  BY DEF Chain, HomesAreHeads
<1>7. \A i \in Q : home2[i] \in Q /\ home2[home2[i]] = home2[i] /\ g[i] <= g[home2[i]]
  <2> TAKE i \in Q
  <2>1. CASE i = n
    BY <1>1, <1>2, <1>4, <2>1
  <2>2. CASE i \in P
    <3>1. home[i] \in P /\ home[home[i]] = home[i] /\ h[i] <= h[home[i]]
      BY <1>5, <2>2
    <3> QED BY <1>1, <1>2, <1>4, <2>2, <3>1
  <2> QED BY <1>3, <2>1, <2>2
<1>8. \A i, j \in Q : home2[i] = home2[j] /\ g[i] = g[j] => i = j
  <2> TAKE i, j \in Q
  <2>1. CASE i = n /\ j \in P
    BY <1>1, <1>2, <2>1
  <2>2. CASE j = n /\ i \in P
    BY <1>1, <1>2, <2>2
  <2>3. CASE i \in P /\ j \in P
    BY <1>1, <1>2, <1>6, <2>3
  <2> QED BY <1>3, <2>1, <2>2, <2>3
<1>9. \A j \in P : home[j] = m /\ j # m => h[j] < h[m]
  BY <1>1, <1>5, <1>6
<1>10. NextIsBelow(Q, home2, nx2, g)
  <2> SUFFICES ASSUME NEW i \in Q
               PROVE  IF nx2[i] = None THEN \A j \in Q : home2[j] = home2[i] => g[i] <= g[j]
                      ELSE /\ nx2[i] \in Q /\ home2[nx2[i]] = home2[i] /\ g[nx2[i]] < g[i]
                           /\ \A j \in Q : home2[j] = home2[i] /\ g[j] < g[i] => g[j] <= g[nx2[i]]
    BY DEF NextIsBelow
  <2>1. CASE i = m
    <3>1. nx2[i] = n /\ n # None /\ home2[i] = m /\ g[i] = 2 * h[m] + 1
      BY <1>2, <2>1
    <3>2. home2[n] = home2[i] /\ g[n] < g[i]
      BY <1>1, <1>2, <3>1
    <3>3. ASSUME NEW j \in Q, home2[j] = home2[i], g[j] < g[i]
          PROVE  g[j] <= g[n]
      <4>1. CASE j = n
        BY <1>1, <1>2, <4>1
      <4>2. CASE j \in P
        <5>1. g[j] = 2 * h[j] + 1 /\ h[j] \in Nat /\ h[m] \in Nat
          BY <1>1, <1>2, <4>2
        <5> QED BY <1>2, <3>1, <3>3, <5>1
      <4> QED BY <1>3, <4>1, <4>2
    <3> QED BY <1>4, <3>1, <3>2, <3>3
  <2>2. CASE i = n /\ nx[m] = None
    <3>1. \A j \in P : home[j] = m => h[m] <= h[j]
      BY <2>2 DEF Chain, NextIsBelow
    <3>2. ASSUME NEW j \in Q, home2[j] = home2[i]
          PROVE  g[i] <= g[j]
      <4>1. CASE j = n
        BY <1>1, <1>2, <2>2, <4>1
      <4>2. CASE j \in P
        <5>1. g[j] = 2 * h[j] + 1 /\ h[j] \in Nat /\ h[m] \in Nat /\ h[m] <= h[j]
          BY <1>1, <1>2, <2>2, <3>1, <3>2, <4>2
        <5> QED BY <1>2, <2>2, <5>1
      <4> QED BY <1>3, <4>1, <4>2
    <3> QED BY <2>2, <3>2
  <2>3. CASE i = n /\ nx[m] # None
    <3> DEFINE b == nx[m]
    <3>1. /\ b \in P /\ home[b] = m /\ h[b] < h[m]
          /\ \A j \in P : home[j] = m /\ h[j] < h[m] => h[j] <= h[b]
      BY <2>3 DEF Chain, NextIsBelow
    <3>2. nx2[i] = b /\ b # None /\ home2[i] = m /\ g[i] = 2 * h[m]
      BY <1>2, <2>3
    <3> HIDE DEF b
    <3>3. home2[b] = m /\ g[b] = 2 * h[b] + 1 /\ g[b] < g[i]
      BY <1>1, <1>2, <3>1, <3>2
    <3>4. ASSUME NEW j \in Q, home2[j] = home2[i], g[j] < g[i]
          PROVE  g[j] <= g[b]
      <4>1. j # n
        BY <1>1, <1>2, <3>2, <3>4
      <4>2. j \in P /\ g[j] = 2 * h[j] + 1 /\ h[j] \in Nat /\ h[m] \in Nat
        BY <1>1, <1>2, <1>3, <4>1
      <4>3. h[j] < h[m] /\ home[j] = m
        BY <3>2, <3>4, <4>2
      <4> QED BY <1>1, <3>1, <3>3, <4>2, <4>3
    <3> QED BY <1>4, <3>1, <3>2, <3>3, <3>4
  <2>4. CASE i \in P /\ i # m /\ nx[i] = None
    <3>1. \A j \in P : home[j] = home[i] => h[i] <= h[j]
      BY <2>4 DEF Chain, NextIsBelow
    <3>2. ASSUME NEW j \in Q, home2[j] = home2[i]
          PROVE  g[i] <= g[j]
      <4>1. CASE j = n
        <5>1. h[i] < h[m] /\ g[i] = 2 * h[i] + 1 /\ h[i] \in Nat /\ h[m] \in Nat
          BY <1>1, <1>2, <1>9, <2>4, <3>2, <4>1
        <5> QED BY <1>2, <4>1, <5>1
      <4>2. CASE j \in P
        BY <1>1, <1>2, <2>4, <3>1, <3>2, <4>2
      <4> QED BY <1>3, <4>1, <4>2
    <3> QED BY <2>4, <3>2
  <2>5. CASE i \in P /\ i # m /\ nx[i] # None
    <3> DEFINE b == nx[i]
    <3>1. /\ b \in P /\ home[b] = home[i] /\ h[b] < h[i]
          /\ \A j \in P : home[j] = home[i] /\ h[j] < h[i] => h[j] <= h[b]
      BY <2>5 DEF Chain, NextIsBelow
    <3>2. nx2[i] = b /\ b # None
      BY <2>5
    <3> HIDE DEF b
    <3>3. home2[b] = home2[i] /\ g[b] = 2 * h[b] + 1 /\ g[i] = 2 * h[i] + 1 /\ g[b] < g[i]
      BY <1>1, <1>2, <2>5, <3>1
    <3>4. ASSUME NEW j \in Q, home2[j] = home2[i], g[j] < g[i]
          PROVE  g[j] <= g[b]
      <4>1. CASE j = n
        <5>1. home[i] = m
          BY <2>5, <3>4, <4>1
        <5>2. h[i] < h[m] /\ h[i] \in Nat /\ h[m] \in Nat
          BY <1>1, <1>9, <2>5, <5>1
        <5> QED BY <1>2, <3>3, <3>4, <4>1, <5>2
      <4>2. CASE j \in P
        <5>1. g[j] = 2 * h[j] + 1 /\ h[j] \in Nat /\ h[i] \in Nat /\ h[b] \in Nat
          BY <1>1, <1>2, <2>5, <3>1, <4>2
        <5>2. h[j] < h[i] /\ home[j] = home[i]
          BY <2>5, <3>3, <3>4, <4>2, <5>1
        <5> QED BY <3>1, <3>3, <4>2, <5>1, <5>2
      <4> QED BY <1>3, <4>1, <4>2
    <3> QED BY <1>4, <3>1, <3>2, <3>3, <3>4
  <2> QED BY <1>3, <2>1, <2>2, <2>3, <2>4, <2>5
<1>11. HomesAreHeads(Q, home2, g)
  BY <1>2, <1>7, <1>8 DEF HomesAreHeads
<1>12. Chain(Q, home2, nx2, g)
  BY <1>10, <1>11 DEF Chain
<1> QED BY <1>12 DEF Q
(* A place that is not a home moves, and what is next to it with it. *)
LEMMA ChainMoved ==
    ASSUME NEW P, NEW home, NEW nx, NEW h, Chain(P, home, nx, h),
           NEW m \in P, home[m] # m, m # None, NEW n, n \notin P, n # None,
           NEW home2, NEW nx2,
           home2[n] = home[m], nx2[n] = nx[m],
           \A i \in P : i # m => home2[i] = home[i] /\ nx2[i] = IF nx[i] = m THEN n ELSE nx[i]
    PROVE  \E g : Chain((P \ {m}) \cup {n}, home2, nx2, g)
<1> DEFINE Q == (P \ {m}) \cup {n}
           at == [i \in Q |-> IF i = n THEN m ELSE i]
           g == [i \in Q |-> h[at[i]]]
<1>1. h \in [P -> Nat] /\ \A i \in P : h[i] \in Nat
  BY DEF Chain, HomesAreHeads
<1>2. \A i \in P : home[i] \in P /\ home[home[i]] = home[i] /\ h[i] <= h[home[i]]
  BY DEF Chain, HomesAreHeads
<1>3. \A i, j \in P : home[i] = home[j] /\ h[i] = h[j] => i = j
  BY DEF Chain, HomesAreHeads
<1>4. \A i \in P : home[i] # m
  BY <1>2
<1>5. /\ at[n] = m /\ n \in Q
      /\ \A i \in Q : at[i] \in P /\ (i # n => at[i] = i /\ i # m /\ i \in P)
      /\ \A i \in P : i # m => i \in Q /\ i # n /\ at[i] = i
  OBVIOUS
<1>6. \A i, j \in Q : at[i] = at[j] => i = j
  BY <1>5
<1>7. g \in [Q -> Nat] /\ \A i \in Q : g[i] = h[at[i]]
  BY <1>1, <1>5
<1> HIDE DEF Q, at, g
<1>8. \A i \in Q : home2[i] = home[at[i]]
  BY <1>5
<1>9. ASSUME NEW i \in Q, nx[at[i]] # None
      PROVE  nx2[i] # None /\ nx2[i] \in Q /\ at[nx2[i]] = nx[at[i]]
  <2>1. nx[at[i]] \in P /\ h[nx[at[i]]] < h[at[i]]
    BY <1>5, <1>9 DEF Chain, NextIsBelow
  <2>2. CASE i = n
    <3>1. nx[m] # m
      BY <1>1, <1>5, <2>1, <2>2
    <3> QED BY <1>5, <1>9, <2>1, <2>2, <3>1
  <2>3. CASE i # n
    <3>1. at[i] = i /\ i \in P /\ i # m
      BY <1>5, <2>3
    <3>2. nx2[i] = IF nx[i] = m THEN n ELSE nx[i]
      BY <3>1
    <3>3. CASE nx[i] = m
      BY <1>5, <3>1, <3>2, <3>3
    <3>4. CASE nx[i] # m
      BY <1>5, <1>9, <2>1, <3>1, <3>2, <3>4
    <3> QED BY <3>3, <3>4
  <2> QED BY <2>2, <2>3
<1>10. ASSUME NEW i \in Q, nx[at[i]] = None
       PROVE  nx2[i] = None
  <2>1. CASE i = n
    BY <1>5, <1>10, <2>1
  <2>2. CASE i # n
    <3>1. at[i] = i /\ i \in P /\ i # m
      BY <1>5, <2>2
    <3> QED BY <1>10, <3>1
  <2> QED BY <2>1, <2>2
<1>11. \A i \in Q : home2[i] \in Q /\ home2[home2[i]] = home2[i] /\ g[i] <= g[home2[i]]
  <2> TAKE i \in Q
  <2> DEFINE c == home[at[i]]
  <2>1. at[i] \in P /\ c \in P /\ c # m /\ home[c] = c /\ h[at[i]] <= h[c]
    BY <1>2, <1>4, <1>5
  <2>2. c \in Q /\ at[c] = c /\ home2[i] = c
    BY <1>5, <1>8, <2>1
  <2> HIDE DEF c
  <2>3. home2[c] = c
    BY <1>8, <2>1, <2>2
  <2> QED BY <1>7, <2>1, <2>2, <2>3
<1>12. \A i, j \in Q : home2[i] = home2[j] /\ g[i] = g[j] => i = j
  BY <1>3, <1>5, <1>6, <1>7, <1>8
<1>13. NextIsBelow(Q, home2, nx2, g)
  <2> SUFFICES ASSUME NEW i \in Q
               PROVE  IF nx2[i] = None THEN \A j \in Q : home2[j] = home2[i] => g[i] <= g[j]
                      ELSE /\ nx2[i] \in Q /\ home2[nx2[i]] = home2[i] /\ g[nx2[i]] < g[i]
                           /\ \A j \in Q : home2[j] = home2[i] /\ g[j] < g[i] => g[j] <= g[nx2[i]]
    BY DEF NextIsBelow
  <2>1. CASE nx[at[i]] = None
    <3>1. \A j \in P : home[j] = home[at[i]] => h[at[i]] <= h[j]
      BY <1>5, <2>1 DEF Chain, NextIsBelow
    <3>2. nx2[i] = None
      BY <1>10, <2>1
    <3> QED BY <1>5, <1>7, <1>8, <3>1, <3>2
  <2>2. CASE nx[at[i]] # None
    <3> DEFINE b == nx[at[i]]
    <3>1. /\ b \in P /\ home[b] = home[at[i]] /\ h[b] < h[at[i]]
          /\ \A j \in P : home[j] = home[at[i]] /\ h[j] < h[at[i]] => h[j] <= h[b]
      BY <1>5, <2>2 DEF Chain, NextIsBelow
    <3>2. nx2[i] # None /\ nx2[i] \in Q /\ at[nx2[i]] = b
      BY <1>9, <2>2
    <3> HIDE DEF b
    <3>3. home2[nx2[i]] = home2[i] /\ g[nx2[i]] < g[i]
      BY <1>7, <1>8, <3>1, <3>2
    <3>4. \A j \in Q : home2[j] = home2[i] /\ g[j] < g[i] => g[j] <= g[nx2[i]]
      BY <1>5, <1>7, <1>8, <3>1, <3>2
    <3> QED BY <3>2, <3>3, <3>4
  <2> QED BY <2>1, <2>2
<1>14. HomesAreHeads(Q, home2, g)
  BY <1>7, <1>11, <1>12 DEF HomesAreHeads
<1>15. Chain(Q, home2, nx2, g)
  BY <1>13, <1>14 DEF Chain
<1> QED BY <1>15 DEF Q

(* A place that is not a home is taken out. *)
LEMMA ChainCut ==
    ASSUME NEW P, NEW home, NEW nx, NEW h, Chain(P, home, nx, h),
           NEW m \in P, home[m] # m, m # None,
           NEW home2, NEW nx2,
           \A i \in P : i # m => home2[i] = home[i],
           \A i \in P : i # m /\ nx[i] = m => nx2[i] = nx[m],
           \A i \in P : i # m /\ nx[i] # m => nx2[i] = nx[i]
    PROVE  \E g : Chain(P \ {m}, home2, nx2, g)
<1> DEFINE Q == P \ {m}
           g == [i \in Q |-> h[i]]
<1>1. h \in [P -> Nat] /\ \A i \in P : h[i] \in Nat
  BY DEF Chain, HomesAreHeads
<1>2. \A i \in P : home[i] \in P /\ home[home[i]] = home[i] /\ h[i] <= h[home[i]]
  BY DEF Chain, HomesAreHeads
<1>3. \A i, j \in P : home[i] = home[j] /\ h[i] = h[j] => i = j
  BY DEF Chain, HomesAreHeads
<1>4. \A i \in P : home[i] # m
  BY <1>2
<1>5. \A i : i \in Q <=> i \in P /\ i # m
  OBVIOUS
<1>6. g \in [Q -> Nat] /\ \A i \in Q : g[i] = h[i]
  BY <1>1
<1> HIDE DEF Q, g
<1>7. \A i \in Q : home2[i] = home[i] /\ nx2[i] = IF nx[i] = m THEN nx[m] ELSE nx[i]
  BY <1>5
<1>8. \A i \in Q : home2[i] \in Q /\ home2[home2[i]] = home2[i] /\ g[i] <= g[home2[i]]
  BY <1>2, <1>4, <1>5, <1>6, <1>7
<1>9. \A i, j \in Q : home2[i] = home2[j] /\ g[i] = g[j] => i = j
  BY <1>3, <1>5, <1>6, <1>7
<1>10. NextIsBelow(Q, home2, nx2, g)
  <2> SUFFICES ASSUME NEW i \in Q
               PROVE  IF nx2[i] = None THEN \A j \in Q : home2[j] = home2[i] => g[i] <= g[j]
                      ELSE /\ nx2[i] \in Q /\ home2[nx2[i]] = home2[i] /\ g[nx2[i]] < g[i]
                           /\ \A j \in Q : home2[j] = home2[i] /\ g[j] < g[i] => g[j] <= g[nx2[i]]
    BY DEF NextIsBelow
  <2>0. i \in P /\ i # m /\ home2[i] = home[i] /\ g[i] = h[i] /\ h[i] \in Nat /\ h[m] \in Nat
    BY <1>1, <1>5, <1>6, <1>7
  <2>1. CASE nx[i] = None
    <3>1. \A j \in P : home[j] = home[i] => h[i] <= h[j]
      BY <2>0, <2>1 DEF Chain, NextIsBelow
    <3>2. nx2[i] = None
      BY <1>7, <2>1
    <3> QED BY <1>5, <1>6, <1>7, <2>0, <3>1, <3>2
  <2>2. CASE nx[i] = m
    <3>1. /\ home[m] = home[i] /\ h[m] < h[i]
          /\ \A j \in P : home[j] = home[i] /\ h[j] < h[i] => h[j] <= h[m]
      BY <2>0, <2>2 DEF Chain, NextIsBelow
    <3>2. nx2[i] = nx[m]
      BY <1>7, <2>2
    <3>3. \A j \in Q : j \in P /\ home2[j] = home[j] /\ g[j] = h[j] /\ h[j] \in Nat
                       /\ (home[j] = home[i] => h[j] # h[m])
      BY <1>1, <1>3, <1>5, <1>6, <1>7, <3>1
    <3>4. CASE nx[m] = None
      <4>1. \A j \in P : home[j] = home[m] => h[m] <= h[j]
        BY <3>4 DEF Chain, NextIsBelow
      <4>2. ASSUME NEW j \in Q, home2[j] = home2[i]
            PROVE  g[i] <= g[j]
        <5>1. home[j] = home[i] /\ h[m] <= h[j] /\ h[j] # h[m] /\ h[j] \in Nat
          BY <2>0, <3>1, <3>3, <4>1, <4>2
        <5>2. ~(h[j] < h[i])
          BY <2>0, <3>1, <3>3, <5>1
        <5> QED BY <2>0, <3>3, <5>1, <5>2
      <4> QED BY <3>2, <3>4, <4>2
    <3>5. CASE nx[m] # None
      <4> DEFINE b == nx[m]
      <4>1. /\ b \in P /\ home[b] = home[m] /\ h[b] < h[m]
            /\ \A j \in P : home[j] = home[m] /\ h[j] < h[m] => h[j] <= h[b]
        BY <3>5 DEF Chain, NextIsBelow
      <4>2. nx2[i] = b /\ b # None
        BY <3>2, <3>5
      <4> HIDE DEF b
      <4>3. b \in Q /\ h[b] \in Nat
        BY <1>1, <1>5, <2>0, <4>1
      <4>4. home2[b] = home2[i] /\ g[b] < g[i]
        BY <1>6, <1>7, <2>0, <3>1, <4>1, <4>3
      <4>5. ASSUME NEW j \in Q, home2[j] = home2[i], g[j] < g[i]
            PROVE  g[j] <= g[b]
        <5>1. home[j] = home[i] /\ h[j] <= h[m] /\ h[j] # h[m] /\ j \in P /\ h[j] \in Nat
          BY <2>0, <3>1, <3>3, <4>5
        <5>2. h[j] <= h[b]
          BY <2>0, <3>1, <4>1, <5>1
        <5> QED BY <1>6, <4>3, <5>2
      <4> QED BY <4>2, <4>3, <4>4, <4>5
    <3> QED BY <3>4, <3>5
  <2>3. CASE nx[i] # None /\ nx[i] # m
    <3> DEFINE b == nx[i]
    <3>1. /\ b \in P /\ home[b] = home[i] /\ h[b] < h[i]
          /\ \A j \in P : home[j] = home[i] /\ h[j] < h[i] => h[j] <= h[b]
      BY <2>0, <2>3 DEF Chain, NextIsBelow
    <3>2. nx2[i] = b /\ b # None /\ b # m
      BY <1>7, <2>3
    <3> HIDE DEF b
    <3>3. b \in Q
      BY <1>5, <3>1, <3>2
    <3> QED BY <1>5, <1>6, <1>7, <2>0, <3>1, <3>2, <3>3
  <2> QED BY <2>1, <2>2, <2>3
<1>11. HomesAreHeads(Q, home2, g)
  BY <1>6, <1>8, <1>9 DEF HomesAreHeads
<1>12. Chain(Q, home2, nx2, g)
  BY <1>10, <1>11 DEF Chain
<1> QED BY <1>12 DEF Q

(* The head of a chain of one is taken out. *)
LEMMA ChainGone ==
    ASSUME NEW P, NEW home, NEW nx, NEW h, Chain(P, home, nx, h),
           NEW m \in P, home[m] = m, nx[m] = None,
           NEW home2, NEW nx2,
           \A i \in P : i # m => home2[i] = home[i] /\ nx2[i] = nx[i]
    PROVE  \E g : Chain(P \ {m}, home2, nx2, g)
<1> DEFINE Q == P \ {m}
           g == [i \in Q |-> h[i]]
<1>1. h \in [P -> Nat] /\ \A i \in P : h[i] \in Nat
  BY DEF Chain, HomesAreHeads
<1>2. \A i \in P : home[i] \in P /\ home[home[i]] = home[i] /\ h[i] <= h[home[i]]
  BY DEF Chain, HomesAreHeads
<1>3. \A i, j \in P : home[i] = home[j] /\ h[i] = h[j] => i = j
  BY DEF Chain, HomesAreHeads
<1>4. \A j \in P : home[j] = m => h[m] <= h[j]
  BY DEF Chain, NextIsBelow
<1>5. \A i \in P : home[i] = m => i = m
  <2> SUFFICES ASSUME NEW i \in P, home[i] = m
               PROVE  i = m
    OBVIOUS
  <2>1. h[i] \in Nat /\ h[m] \in Nat /\ h[i] <= h[m] /\ h[m] <= h[i]
    BY <1>1, <1>2, <1>4
  <2> QED BY <1>3, <2>1
<1>6. \A i : i \in Q <=> i \in P /\ i # m
  OBVIOUS
<1>7. g \in [Q -> Nat] /\ \A i \in Q : g[i] = h[i]
  BY <1>1
<1> HIDE DEF Q, g
<1>8. \A i \in Q : home2[i] = home[i] /\ nx2[i] = nx[i] /\ home[i] # m
  BY <1>5, <1>6
<1>9. \A i \in Q : home2[i] \in Q /\ home2[home2[i]] = home2[i] /\ g[i] <= g[home2[i]]
  BY <1>2, <1>6, <1>7, <1>8
<1>10. \A i, j \in Q : home2[i] = home2[j] /\ g[i] = g[j] => i = j
  BY <1>3, <1>6, <1>7, <1>8
<1>11. NextIsBelow(Q, home2, nx2, g)
  <2> SUFFICES ASSUME NEW i \in Q
               PROVE  IF nx2[i] = None THEN \A j \in Q : home2[j] = home2[i] => g[i] <= g[j]
                      ELSE /\ nx2[i] \in Q /\ home2[nx2[i]] = home2[i] /\ g[nx2[i]] < g[i]
                           /\ \A j \in Q : home2[j] = home2[i] /\ g[j] < g[i] => g[j] <= g[nx2[i]]
    BY DEF NextIsBelow
  <2>0. i \in P /\ home[i] # m
    BY <1>6, <1>8
  <2>1. CASE nx[i] = None
    <3>1. \A j \in P : home[j] = home[i] => h[i] <= h[j]
      BY <2>0, <2>1 DEF Chain, NextIsBelow
    <3> QED BY <1>6, <1>7, <1>8, <2>1, <3>1
  <2>2. CASE nx[i] # None
    <3> DEFINE b == nx[i]
    <3>1. /\ b \in P /\ home[b] = home[i] /\ h[b] < h[i]
          /\ \A j \in P : home[j] = home[i] /\ h[j] < h[i] => h[j] <= h[b]
      BY <2>0, <2>2 DEF Chain, NextIsBelow
    <3>2. nx2[i] = b /\ b # None
      BY <1>8, <2>2
    <3> HIDE DEF b
    <3>3. b \in Q
      BY <1>6, <2>0, <3>1
    <3> QED BY <1>6, <1>7, <1>8, <3>1, <3>2, <3>3
  <2> QED BY <2>1, <2>2
<1>12. HomesAreHeads(Q, home2, g)
  BY <1>7, <1>9, <1>10 DEF HomesAreHeads
<1>13. Chain(Q, home2, nx2, g)
  BY <1>11, <1>12 DEF Chain
<1> QED BY <1>13 DEF Q

(* The head of a chain is taken out: the second comes into its place. *)
LEMMA ChainPulled ==
    ASSUME NEW P, NEW home, NEW nx, NEW h, Chain(P, home, nx, h),
           NEW m \in P, home[m] = m, nx[m] # None,
           NEW home2, NEW nx2,
           home2[m] = m, nx2[m] = nx[nx[m]],
           \A i \in P : i # m => home2[i] = home[i] /\ nx2[i] = nx[i]
    PROVE  nx[m] \in P /\ nx[m] # m /\ \E g : Chain(P \ {nx[m]}, home2, nx2, g)
<1> DEFINE b == nx[m]
           Q == P \ {b}
           at == [i \in Q |-> IF i = m THEN b ELSE i]
           g == [i \in Q |-> h[at[i]]]
<1>1. h \in [P -> Nat] /\ \A i \in P : h[i] \in Nat
  BY DEF Chain, HomesAreHeads
<1>2. \A i \in P : home[i] \in P /\ home[home[i]] = home[i] /\ h[i] <= h[home[i]]
  BY DEF Chain, HomesAreHeads
<1>3. \A i, j \in P : home[i] = home[j] /\ h[i] = h[j] => i = j
  BY DEF Chain, HomesAreHeads
<1>4. /\ b \in P /\ home[b] = m /\ h[b] < h[m] /\ b # m
      /\ \A j \in P : home[j] = m /\ h[j] < h[m] => h[j] <= h[b]
  <2>1. /\ b \in P /\ home[b] = m /\ h[b] < h[m]
        /\ \A j \in P : home[j] = m /\ h[j] < h[m] => h[j] <= h[b]
    BY DEF Chain, NextIsBelow
  <2> QED BY <1>1, <2>1
<1>5. nx2[m] = nx[b] /\ b # None
  OBVIOUS
<1> HIDE DEF b
<1>6. /\ m \in Q /\ at[m] = b
      /\ \A i \in Q : at[i] \in P /\ at[i] # m /\ (i # m => at[i] = i) /\ i \in P /\ i # b
      /\ \A i \in P : i # m /\ i # b => i \in Q /\ at[i] = i
  BY <1>4
<1>7. \A i, j \in Q : at[i] = at[j] => i = j
  BY <1>6
<1>8. g \in [Q -> Nat] /\ \A i \in Q : g[i] = h[at[i]]
  BY <1>1, <1>6
<1> HIDE DEF Q, at, g
<1>9. \A i \in Q : home2[i] = home[at[i]] /\ nx2[i] = nx[at[i]]
  <2> TAKE i \in Q
  <2>1. CASE i = m
    BY <1>4, <1>5, <1>6, <2>1
  <2>2. CASE i # m
    BY <1>6, <2>2
  <2> QED BY <2>1, <2>2
(* Nothing but the head has the second next to it, and nothing the head. *)
<1>10. \A i \in P : i # m /\ nx[i] # None => nx[i] # b /\ nx[i] # m /\ nx[i] \in P
  <2> SUFFICES ASSUME NEW i \in P, i # m, nx[i] # None
               PROVE  nx[i] # b /\ nx[i] # m /\ nx[i] \in P
    OBVIOUS
  <2>1. /\ nx[i] \in P /\ home[nx[i]] = home[i] /\ h[nx[i]] < h[i]
    BY DEF Chain, NextIsBelow
  <2>2. h[i] \in Nat /\ h[m] \in Nat /\ h[b] \in Nat
    BY <1>1, <1>4
  <2>3. CASE nx[i] = b
    <3>1. home[i] = m /\ h[b] < h[i]
      BY <1>4, <2>1, <2>3
    <3>2. h[i] <= h[m] /\ h[i] # h[m]
      BY <1>2, <1>3, <3>1
    <3> QED BY <1>4, <2>2, <3>1, <3>2
  <2>4. CASE nx[i] = m
    <3>1. home[i] = m /\ h[m] < h[i]
      BY <2>1, <2>4
    <3>2. h[i] <= h[m]
      BY <1>2, <3>1
    <3> QED BY <2>2, <3>1, <3>2
  <2> QED BY <2>1, <2>3, <2>4
<1>11. \A i \in Q : home2[i] \in Q /\ home2[home2[i]] = home2[i] /\ g[i] <= g[home2[i]]
  <2> TAKE i \in Q
  <2> DEFINE c == home[at[i]]
  <2>1. at[i] \in P /\ c \in P /\ home[c] = c /\ h[at[i]] <= h[c] /\ c # b /\ home2[i] = c
    BY <1>2, <1>4, <1>6, <1>9
  <2>2. CASE c = m
    <3>1. home2[i] = m /\ home2[m] = m /\ m \in Q
      BY <1>6, <2>1, <2>2
    <3>2. h[at[i]] # h[m]
      BY <1>3, <1>6, <2>1, <2>2
    <3>3. h[at[i]] < h[m]
      BY <1>1, <2>1, <2>2, <3>2
    <3>4. h[at[i]] <= h[b]
      BY <1>4, <2>1, <2>2, <3>3
    <3> QED BY <1>6, <1>8, <3>1, <3>4
  <2>3. CASE c # m
    <3> HIDE DEF c
    <3>1. c \in Q /\ at[c] = c
      BY <1>6, <2>1, <2>3
    <3>2. home2[c] = c
      BY <1>9, <2>1, <3>1
    <3> QED BY <1>8, <2>1, <3>1, <3>2
  <2> QED BY <2>2, <2>3
<1>12. \A i, j \in Q : home2[i] = home2[j] /\ g[i] = g[j] => i = j
  BY <1>3, <1>6, <1>7, <1>8, <1>9
<1>13. NextIsBelow(Q, home2, nx2, g)
  <2> SUFFICES ASSUME NEW i \in Q
               PROVE  IF nx2[i] = None THEN \A j \in Q : home2[j] = home2[i] => g[i] <= g[j]
                      ELSE /\ nx2[i] \in Q /\ home2[nx2[i]] = home2[i] /\ g[nx2[i]] < g[i]
                           /\ \A j \in Q : home2[j] = home2[i] /\ g[j] < g[i] => g[j] <= g[nx2[i]]
    BY DEF NextIsBelow
  <2>0. at[i] \in P /\ at[i] # m /\ home2[i] = home[at[i]] /\ nx2[i] = nx[at[i]] /\ g[i] = h[at[i]]
    BY <1>6, <1>8, <1>9
  <2>1. CASE nx[at[i]] = None
    <3>1. \A j \in P : home[j] = home[at[i]] => h[at[i]] <= h[j]
      BY <2>0, <2>1 DEF Chain, NextIsBelow
    <3> QED BY <1>6, <1>8, <1>9, <2>0, <2>1, <3>1
  <2>2. CASE nx[at[i]] # None
    <3> DEFINE d == nx[at[i]]
    <3>1. /\ d \in P /\ home[d] = home[at[i]] /\ h[d] < h[at[i]]
          /\ \A j \in P : home[j] = home[at[i]] /\ h[j] < h[at[i]] => h[j] <= h[d]
      BY <2>0, <2>2 DEF Chain, NextIsBelow
    <3>2. d # b /\ d # m /\ d \in P
      BY <1>10, <2>0, <2>2
    <3>3. nx2[i] = d /\ d # None
      BY <2>0, <2>2
    <3> HIDE DEF d
    <3>4. d \in Q /\ at[d] = d
      BY <1>6, <3>2
    <3>5. home2[d] = home[d] /\ g[d] = h[d]
      BY <1>8, <1>9, <3>4
    <3>6. \A j \in Q : home2[j] = home2[i] /\ g[j] < g[i] => g[j] <= g[d]
      BY <1>6, <1>8, <1>9, <2>0, <3>1, <3>5
    <3> QED BY <2>0, <3>1, <3>3, <3>4, <3>5, <3>6
  <2> QED BY <2>1, <2>2
<1>14. HomesAreHeads(Q, home2, g)
  BY <1>8, <1>11, <1>12 DEF HomesAreHeads
<1>15. Chain(Q, home2, nx2, g)
  BY <1>13, <1>14 DEF Chain
<1> QED BY <1>4, <1>15 DEF Q, b
-----------------------------------------------------------------------------
(* Maps: tables. *)

Home(T) == [i \in DOMAIN T.ent |-> mainpos(T, T.ent[i].key)]
NextOf(T) == [i \in DOMAIN T.ent |-> T.ent[i].next]

IsTable(T) ==
    /\ T.size \in Nat \ {0}
    /\ DOMAIN T.ent \subseteq 0 .. T.size - 1
    /\ \A i \in DOMAIN T.ent : T.ent[i].key \in Keys
    /\ \A i, j \in DOMAIN T.ent : T.ent[i].key = T.ent[j].key => i = j

Chained(T) == \E h : Chain(DOMAIN T.ent, Home(T), NextOf(T), h)
Good(T) == IsTable(T) /\ Chained(T)

(* An entry of the table has the key and the value. *)
Shows(T, k, v) == \E i \in DOMAIN T.ent : T.ent[i].key = k /\ T.ent[i].val = v

(* The number of entries in use. *)
KeysUsed(T) == Cardinality(DOMAIN T.ent)

LEMMA WithFacts ==
    ASSUME NEW T, NEW i, NEW e
    PROVE  /\ With(T, i, e).size = T.size
           /\ DOMAIN With(T, i, e).ent = DOMAIN T.ent \cup {i}
           /\ With(T, i, e).ent[i] = e
           /\ \A j \in DOMAIN T.ent : j # i => With(T, i, e).ent[j] = T.ent[j]
BY DEF With, Table

LEMMA WithoutFacts ==
    ASSUME NEW T, NEW i
    PROVE  /\ Without(T, i).size = T.size
           /\ DOMAIN Without(T, i).ent = DOMAIN T.ent \ {i}
           /\ \A j \in DOMAIN T.ent : j # i => Without(T, i).ent[j] = T.ent[j]
BY DEF Without, Table, Restrict

LEMMA RelinkFacts ==
    ASSUME NEW T, NEW i, NEW n
    PROVE  /\ Relink(T, i, n).size = T.size
           /\ DOMAIN Relink(T, i, n).ent = DOMAIN T.ent
           /\ \A j \in DOMAIN T.ent :
                 /\ Relink(T, i, n).ent[j].key = T.ent[j].key
                 /\ Relink(T, i, n).ent[j].val = T.ent[j].val
                 /\ Relink(T, i, n).ent[j].next = IF T.ent[j].next = i THEN n ELSE T.ent[j].next
BY DEF Relink, Table, Linked, Entry

LEMMA MainPosition ==
    ASSUME NEW T, T.size \in Nat \ {0}, NEW k \in Keys
    PROVE  mainpos(T, k) \in 0 .. T.size - 1
<1>1. hash[k] \in Nat
  BY MapAssumption
<1> DEFINE s == T.size  q == hash[k]
<1>2. s \in Nat /\ s > 0 /\ q \in Nat
  BY <1>1
<1> HIDE DEF s, q
<1>3. q % s \in 0 .. s - 1
  BY <1>2
<1> QED BY <1>3 DEF mainpos, s, q

LEMMA NonePlace ==
    ASSUME NEW T, IsTable(T)
    PROVE  None \notin DOMAIN T.ent /\ \A i \in DOMAIN T.ent : i # None
BY DEF IsTable, None

(* findentry finds the entry of a key if there is one. *)
LEMMA FindEntry ==
    ASSUME NEW T, Good(T), NEW k \in Keys
    PROVE  /\ \A j \in DOMAIN T.ent : T.ent[j].key = k => findentry(T, k) = j
           /\ (\A j \in DOMAIN T.ent : T.ent[j].key # k) => findentry(T, k) = None
<1> DEFINE D == DOMAIN T.ent
           key == [i \in D |-> T.ent[i].key]
           home == Home(T)
           nx == NextOf(T)
           m == mainpos(T, k)
           R == None .. T.size - 1
           walk == CHOOSE w : w = [i \in R |-> IF i \notin D THEN None
                                               ELSE IF T.ent[i].key = k THEN i ELSE w[T.ent[i].next]]
<1>1. findentry(T, k) = walk[m]
  BY DEF findentry
<1>2. PICK h : Chain(D, home, nx, h)
  BY DEF Good, Chained
<1>3. /\ D \subseteq R /\ None \in R /\ None \notin D /\ m \in R
      /\ \A i \in D : i # None
      /\ \A i, j \in D : key[i] = key[j] => i = j
  <2>1. IsTable(T)
    BY DEF Good
  <2>2. m \in 0 .. T.size - 1
    BY <2>1, MainPosition DEF IsTable
  <2> QED BY <2>1, <2>2, NonePlace DEF IsTable, None
<1>4. \A i \in D : key[i] = T.ent[i].key /\ nx[i] = T.ent[i].next /\ home[i] = mainpos(T, key[i])
  BY DEF NextOf, Home
<1> DEFINE Met(i) == \E j \in D : key[j] = k /\ home[j] = home[i] /\ h[j] <= h[i]
           w0 == CHOOSE j \in D : key[j] = k
           g == [i \in R |-> IF i \in D /\ Met(i) THEN w0 ELSE None]
           Eq(w) == w = [i \in R |-> IF i \notin D THEN None ELSE IF key[i] = k THEN i ELSE w[nx[i]]]
<1>5. walk = CHOOSE w : Eq(w)
  <2>1. \A w : [i \in R |-> IF i \notin D THEN None ELSE IF T.ent[i].key = k THEN i ELSE w[T.ent[i].next]]
               = [i \in R |-> IF i \notin D THEN None ELSE IF key[i] = k THEN i ELSE w[nx[i]]]
    BY <1>4
  <2>2. \A w : Eq(w) <=> w = [i \in R |-> IF i \notin D THEN None ELSE IF T.ent[i].key = k THEN i ELSE w[T.ent[i].next]]
    BY <2>1
  <2> QED BY <2>2
<1>6. h \in [D -> Nat] /\ \A i \in D : h[i] \in Nat
  BY <1>2 DEF Chain, HomesAreHeads
<1>7. \A i \in D : home[i] \in D /\ home[home[i]] = home[i] /\ h[i] <= h[home[i]]
  BY <1>2 DEF Chain, HomesAreHeads
<1>8. \A i, j \in D : home[i] = home[j] /\ h[i] = h[j] => i = j
  BY <1>2 DEF Chain, HomesAreHeads
<1>9. \A i \in D : nx[i] = None => \A j \in D : home[j] = home[i] => h[i] <= h[j]
  BY <1>2 DEF Chain, NextIsBelow
<1>10. \A i \in D : nx[i] # None => /\ nx[i] \in D /\ home[nx[i]] = home[i] /\ h[nx[i]] < h[i]
                                    /\ \A j \in D : home[j] = home[i] /\ h[j] < h[i] => h[j] <= h[nx[i]]
  BY <1>2 DEF Chain, NextIsBelow
<1>11. \A j \in D : key[j] = k => w0 = j
  BY <1>3
<1>12. \A i \in R : g[i] = IF i \in D /\ Met(i) THEN w0 ELSE None
  OBVIOUS
<1> HIDE DEF w0, key, home, nx, D, R, g
<1>13. ASSUME NEW i \in R
       PROVE  g[i] = IF i \notin D THEN None ELSE IF key[i] = k THEN i ELSE g[nx[i]]
  <2>1. CASE i \notin D
    BY <1>12, <1>13, <2>1
  <2>2. CASE i \in D /\ key[i] = k
    <3>1. Met(i)
      BY <1>6, <2>2
    <3> QED BY <1>11, <1>12, <2>2, <3>1
  <2>3. CASE i \in D /\ key[i] # k /\ nx[i] = None
    <3>1. ~Met(i)
      <4> SUFFICES ASSUME NEW j \in D, key[j] = k, home[j] = home[i], h[j] <= h[i]
                   PROVE  FALSE
        OBVIOUS
      <4>1. h[i] <= h[j] /\ h[i] \in Nat /\ h[j] \in Nat
        BY <1>6, <1>9, <2>3
      <4> QED BY <1>8, <2>3, <4>1
    <3>2. g[nx[i]] = None
      BY <1>3, <1>12, <2>3
    <3> QED BY <1>12, <1>13, <2>3, <3>1, <3>2
  <2>4. CASE i \in D /\ key[i] # k /\ nx[i] # None
    <3> DEFINE b == nx[i]
    <3>1. /\ b \in D /\ home[b] = home[i] /\ h[b] < h[i]
          /\ \A j \in D : home[j] = home[i] /\ h[j] < h[i] => h[j] <= h[b]
      BY <1>10, <2>4
    <3> HIDE DEF b
    <3>2. Met(i) => Met(b)
      <4> SUFFICES ASSUME NEW j \in D, key[j] = k, home[j] = home[i], h[j] <= h[i]
                   PROVE  Met(b)
        OBVIOUS
      <4>1. h[j] # h[i] /\ h[i] \in Nat /\ h[j] \in Nat
        BY <1>6, <1>8, <2>4
      <4> QED BY <3>1, <4>1
    <3>3. Met(b) => Met(i)
      BY <1>6, <2>4, <3>1
    <3>4. b \in R
      BY <1>3, <3>1
    <3>5. g[b] = IF Met(b) THEN w0 ELSE None
      BY <1>12, <3>1, <3>4
    <3>6. g[i] = IF Met(i) THEN w0 ELSE None
      BY <1>12, <1>13, <2>4
    <3> HIDE DEF Met
    <3>7. g[i] = g[b]
      BY <3>2, <3>3, <3>5, <3>6
    <3> QED BY <2>4, <3>7 DEF b
  <2> QED BY <2>1, <2>2, <2>3, <2>4
<1>14. Eq(g)
  BY <1>13 DEF g
<1>15. Eq(walk)
  <2> HIDE DEF Eq, walk
  <2> QED BY <1>5, <1>14
<1> HIDE DEF walk
<1>16. \A i \in R : walk[i] = IF i \notin D THEN None ELSE IF key[i] = k THEN i ELSE walk[nx[i]]
  <2> DEFINE rhs == [i \in R |-> IF i \notin D THEN None ELSE IF key[i] = k THEN i ELSE walk[nx[i]]]
  <2>1. \A i \in R : rhs[i] = IF i \notin D THEN None ELSE IF key[i] = k THEN i ELSE walk[nx[i]]
    OBVIOUS
  <2>2. walk = rhs
    BY <1>15
  <2> HIDE DEF rhs
  <2> QED BY <2>1, <2>2
<1> DEFINE S == {n \in Nat : \A i \in D : h[i] < n => walk[i] = g[i]}
<1>17. \A i \in D : walk[i] = g[i]
  <2>1. 0 \in S
    BY <1>6
  <2>2. ASSUME NEW n \in S
        PROVE  n + 1 \in S
    <3>1. n \in Nat /\ n + 1 \in Nat /\ \A i \in D : h[i] < n => walk[i] = g[i]
      BY <2>2
    <3>2. ASSUME NEW i \in D, h[i] < n + 1
          PROVE  walk[i] = g[i]
      <4>1. walk[i] = (IF key[i] = k THEN i ELSE walk[nx[i]]) /\ g[i] = (IF key[i] = k THEN i ELSE g[nx[i]])
        BY <1>3, <1>13, <1>16
      <4>2. CASE nx[i] = None
        <5>1. walk[None] = None /\ g[None] = None
          BY <1>3, <1>13, <1>16
        <5> QED BY <4>1, <4>2, <5>1
      <4>3. CASE nx[i] # None
        <5>1. nx[i] \in D /\ h[nx[i]] < h[i]
          BY <1>10, <4>3
        <5>2. h[nx[i]] < n
          BY <1>6, <3>1, <3>2, <5>1
        <5>3. walk[nx[i]] = g[nx[i]]
          BY <3>1, <5>1, <5>2
        <5> QED BY <4>1, <5>3
      <4> QED BY <4>2, <4>3
    <3> QED BY <3>1, <3>2
  <2> HIDE DEF S
  <2>3. Nat \subseteq S
    BY <2>1, <2>2, Induct
  <2> SUFFICES ASSUME NEW i \in D
               PROVE  walk[i] = g[i]
    OBVIOUS
  <2>4. h[i] + 1 \in S /\ h[i] < h[i] + 1
    BY <1>6, <2>3
  <2> QED BY <2>4 DEF S
<1>18. walk[m] = g[m]
  BY <1>3, <1>12, <1>16, <1>17
<1>19. ASSUME NEW j \in D, key[j] = k
       PROVE  findentry(T, k) = j
  <2>1. home[j] = m
    BY <1>4, <1>19
  <2>2. m \in D /\ home[m] = m /\ h[j] <= h[m]
    BY <1>7, <2>1
  <2>3. Met(m)
    BY <1>19, <2>1, <2>2
  <2>4. w0 = j
    BY <1>11, <1>19
  <2> QED BY <1>1, <1>3, <1>12, <1>18, <2>2, <2>3, <2>4
<1>20. ASSUME \A j \in D : key[j] # k
       PROVE  findentry(T, k) = None
  <2>1. ~Met(m)
    BY <1>20
  <2> QED BY <1>1, <1>3, <1>12, <1>18, <2>1
<1>21. /\ \A j \in D : key[j] = T.ent[j].key
  BY <1>4
<1> QED BY <1>19, <1>20, <1>21 DEF D

LEMMA TableFinite ==
    ASSUME NEW T, IsTable(T)
    PROVE  /\ IsFiniteSet(DOMAIN T.ent) /\ KeysUsed(T) \in Nat
           /\ IsFiniteSet(0 .. T.size - 1) /\ Cardinality(0 .. T.size - 1) = T.size
<1> DEFINE s == T.size  R == 0 .. s - 1
<1>1. s \in Nat /\ s > 0 /\ DOMAIN T.ent \subseteq R
  BY DEF IsTable
<1> HIDE DEF s
<1>2. IsFiniteSet(R) /\ Cardinality(R) = s
  <2>1. 0 \in Int /\ s - 1 \in Int /\ 0 <= s - 1 /\ (s - 1) - 0 + 1 = s
    BY <1>1
  <2> QED BY <2>1, FS_Interval
<1>3. IsFiniteSet(DOMAIN T.ent)
  <2> HIDE DEF R
  <2> QED BY <1>1, <1>2, FS_Subset
<1> QED BY <1>2, <1>3, FS_CardinalityType DEF KeysUsed, s, R

(* A table that is not full to the last place has an empty one. *)
LEMMA EmptyEntry ==
    ASSUME NEW T, IsTable(T), KeysUsed(T) < T.size, NEW i
    PROVE  emptyent(T, i) \in (0 .. T.size - 1) \ DOMAIN T.ent
<1> DEFINE R == 0 .. T.size - 1
           empty == R \ DOMAIN T.ent
           behind == {j \in empty : j > i}
           F == IF behind # {} THEN behind ELSE empty
<1>1. empty # {}
  <2> SUFFICES ASSUME empty = {}
               PROVE  FALSE
    OBVIOUS
  <2>1. DOMAIN T.ent = R
    BY DEF IsTable
  <2>2. KeysUsed(T) = T.size
    BY <2>1, TableFinite DEF KeysUsed
  <2>3. T.size \in Nat
    BY DEF IsTable
  <2> QED BY <2>2, <2>3
<1>2. F # {} /\ F \subseteq empty
  BY <1>1
<1>3. F \subseteq Nat
  BY <1>2 DEF IsTable
<1>4. emptyent(T, i) = Min(F)
  BY DEF emptyent
<1> HIDE DEF F
<1>5. \E n \in F : \A m \in F : n <= m
  BY <1>2, <1>3, LeastNat
<1>6. Min(F) \in F
  BY <1>5 DEF Min
<1> QED BY <1>2, <1>4, <1>6

LEMMA SamePositions ==
    ASSUME NEW T, NEW U, U.size = T.size
    PROVE  \A k : mainpos(U, k) = mainpos(T, k)
BY DEF mainpos

(* A key in its empty main position. *)
LEMMA PutAlone ==
    ASSUME NEW T, Good(T), NEW k \in Keys, NEW v,
           \A j \in DOMAIN T.ent : T.ent[j].key # k,
           mainpos(T, k) \notin DOMAIN T.ent,
           NEW U, U = With(T, mainpos(T, k), Entry(k, v, None))
    PROVE  /\ Good(U) /\ U.size = T.size /\ KeysUsed(U) = KeysUsed(T) + 1
           /\ \A k2, v2 : Shows(U, k2, v2) <=> (Shows(T, k2, v2) \/ (k2 = k /\ v2 = v))
<1> DEFINE D == DOMAIN T.ent
           m == mainpos(T, k)
           e == Entry(k, v, None)
<1>1. /\ U.size = T.size /\ DOMAIN U.ent = D \cup {m} /\ U.ent[m] = e
      /\ \A j \in D : j # m /\ U.ent[j] = T.ent[j]
  BY WithFacts
<1>2. e.key = k /\ e.val = v /\ e.next = None
  BY DEF Entry
<1>3. IsTable(T) /\ m \in 0 .. T.size - 1 /\ m \notin D
  BY MainPosition DEF Good, IsTable
<1> HIDE DEF e
<1>4. IsTable(U)
  <2> HIDE DEF m
  <2> QED BY <1>1, <1>2, <1>3 DEF IsTable
<1>5. Chained(U)
  <2>1. PICK h : Chain(D, Home(T), NextOf(T), h)
    BY DEF Good, Chained
  <2>2. \A i \in D : Home(U)[i] = Home(T)[i] /\ NextOf(U)[i] = NextOf(T)[i]
    BY <1>1, SamePositions DEF Home, NextOf
  <2>3. Home(U)[m] = m /\ NextOf(U)[m] = None
    BY <1>1, <1>2, SamePositions DEF Home, NextOf
  <2> HIDE DEF D, m
  <2> DEFINE home == Home(T)  nx == NextOf(T)  home2 == Home(U)  nx2 == NextOf(U)
  <2>4. /\ Chain(D, home, nx, h) /\ m \notin D /\ home2[m] = m /\ nx2[m] = None
        /\ \A i \in D : home2[i] = home[i] /\ nx2[i] = nx[i]
    BY <1>3, <2>1, <2>2, <2>3
  <2> HIDE DEF home, nx, home2, nx2
  <2>5. \E g : Chain(D \cup {m}, home2, nx2, g)
    BY <2>4, ChainAlone
  <2> QED BY <1>1, <2>5 DEF Chained, home2, nx2
<1>6. KeysUsed(U) = KeysUsed(T) + 1
  <2>1. IsFiniteSet(D)
    BY <1>3, TableFinite
  <2> HIDE DEF D, m
  <2>2. Cardinality(D \cup {m}) = Cardinality(D) + 1
    BY <1>3, <2>1, FS_AddElement
  <2> QED BY <1>1, <2>2 DEF KeysUsed, D
<1>7. ASSUME NEW k2, NEW v2
      PROVE  Shows(U, k2, v2) <=> (Shows(T, k2, v2) \/ (k2 = k /\ v2 = v))
  <2> HIDE DEF m
  <2> QED BY <1>1, <1>2, <1>3 DEF Shows
<1> QED BY <1>1, <1>4, <1>5, <1>6, <1>7 DEF Good

(* A key behind the head of its chain. *)
Behind(T, k, v, m, n) == With(With(T, n, Entry(k, v, T.ent[m].next)), m, Linked(T.ent[m], n))

LEMMA PutBehind ==
    ASSUME NEW T, Good(T), NEW k \in Keys, NEW v,
           \A j \in DOMAIN T.ent : T.ent[j].key # k,
           NEW m \in DOMAIN T.ent, m = mainpos(T, k), m = mainpos(T, T.ent[m].key),
           NEW n \in (0 .. T.size - 1) \ DOMAIN T.ent,
           NEW U, U = Behind(T, k, v, m, n)
    PROVE  /\ Good(U) /\ U.size = T.size /\ KeysUsed(U) = KeysUsed(T) + 1
           /\ \A k2, v2 : Shows(U, k2, v2) <=> (Shows(T, k2, v2) \/ (k2 = k /\ v2 = v))
<1> DEFINE D == DOMAIN T.ent
           e == Entry(k, v, T.ent[m].next)
           f == Linked(T.ent[m], n)
           V == With(T, n, e)
<1>1. /\ V.size = T.size /\ DOMAIN V.ent = D \cup {n} /\ V.ent[n] = e
      /\ \A j \in D : V.ent[j] = T.ent[j]
  BY WithFacts
<1>2. e.key = k /\ e.val = v /\ e.next = T.ent[m].next
  BY DEF Entry
<1>3. f.key = T.ent[m].key /\ f.val = T.ent[m].val /\ f.next = n
  BY DEF Entry, Linked
<1>4. U = With(V, m, f)
  BY DEF Behind
<1> HIDE DEF e, f, V
<1>5. /\ U.size = T.size /\ DOMAIN U.ent = D \cup {n} /\ U.ent[n] = e /\ U.ent[m] = f
      /\ \A j \in D : j # m => U.ent[j] = T.ent[j]
  BY <1>1, <1>4, WithFacts
<1>6. IsTable(T) /\ n \notin D /\ n \in 0 .. T.size - 1 /\ m # n
  BY DEF Good
<1>7. \A j \in D : U.ent[j].key = T.ent[j].key /\ U.ent[j].val = T.ent[j].val
  BY <1>3, <1>5
<1>8. U.ent[n].key = k /\ U.ent[n].val = v
  BY <1>2, <1>5
<1>9. IsTable(U)
  BY <1>5, <1>6, <1>7, <1>8 DEF IsTable
<1>10. Chained(U)
  <2>1. PICK h : Chain(D, Home(T), NextOf(T), h)
    BY DEF Good, Chained
  <2>2. \A i \in D : Home(U)[i] = Home(T)[i] /\ (i # m => NextOf(U)[i] = NextOf(T)[i])
    BY <1>5, <1>7, SamePositions DEF Home, NextOf
  <2>3. Home(U)[n] = m /\ NextOf(U)[n] = NextOf(T)[m] /\ NextOf(U)[m] = n /\ Home(T)[m] = m
    BY <1>2, <1>3, <1>5, <1>8, SamePositions DEF Home, NextOf
  <2>4. n # None
    BY <1>6 DEF IsTable, None
  <2>5. \E g : Chain(D \cup {n}, Home(U), NextOf(U), g)
    <3> HIDE DEF D
    <3>1. m \in D
      BY DEF D
    <3> QED BY <1>6, <2>1, <2>2, <2>3, <2>4, <3>1, ChainBehind
  <2> QED BY <1>5, <2>5 DEF Chained
<1>11. KeysUsed(U) = KeysUsed(T) + 1
  <2>1. IsFiniteSet(D)
    BY <1>6, TableFinite
  <2> HIDE DEF D
  <2>2. Cardinality(D \cup {n}) = Cardinality(D) + 1
    BY <1>6, <2>1, FS_AddElement
  <2> QED BY <1>5, <2>2 DEF KeysUsed, D
<1>12. ASSUME NEW k2, NEW v2
       PROVE  Shows(U, k2, v2) <=> (Shows(T, k2, v2) \/ (k2 = k /\ v2 = v))
  BY <1>5, <1>7, <1>8 DEF Shows
<1> QED BY <1>5, <1>9, <1>10, <1>11, <1>12 DEF Good

(* A key in its main position, out of which an entry of another chain goes. *)
LEMMA PutAside ==
    ASSUME NEW T, Good(T), NEW k \in Keys, NEW v,
           \A j \in DOMAIN T.ent : T.ent[j].key # k,
           NEW m \in DOMAIN T.ent, m = mainpos(T, k), mainpos(T, T.ent[m].key) # m,
           NEW n \in (0 .. T.size - 1) \ DOMAIN T.ent,
           NEW U, U = With(With(Relink(T, m, n), n, T.ent[m]), m, Entry(k, v, None))
    PROVE  /\ Good(U) /\ U.size = T.size /\ KeysUsed(U) = KeysUsed(T) + 1
           /\ \A k2, v2 : Shows(U, k2, v2) <=> (Shows(T, k2, v2) \/ (k2 = k /\ v2 = v))
<1> DEFINE D == DOMAIN T.ent
           e == Entry(k, v, None)
           R == Relink(T, m, n)
           V == With(R, n, T.ent[m])
           W == (D \ {m}) \cup {n}
<1>1. /\ R.size = T.size /\ DOMAIN R.ent = D
      /\ \A j \in D : /\ R.ent[j].key = T.ent[j].key
                      /\ R.ent[j].val = T.ent[j].val
                      /\ R.ent[j].next = IF T.ent[j].next = m THEN n ELSE T.ent[j].next
  BY RelinkFacts
<1>2. e.key = k /\ e.val = v /\ e.next = None
  BY DEF Entry
<1> HIDE DEF R, e
<1>3. /\ V.size = T.size /\ DOMAIN V.ent = D \cup {n} /\ V.ent[n] = T.ent[m]
      /\ \A j \in D : V.ent[j] = R.ent[j]
  BY <1>1, WithFacts
<1>4. U = With(V, m, e)
  BY DEF R, e
<1> HIDE DEF V
<1>5. /\ U.size = T.size /\ DOMAIN U.ent = D \cup {n} /\ U.ent[n] = T.ent[m] /\ U.ent[m] = e
      /\ \A j \in D : j # m => U.ent[j] = R.ent[j]
  BY <1>3, <1>4, WithFacts
<1>6. IsTable(T) /\ n \notin D /\ n \in 0 .. T.size - 1 /\ m # n
  BY DEF Good
<1>7. \A j \in D : j # m => U.ent[j].key = T.ent[j].key /\ U.ent[j].val = T.ent[j].val
  BY <1>1, <1>5
<1>8. U.ent[m].key = k /\ U.ent[m].val = v
  BY <1>2, <1>5
<1>9. IsTable(U)
  BY <1>5, <1>6, <1>7, <1>8 DEF IsTable
<1>10. Chained(U)
  <2>1. PICK h : Chain(D, Home(T), NextOf(T), h)
    BY DEF Good, Chained
  <2> DEFINE home2 == [i \in W |-> Home(U)[i]]
             nx2 == [i \in W |-> NextOf(U)[i]]
  <2>2. \A i \in D : i # m => Home(U)[i] = Home(T)[i]
    BY <1>5, <1>7, SamePositions DEF Home
  <2>3. \A i \in D : i # m => NextOf(U)[i] = IF NextOf(T)[i] = m THEN n ELSE NextOf(T)[i]
    BY <1>1, <1>5 DEF NextOf
  <2>4. Home(U)[n] = Home(T)[m] /\ NextOf(U)[n] = NextOf(T)[m] /\ Home(T)[m] # m
    BY <1>5, SamePositions DEF Home, NextOf
  <2>5. n # None /\ m # None
    BY <1>6 DEF IsTable, None
  <2>6. Home(U)[m] = m /\ NextOf(U)[m] = None
    BY <1>2, <1>5, SamePositions DEF Home, NextOf
  <2>7. \E g : Chain(W, Home(U), NextOf(U), g)
    <3> HIDE DEF D
    <3>1. m \in D
      BY DEF D
    <3> QED BY <1>6, <2>1, <2>2, <2>3, <2>4, <2>5, <3>1, ChainMoved
  <2>8. PICK g : Chain(W, Home(U), NextOf(U), g)
    BY <2>7
  <2>9. m \notin W /\ W \cup {m} = D \cup {n}
    BY <1>6
  <2> HIDE DEF W, D
  <2>10. \E g2 : Chain(W \cup {m}, Home(U), NextOf(U), g2)
    BY <2>6, <2>8, <2>9, ChainAlone
  <2> QED BY <1>5, <2>9, <2>10 DEF Chained
<1>11. KeysUsed(U) = KeysUsed(T) + 1
  <2>1. IsFiniteSet(D)
    BY <1>6, TableFinite
  <2> HIDE DEF D
  <2>2. Cardinality(D \cup {n}) = Cardinality(D) + 1
    BY <1>6, <2>1, FS_AddElement
  <2> QED BY <1>5, <2>2 DEF KeysUsed, D
<1>12. ASSUME NEW k2, NEW v2
       PROVE  Shows(U, k2, v2) <=> (Shows(T, k2, v2) \/ (k2 = k /\ v2 = v))
  BY <1>5, <1>7, <1>8 DEF Shows
<1> QED BY <1>5, <1>9, <1>10, <1>11, <1>12 DEF Good

(* insert of a key that is not there adds it with its value and nothing else. *)
LEMMA Inserted ==
    ASSUME NEW T, Good(T), NEW k \in Keys, NEW v,
           \A j \in DOMAIN T.ent : T.ent[j].key # k,
           KeysUsed(T) < T.size,
           NEW U, U = insert(T, k, v)
    PROVE  /\ Good(U) /\ U.size = T.size /\ KeysUsed(U) = KeysUsed(T) + 1
           /\ \A k2, v2 : Shows(U, k2, v2) <=> (Shows(T, k2, v2) \/ (k2 = k /\ v2 = v))
<1> DEFINE m == mainpos(T, k)
           n == emptyent(T, m)
           there == T.ent[m]
<1>1. CASE m \notin DOMAIN T.ent
  <2>1. U = With(T, m, Entry(k, v, None))
    BY <1>1 DEF insert
  <2> QED BY <1>1, <2>1, PutAlone
<1>2. CASE m \in DOMAIN T.ent
  <2>1. n \in (0 .. T.size - 1) \ DOMAIN T.ent
    BY EmptyEntry DEF Good
  <2>2. CASE mainpos(T, there.key) = m
    <3>1. U = With(With(T, n, Entry(k, v, there.next)), m, Linked(there, n))
      BY <1>2, <2>2 DEF insert
    <3> DEFINE mm == m  nn == n
    <3>2. mm \in DOMAIN T.ent /\ mm = mainpos(T, k) /\ mm = mainpos(T, T.ent[mm].key) /\ nn \in (0 .. T.size - 1) \ DOMAIN T.ent
      BY <1>2, <2>1, <2>2
    <3>3. U = Behind(T, k, v, mm, nn)
      BY <3>1 DEF Behind
    <3> HIDE DEF mm, nn, m, n, there
    <3> QED BY <3>2, <3>3, PutBehind
  <2>3. CASE mainpos(T, there.key) # m
    <3>1. U = With(With(Relink(T, m, n), n, there), m, Entry(k, v, None))
      BY <1>2, <2>3 DEF insert
    <3> DEFINE mm == m  nn == n
    <3>2. mm \in DOMAIN T.ent /\ mm = mainpos(T, k) /\ mainpos(T, T.ent[mm].key) # mm /\ nn \in (0 .. T.size - 1) \ DOMAIN T.ent
      BY <1>2, <2>1, <2>3
    <3>3. U = With(With(Relink(T, mm, nn), nn, T.ent[mm]), mm, Entry(k, v, None))
      BY <3>1
    <3> HIDE DEF mm, nn
    <3> QED BY <3>2, <3>3, PutAside
  <2> QED BY <2>2, <2>3
<1> QED BY <1>1, <1>2

(* What taking the key of place i out does. *)
Taken(T, k, U) ==
    /\ Good(U) /\ U.size = T.size /\ KeysUsed(U) <= KeysUsed(T)
    /\ \A j \in DOMAIN U.ent : U.ent[j].key # k
    /\ \A k2, v2 : Shows(U, k2, v2) <=> (Shows(T, k2, v2) /\ k2 # k)

LEMMA FewerUsed ==
    ASSUME NEW T, IsTable(T), NEW U, DOMAIN U.ent \subseteq DOMAIN T.ent
    PROVE  KeysUsed(U) <= KeysUsed(T)
BY TableFinite, FS_Subset DEF KeysUsed

(* A key that is not in its main position. *)
LEMMA TakeBehind ==
    ASSUME NEW T, Good(T), NEW k \in Keys,
           NEW i \in DOMAIN T.ent, T.ent[i].key = k, i # mainpos(T, k),
           NEW U, U = Without(Relink(T, i, T.ent[i].next), i)
    PROVE  Taken(T, k, U)
<1> DEFINE D == DOMAIN T.ent
           R == Relink(T, i, T.ent[i].next)
<1>1. /\ R.size = T.size /\ DOMAIN R.ent = D
      /\ \A j \in D : /\ R.ent[j].key = T.ent[j].key
                      /\ R.ent[j].val = T.ent[j].val
                      /\ R.ent[j].next = IF T.ent[j].next = i THEN T.ent[i].next ELSE T.ent[j].next
  BY RelinkFacts
<1>2. U = Without(R, i)
  OBVIOUS
<1> HIDE DEF R
<1>3. /\ U.size = T.size /\ DOMAIN U.ent = D \ {i}
      /\ \A j \in D : j # i => U.ent[j] = R.ent[j]
  BY <1>1, <1>2, WithoutFacts
<1>4. \A j \in D : j # i => U.ent[j].key = T.ent[j].key /\ U.ent[j].val = T.ent[j].val
  BY <1>1, <1>3
<1>5. IsTable(T) /\ \A j \in D : T.ent[j].key = k => j = i
  BY DEF Good, IsTable
<1>6. IsTable(U)
  BY <1>3, <1>4, <1>5 DEF IsTable
<1>7. Chained(U)
  <2>1. PICK h : Chain(D, Home(T), NextOf(T), h)
    BY DEF Good, Chained
  <2>2. \A j \in D : j # i => Home(U)[j] = Home(T)[j]
    BY <1>3, <1>4, SamePositions DEF Home
  <2>3. \A j \in D : j # i => NextOf(U)[j] = IF NextOf(T)[j] = i THEN NextOf(T)[i] ELSE NextOf(T)[j]
    BY <1>1, <1>3 DEF NextOf
  <2>4. Home(T)[i] # i /\ i # None /\ i \in D
    BY <1>5, NonePlace DEF Home
  <2> DEFINE home == Home(T)  nx == NextOf(T)  home2 == Home(U)  nx2 == NextOf(U)
  <2>5. /\ Chain(D, home, nx, h) /\ home[i] # i
        /\ \A j \in D : j # i => home2[j] = home[j]
        /\ \A j \in D : j # i /\ nx[j] = i => nx2[j] = nx[i]
        /\ \A j \in D : j # i /\ nx[j] # i => nx2[j] = nx[j]
    BY <2>1, <2>2, <2>3, <2>4
  <2> HIDE DEF home, nx, home2, nx2, D
  <2>6. \E g : Chain(D \ {i}, home2, nx2, g)
    BY <2>4, <2>5, ChainCut
  <2> QED BY <1>3, <2>6 DEF Chained, home2, nx2
<1>8. KeysUsed(U) <= KeysUsed(T)
  BY <1>3, <1>5, FewerUsed
<1>9. ASSUME NEW k2, NEW v2
      PROVE  Shows(U, k2, v2) <=> (Shows(T, k2, v2) /\ k2 # k)
  BY <1>3, <1>4, <1>5 DEF Shows
<1>10. \A j \in DOMAIN U.ent : U.ent[j].key # k
  BY <1>3, <1>4, <1>5
<1> QED BY <1>3, <1>6, <1>7, <1>8, <1>9, <1>10 DEF Good, Taken

(* A key alone in its chain. *)
LEMMA TakeAlone ==
    ASSUME NEW T, Good(T), NEW k \in Keys,
           NEW i \in DOMAIN T.ent, T.ent[i].key = k, i = mainpos(T, k), T.ent[i].next = None,
           NEW U, U = Without(T, i)
    PROVE  Taken(T, k, U)
<1> DEFINE D == DOMAIN T.ent
<1>1. /\ U.size = T.size /\ DOMAIN U.ent = D \ {i}
      /\ \A j \in D : j # i => U.ent[j] = T.ent[j]
  BY WithoutFacts
<1>2. IsTable(T) /\ \A j \in D : T.ent[j].key = k => j = i
  BY DEF Good, IsTable
<1>3. IsTable(U)
  BY <1>1, <1>2 DEF IsTable
<1>4. Chained(U)
  <2>1. PICK h : Chain(D, Home(T), NextOf(T), h)
    BY DEF Good, Chained
  <2>2. \A j \in D : j # i => Home(U)[j] = Home(T)[j] /\ NextOf(U)[j] = NextOf(T)[j]
    BY <1>1, SamePositions DEF Home, NextOf
  <2>3. Home(T)[i] = i /\ NextOf(T)[i] = None /\ i \in D
    BY DEF Home, NextOf
  <2> DEFINE home == Home(T)  nx == NextOf(T)  home2 == Home(U)  nx2 == NextOf(U)
  <2>4. /\ Chain(D, home, nx, h) /\ home[i] = i /\ nx[i] = None
        /\ \A j \in D : j # i => home2[j] = home[j] /\ nx2[j] = nx[j]
    BY <2>1, <2>2, <2>3
  <2> HIDE DEF home, nx, home2, nx2, D
  <2>5. \E g : Chain(D \ {i}, home2, nx2, g)
    BY <2>3, <2>4, ChainGone
  <2> QED BY <1>1, <2>5 DEF Chained, home2, nx2
<1>5. KeysUsed(U) <= KeysUsed(T)
  BY <1>1, <1>2, FewerUsed
<1>6. ASSUME NEW k2, NEW v2
      PROVE  Shows(U, k2, v2) <=> (Shows(T, k2, v2) /\ k2 # k)
  BY <1>1, <1>2 DEF Shows
<1>7. \A j \in DOMAIN U.ent : U.ent[j].key # k
  BY <1>1, <1>2
<1> QED BY <1>1, <1>3, <1>4, <1>5, <1>6, <1>7 DEF Good, Taken

(* A key with others behind it in its chain: the second takes its place. *)
LEMMA TakeHead ==
    ASSUME NEW T, Good(T), NEW k \in Keys,
           NEW i \in DOMAIN T.ent, T.ent[i].key = k, i = mainpos(T, k),
           NEW b, b = T.ent[i].next, b # None,
           NEW U, U = Without(With(T, i, T.ent[b]), b)
    PROVE  Taken(T, k, U)
<1> DEFINE D == DOMAIN T.ent
           V == With(T, i, T.ent[b])
<1>1. PICK h : Chain(D, Home(T), NextOf(T), h)
  BY DEF Good, Chained
<1>2. b \in D /\ b # i /\ Home(T)[b] = i /\ NextOf(T)[i] = b /\ Home(T)[i] = i
  <2>1. NextOf(T)[i] = b /\ Home(T)[i] = i
    BY DEF NextOf, Home
  <2>2. b \in D /\ Home(T)[b] = i /\ h[b] < h[i] /\ h[i] \in Nat
    BY <1>1, <2>1 DEF Chain, NextIsBelow, HomesAreHeads
  <2>3. b # i
    BY <2>2
  <2> QED BY <2>1, <2>2, <2>3
<1>3. /\ V.size = T.size /\ DOMAIN V.ent = D /\ V.ent[i] = T.ent[b]
      /\ \A j \in D : j # i => V.ent[j] = T.ent[j]
  <2>1. D \cup {i} = D
    OBVIOUS
  <2> DEFINE e == T.ent[b]
  <2> HIDE DEF e
  <2>2. /\ With(T, i, e).size = T.size /\ DOMAIN With(T, i, e).ent = D \cup {i} /\ With(T, i, e).ent[i] = e
        /\ \A j \in D : j # i => With(T, i, e).ent[j] = T.ent[j]
    BY WithFacts
  <2> QED BY <2>1, <2>2 DEF e
<1>4. U = Without(V, b)
  OBVIOUS
<1> HIDE DEF V
<1>5. /\ U.size = T.size /\ DOMAIN U.ent = D \ {b} /\ U.ent[i] = T.ent[b]
      /\ \A j \in D : j # i /\ j # b => U.ent[j] = T.ent[j]
  BY <1>2, <1>3, <1>4, WithoutFacts
<1>6. IsTable(T) /\ (\A j \in D : T.ent[j].key = k => j = i) /\ i \in DOMAIN U.ent
  BY <1>2, <1>5 DEF Good, IsTable
<1>7. IsTable(U)
  <2>1. U.size \in Nat \ {0} /\ DOMAIN U.ent \subseteq 0 .. U.size - 1
    BY <1>5, <1>6 DEF IsTable
  <2>2. \A j \in DOMAIN U.ent : U.ent[j].key \in Keys
    BY <1>2, <1>5, <1>6 DEF IsTable
  <2> DEFINE at == [j \in D \ {b} |-> IF j = i THEN b ELSE j]
  <2>3. \A j \in DOMAIN U.ent : at[j] \in D /\ U.ent[j].key = T.ent[at[j]].key
    <3> TAKE j \in DOMAIN U.ent
    <3>1. j \in D /\ j # b
      BY <1>5
    <3>2. CASE j = i
      <4>1. at[j] = b
        BY <3>1, <3>2
      <4> HIDE DEF at
      <4> QED BY <1>2, <1>5, <3>2, <4>1
    <3>3. CASE j # i
      <4>1. at[j] = j
        BY <3>1, <3>3
      <4> HIDE DEF at
      <4> QED BY <1>5, <3>1, <3>3, <4>1
    <3> QED BY <3>2, <3>3
  <2>4. \A j, l \in DOMAIN U.ent : at[j] = at[l] => j = l
    BY <1>2, <1>5
  <2> HIDE DEF at
  <2>5. \A j, l \in DOMAIN U.ent : U.ent[j].key = U.ent[l].key => j = l
    <3> TAKE j, l \in DOMAIN U.ent
    <3> HAVE U.ent[j].key = U.ent[l].key
    <3>1. at[j] \in D /\ at[l] \in D /\ T.ent[at[j]].key = T.ent[at[l]].key
      BY <2>3
    <3>2. at[j] = at[l]
      BY <1>6, <3>1 DEF IsTable
    <3> QED BY <2>4, <3>2
  <2> QED BY <2>1, <2>2, <2>5 DEF IsTable
<1>8. Chained(U)
  <2> DEFINE home == Home(T)  nx == NextOf(T)
             home2 == [j \in D |-> IF j = i THEN i ELSE home[j]]
             nx2 == [j \in D |-> IF j = i THEN nx[b] ELSE nx[j]]
  <2>1. \A j \in D \ {b} : Home(U)[j] = home2[j]
    <3> SUFFICES ASSUME NEW j \in D, j # b
                 PROVE  Home(U)[j] = home2[j]
      OBVIOUS
    <3>1. CASE j = i
      <4>1. Home(U)[i] = mainpos(U, U.ent[i].key)
        BY <1>6 DEF Home
      <4>2. Home(T)[b] = mainpos(T, T.ent[b].key)
        BY <1>2 DEF Home
      <4>3. mainpos(U, U.ent[i].key) = mainpos(T, T.ent[b].key)
        BY <1>5, SamePositions
      <4>4. home2[i] = i
        BY <1>2
      <4> QED BY <1>2, <3>1, <4>1, <4>2, <4>3, <4>4
    <3>2. CASE j # i
      <4>1. Home(U)[j] = mainpos(U, U.ent[j].key)
        BY <1>5 DEF Home
      <4>2. Home(T)[j] = mainpos(T, T.ent[j].key)
        BY DEF Home
      <4>3. mainpos(U, U.ent[j].key) = mainpos(T, T.ent[j].key)
        BY <1>5, <3>2, SamePositions
      <4>4. home2[j] = Home(T)[j]
        BY <3>2
      <4> QED BY <4>1, <4>2, <4>3, <4>4
    <3> QED BY <3>1, <3>2
  <2>2. \A j \in D \ {b} : NextOf(U)[j] = nx2[j]
    BY <1>2, <1>5, <1>6 DEF NextOf
  <2>3. /\ Chain(D, home, nx, h) /\ i \in D /\ home[i] = i /\ nx[i] = b /\ nx[i] # None
        /\ home2[i] = i /\ nx2[i] = nx[nx[i]]
        /\ \A j \in D : j # i => home2[j] = home[j] /\ nx2[j] = nx[j]
    BY <1>1, <1>2
  <2>4. Home(U) = [j \in D \ {b} |-> Home(U)[j]] /\ NextOf(U) = [j \in D \ {b} |-> NextOf(U)[j]]
    BY <1>5 DEF Home, NextOf
  <2> HIDE DEF home, nx, home2, nx2
  <2>5. \E g : Chain(D \ {nx[i]}, home2, nx2, g)
    <3> HIDE DEF D
    <3> QED BY <2>3, ChainPulled
  <2>6. PICK g : Chain(D \ {b}, home2, nx2, g)
    BY <2>3, <2>5
  <2> DEFINE Q == D \ {b}
  <2>7. /\ Chain(Q, home2, nx2, g)
        /\ \A j \in Q : Home(U)[j] = home2[j]
        /\ \A j \in Q : NextOf(U)[j] = nx2[j]
    BY <2>1, <2>2, <2>6
  <2> HIDE DEF Q, D
  <2>8. HomesAreHeads(Q, Home(U), g)
    BY <2>7 DEF Chain, HomesAreHeads
  <2>9. NextIsBelow(Q, Home(U), NextOf(U), g)
    <3> SUFFICES ASSUME NEW j \in Q
                 PROVE  IF NextOf(U)[j] = None THEN \A l \in Q : Home(U)[l] = Home(U)[j] => g[j] <= g[l]
                        ELSE /\ NextOf(U)[j] \in Q /\ Home(U)[NextOf(U)[j]] = Home(U)[j] /\ g[NextOf(U)[j]] < g[j]
                             /\ \A l \in Q : Home(U)[l] = Home(U)[j] /\ g[l] < g[j] => g[l] <= g[NextOf(U)[j]]
      BY DEF NextIsBelow
    <3>1. CASE nx2[j] = None
      BY <2>7, <3>1 DEF Chain, NextIsBelow
    <3>2. CASE nx2[j] # None
      BY <2>7, <3>2 DEF Chain, NextIsBelow
    <3> QED BY <3>1, <3>2
  <2>10. Chain(Q, Home(U), NextOf(U), g)
    BY <2>8, <2>9 DEF Chain
  <2> QED BY <1>5, <2>10 DEF Chained, Q, D
<1>9. KeysUsed(U) <= KeysUsed(T)
  BY <1>5, <1>6, FewerUsed
<1>10. ASSUME NEW k2, NEW v2
       PROVE  Shows(U, k2, v2) <=> (Shows(T, k2, v2) /\ k2 # k)
  <2>1. ASSUME Shows(U, k2, v2)
        PROVE  Shows(T, k2, v2) /\ k2 # k
    BY <1>2, <1>5, <1>6, <2>1 DEF Shows
  <2>2. ASSUME Shows(T, k2, v2), k2 # k
        PROVE  Shows(U, k2, v2)
    BY <1>2, <1>5, <1>6, <2>2 DEF Shows
  <2> QED BY <2>1, <2>2
<1>11. \A j \in DOMAIN U.ent : U.ent[j].key # k
  BY <1>2, <1>5, <1>6
<1> QED BY <1>5, <1>7, <1>8, <1>9, <1>10, <1>11 DEF Good, Taken

(* rm takes a key out and nothing else. *)
LEMMA Removed ==
    ASSUME NEW T, Good(T), NEW k \in Keys, NEW U, U = rm(T, k)
    PROVE  Taken(T, k, U)
<1> DEFINE i == findentry(T, k)
<1>1. CASE \A j \in DOMAIN T.ent : T.ent[j].key # k
  <2>1. i = None
    BY <1>1, FindEntry
  <2>2. U = T
    BY <2>1 DEF rm
  <2>3. KeysUsed(T) \in Nat
    BY TableFinite DEF Good
  <2>4. \A k2, v2 : Shows(T, k2, v2) <=> (Shows(T, k2, v2) /\ k2 # k)
    BY <1>1 DEF Shows
  <2> QED BY <1>1, <2>2, <2>3, <2>4 DEF Taken
<1>2. CASE \E j \in DOMAIN T.ent : T.ent[j].key = k
  <2>1. PICK j \in DOMAIN T.ent : T.ent[j].key = k
    BY <1>2
  <2>2. i = j
    BY <2>1, FindEntry
  <2>3. j # None
    BY <2>1, NonePlace DEF Good
  <2>4. CASE j # mainpos(T, k)
    <3>1. U = Without(Relink(T, j, T.ent[j].next), j)
      BY <2>2, <2>3, <2>4 DEF rm
    <3> QED BY <2>1, <2>4, <3>1, TakeBehind
  <2>5. CASE j = mainpos(T, k) /\ T.ent[j].next # None
    <3> DEFINE b == T.ent[j].next
    <3>1. U = Without(With(T, j, T.ent[b]), b)
      BY <2>2, <2>3, <2>5 DEF rm
    <3>2. b = T.ent[j].next /\ b # None
      BY <2>5
    <3> HIDE DEF b
    <3> QED BY <2>1, <2>5, <3>1, <3>2, TakeHead
  <2>6. CASE j = mainpos(T, k) /\ T.ent[j].next = None
    <3>1. U = Without(T, j)
      BY <2>2, <2>3, <2>6 DEF rm
    <3> QED BY <2>1, <2>6, <3>1, TakeAlone
  <2> QED BY <2>4, <2>5, <2>6
<1> QED BY <1>1, <1>2

LEMMA EmptyIsGood ==
    ASSUME NEW n \in Nat \ {0}
    PROVE  /\ Good(EmptyTable(n)) /\ EmptyTable(n).size = n /\ KeysUsed(EmptyTable(n)) = 0
           /\ \A k, v : ~Shows(EmptyTable(n), k, v)
<1> DEFINE T == EmptyTable(n)
<1>1. T.size = n /\ DOMAIN T.ent = {}
  BY DEF EmptyTable
<1> HIDE DEF T
<1>2. IsTable(T)
  BY <1>1 DEF IsTable
<1>3. Chained(T)
  <2> DEFINE h == [i \in {} |-> 0]
  <2>1. h \in [{} -> Nat]
    OBVIOUS
  <2> HIDE DEF h
  <2>2. Chain({}, Home(T), NextOf(T), h)
    BY <2>1 DEF Chain, HomesAreHeads, NextIsBelow
  <2> QED BY <1>1, <2>2 DEF Chained
<1>4. KeysUsed(T) = 0
  BY <1>1, FS_EmptySet DEF KeysUsed
<1>5. \A k, v : ~Shows(T, k, v)
  BY <1>1 DEF Shows
<1> QED BY <1>1, <1>2, <1>3, <1>4, <1>5 DEF Good, T

(* Every key is in one entry. *)
LEMMA KeysCount ==
    ASSUME NEW T, IsTable(T)
    PROVE  LET K == {T.ent[i].key : i \in DOMAIN T.ent}
           IN  IsFiniteSet(K) /\ Cardinality(K) = KeysUsed(T)
<1> DEFINE D == DOMAIN T.ent
           K == {T.ent[i].key : i \in D}
           f == [i \in D |-> T.ent[i].key]
<1>1. f \in Bijection(D, K)
  <2>1. f \in [D -> K]
    OBVIOUS
  <2>2. \A i, j \in D : f[i] = f[j] => i = j
    BY DEF IsTable
  <2>3. \A k \in K : \E i \in D : f[i] = k
    OBVIOUS
  <2> HIDE DEF f, D, K
  <2> QED BY <2>1, <2>2, <2>3 DEF Bijection, Injection, Surjection, IsInjective
<1>2. IsFiniteSet(D)
  BY TableFinite
<1>3. ExistsBijection(D, K)
  <2> HIDE DEF f, D, K
  <2> QED BY <1>1 DEF ExistsBijection
<1>4. IsFiniteSet(K) /\ Cardinality(K) = Cardinality(D)
  <2> HIDE DEF D, K
  <2> QED BY <1>2, <1>3, FS_Bijection
<1> QED BY <1>4 DEF KeysUsed

(* Tables that show the same have as many entries. *)
LEMMA SameShown ==
    ASSUME NEW T, IsTable(T), NEW U, IsTable(U),
           \A k, v : Shows(T, k, v) <=> Shows(U, k, v)
    PROVE  KeysUsed(T) = KeysUsed(U)
<1> DEFINE KT == {T.ent[i].key : i \in DOMAIN T.ent}
           KU == {U.ent[i].key : i \in DOMAIN U.ent}
<1>1. KT \subseteq KU
  <2> SUFFICES ASSUME NEW i \in DOMAIN T.ent
               PROVE  T.ent[i].key \in KU
    OBVIOUS
  <2>1. Shows(T, T.ent[i].key, T.ent[i].val)
    BY DEF Shows
  <2>2. Shows(U, T.ent[i].key, T.ent[i].val)
    BY <2>1
  <2> QED BY <2>2 DEF Shows
<1>2. KU \subseteq KT
  <2> SUFFICES ASSUME NEW i \in DOMAIN U.ent
               PROVE  U.ent[i].key \in KT
    OBVIOUS
  <2>1. Shows(U, U.ent[i].key, U.ent[i].val)
    BY DEF Shows
  <2>2. Shows(T, U.ent[i].key, U.ent[i].val)
    BY <2>1
  <2> QED BY <2>2 DEF Shows
<1>3. Cardinality(KT) = KeysUsed(T) /\ Cardinality(KU) = KeysUsed(U)
  BY KeysCount
<1> HIDE DEF KT, KU
<1>4. KT = KU
  BY <1>1, <1>2
<1> QED BY <1>3, <1>4

(* resized: the same entries in a table of twice the size. *)
FillStep(T, i, x) ==
    IF i - 1 \in DOMAIN T.ent THEN insert(x, T.ent[i - 1].key, T.ent[i - 1].val) ELSE x

LEMMA Resized ==
    ASSUME NEW T, Good(T), NEW U, U = resized(T)
    PROVE  /\ Good(U) /\ U.size = 2 * T.size
           /\ \A k, v : Shows(U, k, v) <=> Shows(T, k, v)
<1> DEFINE s == T.size
           start == EmptyTable(2 * s)
           Eq(f, n) == f = [i \in 0 .. n |-> IF i = 0 THEN start ELSE FillStep(T, i, f[i - 1])]
           fill == CHOOSE f : Eq(f, s)
<1>1. s \in Nat /\ s > 0 /\ IsTable(T)
  BY DEF Good, IsTable
<1>2. U = fill[s]
  BY DEF resized, FillStep
<1>3. Good(start) /\ start.size = 2 * s /\ KeysUsed(start) = 0 /\ \A k, v : ~Shows(start, k, v)
  <2>1. 2 * s \in Nat \ {0}
    BY <1>1
  <2> QED BY <2>1, EmptyIsGood
<1> HIDE DEF s, start
<1>4. \E f : Eq(f, s)
  <2> DEFINE S == {n \in Nat : \E f : Eq(f, n)}
  <2>1. 0 \in S
    <3>1. Eq([i \in 0 .. 0 |-> start], 0)
      OBVIOUS
    <3> QED BY <3>1
  <2>2. ASSUME NEW n \in Nat, n \in S
        PROVE  n + 1 \in S
    <3>1. PICK f : Eq(f, n)
      BY <2>2
    <3> DEFINE g == [i \in 0 .. n + 1 |-> IF i = n + 1 THEN FillStep(T, n + 1, f[n]) ELSE f[i]]
    <3>2. \A i \in 0 .. n : f[i] = IF i = 0 THEN start ELSE FillStep(T, i, f[i - 1])
      <4> DEFINE rhs == [i \in 0 .. n |-> IF i = 0 THEN start ELSE FillStep(T, i, f[i - 1])]
      <4>1. \A i \in 0 .. n : rhs[i] = IF i = 0 THEN start ELSE FillStep(T, i, f[i - 1])
        OBVIOUS
      <4>2. f = rhs
        BY <3>1
      <4> HIDE DEF rhs
      <4> QED BY <4>1, <4>2
    <3>3. g[n + 1] = FillStep(T, n + 1, f[n]) /\ \A i \in 0 .. n : g[i] = f[i]
      OBVIOUS
    <3>4. \A i \in 0 .. n + 1 : g[i] = IF i = 0 THEN start ELSE FillStep(T, i, g[i - 1])
      <4> TAKE i \in 0 .. n + 1
      <4> HIDE DEF g
      <4>1. CASE i = n + 1
        <5>1. i - 1 = n /\ n \in 0 .. n /\ i # 0
          BY <4>1
        <5> QED BY <3>3, <4>1, <5>1
      <4>2. CASE i = 0
        <5>1. 0 \in 0 .. n
          OBVIOUS
        <5> QED BY <3>2, <3>3, <4>2, <5>1
      <4>3. CASE i # 0 /\ i # n + 1
        <5>1. i \in 0 .. n /\ i - 1 \in 0 .. n
          BY <4>3
        <5> QED BY <3>2, <3>3, <4>3, <5>1
      <4> QED BY <4>1, <4>2, <4>3
    <3>5. Eq(g, n + 1)
      <4> DEFINE rhs == [i \in 0 .. n + 1 |-> IF i = 0 THEN start ELSE FillStep(T, i, g[i - 1])]
      <4>1. g = [i \in 0 .. n + 1 |-> g[i]]
        OBVIOUS
      <4> HIDE DEF g
      <4> QED BY <3>4, <4>1
    <3> HIDE DEF g
    <3> QED BY <3>5
  <2> HIDE DEF S, Eq
  <2>3. Nat \subseteq S
    BY <2>1, <2>2, Induct
  <2> QED BY <1>1, <2>3 DEF S
<1>5. Eq(fill, s)
  <2> HIDE DEF Eq
  <2> QED BY <1>4
<1> HIDE DEF fill
<1>6. \A i \in 0 .. s : fill[i] = IF i = 0 THEN start ELSE FillStep(T, i, fill[i - 1])
  <2> DEFINE rhs == [i \in 0 .. s |-> IF i = 0 THEN start ELSE FillStep(T, i, fill[i - 1])]
  <2>1. \A i \in 0 .. s : rhs[i] = IF i = 0 THEN start ELSE FillStep(T, i, fill[i - 1])
    OBVIOUS
  <2>2. fill = rhs
    BY <1>5
  <2> HIDE DEF rhs
  <2> QED BY <2>1, <2>2
<1> HIDE DEF Eq
<1> DEFINE Below(i, k, v) == \E j \in DOMAIN T.ent : j < i /\ T.ent[j].key = k /\ T.ent[j].val = v
           Filled(i, x) == /\ Good(x) /\ x.size = 2 * s /\ KeysUsed(x) <= i
                           /\ \A k, v : Shows(x, k, v) <=> Below(i, k, v)
           P == {i \in Nat : i <= s => Filled(i, fill[i])}
<1>7. 0 \in P
  <2>1. fill[0] = start
    BY <1>1, <1>6
  <2>2. \A k, v : ~Below(0, k, v)
    BY <1>1 DEF IsTable
  <2> HIDE DEF Below
  <2> QED BY <1>3, <2>1, <2>2
<1>8. ASSUME NEW i \in Nat, i \in P
      PROVE  i + 1 \in P
  <2> SUFFICES ASSUME i + 1 <= s
               PROVE  Filled(i + 1, fill[i + 1])
    OBVIOUS
  <2> DEFINE x == fill[i]
             y == fill[i + 1]
  <2>1. Filled(i, x)
    BY <1>1, <1>8
  <2>2. y = FillStep(T, i + 1, x)
    <3>1. i + 1 \in 0 .. s /\ i + 1 # 0 /\ (i + 1) - 1 = i
      BY <1>1
    <3> QED BY <1>6, <3>1
  <2>3. (i + 1) - 1 = i
    OBVIOUS
  <2>4. y = IF i \in DOMAIN T.ent THEN insert(x, T.ent[i].key, T.ent[i].val) ELSE x
    BY <2>2, <2>3 DEF FillStep
  <2> HIDE DEF x, y
  <2>5. \A j \in DOMAIN T.ent : j \in Nat
    BY <1>1 DEF IsTable
  <2>6. KeysUsed(x) \in Nat /\ KeysUsed(x) <= i /\ x.size = 2 * s /\ Good(x)
    BY <2>1, TableFinite DEF Good
  <2>7. CASE i \notin DOMAIN T.ent
    <3>1. \A k, v : Below(i + 1, k, v) <=> Below(i, k, v)
      <4>1. \A j \in DOMAIN T.ent : j < i + 1 <=> j < i
        BY <2>5, <2>7
      <4> QED BY <4>1
    <3> HIDE DEF Below
    <3>2. y = x /\ KeysUsed(x) <= i + 1
      BY <2>4, <2>6, <2>7
    <3>3. Good(y) /\ y.size = 2 * s /\ KeysUsed(y) <= i + 1
      BY <2>6, <3>2
    <3>4. \A k, v : Shows(y, k, v) <=> Below(i + 1, k, v)
      BY <2>1, <3>1, <3>2
    <3> QED BY <3>3, <3>4 DEF y
  <2>8. CASE i \in DOMAIN T.ent
    <3> DEFINE k0 == T.ent[i].key
               v0 == T.ent[i].val
    <3>1. \A k, v : Below(i + 1, k, v) <=> (Below(i, k, v) \/ (k = k0 /\ v = v0))
      <4>1. \A j \in DOMAIN T.ent : j < i + 1 <=> (j < i \/ j = i)
        BY <2>5
      <4> TAKE k, v
      <4>2. ASSUME Below(i + 1, k, v)
            PROVE  Below(i, k, v) \/ (k = k0 /\ v = v0)
        BY <4>1, <4>2
      <4>3. ASSUME Below(i, k, v) \/ (k = k0 /\ v = v0)
            PROVE  Below(i + 1, k, v)
        <5>1. CASE Below(i, k, v)
          BY <4>1, <5>1
        <5>2. CASE k = k0 /\ v = v0
          BY <2>8, <4>1, <5>2
        <5> QED BY <4>3, <5>1, <5>2
      <4> QED BY <4>2, <4>3
    <3>2. k0 \in Keys /\ \A v : ~Below(i, k0, v)
      <4>1. k0 \in Keys /\ \A j \in DOMAIN T.ent : T.ent[j].key = k0 => j = i
        BY <1>1, <2>8 DEF IsTable
      <4> QED BY <4>1
    <3>3. \A j \in DOMAIN x.ent : x.ent[j].key # k0
      <4> SUFFICES ASSUME NEW j \in DOMAIN x.ent, x.ent[j].key = k0
                   PROVE  FALSE
        OBVIOUS
      <4>1. Shows(x, k0, x.ent[j].val)
        BY DEF Shows
      <4> HIDE DEF Below, k0
      <4> QED BY <2>1, <3>2, <4>1
    <3>4. KeysUsed(x) < x.size
      BY <1>1, <2>6
    <3>5. y = insert(x, k0, v0)
      BY <2>4, <2>8
    <3> HIDE DEF k0, v0
    <3>6. /\ Good(y) /\ y.size = x.size /\ KeysUsed(y) = KeysUsed(x) + 1
          /\ \A k2, v2 : Shows(y, k2, v2) <=> (Shows(x, k2, v2) \/ (k2 = k0 /\ v2 = v0))
      BY <2>6, <3>2, <3>3, <3>4, <3>5, Inserted
    <3>7. KeysUsed(y) <= i + 1 /\ y.size = 2 * s
      BY <2>6, <3>6
    <3> HIDE DEF Below
    <3>8. \A k, v : Shows(y, k, v) <=> Below(i + 1, k, v)
      BY <2>1, <3>1, <3>6
    <3> QED BY <3>6, <3>7, <3>8 DEF y
  <2> QED BY <2>7, <2>8 DEF y
<1>9. Filled(s, U)
  <2> HIDE DEF P, Filled
  <2>1. Nat \subseteq P
    BY <1>7, <1>8, Induct
  <2> QED BY <1>1, <1>2, <2>1 DEF P
<1>10. \A k, v : Below(s, k, v) <=> Shows(T, k, v)
  <2>1. \A j \in DOMAIN T.ent : j < s
    BY <1>1 DEF IsTable, s
  <2> QED BY <2>1 DEF Shows
<1> HIDE DEF Below
<1> QED BY <1>9, <1>10 DEF s

(* A table with room: it is not beyond the load at which it is resized. *)
Roomy(T) == KeysUsed(T) <= T.size - T.size \div 8

LEMMA EighthFacts ==
    ASSUME NEW s \in Nat, s > 0
    PROVE  /\ s \div 8 \in Nat /\ s \div 8 < s
           /\ s - s \div 8 + 1 <= 2 * s - (2 * s) \div 8
<1> DEFINE q == s \div 8
           r == (2 * s) \div 8
<1>1. q \in Int /\ 8 * q <= s /\ s < 8 * q + 8
  BY SMT
<1>2. r \in Int /\ 8 * r <= 2 * s
  BY SMT
<1> HIDE DEF q, r
<1>3. q \in Nat /\ q < s /\ s - q + 1 <= 2 * s - r
  BY <1>1, <1>2
<1> QED BY <1>3 DEF q, r

(* upb_strtable_insert's table before the insertion. *)
LEMMA Grown ==
    ASSUME NEW T, Good(T), Roomy(T), NEW U, U = grown(T)
    PROVE  /\ Good(U) /\ KeysUsed(U) < U.size /\ KeysUsed(U) + 1 <= U.size - U.size \div 8
           /\ \A k, v : Shows(U, k, v) <=> Shows(T, k, v)
<1> DEFINE s == T.size
           q == s \div 8
<1>1. s \in Nat /\ s > 0 /\ KeysUsed(T) \in Nat
  BY TableFinite DEF Good, IsTable
<1>2. q \in Nat /\ q < s /\ s - q + 1 <= 2 * s - (2 * s) \div 8
  BY <1>1, EighthFacts
<1>3. KeysUsed(T) <= s - q
  BY DEF Roomy
<1>4. CASE isfull(T)
  <2>1. U = resized(T) /\ KeysUsed(T) = s - q
    BY <1>4 DEF grown, isfull, KeysUsed
  <2>2. Good(U) /\ U.size = 2 * s /\ \A k, v : Shows(U, k, v) <=> Shows(T, k, v)
    BY <2>1, Resized
  <2>3. KeysUsed(U) = KeysUsed(T)
    BY <2>2, SameShown DEF Good
  <2> HIDE DEF q, s
  <2>4. KeysUsed(U) + 1 <= 2 * s - (2 * s) \div 8 /\ KeysUsed(U) < 2 * s
    <3>1. KeysUsed(U) < 2 * s
      BY <1>1, <1>2, <2>1, <2>3
    <3> QED BY <1>2, <2>1, <2>3, <3>1
  <2> QED BY <2>2, <2>4
<1>5. CASE ~isfull(T)
  <2>1. U = T /\ KeysUsed(T) # s - q
    BY <1>5 DEF grown, isfull, KeysUsed
  <2> HIDE DEF q
  <2>2. KeysUsed(T) + 1 <= s - q /\ KeysUsed(T) < s
    <3> HIDE DEF s
    <3> QED BY <1>1, <1>2, <1>3, <2>1
  <2> QED BY <2>1, <2>2 DEF q
<1> QED BY <1>4, <1>5

(* upb_Map_Set leaves everything else and gives the key its new value. *)
LEMMA StoredShows ==
    ASSUME NEW T, Good(T), Roomy(T), NEW k \in Keys, NEW v, NEW U, U = Stored(T, k, v)
    PROVE  /\ Good(U) /\ Roomy(U)
           /\ \A k2, v2 : Shows(U, k2, v2) <=> (IF k2 = k THEN v2 = v ELSE Shows(T, k2, v2))
<1> DEFINE R == rm(T, k)
           G == grown(R)
<1>1. Taken(T, k, R)
  BY Removed
<1>2. Good(R) /\ Roomy(R)
  <2>1. Good(R) /\ R.size = T.size /\ KeysUsed(R) <= KeysUsed(T)
    BY <1>1 DEF Taken
  <2>2. KeysUsed(R) \in Nat /\ KeysUsed(T) \in Nat /\ T.size \in Nat /\ T.size > 0
    BY <2>1, TableFinite DEF Good, IsTable
  <2> DEFINE q == T.size \div 8
  <2>3. q \in Nat /\ KeysUsed(T) <= T.size - q
    BY <2>2, EighthFacts DEF Roomy
  <2> HIDE DEF q, R
  <2>4. KeysUsed(R) <= T.size - q
    BY <2>1, <2>2, <2>3
  <2> QED BY <2>1, <2>4 DEF Roomy, q
<1>3. U = insert(G, k, v)
  BY DEF Stored
<1> HIDE DEF R
<1>4. /\ Good(G) /\ KeysUsed(G) < G.size /\ KeysUsed(G) + 1 <= G.size - G.size \div 8
      /\ \A k2, v2 : Shows(G, k2, v2) <=> Shows(R, k2, v2)
  BY <1>2, Grown
<1> HIDE DEF G
<1>5. \A j \in DOMAIN G.ent : G.ent[j].key # k
  <2> SUFFICES ASSUME NEW j \in DOMAIN G.ent, G.ent[j].key = k
               PROVE  FALSE
    OBVIOUS
  <2>1. Shows(G, k, G.ent[j].val)
    BY DEF Shows
  <2>2. Shows(R, k, G.ent[j].val)
    BY <1>4, <2>1
  <2> QED BY <1>1, <2>2 DEF Taken
<1>6. /\ Good(U) /\ U.size = G.size /\ KeysUsed(U) = KeysUsed(G) + 1
      /\ \A k2, v2 : Shows(U, k2, v2) <=> (Shows(G, k2, v2) \/ (k2 = k /\ v2 = v))
  BY <1>3, <1>4, <1>5, Inserted
<1>7. Roomy(U)
  BY <1>4, <1>6 DEF Roomy
<1>8. ASSUME NEW k2, NEW v2
      PROVE  Shows(U, k2, v2) <=> (IF k2 = k THEN v2 = v ELSE Shows(T, k2, v2))
  <2>1. Shows(U, k2, v2) <=> ((Shows(T, k2, v2) /\ k2 # k) \/ (k2 = k /\ v2 = v))
    BY <1>1, <1>4, <1>6 DEF Taken
  <2> QED BY <2>1
<1> QED BY <1>6, <1>7, <1>8

(* The table holds what a function gives. *)
Holds(T, c) == \A k, v : Shows(T, k, v) <=> (k \in DOMAIN c /\ v = c[k])

LEMMA HoldsFacts ==
    ASSUME NEW T, IsTable(T), NEW c, Holds(T, c)
    PROVE  /\ \A i \in DOMAIN T.ent : T.ent[i].key \in DOMAIN c /\ T.ent[i].val = c[T.ent[i].key]
           /\ \A k \in DOMAIN c : \E i \in DOMAIN T.ent : T.ent[i].key = k
           /\ DOMAIN c = {T.ent[i].key : i \in DOMAIN T.ent}
           /\ DOMAIN c \subseteq Keys /\ IsFiniteSet(DOMAIN c) /\ Cardinality(DOMAIN c) = KeysUsed(T)
<1>1. ASSUME NEW i \in DOMAIN T.ent
      PROVE  T.ent[i].key \in DOMAIN c /\ T.ent[i].val = c[T.ent[i].key]
  <2>1. Shows(T, T.ent[i].key, T.ent[i].val)
    BY DEF Shows
  <2> QED BY <2>1 DEF Holds
<1>2. ASSUME NEW k \in DOMAIN c
      PROVE  \E i \in DOMAIN T.ent : T.ent[i].key = k
  <2>1. Shows(T, k, c[k])
    BY DEF Holds
  <2> QED BY <2>1 DEF Shows
<1>3. DOMAIN c = {T.ent[i].key : i \in DOMAIN T.ent}
  BY <1>1, <1>2
<1>4. DOMAIN c \subseteq Keys
  BY <1>3 DEF IsTable
<1>5. IsFiniteSet(DOMAIN c) /\ Cardinality(DOMAIN c) = KeysUsed(T)
  BY <1>3, KeysCount
<1> QED BY <1>1, <1>2, <1>3, <1>4, <1>5

(* Every order of the keys has all of them. *)
LEMMA OrderFacts ==
    ASSUME NEW S, IsFiniteSet(S), NEW order \in SetToSeqs(S)
    PROVE  /\ Len(order) \in Nat /\ \A i \in 1 .. Len(order) : order[i] \in S
           /\ \A k \in S : \E i \in 1 .. Len(order) : order[i] = k
<1> DEFINE N == Cardinality(S)
           D == 1 .. N
<1>1. N \in Nat
  BY FS_CardinalityType
<1>2. order \in [D -> S] /\ \A i, j \in D : i # j => order[i] # order[j]
  BY DEF SetToSeqs
<1>3. Len(order) = N
  <2>1. order \in Seq(S) /\ DOMAIN order = 1 .. N
    BY <1>1, <1>2
  <2> HIDE DEF N
  <2> QED BY <1>1, <2>1, LenProperties
<1>4. order \in Injection(D, S)
  BY <1>2 DEF Injection, IsInjective
<1>5. Cardinality(D) = N
  <2> HIDE DEF N
  <2>1. 1 \in Int /\ N \in Int /\ (1 > N => N = 0) /\ (1 <= N => N - 1 + 1 = N)
    BY <1>1
  <2>2. CASE N = 0
    <3>1. D = {}
      BY <2>2
    <3> QED BY <2>2, <3>1, FS_EmptySet
  <2>3. CASE N # 0
    <3>1. 1 <= N /\ N - 1 + 1 = N
      BY <1>1, <2>3
    <3> QED BY <2>1, <3>1, FS_Interval
  <2> QED BY <2>2, <2>3
<1>6. order \in Surjection(D, S)
  <2>1. Cardinality(D) = Cardinality(S)
    BY <1>5
  <2> HIDE DEF D, N
  <2> QED BY <1>4, <2>1, FS_Injection
<1>7. \A k \in S : \E i \in D : order[i] = k
  BY <1>6 DEF Surjection
<1> QED BY <1>1, <1>2, <1>3, <1>7

(* A new map with the entries of the old one, in whatever order. *)
PutStep(order, n, x) == Stored(x, order[n], content[order[n]])

LEMMA EnteredHolds ==
    ASSUME NEW S, S = DOMAIN content, S \subseteq Keys, IsFiniteSet(S), NEW order \in SetToSeqs(S),
           NEW U, U = Entered(order)
    PROVE  Good(U) /\ Roomy(U) /\ Holds(U, content)
<1> DEFINE s == Len(order)
           start == EmptyTable(InitSize)
           Eq(f, n) == f = [i \in 0 .. n |-> IF i = 0 THEN start ELSE PutStep(order, i, f[i - 1])]
           put == CHOOSE f : Eq(f, s)
<1>1. /\ s \in Nat /\ \A i \in 1 .. s : order[i] \in S
      /\ \A k \in S : \E i \in 1 .. s : order[i] = k
  BY OrderFacts
<1>2. U = put[s]
  BY DEF Entered, PutStep
<1>3. Good(start) /\ Roomy(start) /\ \A k, v : ~Shows(start, k, v)
  <2>1. Good(start) /\ start.size = InitSize /\ KeysUsed(start) = 0 /\ \A k, v : ~Shows(start, k, v)
    BY MapAssumption, EmptyIsGood
  <2>2. InitSize \div 8 \in Nat /\ InitSize \div 8 < InitSize
    BY MapAssumption, EighthFacts
  <2> DEFINE q == InitSize \div 8
  <2>3. InitSize - q >= 0
    <3>1. q \in Nat /\ q < InitSize /\ InitSize \in Nat
      BY <2>2, MapAssumption
    <3> HIDE DEF q
    <3> QED BY <3>1
  <2> QED BY <2>1, <2>3 DEF Roomy
<1> HIDE DEF s, start
<1>4. \E f : Eq(f, s)
  <2> DEFINE Z == {n \in Nat : \E f : Eq(f, n)}
  <2>1. 0 \in Z
    <3>1. Eq([i \in 0 .. 0 |-> start], 0)
      OBVIOUS
    <3> QED BY <3>1
  <2>2. ASSUME NEW n \in Nat, n \in Z
        PROVE  n + 1 \in Z
    <3>1. PICK f : Eq(f, n)
      BY <2>2
    <3> DEFINE g == [i \in 0 .. n + 1 |-> IF i = n + 1 THEN PutStep(order, n + 1, f[n]) ELSE f[i]]
    <3>2. \A i \in 0 .. n : f[i] = IF i = 0 THEN start ELSE PutStep(order, i, f[i - 1])
      <4> DEFINE rhs == [i \in 0 .. n |-> IF i = 0 THEN start ELSE PutStep(order, i, f[i - 1])]
      <4>1. \A i \in 0 .. n : rhs[i] = IF i = 0 THEN start ELSE PutStep(order, i, f[i - 1])
        OBVIOUS
      <4>2. f = rhs
        BY <3>1
      <4> HIDE DEF rhs
      <4> QED BY <4>1, <4>2
    <3>3. g[n + 1] = PutStep(order, n + 1, f[n]) /\ \A i \in 0 .. n : g[i] = f[i]
      OBVIOUS
    <3>4. \A i \in 0 .. n + 1 : g[i] = IF i = 0 THEN start ELSE PutStep(order, i, g[i - 1])
      <4> TAKE i \in 0 .. n + 1
      <4> HIDE DEF g
      <4>1. CASE i = n + 1
        <5>1. i - 1 = n /\ n \in 0 .. n /\ i # 0
          BY <4>1
        <5> QED BY <3>3, <4>1, <5>1
      <4>2. CASE i = 0
        <5>1. 0 \in 0 .. n
          OBVIOUS
        <5> QED BY <3>2, <3>3, <4>2, <5>1
      <4>3. CASE i # 0 /\ i # n + 1
        <5>1. i \in 0 .. n /\ i - 1 \in 0 .. n
          BY <4>3
        <5> QED BY <3>2, <3>3, <4>3, <5>1
      <4> QED BY <4>1, <4>2, <4>3
    <3>5. Eq(g, n + 1)
      <4>1. g = [i \in 0 .. n + 1 |-> g[i]]
        OBVIOUS
      <4> HIDE DEF g
      <4> QED BY <3>4, <4>1
    <3> HIDE DEF g
    <3> QED BY <3>5
  <2> HIDE DEF Z, Eq
  <2>3. Nat \subseteq Z
    BY <2>1, <2>2, Induct
  <2> QED BY <1>1, <2>3 DEF Z
<1>5. Eq(put, s)
  <2> HIDE DEF Eq
  <2> QED BY <1>4
<1> HIDE DEF put
<1>6. \A i \in 0 .. s : put[i] = IF i = 0 THEN start ELSE PutStep(order, i, put[i - 1])
  <2> DEFINE rhs == [i \in 0 .. s |-> IF i = 0 THEN start ELSE PutStep(order, i, put[i - 1])]
  <2>1. \A i \in 0 .. s : rhs[i] = IF i = 0 THEN start ELSE PutStep(order, i, put[i - 1])
    OBVIOUS
  <2>2. put = rhs
    BY <1>5
  <2> HIDE DEF rhs
  <2> QED BY <2>1, <2>2
<1> HIDE DEF Eq
<1> DEFINE Before(i, k) == \E j \in 1 .. i : order[j] = k
           Done(i, x) == /\ Good(x) /\ Roomy(x)
                         /\ \A k, v : Shows(x, k, v) <=> (Before(i, k) /\ v = content[k])
           P == {i \in Nat : i <= s => Done(i, put[i])}
<1>7. 0 \in P
  <2>1. put[0] = start
    BY <1>1, <1>6
  <2>2. \A k : ~Before(0, k)
    OBVIOUS
  <2> HIDE DEF Before
  <2> QED BY <1>3, <2>1, <2>2
<1>8. ASSUME NEW i \in Nat, i \in P
      PROVE  i + 1 \in P
  <2> SUFFICES ASSUME i + 1 <= s
               PROVE  Done(i + 1, put[i + 1])
    OBVIOUS
  <2> DEFINE x == put[i]
             y == put[i + 1]
             k0 == order[i + 1]
             v0 == content[k0]
  <2>1. Done(i, x)
    BY <1>1, <1>8
  <2>2. y = Stored(x, k0, v0)
    <3>1. i + 1 \in 0 .. s /\ i + 1 # 0 /\ (i + 1) - 1 = i
      BY <1>1
    <3>2. y = PutStep(order, i + 1, x)
      BY <1>6, <3>1
    <3> QED BY <3>2 DEF PutStep
  <2>3. k0 \in Keys
    <3>1. i + 1 \in 1 .. s
      BY <1>1
    <3> QED BY <1>1, <3>1
  <2>4. \A k : Before(i + 1, k) <=> (Before(i, k) \/ k = k0)
    <3> TAKE k
    <3>1. \A j : j \in 1 .. i + 1 <=> (j \in 1 .. i \/ j = i + 1)
      OBVIOUS
    <3> QED BY <3>1
  <2> HIDE DEF x, y, k0, v0, Before
  <2>5. /\ Good(y) /\ Roomy(y)
        /\ \A k, v : Shows(y, k, v) <=> (IF k = k0 THEN v = v0 ELSE Shows(x, k, v))
    BY <2>1, <2>2, <2>3, StoredShows
  <2>6. v0 = content[k0]
    BY DEF v0
  <2>7. ASSUME NEW k, NEW v
        PROVE  Shows(y, k, v) <=> (Before(i + 1, k) /\ v = content[k])
    <3>1. CASE k = k0
      BY <2>4, <2>5, <2>6, <3>1
    <3>2. CASE k # k0
      <4>1. Shows(y, k, v) <=> Shows(x, k, v)
        BY <2>5, <3>2
      <4>2. Shows(x, k, v) <=> (Before(i, k) /\ v = content[k])
        BY <2>1
      <4> QED BY <2>4, <3>2, <4>1, <4>2
    <3> QED BY <3>1, <3>2
  <2> QED BY <2>5, <2>7 DEF y
<1>9. Done(s, U)
  <2> HIDE DEF P, Done
  <2>1. Nat \subseteq P
    BY <1>7, <1>8, Induct
  <2> QED BY <1>1, <1>2, <2>1 DEF P
<1>10. \A k : Before(s, k) <=> k \in DOMAIN content
  BY <1>1
<1> HIDE DEF Before
<1> QED BY <1>9, <1>10 DEF Holds

(* Maps: the invariant.  An iterator that nothing was written under has     *)
(* returned the keys of the places up to its own.                          *)
Past(T, it) == {j \in DOMAIN T.ent : j <= it}

Walked(T, it, r) ==
    /\ ToSet(r) = {T.ent[j].key : j \in Past(T, it)}
    /\ Len(r) = Cardinality(Past(T, it))

Iterated(T, it, end, r, written) ==
    /\ it \in Int /\ r \in Seq(Keys)
    /\ ~written => Walked(T, it, r)
    /\ ~written /\ end => Past(T, it) = DOMAIN T.ent

MapIInv ==
    /\ Good(table) /\ Roomy(table) /\ Holds(table, content)
    /\ Iterated(table, iter, ended, returned, changed)

LEMMA IteratorMade ==
    ASSUME NEW T, Good(T)
    PROVE  Iterated(T, None, FALSE, <<>>, FALSE)
<1>1. Past(T, None) = {}
  BY DEF Past, Good, IsTable, None
<1>2. ToSet(<<>>) = {} /\ Len(<<>>) = 0 /\ <<>> \in Seq(Keys)
  BY DEF ToSet
<1>3. Walked(T, None, <<>>)
  BY <1>1, <1>2, FS_EmptySet DEF Walked
<1> QED BY <1>2, <1>3 DEF Iterated, None

LEMMA NextKeyStep ==
    ASSUME MapIInv, NextKey
    PROVE  MapIInv'
<1> DEFINE D == DOMAIN table.ent
           ahead == {i \in D : i > iter}
<1>1. UNCHANGED <<table, content, changed>>
  BY DEF NextKey
<1>2. Good(table) /\ IsTable(table) /\ Roomy(table) /\ Holds(table, content)
  BY DEF MapIInv, Good
<1>3. Iterated(table, iter, ended, returned, changed)
  BY DEF MapIInv
<1>4. D \subseteq Nat /\ iter \in Int /\ returned \in Seq(Keys)
  BY <1>2, <1>3 DEF IsTable, Iterated
<1>5. CASE ahead = {}
  <2>1. ended' = TRUE /\ iter' = iter /\ returned' = returned
    BY <1>5 DEF NextKey
  <2>2. Past(table, iter) = D
    BY <1>4, <1>5 DEF Past
  <2>3. Iterated(table, iter, TRUE, returned, changed)
    BY <1>3, <2>2 DEF Iterated
  <2> QED BY <1>1, <1>2, <2>1, <2>3 DEF MapIInv
<1>6. CASE ahead # {}
  <2> DEFINE n == Min(ahead)
             key == table.ent[n].key
  <2>1. iter' = n /\ returned' = Append(returned, key) /\ ended' = ended
    BY <1>6 DEF NextKey
  <2>2. n \in ahead /\ \A i \in ahead : n <= i
    <3>1. ahead \subseteq Nat
      BY <1>4
    <3> HIDE DEF ahead
    <3>2. \E i \in ahead : \A j \in ahead : i <= j
      BY <1>6, <3>1, LeastNat
    <3> QED BY <3>2 DEF Min
  <2> HIDE DEF n
  <2>3. n \in D /\ n \in Nat /\ n > iter /\ \A i \in D : i > iter => n <= i
    BY <1>4, <2>2
  <2>4. key \in Keys /\ ~ended
    <3>1. ~ended
      BY DEF NextKey
    <3>2. key \in Keys
      BY <1>2, <2>3 DEF IsTable
    <3> QED BY <3>1, <3>2
  <2> DEFINE P == Past(table, iter)
             Q == Past(table, n)
             r2 == Append(returned, key)
  <2>5. Q = P \cup {n} /\ n \notin P
    BY <1>4, <2>3 DEF Past
  <2>6. r2 \in Seq(Keys) /\ Len(r2) = Len(returned) + 1 /\ ToSet(r2) = ToSet(returned) \cup {key}
    <3> HIDE DEF key
    <3>1. r2 \in Seq(Keys) /\ Len(r2) = Len(returned) + 1 /\ Len(returned) \in Nat
      BY <1>4, <2>4, AppendProperties, LenProperties
    <3>2. /\ \A i \in 1 .. Len(returned) : r2[i] = returned[i]
          /\ r2[Len(returned) + 1] = key
      BY <1>4, <2>4, AppendProperties
    <3>3. DOMAIN returned = 1 .. Len(returned) /\ DOMAIN r2 = 1 .. Len(returned) + 1
      BY <1>4, <3>1, LenProperties
    <3> HIDE DEF r2
    <3>4. ToSet(r2) = ToSet(returned) \cup {key}
      BY <3>1, <3>2, <3>3 DEF ToSet
    <3> QED BY <3>1, <3>4
  <2>7. ~changed => Walked(table, n, r2)
    <3> SUFFICES ASSUME ~changed
                 PROVE  Walked(table, n, r2)
      OBVIOUS
    <3>1. ToSet(returned) = {table.ent[j].key : j \in P} /\ Len(returned) = Cardinality(P)
      BY <1>3 DEF Iterated, Walked
    <3>2. IsFiniteSet(P)
      <4>1. P \subseteq D
        BY DEF Past
      <4>2. IsFiniteSet(D)
        BY <1>2, TableFinite
      <4> HIDE DEF P, D
      <4> QED BY <4>1, <4>2, FS_Subset
    <3> HIDE DEF P, Q, r2
    <3>3. Cardinality(Q) = Cardinality(P) + 1
      BY <2>5, <3>2, FS_AddElement
    <3>4. {table.ent[j].key : j \in Q} = {table.ent[j].key : j \in P} \cup {key}
      BY <2>5
    <3>5. ToSet(r2) = {table.ent[j].key : j \in Q} /\ Len(r2) = Cardinality(Q)
      BY <2>6, <3>1, <3>3, <3>4
    <3> QED BY <3>5 DEF Walked, Q
  <2>8. Iterated(table, n, ended, r2, changed)
    <3> HIDE DEF r2, Q, P
    <3> QED BY <2>3, <2>4, <2>6, <2>7 DEF Iterated
  <2> QED BY <1>1, <1>2, <2>1, <2>8 DEF MapIInv
<1> QED BY <1>5, <1>6

LEMMA WroteStep ==
    ASSUME MapIInv, Wrote
    PROVE  Iterated(table', iter', ended', returned', changed')
BY DEF MapIInv, Wrote, Iterated

LEMMA SetMapStep ==
    ASSUME MapIInv, NEW k \in Keys, NEW v \in Vals, Map_SetItem(k, v)
    PROVE  MapIInv'
<1> DEFINE c2 == [j \in DOMAIN content \cup {k} |-> IF j = k THEN v ELSE content[j]]
<1>1. table' = Stored(table, k, v) /\ content' = c2 /\ Wrote
  BY DEF Map_SetItem
<1>2. Good(table) /\ Roomy(table) /\ Holds(table, content)
  BY DEF MapIInv
<1>3. /\ Good(table') /\ Roomy(table')
      /\ \A k2, v2 : Shows(table', k2, v2) <=> (IF k2 = k THEN v2 = v ELSE Shows(table, k2, v2))
  BY <1>1, <1>2, StoredShows
<1>4. DOMAIN c2 = DOMAIN content \cup {k} /\ c2[k] = v /\ \A j \in DOMAIN content : j # k => c2[j] = content[j]
  OBVIOUS
<1> HIDE DEF c2
<1>5. Holds(table', c2)
  <2> SUFFICES ASSUME NEW k2, NEW v2
               PROVE  Shows(table', k2, v2) <=> (k2 \in DOMAIN c2 /\ v2 = c2[k2])
    BY DEF Holds
  <2>1. CASE k2 = k
    BY <1>3, <1>4, <2>1
  <2>2. CASE k2 # k
    <3>1. Shows(table', k2, v2) <=> (k2 \in DOMAIN content /\ v2 = content[k2])
      BY <1>2, <1>3, <2>2 DEF Holds
    <3> QED BY <1>4, <2>2, <3>1
  <2> QED BY <2>1, <2>2
<1> QED BY <1>1, <1>3, <1>5, WroteStep DEF MapIInv

LEMMA DeleteMapStep ==
    ASSUME MapIInv, NEW k \in Keys, Map_DeleteItem(k)
    PROVE  MapIInv'
<1> DEFINE c2 == Restrict(content, DOMAIN content \ {k})
<1>1. table' = rm(table, k) /\ content' = c2 /\ Wrote
  BY DEF Map_DeleteItem
<1>2. Good(table) /\ Roomy(table) /\ Holds(table, content)
  BY DEF MapIInv
<1>3. Taken(table, k, table')
  BY <1>1, <1>2, Removed
<1>4. Good(table') /\ Roomy(table')
  <2>1. Good(table') /\ table'.size = table.size /\ KeysUsed(table') <= KeysUsed(table)
    BY <1>3 DEF Taken
  <2>2. KeysUsed(table') \in Nat /\ KeysUsed(table) \in Nat /\ table.size \in Nat /\ table.size > 0
    BY <1>2, <2>1, TableFinite DEF Good, IsTable
  <2> DEFINE q == table.size \div 8
  <2>3. q \in Nat /\ KeysUsed(table) <= table.size - q
    BY <1>2, <2>2, EighthFacts DEF Roomy
  <2> HIDE DEF q
  <2>4. KeysUsed(table') <= table.size - q
    BY <2>2, <2>1, <2>3
  <2> QED BY <2>1, <2>4 DEF Roomy, q
<1>5. DOMAIN c2 = DOMAIN content \ {k} /\ \A j \in DOMAIN content : j # k => c2[j] = content[j]
  BY DEF Restrict
<1> HIDE DEF c2
<1>6. Holds(table', c2)
  <2> SUFFICES ASSUME NEW k2, NEW v2
               PROVE  Shows(table', k2, v2) <=> (k2 \in DOMAIN c2 /\ v2 = c2[k2])
    BY DEF Holds
  <2>1. Shows(table', k2, v2) <=> (k2 \in DOMAIN content /\ v2 = content[k2] /\ k2 # k)
    BY <1>2, <1>3 DEF Holds, Taken
  <2> QED BY <1>5, <2>1
<1> QED BY <1>1, <1>4, <1>6, WroteStep DEF MapIInv

(* A new table has room. *)
LEMMA EmptyHolds ==
    ASSUME NEW n \in Nat \ {0}, NEW c, DOMAIN c = {}
    PROVE  Good(EmptyTable(n)) /\ Roomy(EmptyTable(n)) /\ Holds(EmptyTable(n), c)
<1>1. /\ Good(EmptyTable(n)) /\ EmptyTable(n).size = n /\ KeysUsed(EmptyTable(n)) = 0
      /\ \A k, v : ~Shows(EmptyTable(n), k, v)
  BY EmptyIsGood
<1>2. n \div 8 \in Nat /\ n \div 8 < n
  BY EighthFacts
<1> DEFINE q == n \div 8
<1>3. n - q >= 0
  <2>1. q \in Nat /\ q < n
    BY <1>2
  <2> HIDE DEF q
  <2> QED BY <2>1
<1> QED BY <1>1, <1>3 DEF Roomy, Holds

LEMMA ClearMapStep ==
    ASSUME MapIInv, Map_Clear
    PROVE  MapIInv'
<1> DEFINE c2 == [k \in {} |-> 0]
<1>1. table' = EmptyTable(table.size) /\ content' = c2 /\ Wrote
  BY DEF Map_Clear
<1>2. table.size \in Nat \ {0}
  BY DEF MapIInv, Good, IsTable
<1>3. DOMAIN c2 = {}
  OBVIOUS
<1> HIDE DEF c2
<1>4. Good(table') /\ Roomy(table') /\ Holds(table', c2)
  BY <1>1, <1>2, <1>3, EmptyHolds
<1> QED BY <1>1, <1>4, WroteStep DEF MapIInv

LEMMA AssignMapStep ==
    ASSUME MapIInv, NEW order \in SetToSeqs(DOMAIN content), AssignMap(order)
    PROVE  MapIInv'
<1>1. /\ table' = Entered(order) /\ iter' = None /\ ended' = FALSE /\ returned' = <<>>
      /\ changed' = FALSE /\ content' = content
  BY DEF AssignMap
<1>2. DOMAIN content \subseteq Keys /\ IsFiniteSet(DOMAIN content)
  BY HoldsFacts DEF MapIInv, Good
<1> DEFINE S == DOMAIN content
<1>3. S = DOMAIN content /\ S \subseteq Keys /\ IsFiniteSet(S) /\ order \in SetToSeqs(S)
  BY <1>2
<1> HIDE DEF S
<1>4. Good(table') /\ Roomy(table') /\ Holds(table', content)
  BY <1>1, <1>3, EnteredHolds
<1>5. Iterated(table', None, FALSE, <<>>, FALSE)
  BY <1>4, IteratorMade
<1> QED BY <1>1, <1>4, <1>5 DEF MapIInv

LEMMA GetIteratorStep ==
    ASSUME MapIInv, GetIterator
    PROVE  MapIInv'
<1>1. /\ table' = table /\ iter' = None /\ ended' = FALSE /\ returned' = <<>>
      /\ changed' = FALSE /\ content' = content
  BY DEF GetIterator
<1>2. Iterated(table, None, FALSE, <<>>, FALSE)
  BY IteratorMade DEF MapIInv
<1> QED BY <1>1, <1>2 DEF MapIInv

LEMMA MapStep ==
    ASSUME MapIInv, MapNext
    PROVE  MapIInv'
<1>1. CASE \E k \in Keys, v \in Vals : Map_SetItem(k, v)
  BY <1>1, SetMapStep
<1>2. CASE \E k \in Keys : Map_DeleteItem(k)
  BY <1>2, DeleteMapStep
<1>3. CASE Map_Clear
  BY <1>3, ClearMapStep
<1>4. CASE \E order \in SetToSeqs(DOMAIN content) : AssignMap(order)
  BY <1>4, AssignMapStep
<1>5. CASE GetIterator
  BY <1>5, GetIteratorStep
<1>6. CASE NextKey
  BY <1>6, NextKeyStep
<1> QED BY <1>1, <1>2, <1>3, <1>4, <1>5, <1>6 DEF MapNext

LEMMA MapStart == MapInit => MapIInv
<1> SUFFICES ASSUME MapInit
             PROVE  MapIInv
  OBVIOUS
<1> DEFINE c0 == [k \in {} |-> 0]
<1>1. /\ table = EmptyTable(InitSize) /\ iter = None /\ ended = FALSE /\ returned = <<>>
      /\ changed = FALSE /\ content = c0 /\ DOMAIN c0 = {}
  BY DEF MapInit
<1> HIDE DEF c0
<1>2. Good(table) /\ Roomy(table) /\ Holds(table, content)
  BY <1>1, MapAssumption, EmptyHolds
<1>3. Iterated(table, None, FALSE, <<>>, FALSE)
  BY <1>2, IteratorMade
<1> QED BY <1>1, <1>2, <1>3 DEF MapIInv

(* The table of a map is well chained, holds what was stored and is never   *)
(* loaded beyond its limit, in every reachable state.                      *)
THEOREM MapInvariance == Spec => []MapIInv
<1>1. Init => MapIInv
  BY MapStart DEF Init
<1>2. MapIInv /\ [Next]_vars => MapIInv'
  <2> SUFFICES ASSUME MapIInv, [Next]_vars
               PROVE  MapIInv'
    OBVIOUS
  <2>1. MapNext \/ UNCHANGED mvars
    BY DEF Next, NextRepeated, NextMap, NextAux, NextDescriptors, vars
  <2>2. CASE UNCHANGED mvars
    BY <2>2 DEF mvars, MapIInv
  <2> QED BY <2>1, <2>2, MapStep
<1> QED BY <1>1, <1>2, PTL DEF Spec

(* A key is found with the value it was last given and no other key is,     *)
(* however often entries were moved and the table rebuilt (insert, rm and  *)
(* upb_strtable_resize), for every hash function and every initial size.   *)
THEOREM MapHolds == Spec => []MapHoldsWhatWasStored
<1>1. MapIInv => MapHoldsWhatWasStored
  <2> SUFFICES ASSUME MapIInv
               PROVE  MapHoldsWhatWasStored
    OBVIOUS
  <2> DEFINE D == DOMAIN table.ent
  <2>1. Good(table) /\ IsTable(table) /\ Holds(table, content)
    BY DEF MapIInv, Good
  <2>2. /\ \A i \in D : table.ent[i].key \in DOMAIN content /\ table.ent[i].val = content[table.ent[i].key]
        /\ \A k \in DOMAIN content : \E i \in D : table.ent[i].key = k
        /\ Cardinality(DOMAIN content) = KeysUsed(table)
    <3>1. ASSUME NEW i \in D
          PROVE  table.ent[i].key \in DOMAIN content /\ table.ent[i].val = content[table.ent[i].key]
      <4>1. Shows(table, table.ent[i].key, table.ent[i].val)
        BY DEF Shows
      <4> QED BY <2>1, <4>1 DEF Holds
    <3>2. \A k \in DOMAIN content : \E i \in D : table.ent[i].key = k
      BY <2>1, HoldsFacts
    <3>3. Cardinality(DOMAIN content) = KeysUsed(table)
      BY <2>1, HoldsFacts
    <3> QED BY <3>1, <3>2, <3>3
  <2>3. ASSUME NEW k \in Keys
        PROVE  /\ Map_Exists(k) <=> k \in DOMAIN content
               /\ Map_GetItem(k) = {content[j] : j \in {k} \cap DOMAIN content}
    <3>1. CASE k \in DOMAIN content
      <4>1. PICK i \in D : table.ent[i].key = k
        BY <2>2, <3>1
      <4>2. findentry(table, k) = i /\ i # None
        BY <2>1, <4>1, FindEntry, NonePlace
      <4>3. table.ent[i].val = content[k]
        BY <2>2, <4>1
      <4>4. Map_GetItem(k) = {content[k]}
        BY <4>2, <4>3 DEF Map_GetItem
      <4>5. {content[j] : j \in {k} \cap DOMAIN content} = {content[k]}
        BY <3>1
      <4> QED BY <3>1, <4>2, <4>4, <4>5 DEF Map_Exists
    <3>2. CASE k \notin DOMAIN content
      <4>1. \A i \in D : table.ent[i].key # k
        BY <2>2, <3>2
      <4>2. findentry(table, k) = None
        BY <2>1, <4>1, FindEntry
      <4>3. Map_GetItem(k) = {} /\ ~Map_Exists(k)
        BY <4>2 DEF Map_GetItem, Map_Exists
      <4>4. {content[j] : j \in {k} \cap DOMAIN content} = {}
        BY <3>2
      <4> QED BY <3>2, <4>3, <4>4
    <3> QED BY <3>1, <3>2
  <2>4. Map_AsHash = {<<k, content[k]>> : k \in DOMAIN content}
    <3>1. \A i \in D : <<table.ent[i].key, table.ent[i].val>> \in {<<k, content[k]>> : k \in DOMAIN content}
      BY <2>2
    <3>2. ASSUME NEW k \in DOMAIN content
          PROVE  <<k, content[k]>> \in {<<table.ent[i].key, table.ent[i].val>> : i \in D}
      BY <2>2
    <3>3. Map_AsHash = {<<table.ent[i].key, table.ent[i].val>> : i \in D}
      BY DEF Map_AsHash
    <3> QED BY <3>1, <3>2, <3>3
  <2>5. Map_Size = Cardinality(DOMAIN content)
    BY <2>2 DEF Map_Size, KeysUsed
  <2> QED BY <2>3, <2>4, <2>5 DEF MapHoldsWhatWasStored
<1> QED BY <1>1, MapInvariance, PTL

(* An iteration over a map that is not written meanwhile (NextKey) returns  *)
(* every key once.                                                         *)
THEOREM MapIteration == Spec => []IterationIsComplete
<1>1. MapIInv => IterationIsComplete
  <2> SUFFICES ASSUME MapIInv, ended, ~changed
               PROVE  ToSet(returned) = DOMAIN content /\ Len(returned) = Cardinality(DOMAIN content)
    BY DEF IterationIsComplete
  <2>1. Past(table, iter) = DOMAIN table.ent /\ Walked(table, iter, returned)
    BY DEF MapIInv, Iterated
  <2>2. /\ ToSet(returned) = {table.ent[j].key : j \in DOMAIN table.ent}
        /\ Len(returned) = KeysUsed(table)
    BY <2>1 DEF Walked, KeysUsed
  <2>3. /\ DOMAIN content = {table.ent[i].key : i \in DOMAIN table.ent}
        /\ Cardinality(DOMAIN content) = KeysUsed(table)
    BY HoldsFacts DEF MapIInv, Good
  <2> QED BY <2>2, <2>3
<1> QED BY <1>1, MapInvariance, PTL
-----------------------------------------------------------------------------
(* Extensions and unknown fields: the operators by their equations. *)

Items == {Ext(f) : f \in Extensions} \cup {Chunk(es) : es \in Seq(Entries)}

LEMMA ItemFacts ==
    ASSUME NEW x \in Items
    PROVE  /\ x.es \in Seq(Entries)
           /\ IsExt(x) => x.es = <<>> /\ x.f \in Extensions /\ ~IsUnknown(x)
           /\ ~IsExt(x) => x = Chunk(x.es) /\ IsUnknown(x)
<1>1. CASE \E f \in Extensions : x = Ext(f)
  BY <1>1 DEF Ext, IsExt, IsUnknown
<1>2. CASE \E es \in Seq(Entries) : x = Chunk(es)
  <2>1. PICK es \in Seq(Entries) : x = Chunk(es)
    BY <1>2
  <2>2. x.es = es /\ x.k = "unknown"
    BY <2>1 DEF Chunk
  <2> QED BY <2>1, <2>2 DEF IsExt, IsUnknown
<1> QED BY <1>1, <1>2 DEF Items

LEMMA DiscardEquations ==
    ASSUME NEW a \in Seq(Items), NEW x \in Items
    PROVE  /\ DiscardUnknown(<<>>) = <<>>
           /\ DiscardUnknown(a) \in Seq(Items)
           /\ IsExt(x) => DiscardUnknown(Push(a, x)) = Push(DiscardUnknown(a), x)
           /\ ~IsExt(x) => DiscardUnknown(Push(a, x)) = DiscardUnknown(a)
<1> DEFINE F == [y \in Items |-> IF IsExt(y) THEN <<y>> ELSE <<>>]
           b == Append(a, x)
           Fa == Mapped(F, a)
           Fb == Mapped(F, b)
<1>1. F \in [Items -> Seq(Items)]
  OBVIOUS
<1>2. DiscardUnknown(<<>>) = <<>>
  <2>1. [i \in DOMAIN <<>> |-> IF IsExt((<<>>)[i]) THEN <<(<<>>)[i]>> ELSE <<>>] = <<>>
    OBVIOUS
  <2>2. DiscardUnknown(<<>>) = FlattenSeq(<<>>)
    BY <2>1 DEF DiscardUnknown
  <2> QED BY <2>2, FlattenEmpty
<1>3. b \in Seq(Items)
  BY AppendProperties
<1>4. DiscardUnknown(a) = FlattenSeq(Fa) /\ DiscardUnknown(b) = FlattenSeq(Fb)
  <2>1. ASSUME NEW u \in Seq(Items)
        PROVE  DiscardUnknown(u) = FlattenSeq(Mapped(F, u))
    <3>1. \A i \in DOMAIN u : u[i] \in Items
      BY ElementOfSeq, LenProperties
    <3>2. Mapped(F, u) = [i \in DOMAIN u |-> IF IsExt(u[i]) THEN <<u[i]>> ELSE <<>>]
      BY <3>1 DEF Mapped
    <3> QED BY <3>2 DEF DiscardUnknown
  <2> HIDE DEF F, b
  <2> QED BY <1>3, <2>1
<1>5. Fa \in Seq(Seq(Items)) /\ Fb = Append(Fa, F[x])
  <2> DEFINE Y == Seq(Items)
  <2>1. F \in [Items -> Y] /\ b = Push(a, x)
    BY <1>1 DEF Push
  <2> HIDE DEF F, Y, b
  <2>2. Fa \in Seq(Y)
    <3>1. {F[y] : y \in Items} \subseteq Y
      BY <2>1
    <3>2. Fa \in Seq({F[y] : y \in Items})
      BY MapAppend
    <3> QED BY <3>1, <3>2
  <2>3. Fb = Push(Fa, F[x])
    <3>1. Mapped(F, Push(a, x)) = Push(Mapped(F, a), F[x])
      BY MapAppend
    <3> QED BY <2>1, <3>1
  <2> QED BY <2>2, <2>3 DEF Y, Push
<1>6. F[x] \in Seq(Items) /\ (IsExt(x) => F[x] = <<x>>) /\ (~IsExt(x) => F[x] = <<>>)
  BY <1>1
<1> HIDE DEF F, Fa, Fb
<1>7. FlattenSeq(Fa) \in Seq(Items) /\ FlattenSeq(Fb) = FlattenSeq(Fa) \o F[x]
  BY <1>5, <1>6, FlattenFacts
<1> DEFINE d == FlattenSeq(Fa)
<1>8. d \in Seq(Items) /\ d \o <<x>> = Append(d, x) /\ d \o <<>> = d
  <2> HIDE DEF d
  <2>1. d \in Seq(Items)
    BY <1>7 DEF d
  <2> QED BY <2>1, OneMore
<1> QED BY <1>2, <1>4, <1>6, <1>7, <1>8 DEF b, Push

LEMMA DataEquations ==
    ASSUME NEW a \in Seq(Items), NEW x \in Items
    PROVE  /\ GetData(<<>>) = <<>>
           /\ GetData(a) \in Seq(Entries)
           /\ GetData(Push(a, x)) = Cat(GetData(a), x.es)
<1> DEFINE F == [y \in Items |-> y.es]
           b == Append(a, x)
           Fa == Mapped(F, a)
           Fb == Mapped(F, b)
<1>1. F \in [Items -> Seq(Entries)]
  BY ItemFacts
<1>2. GetData(<<>>) = <<>>
  <2>1. [i \in DOMAIN <<>> |-> (<<>>)[i].es] = <<>>
    OBVIOUS
  <2>2. GetData(<<>>) = FlattenSeq(<<>>)
    BY <2>1 DEF GetData
  <2> QED BY <2>2, FlattenEmpty
<1>3. b \in Seq(Items)
  BY AppendProperties
<1>4. GetData(a) = FlattenSeq(Fa) /\ GetData(b) = FlattenSeq(Fb)
  <2>1. ASSUME NEW u \in Seq(Items)
        PROVE  GetData(u) = FlattenSeq(Mapped(F, u))
    <3>1. \A i \in DOMAIN u : u[i] \in Items
      BY ElementOfSeq, LenProperties
    <3>2. Mapped(F, u) = [i \in DOMAIN u |-> u[i].es]
      BY <3>1 DEF Mapped
    <3> QED BY <3>2 DEF GetData
  <2> HIDE DEF F, b
  <2> QED BY <1>3, <2>1
<1>5. Fa \in Seq(Seq(Entries)) /\ Fb = Append(Fa, F[x])
  <2> DEFINE Y == Seq(Entries)
  <2>1. F \in [Items -> Y] /\ b = Push(a, x)
    BY <1>1 DEF Push
  <2> HIDE DEF F, Y, b
  <2>2. Fa \in Seq(Y)
    <3>1. {F[y] : y \in Items} \subseteq Y
      BY <2>1
    <3>2. Fa \in Seq({F[y] : y \in Items})
      BY MapAppend
    <3> QED BY <3>1, <3>2
  <2>3. Fb = Push(Fa, F[x])
    <3>1. Mapped(F, Push(a, x)) = Push(Mapped(F, a), F[x])
      BY MapAppend
    <3> QED BY <2>1, <3>1
  <2> QED BY <2>2, <2>3 DEF Y, Push
<1>6. F[x] \in Seq(Entries) /\ F[x] = x.es
  BY <1>1
<1> HIDE DEF F, Fa, Fb
<1>7. FlattenSeq(Fa) \in Seq(Entries) /\ FlattenSeq(Fb) = FlattenSeq(Fa) \o F[x]
  BY <1>5, <1>6, FlattenFacts
<1> QED BY <1>2, <1>4, <1>6, <1>7 DEF b, Push, Cat

LEMMA OthersType ==
    ASSUME NEW tag, NEW s \in Seq(Entries)
    PROVE  Others(s, tag) \in Seq(Entries)
<1> DEFINE Fs == [i \in DOMAIN s |-> IF s[i].tag # tag THEN <<s[i]>> ELSE <<>>]
<1>1. \A i \in DOMAIN s : s[i] \in Entries
  BY ElementOfSeq, LenProperties
<1>2. DOMAIN s = 1 .. Len(s) /\ Len(s) \in Nat
  BY LenProperties
<1>3. \A i \in DOMAIN s : Fs[i] \in Seq(Entries)
  BY <1>1
<1>4. Fs \in Seq(Seq(Entries))
  BY <1>2, <1>3
<1> DEFINE none == <<>>
<1>5. none \in Seq(Entries)
  OBVIOUS
<1> HIDE DEF Fs, none
<1>6. FlattenSeq(Fs) \in Seq(Entries)
  BY <1>4, <1>5, FlattenFacts
<1> QED BY <1>6 DEF Others, Fs

LEMMA OthersEquations ==
    ASSUME NEW tag, NEW s \in Seq(Entries), NEW e \in Entries
    PROVE  /\ Others(<<>>, tag) = <<>>
           /\ Others(s, tag) \in Seq(Entries)
           /\ e.tag # tag => Others(Push(s, e), tag) = Push(Others(s, tag), e)
           /\ e.tag = tag => Others(Push(s, e), tag) = Others(s, tag)
<1> DEFINE F == [y \in Entries |-> IF y.tag # tag THEN <<y>> ELSE <<>>]
           b == Append(s, e)
           Fa == Mapped(F, s)
           Fb == Mapped(F, b)
<1>1. F \in [Entries -> Seq(Entries)]
  OBVIOUS
<1>2. Others(<<>>, tag) = <<>>
  <2>1. [i \in DOMAIN <<>> |-> IF (<<>>)[i].tag # tag THEN <<(<<>>)[i]>> ELSE <<>>] = <<>>
    OBVIOUS
  <2>2. Others(<<>>, tag) = FlattenSeq(<<>>)
    BY <2>1 DEF Others
  <2> QED BY <2>2, FlattenEmpty
<1>3. b \in Seq(Entries)
  BY AppendProperties
<1>4. Others(s, tag) = FlattenSeq(Fa) /\ Others(b, tag) = FlattenSeq(Fb)
  <2>1. ASSUME NEW u \in Seq(Entries)
        PROVE  Others(u, tag) = FlattenSeq(Mapped(F, u))
    <3>1. \A i \in DOMAIN u : u[i] \in Entries
      BY ElementOfSeq, LenProperties
    <3>2. Mapped(F, u) = [i \in DOMAIN u |-> IF u[i].tag # tag THEN <<u[i]>> ELSE <<>>]
      BY <3>1 DEF Mapped
    <3> QED BY <3>2 DEF Others
  <2> HIDE DEF F, b
  <2> QED BY <1>3, <2>1
<1>5. Fa \in Seq(Seq(Entries)) /\ Fb = Append(Fa, F[e])
  <2> DEFINE Y == Seq(Entries)
  <2>1. F \in [Entries -> Y] /\ b = Push(s, e)
    BY <1>1 DEF Push
  <2> HIDE DEF F, Y, b
  <2>2. Fa \in Seq(Y)
    <3>1. {F[y] : y \in Entries} \subseteq Y
      BY <2>1
    <3>2. Fa \in Seq({F[y] : y \in Entries})
      BY MapAppend
    <3> QED BY <3>1, <3>2
  <2>3. Fb = Push(Fa, F[e])
    <3>1. Mapped(F, Push(s, e)) = Push(Mapped(F, s), F[e])
      BY MapAppend
    <3> QED BY <2>1, <3>1
  <2> QED BY <2>2, <2>3 DEF Y, Push
<1>6. F[e] \in Seq(Entries) /\ (e.tag # tag => F[e] = <<e>>) /\ (e.tag = tag => F[e] = <<>>)
  BY <1>1
<1> HIDE DEF F, Fa, Fb
<1>7. FlattenSeq(Fa) \in Seq(Entries) /\ FlattenSeq(Fb) = FlattenSeq(Fa) \o F[e]
  BY <1>5, <1>6, FlattenFacts
<1> DEFINE d == FlattenSeq(Fa)
<1>8. d \in Seq(Entries) /\ d \o <<e>> = Append(d, e) /\ d \o <<>> = d
  <2> HIDE DEF d
  <2>1. d \in Seq(Entries)
    BY <1>7 DEF d
  <2> QED BY <2>1, OneMore
<1> QED BY <1>2, <1>4, <1>6, <1>7, <1>8 DEF b, Push

(* What can be read is the beginning, all of it where nothing stops.  *)
LEMMA ReadableFacts ==
    ASSUME NEW es \in Seq(Entries)
    PROVE  /\ Readable(es) \in Seq(Entries)
           /\ \E rest \in Seq(Entries) : es = Cat(Readable(es), rest)
           /\ (\A i \in DOMAIN es : ~es[i].stops) => Readable(es) = es
<1> DEFINE stops == {i \in DOMAIN es : es[i].stops}
           len == Len(es)
           Good1(n) == (\A i \in stops : n < i) /\ (n = len \/ n + 1 \in stops)
           n0 == CHOOSE n \in 0 .. len : Good1(n)
<1>1. len \in Nat /\ DOMAIN es = 1 .. len
  BY LenProperties
<1>2. Readable(es) = SubSeq(es, 1, n0)
  BY DEF Readable
<1> HIDE DEF len
<1>3. \E n \in 0 .. len : Good1(n)
  <2>1. CASE stops = {}
    <3>1. len \in 0 .. len
      BY <1>1
    <3> QED BY <2>1, <3>1
  <2>2. CASE stops # {}
    <3>1. stops \subseteq Nat
      BY <1>1
    <3> HIDE DEF stops
    <3>2. PICK g \in stops : \A i \in stops : g <= i
      BY <2>2, <3>1, LeastNat
    <3>3. g \in 1 .. len
      BY <1>1, <3>2 DEF stops
    <3>4. g - 1 \in 0 .. len /\ (g - 1) + 1 = g
      BY <1>1, <3>3
    <3>5. \A i \in stops : g - 1 < i
      BY <3>1, <3>2, <3>3
    <3> QED BY <3>2, <3>4, <3>5
  <2> QED BY <2>1, <2>2
<1>4. n0 \in 0 .. len /\ Good1(n0)
  <2> HIDE DEF Good1
  <2> QED BY <1>3
<1>5. (\A i \in DOMAIN es : ~es[i].stops) => n0 = len
  BY <1>4
<1> HIDE DEF n0, stops
<1>6. \A i \in 1 .. len : es[i] \in Entries
  BY ElementOfSeq DEF len
<1> DEFINE r == [i \in 1 .. n0 |-> es[i]]
           rest == [i \in 1 .. len - n0 |-> es[n0 + i]]
<1>7. Readable(es) = r
  <2>1. SubSeq(es, 1, n0) = [i \in 1 .. n0 |-> es[i]]
    BY <1>1, <1>4
  <2> QED BY <1>2, <2>1
<1>8. r \in Seq(Entries) /\ Len(r) = n0 /\ rest \in Seq(Entries) /\ Len(rest) = len - n0
  <2>1. n0 \in Nat /\ len - n0 \in Nat /\ \A i \in 1 .. n0 : i \in 1 .. len
    BY <1>1, <1>4
  <2>2. \A i \in 1 .. len - n0 : n0 + i \in 1 .. len
    BY <1>1, <1>4
  <2> QED BY <1>6, <2>1, <2>2
<1>9. es = r \o rest
  <2> DEFINE c == r \o rest
  <2>1. c \in Seq(Entries) /\ Len(c) = len /\ \A i \in 1 .. len : c[i] = IF i <= n0 THEN r[i] ELSE rest[i - n0]
    <3> HIDE DEF r, rest
    <3>1. n0 + (len - n0) = len
      BY <1>1, <1>4
    <3>2. \A i \in 1 .. Len(r) + Len(rest) : c[i] = IF i <= Len(r) THEN r[i] ELSE rest[i - Len(r)]
      BY <1>8, ConcatProperties
    <3>3. c \in Seq(Entries) /\ Len(c) = Len(r) + Len(rest)
      BY <1>8, ConcatProperties
    <3> QED BY <1>8, <3>1, <3>2, <3>3
  <2> HIDE DEF c
  <2>2. \A i \in 1 .. len : c[i] = es[i]
    <3> TAKE i \in 1 .. len
    <3>1. CASE i <= n0
      <4>1. i \in 1 .. n0
        BY <1>1, <1>4, <3>1
      <4> QED BY <2>1, <3>1, <4>1
    <3>2. CASE ~(i <= n0)
      <4>1. i - n0 \in 1 .. len - n0 /\ n0 + (i - n0) = i
        BY <1>1, <1>4, <3>2
      <4>2. rest[i - n0] = es[n0 + (i - n0)]
        BY <4>1
      <4> QED BY <2>1, <3>2, <4>1, <4>2
    <3> QED BY <3>1, <3>2
  <2>3. c = es
    BY <2>1, <2>2, SeqEqual DEF len
  <2> QED BY <2>3 DEF c
<1>10. (\A i \in DOMAIN es : ~es[i].stops) => r = es
  <2> SUFFICES ASSUME n0 = len
               PROVE  r = es
    BY <1>5
  <2>1. Len(r) = Len(es) /\ \A i \in 1 .. Len(r) : r[i] = es[i]
    BY <1>8 DEF len
  <2> HIDE DEF r
  <2> QED BY <1>8, <2>1, SeqEqual
<1> HIDE DEF r, rest
<1> QED BY <1>7, <1>8, <1>9, <1>10 DEF Cat

LEMMA ScrubbedEquations ==
    ASSUME NEW tag, NEW a \in Seq(Items), NEW x \in Items
    PROVE  /\ Scrubbed(<<>>, tag) = <<>>
           /\ Scrubbed(a, tag) \in Seq(Entries)
           /\ Scrubbed(Push(a, x), tag) = Cat(Scrubbed(a, tag), Others(Readable(x.es), tag))
<1> DEFINE F == [y \in Items |-> Others(Readable(y.es), tag)]
           b == Append(a, x)
           Fa == Mapped(F, a)
           Fb == Mapped(F, b)
<1>1. F \in [Items -> Seq(Entries)]
  <2>1. ASSUME NEW y \in Items
        PROVE  Others(Readable(y.es), tag) \in Seq(Entries)
    <3>1. Readable(y.es) \in Seq(Entries)
      BY ItemFacts, ReadableFacts
    <3> DEFINE r == Readable(y.es)
    <3> HIDE DEF r
    <3>2. r \in Seq(Entries)
      BY <3>1 DEF r
    <3>3. Others(r, tag) \in Seq(Entries)
      BY <3>2, OthersType
    <3> QED BY <3>3 DEF r
  <2> QED BY <2>1
<1>2. Scrubbed(<<>>, tag) = <<>>
  <2>1. [i \in DOMAIN <<>> |-> Others(Readable((<<>>)[i].es), tag)] = <<>>
    OBVIOUS
  <2>2. Scrubbed(<<>>, tag) = FlattenSeq(<<>>)
    BY <2>1 DEF Scrubbed
  <2> QED BY <2>2, FlattenEmpty
<1>3. b \in Seq(Items)
  BY AppendProperties
<1>4. Scrubbed(a, tag) = FlattenSeq(Fa) /\ Scrubbed(b, tag) = FlattenSeq(Fb)
  <2>1. ASSUME NEW u \in Seq(Items)
        PROVE  Scrubbed(u, tag) = FlattenSeq(Mapped(F, u))
    <3>1. \A i \in DOMAIN u : u[i] \in Items
      BY ElementOfSeq, LenProperties
    <3>2. Mapped(F, u) = [i \in DOMAIN u |-> Others(Readable(u[i].es), tag)]
      BY <3>1 DEF Mapped
    <3> QED BY <3>2 DEF Scrubbed
  <2> HIDE DEF F, b
  <2> QED BY <1>3, <2>1
<1>5. Fa \in Seq(Seq(Entries)) /\ Fb = Append(Fa, F[x])
  <2> DEFINE Y == Seq(Entries)
  <2>1. F \in [Items -> Y] /\ b = Push(a, x)
    BY <1>1 DEF Push
  <2> HIDE DEF F, Y, b
  <2>2. Fa \in Seq(Y)
    <3>1. {F[y] : y \in Items} \subseteq Y
      BY <2>1
    <3>2. Fa \in Seq({F[y] : y \in Items})
      BY MapAppend
    <3> QED BY <3>1, <3>2
  <2>3. Fb = Push(Fa, F[x])
    <3>1. Mapped(F, Push(a, x)) = Push(Mapped(F, a), F[x])
      BY MapAppend
    <3> QED BY <2>1, <3>1
  <2> QED BY <2>2, <2>3 DEF Y, Push
<1>6. F[x] \in Seq(Entries) /\ F[x] = Others(Readable(x.es), tag)
  BY <1>1
<1> HIDE DEF F, Fa, Fb
<1>7. FlattenSeq(Fa) \in Seq(Entries) /\ FlattenSeq(Fb) = FlattenSeq(Fa) \o F[x]
  BY <1>5, <1>6, FlattenFacts
<1> QED BY <1>2, <1>4, <1>6, <1>7 DEF b, Push, Cat
-----------------------------------------------------------------------------
(* Subsequences. *)

LEMMA SubEmpty ==
    ASSUME NEW t
    PROVE  IsSubsequence(<<>>, t)
<1> DEFINE at == [i \in {} |-> 0]
<1>1. DOMAIN <<>> = {} /\ at \in [{} -> DOMAIN t]
  OBVIOUS
<1> HIDE DEF at
<1> QED BY <1>1 DEF IsSubsequence

LEMMA SubOfEmpty ==
    ASSUME NEW X, NEW s \in Seq(X), IsSubsequence(s, <<>>)
    PROVE  s = <<>>
<1>1. PICK at \in [DOMAIN s -> DOMAIN <<>>] : TRUE
  BY DEF IsSubsequence
<1>2. DOMAIN s = {}
  <2> SUFFICES ASSUME NEW i \in DOMAIN s
               PROVE  FALSE
    OBVIOUS
  <2>1. at[i] \in DOMAIN <<>>
    BY <1>1
  <2>2. DOMAIN <<>> = {}
    OBVIOUS
  <2> QED BY <2>1, <2>2
<1>3. Len(s) = 0
  BY <1>2, LenProperties
<1> QED BY <1>3, EmptySeq

LEMMA SubRefl ==
    ASSUME NEW X, NEW s \in Seq(X)
    PROVE  IsSubsequence(s, s)
<1> DEFINE at == [i \in DOMAIN s |-> i]
<1>1. at \in [DOMAIN s -> DOMAIN s] /\ \A i \in DOMAIN s : at[i] = i
  OBVIOUS
<1> HIDE DEF at
<1>2. \A i, j \in DOMAIN s : i < j => at[i] < at[j]
  BY <1>1
<1>3. \A i \in DOMAIN s : s[i] = s[at[i]]
  BY <1>1
<1> QED BY <1>1, <1>2, <1>3 DEF IsSubsequence

LEMMA SubTrans ==
    ASSUME NEW s, NEW t, NEW u, IsSubsequence(s, t), IsSubsequence(t, u)
    PROVE  IsSubsequence(s, u)
<1>1. PICK f \in [DOMAIN s -> DOMAIN t] :
          (\A i, j \in DOMAIN s : i < j => f[i] < f[j]) /\ (\A i \in DOMAIN s : s[i] = t[f[i]])
  BY DEF IsSubsequence
<1>2. PICK g \in [DOMAIN t -> DOMAIN u] :
          (\A i, j \in DOMAIN t : i < j => g[i] < g[j]) /\ (\A i \in DOMAIN t : t[i] = u[g[i]])
  BY DEF IsSubsequence
<1> DEFINE h == [i \in DOMAIN s |-> g[f[i]]]
<1>3. h \in [DOMAIN s -> DOMAIN u] /\ \A i \in DOMAIN s : h[i] = g[f[i]] /\ f[i] \in DOMAIN t
  BY <1>1, <1>2
<1> HIDE DEF h
<1>4. \A i, j \in DOMAIN s : i < j => h[i] < h[j]
  BY <1>1, <1>2, <1>3
<1>5. \A i \in DOMAIN s : s[i] = u[h[i]]
  BY <1>1, <1>2, <1>3
<1> QED BY <1>3, <1>4, <1>5 DEF IsSubsequence

LEMMA SubPush ==
    ASSUME NEW X, NEW s \in Seq(X), NEW t \in Seq(X), NEW e \in X, IsSubsequence(s, t)
    PROVE  IsSubsequence(s, Push(t, e)) /\ IsSubsequence(Push(s, e), Push(t, e))
<1> DEFINE n == Len(s)
           m == Len(t)
           v == Push(s, e)
           w == Push(t, e)
<1>1. /\ n \in Nat /\ DOMAIN s = 1 .. n /\ DOMAIN v = 1 .. n + 1 /\ v[n + 1] = e
      /\ \A i \in 1 .. n : v[i] = s[i]
  BY PushFacts
<1>2. /\ m \in Nat /\ DOMAIN t = 1 .. m /\ DOMAIN w = 1 .. m + 1 /\ w[m + 1] = e
      /\ \A i \in 1 .. m : w[i] = t[i]
  BY PushFacts
<1> HIDE DEF n, m, v, w
<1>3. PICK f \in [1 .. n -> 1 .. m] :
          (\A i, j \in 1 .. n : i < j => f[i] < f[j]) /\ (\A i \in 1 .. n : s[i] = t[f[i]])
  BY <1>1, <1>2 DEF IsSubsequence
<1>4. IsSubsequence(s, w)
  <2>1. f \in [1 .. n -> 1 .. m + 1] /\ \A i \in 1 .. n : s[i] = w[f[i]]
    BY <1>2, <1>3
  <2> QED BY <1>1, <1>2, <1>3, <2>1 DEF IsSubsequence
<1>5. IsSubsequence(v, w)
  <2> DEFINE g == [i \in 1 .. n + 1 |-> IF i = n + 1 THEN m + 1 ELSE f[i]]
  <2>1. \A i \in 1 .. n : i \in 1 .. n + 1 /\ i # n + 1 /\ f[i] \in 1 .. m
    BY <1>1, <1>3
  <2>2. g[n + 1] = m + 1 /\ \A i \in 1 .. n : g[i] = f[i]
    BY <1>1, <2>1
  <2>3. \A i \in 1 .. n + 1 : i \in 1 .. n \/ i = n + 1
    BY <1>1
  <2>4. g \in [1 .. n + 1 -> 1 .. m + 1]
    BY <1>1, <1>2, <1>3
  <2> HIDE DEF g
  <2>5. \A i, j \in 1 .. n + 1 : i < j => g[i] < g[j]
    <3> TAKE i, j \in 1 .. n + 1
    <3> HAVE i < j
    <3>1. i \in 1 .. n
      BY <1>1
    <3>2. CASE j = n + 1
      BY <1>2, <2>1, <2>2, <3>1, <3>2
    <3>3. CASE j \in 1 .. n
      BY <1>3, <2>2, <3>1, <3>3
    <3> QED BY <2>3, <3>2, <3>3
  <2>6. \A i \in 1 .. n + 1 : v[i] = w[g[i]]
    BY <1>1, <1>2, <1>3, <2>1, <2>2, <2>3
  <2> QED BY <1>1, <1>2, <2>4, <2>5, <2>6 DEF IsSubsequence
<1> QED BY <1>4, <1>5 DEF v, w

(* A subsequence uses the last element or does not. *)
LEMMA SubCases ==
    ASSUME NEW X, NEW s \in Seq(X), NEW t \in Seq(X), NEW e \in X, IsSubsequence(s, Push(t, e))
    PROVE  IsSubsequence(s, t) \/ \E u \in Seq(X) : s = Push(u, e) /\ IsSubsequence(u, t)
<1> DEFINE n == Len(s)
           m == Len(t)
           w == Push(t, e)
<1>1. n \in Nat /\ DOMAIN s = 1 .. n
  BY LenProperties
<1>2. /\ m \in Nat /\ DOMAIN t = 1 .. m /\ DOMAIN w = 1 .. m + 1 /\ w[m + 1] = e
      /\ \A i \in 1 .. m : w[i] = t[i]
  BY PushFacts
<1>3. IsSubsequence(s, w)
  OBVIOUS
<1> HIDE DEF m, w
<1>4. PICK f \in [1 .. n -> 1 .. m + 1] :
          (\A i, j \in 1 .. n : i < j => f[i] < f[j]) /\ (\A i \in 1 .. n : s[i] = w[f[i]])
  <2>1. PICK f \in [DOMAIN s -> DOMAIN w] :
            (\A i, j \in DOMAIN s : i < j => f[i] < f[j]) /\ (\A i \in DOMAIN s : s[i] = w[f[i]])
    BY <1>3 DEF IsSubsequence
  <2> HIDE DEF n
  <2> QED BY <1>1, <1>2, <2>1
<1>5. CASE n = 0
  <2>1. s = <<>>
    BY <1>5, EmptySeq
  <2> QED BY <2>1, SubEmpty
<1>6. CASE n # 0 /\ f[n] # m + 1
  <2>1. \A i \in 1 .. n : f[i] <= f[n] /\ f[i] \in 1 .. m + 1 /\ f[n] \in 1 .. m + 1
    BY <1>1, <1>4, <1>6
  <2>2. \A i \in 1 .. n : f[i] \in 1 .. m
    BY <1>2, <1>6, <2>1
  <2>3. f \in [1 .. n -> 1 .. m] /\ \A i \in 1 .. n : s[i] = t[f[i]]
    BY <1>2, <1>4, <2>2
  <2>4. \A i, j \in 1 .. n : i < j => f[i] < f[j]
    BY <1>4
  <2> HIDE DEF n
  <2>5. f \in [DOMAIN s -> DOMAIN t]
    BY <1>1, <1>2, <2>3
  <2>6. \A i, j \in DOMAIN s : i < j => f[i] < f[j]
    BY <1>1, <2>4
  <2>7. \A i \in DOMAIN s : s[i] = t[f[i]]
    BY <1>1, <2>3
  <2>8. IsSubsequence(s, t)
    BY <2>5, <2>6, <2>7 DEF IsSubsequence
  <2> QED BY <2>8
<1>7. CASE n # 0 /\ f[n] = m + 1
  <2>1. PICK u \in Seq(X), x \in X : s = Push(u, x) /\ x = s[Len(s)] /\ Len(s) = Len(u) + 1
    BY <1>7, Unpush
  <2>2. x = e
    <3>1. n \in 1 .. n
      BY <1>1, <1>7
    <3> QED BY <1>2, <1>4, <1>7, <2>1, <3>1
  <2> DEFINE k == Len(u)
  <2>3. k \in Nat /\ DOMAIN u = 1 .. k /\ n = k + 1 /\ \A i \in 1 .. k : s[i] = u[i]
    <3>1. \A i \in 1 .. Len(u) : Push(u, x)[i] = u[i]
      BY <2>1, PushAt
    <3>2. Len(u) \in Nat /\ DOMAIN u = 1 .. Len(u)
      BY LenProperties
    <3> QED BY <2>1, <3>1, <3>2
  <2> HIDE DEF n, k
  <2> DEFINE g == [i \in 1 .. k |-> f[i]]
  <2>4. \A i \in 1 .. k : f[i] \in 1 .. m /\ i \in 1 .. n
    <3> TAKE i \in 1 .. k
    <3>1. i \in 1 .. n /\ n \in 1 .. n /\ i < n
      BY <2>3
    <3>2. f[i] < f[n] /\ f[i] \in 1 .. m + 1
      BY <1>4, <3>1
    <3> QED BY <1>2, <1>7, <3>1, <3>2
  <2>5. g \in [1 .. k -> 1 .. m] /\ \A i \in 1 .. k : g[i] = f[i]
    BY <2>4
  <2> HIDE DEF g
  <2>6. \A i, j \in 1 .. k : i < j => g[i] < g[j]
    BY <1>4, <2>4, <2>5
  <2>7. \A i \in 1 .. k : u[i] = t[g[i]]
    BY <1>2, <1>4, <2>3, <2>4, <2>5
  <2>8. IsSubsequence(u, t)
    <3>1. g \in [DOMAIN u -> DOMAIN t]
      BY <1>2, <2>3, <2>5
    <3>2. \A i, j \in DOMAIN u : i < j => g[i] < g[j]
      BY <2>3, <2>6
    <3>3. \A i \in DOMAIN u : u[i] = t[g[i]]
      BY <2>3, <2>7
    <3> QED BY <3>1, <3>2, <3>3 DEF IsSubsequence
  <2> QED BY <2>1, <2>2, <2>8
<1> QED BY <1>5, <1>6, <1>7

LEMMA SubCat ==
    ASSUME NEW X, NEW s \in Seq(X), NEW t \in Seq(X), NEW u \in Seq(X), NEW v \in Seq(X),
           IsSubsequence(s, t), IsSubsequence(u, v)
    PROVE  IsSubsequence(Cat(s, u), Cat(t, v))
<1> DEFINE S == {v2 \in Seq(X) : \A u2 \in Seq(X) : IsSubsequence(u2, v2) => IsSubsequence(Cat(s, u2), Cat(t, v2))}
<1>1. <<>> \in S
  <2>1. <<>> \in Seq(X)
    OBVIOUS
  <2>2. ASSUME NEW u2 \in Seq(X), IsSubsequence(u2, <<>>)
        PROVE  IsSubsequence(Cat(s, u2), Cat(t, <<>>))
    <3>1. u2 = <<>>
      BY <2>2, SubOfEmpty
    <3>2. Cat(s, <<>>) = s /\ Cat(t, <<>>) = t
      BY CatFacts
    <3> QED BY <3>1, <3>2
  <2> QED BY <2>1, <2>2
<1>2. ASSUME NEW w \in Seq(X), NEW e \in X, w \in S
      PROVE  Push(w, e) \in S
  <2>1. Push(w, e) \in Seq(X)
    BY PushFacts
  <2>2. ASSUME NEW u2 \in Seq(X), IsSubsequence(u2, Push(w, e))
        PROVE  IsSubsequence(Cat(s, u2), Cat(t, Push(w, e)))
    <3>1. Cat(t, Push(w, e)) = Push(Cat(t, w), e) /\ Cat(t, w) \in Seq(X) /\ Cat(s, u2) \in Seq(X)
      BY CatPush, CatFacts
    <3>2. CASE IsSubsequence(u2, w)
      <4>1. IsSubsequence(Cat(s, u2), Cat(t, w))
        BY <1>2, <3>2
      <4>2. IsSubsequence(Cat(s, u2), Push(Cat(t, w), e))
        BY <3>1, <4>1, SubPush
      <4> QED BY <3>1, <4>2
    <3>3. CASE \E x \in Seq(X) : u2 = Push(x, e) /\ IsSubsequence(x, w)
      <4>1. PICK x \in Seq(X) : u2 = Push(x, e) /\ IsSubsequence(x, w)
        BY <3>3
      <4>2. IsSubsequence(Cat(s, x), Cat(t, w))
        BY <1>2, <4>1
      <4>3. Cat(s, u2) = Push(Cat(s, x), e) /\ Cat(s, x) \in Seq(X)
        BY <4>1, CatPush, CatFacts
      <4>4. IsSubsequence(Push(Cat(s, x), e), Push(Cat(t, w), e))
        BY <3>1, <4>2, <4>3, SubPush
      <4> QED BY <3>1, <4>3, <4>4
    <3> QED BY <2>2, <3>2, <3>3, SubCases
  <2> QED BY <2>1, <2>2
<1> HIDE DEF S
<1>3. Seq(X) \subseteq S
  BY <1>1, <1>2, PushInduct
<1> QED BY <1>3 DEF S
-----------------------------------------------------------------------------
(* Extensions and unknown fields: what the operators keep. *)

LEMMA OthersCat ==
    ASSUME NEW tag, NEW s \in Seq(Entries), NEW t \in Seq(Entries)
    PROVE  Others(Cat(s, t), tag) = Cat(Others(s, tag), Others(t, tag))
<1> DEFINE S == {u \in Seq(Entries) : Others(Cat(s, u), tag) = Cat(Others(s, tag), Others(u, tag))}
<1>1. <<>> \in S
  <2>1. <<>> \in Seq(Entries)
    OBVIOUS
  <2>2. Others(<<>>, tag) = <<>>
    <3>1. [i \in DOMAIN <<>> |-> IF (<<>>)[i].tag # tag THEN <<(<<>>)[i]>> ELSE <<>>] = <<>>
      OBVIOUS
    <3>2. Others(<<>>, tag) = FlattenSeq(<<>>)
      BY <3>1 DEF Others
    <3> QED BY <3>2, FlattenEmpty
  <2>3. Cat(s, <<>>) = s /\ Cat(Others(s, tag), <<>>) = Others(s, tag)
    BY CatFacts, OthersType
  <2> QED BY <2>1, <2>2, <2>3
<1>2. ASSUME NEW u \in Seq(Entries), NEW e \in Entries, u \in S
      PROVE  Push(u, e) \in S
  <2>1. Push(u, e) \in Seq(Entries) /\ Cat(s, u) \in Seq(Entries) /\ Others(s, tag) \in Seq(Entries) /\ Others(u, tag) \in Seq(Entries)
    BY PushFacts, CatFacts, OthersType
  <2>2. Cat(s, Push(u, e)) = Push(Cat(s, u), e)
    BY CatPush
  <2>3. Others(Cat(s, u), tag) = Cat(Others(s, tag), Others(u, tag))
    BY <1>2
  <2>4. CASE e.tag # tag
    <3>1. Others(Push(Cat(s, u), e), tag) = Push(Others(Cat(s, u), tag), e)
      BY <2>1, <2>4, OthersEquations
    <3>2. Others(Push(u, e), tag) = Push(Others(u, tag), e)
      BY <2>4, OthersEquations
    <3>3. Cat(Others(s, tag), Push(Others(u, tag), e)) = Push(Cat(Others(s, tag), Others(u, tag)), e)
      BY <2>1, CatPush
    <3> QED BY <2>1, <2>2, <2>3, <3>1, <3>2, <3>3
  <2>5. CASE e.tag = tag
    <3>1. Others(Push(Cat(s, u), e), tag) = Others(Cat(s, u), tag)
      BY <2>1, <2>5, OthersEquations
    <3>2. Others(Push(u, e), tag) = Others(u, tag)
      BY <2>5, OthersEquations
    <3> QED BY <2>1, <2>2, <2>3, <3>1, <3>2
  <2> QED BY <2>4, <2>5
<1> HIDE DEF S
<1>3. Seq(Entries) \subseteq S
  BY <1>1, <1>2, PushInduct
<1> QED BY <1>3 DEF S

LEMMA OthersSub ==
    ASSUME NEW tag, NEW s \in Seq(Entries), NEW t \in Seq(Entries), IsSubsequence(s, t)
    PROVE  IsSubsequence(Others(s, tag), Others(t, tag))
<1> DEFINE S == {v \in Seq(Entries) : \A u \in Seq(Entries) :
                    IsSubsequence(u, v) => IsSubsequence(Others(u, tag), Others(v, tag))}
<1>1. <<>> \in S
  <2>1. <<>> \in Seq(Entries)
    OBVIOUS
  <2>2. ASSUME NEW u \in Seq(Entries), IsSubsequence(u, <<>>)
        PROVE  IsSubsequence(Others(u, tag), Others(<<>>, tag))
    <3>1. u = <<>>
      BY <2>2, SubOfEmpty
    <3>2. Others(u, tag) \in Seq(Entries)
      BY OthersType
    <3>3. IsSubsequence(Others(u, tag), Others(u, tag))
      BY <3>2, SubRefl
    <3> QED BY <3>1, <3>3
  <2> QED BY <2>1, <2>2
<1>2. ASSUME NEW w \in Seq(Entries), NEW e \in Entries, w \in S
      PROVE  Push(w, e) \in S
  <2>1. Push(w, e) \in Seq(Entries) /\ Others(w, tag) \in Seq(Entries)
    BY PushFacts, OthersType
  <2>2. ASSUME NEW u \in Seq(Entries), IsSubsequence(u, Push(w, e))
        PROVE  IsSubsequence(Others(u, tag), Others(Push(w, e), tag))
    <3>1. ASSUME NEW x \in Seq(Entries), IsSubsequence(x, w)
          PROVE  /\ IsSubsequence(Others(x, tag), Others(Push(w, e), tag))
                 /\ IsSubsequence(Others(Push(x, e), tag), Others(Push(w, e), tag))
      <4>1. IsSubsequence(Others(x, tag), Others(w, tag)) /\ Others(x, tag) \in Seq(Entries)
        BY <1>2, <3>1, OthersType
      <4>2. CASE e.tag # tag
        <5>1. Others(Push(w, e), tag) = Push(Others(w, tag), e) /\ Others(Push(x, e), tag) = Push(Others(x, tag), e)
          BY <4>2, OthersEquations
        <5> DEFINE p == Others(x, tag)  q == Others(w, tag)
        <5>2. p \in Seq(Entries) /\ q \in Seq(Entries) /\ IsSubsequence(p, q)
          BY <2>1, <4>1
        <5> HIDE DEF p, q
        <5>3. IsSubsequence(p, Push(q, e)) /\ IsSubsequence(Push(p, e), Push(q, e))
          BY <5>2, SubPush
        <5> QED BY <5>1, <5>3 DEF p, q
      <4>3. CASE e.tag = tag
        <5>1. Others(Push(w, e), tag) = Others(w, tag) /\ Others(Push(x, e), tag) = Others(x, tag)
          BY <4>3, OthersEquations
        <5> QED BY <4>1, <5>1
      <4> QED BY <4>2, <4>3
    <3>2. CASE IsSubsequence(u, w)
      BY <3>1, <3>2
    <3>3. CASE \E x \in Seq(Entries) : u = Push(x, e) /\ IsSubsequence(x, w)
      BY <3>1, <3>3
    <3> QED BY <2>2, <3>2, <3>3, SubCases
  <2> QED BY <2>1, <2>2
<1> HIDE DEF S
<1>3. Seq(Entries) \subseteq S
  BY <1>1, <1>2, PushInduct
<1> QED BY <1>3 DEF S

(* delete_tag copies nothing that is not there. *)
LEMMA ScrubbedSub ==
    ASSUME NEW tag, NEW a \in Seq(Items)
    PROVE  /\ GetData(a) \in Seq(Entries) /\ Scrubbed(a, tag) \in Seq(Entries)
           /\ IsSubsequence(Scrubbed(a, tag), Others(GetData(a), tag))
<1> DEFINE S == {b \in Seq(Items) : /\ GetData(b) \in Seq(Entries) /\ Scrubbed(b, tag) \in Seq(Entries)
                                    /\ IsSubsequence(Scrubbed(b, tag), Others(GetData(b), tag))}
<1>1. <<>> \in S
  <2>1. <<>> \in Seq(Items) /\ <<>> \in Seq(Entries)
    OBVIOUS
  <2>2. Chunk(<<>>) \in Items
    BY <2>1 DEF Items
  <2>3. GetData(<<>>) = <<>> /\ Scrubbed(<<>>, tag) = <<>>
    BY <2>1, <2>2, DataEquations, ScrubbedEquations
  <2> QED BY <2>1, <2>3, SubEmpty
<1>2. ASSUME NEW b \in Seq(Items), NEW x \in Items, b \in S
      PROVE  Push(b, x) \in S
  <2> DEFINE d == GetData(b)
             c == Scrubbed(b, tag)
             r == Readable(x.es)
             od == Others(d, tag)
             oe == Others(x.es, tag)
             or == Others(r, tag)
  <2>1. Push(b, x) \in Seq(Items)
    BY PushFacts
  <2>2. GetData(Push(b, x)) = Cat(d, x.es) /\ Scrubbed(Push(b, x), tag) = Cat(c, or)
    BY DataEquations, ScrubbedEquations
  <2>3. d \in Seq(Entries) /\ c \in Seq(Entries) /\ IsSubsequence(c, od)
    BY <1>2
  <2>4. x.es \in Seq(Entries) /\ r \in Seq(Entries)
    BY ItemFacts, ReadableFacts
  <2>5. od \in Seq(Entries) /\ oe \in Seq(Entries) /\ or \in Seq(Entries)
    BY <2>3, <2>4, OthersType
  <2>6. Others(Cat(d, x.es), tag) = Cat(od, oe)
    BY <2>3, <2>4, OthersCat
  <2>7. IsSubsequence(or, oe)
    <3>1. PICK rest \in Seq(Entries) : x.es = Cat(r, rest)
      BY <2>4, ReadableFacts
    <3>2. IsSubsequence(r, x.es)
      <4>1. IsSubsequence(<<>>, rest) /\ IsSubsequence(r, r) /\ <<>> \in Seq(Entries)
        BY <2>4, SubEmpty, SubRefl
      <4> HIDE DEF r
      <4>2. Cat(r, <<>>) = r
        BY <2>4, CatFacts
      <4>3. IsSubsequence(Cat(r, <<>>), Cat(r, rest))
        BY <2>4, <4>1, SubCat
      <4> QED BY <3>1, <4>2, <4>3
    <3> HIDE DEF r
    <3> QED BY <2>4, <3>2, OthersSub
  <2> HIDE DEF d, c, r, od, oe, or
  <2>8. IsSubsequence(Cat(c, or), Cat(od, oe))
    BY <2>3, <2>5, <2>7, SubCat
  <2>9. Cat(d, x.es) \in Seq(Entries) /\ Cat(c, or) \in Seq(Entries)
    BY <2>3, <2>4, <2>5, CatFacts
  <2> QED BY <2>1, <2>2, <2>6, <2>8, <2>9
<1> HIDE DEF S
<1>3. Seq(Items) \subseteq S
  BY <1>1, <1>2, PushInduct
<1> QED BY <1>3 DEF S

(* Where nothing stops it copies all that has another number. *)
NoStops(s) == \A i \in DOMAIN s : ~s[i].stops

LEMMA NoStopsCat ==
    ASSUME NEW s \in Seq(Entries), NEW t \in Seq(Entries), NoStops(Cat(s, t))
    PROVE  NoStops(s) /\ NoStops(t)
<1> DEFINE n == Len(s)
           m == Len(t)
           c == s \o t
<1>1. n \in Nat /\ m \in Nat /\ DOMAIN s = 1 .. n /\ DOMAIN t = 1 .. m
  BY LenProperties
<1>2. /\ c \in Seq(Entries) /\ Len(c) = n + m
      /\ \A i \in 1 .. n + m : c[i] = IF i <= n THEN s[i] ELSE t[i - n]
  BY ConcatProperties
<1>3. DOMAIN c = 1 .. n + m
  BY <1>2, LenProperties
<1>4. \A i \in DOMAIN c : ~c[i].stops
  BY DEF NoStops, Cat
<1> HIDE DEF n, m, c
<1>5. ASSUME NEW i \in 1 .. n
      PROVE  ~s[i].stops
  <2>1. i \in 1 .. n + m /\ i <= n
    BY <1>1
  <2>2. c[i] = s[i]
    BY <1>2, <2>1
  <2> QED BY <1>3, <1>4, <2>1, <2>2
<1>6. ASSUME NEW i \in 1 .. m
      PROVE  ~t[i].stops
  <2>1. n + i \in 1 .. n + m /\ ~(n + i <= n) /\ (n + i) - n = i
    BY <1>1
  <2>2. c[n + i] = t[i]
    BY <1>2, <2>1
  <2> QED BY <1>3, <1>4, <2>1, <2>2
<1> QED BY <1>1, <1>5, <1>6 DEF NoStops

LEMMA ScrubbedAll ==
    ASSUME NEW tag, NEW a \in Seq(Items), NoStops(GetData(a))
    PROVE  Scrubbed(a, tag) = Others(GetData(a), tag)
<1> DEFINE S == {b \in Seq(Items) : NoStops(GetData(b)) => Scrubbed(b, tag) = Others(GetData(b), tag)}
<1>1. <<>> \in S
  <2>1. <<>> \in Seq(Items) /\ <<>> \in Seq(Entries)
    OBVIOUS
  <2>2. Chunk(<<>>) \in Items
    BY <2>1 DEF Items
  <2>3. GetData(<<>>) = <<>> /\ Scrubbed(<<>>, tag) = <<>>
    BY <2>1, <2>2, DataEquations, ScrubbedEquations
  <2>4. Others(<<>>, tag) = <<>>
    <3>1. [i \in DOMAIN <<>> |-> IF (<<>>)[i].tag # tag THEN <<(<<>>)[i]>> ELSE <<>>] = <<>>
      OBVIOUS
    <3>2. Others(<<>>, tag) = FlattenSeq(<<>>)
      BY <3>1 DEF Others
    <3> QED BY <3>2, FlattenEmpty
  <2> QED BY <2>1, <2>3, <2>4
<1>2. ASSUME NEW b \in Seq(Items), NEW x \in Items, b \in S
      PROVE  Push(b, x) \in S
  <2> DEFINE d == GetData(b)
             r == Readable(x.es)
  <2>1. Push(b, x) \in Seq(Items)
    BY PushFacts
  <2>2. GetData(Push(b, x)) = Cat(d, x.es) /\ Scrubbed(Push(b, x), tag) = Cat(Scrubbed(b, tag), Others(r, tag))
    BY DataEquations, ScrubbedEquations
  <2>3. d \in Seq(Entries) /\ x.es \in Seq(Entries)
    BY ItemFacts, DataEquations
  <2> SUFFICES ASSUME NoStops(Cat(d, x.es))
               PROVE  Cat(Scrubbed(b, tag), Others(r, tag)) = Others(Cat(d, x.es), tag)
    BY <2>1, <2>2
  <2>4. NoStops(d) /\ NoStops(x.es)
    BY <2>3, NoStopsCat
  <2>5. r = x.es
    BY <2>3, <2>4, ReadableFacts DEF NoStops
  <2>6. Scrubbed(b, tag) = Others(d, tag)
    BY <1>2, <2>4
  <2>7. Others(Cat(d, x.es), tag) = Cat(Others(d, tag), Others(x.es, tag))
    BY <2>3, OthersCat
  <2> QED BY <2>5, <2>6, <2>7
<1> HIDE DEF S
<1>3. Seq(Items) \subseteq S
  BY <1>1, <1>2, PushInduct
<1> QED BY <1>3 DEF S

(* No extension has two items. *)
OneItemEach(a) == \A i, j \in DOMAIN a : IsExt(a[i]) /\ IsExt(a[j]) /\ a[i].f = a[j].f => i = j

LEMMA DiscardFacts ==
    ASSUME NEW a \in Seq(Items)
    PROVE  /\ DiscardUnknown(a) \in Seq(Items)
           /\ OneItemEach(a) => OneItemEach(DiscardUnknown(a))
           /\ GetData(DiscardUnknown(a)) = <<>>
<1> DEFINE From(b) == \A i \in DOMAIN DiscardUnknown(b) :
                          \E j \in DOMAIN b : DiscardUnknown(b)[i] = b[j] /\ IsExt(b[j])
           Kept(b) == /\ DiscardUnknown(b) \in Seq(Items) /\ From(b)
                      /\ OneItemEach(b) => OneItemEach(DiscardUnknown(b))
                      /\ GetData(DiscardUnknown(b)) = <<>>
           S == {b \in Seq(Items) : Kept(b)}
<1>1. <<>> \in S
  <2>1. <<>> \in Seq(Items) /\ <<>> \in Seq(Entries) /\ DOMAIN <<>> = {}
    OBVIOUS
  <2>2. Chunk(<<>>) \in Items
    BY <2>1 DEF Items
  <2>3. GetData(<<>>) = <<>> /\ DiscardUnknown(<<>>) = <<>>
    BY <2>1, <2>2, DataEquations, DiscardEquations
  <2>4. From(<<>>) /\ OneItemEach(<<>>)
    BY <2>1, <2>3 DEF OneItemEach
  <2> HIDE DEF From
  <2> QED BY <2>1, <2>3, <2>4
<1>2. ASSUME NEW b \in Seq(Items), NEW x \in Items, b \in S
      PROVE  Push(b, x) \in S
  <2> DEFINE c == Push(b, x)
             d == DiscardUnknown(b)
             n == Len(b)
             m == Len(d)
  <2>1. /\ c \in Seq(Items) /\ n \in Nat /\ DOMAIN b = 1 .. n /\ DOMAIN c = 1 .. n + 1 /\ c[n + 1] = x
        /\ \A i \in 1 .. n : c[i] = b[i]
    BY PushFacts
  <2>2. d \in Seq(Items) /\ GetData(d) = <<>> /\ (OneItemEach(b) => OneItemEach(d))
    BY <1>2
  <2>3. \A i \in DOMAIN d : \E j \in DOMAIN b : d[i] = b[j] /\ IsExt(b[j])
    BY <1>2
  <2>4. m \in Nat /\ DOMAIN d = 1 .. m
    BY <2>2, LenProperties
  <2>5. OneItemEach(c) => OneItemEach(b)
    <3> HIDE DEF c, n
    <3> QED BY <2>1 DEF OneItemEach
  <2>6. CASE ~IsExt(x)
    <3>1. DiscardUnknown(c) = d
      BY <2>6, DiscardEquations
    <3> HIDE DEF c, d, n, m
    <3>2. From(c)
      BY <2>1, <2>3, <3>1
    <3>3. Kept(c)
      <4> HIDE DEF From
      <4> QED BY <2>2, <2>5, <3>1, <3>2
    <3> HIDE DEF Kept
    <3> QED BY <2>1, <3>3 DEF c
  <2>7. CASE IsExt(x)
    <3> DEFINE e == Push(d, x)
    <3>1. DiscardUnknown(c) = e
      BY <2>7, DiscardEquations
    <3> HIDE DEF c, d, n
    <3>2. /\ e \in Seq(Items) /\ DOMAIN e = 1 .. m + 1 /\ e[m + 1] = x
          /\ \A i \in 1 .. m : e[i] = d[i]
      BY <2>2, PushFacts
    <3> HIDE DEF m
    <3>3. From(c)
      <4> SUFFICES ASSUME NEW i \in DOMAIN e
                   PROVE  \E j \in DOMAIN c : e[i] = c[j] /\ IsExt(c[j])
        BY <3>1
      <4> HIDE DEF e
      <4>1. CASE i = m + 1
        <5>1. n + 1 \in DOMAIN c
          BY <2>1
        <5> QED BY <2>1, <2>7, <3>2, <4>1, <5>1
      <4>2. CASE i # m + 1
        <5>1. i \in 1 .. m
          BY <2>4, <3>2, <4>2
        <5>2. PICK j \in DOMAIN b : d[i] = b[j] /\ IsExt(b[j])
          BY <2>3, <2>4, <5>1
        <5>3. j \in DOMAIN c /\ c[j] = b[j]
          BY <2>1
        <5> QED BY <3>2, <5>1, <5>2, <5>3
      <4> QED BY <4>1, <4>2
    <3>4. ASSUME OneItemEach(c)
          PROVE  OneItemEach(e)
      <4>1. OneItemEach(d)
        BY <2>2, <2>5, <3>4
      <4>2. ASSUME NEW i \in 1 .. m
            PROVE  d[i].f # x.f
        <5>1. PICK j \in DOMAIN b : d[i] = b[j] /\ IsExt(b[j])
          BY <2>3, <2>4
        <5>2. j \in DOMAIN c /\ c[j] = b[j] /\ n + 1 \in DOMAIN c /\ j # n + 1
          BY <2>1
        <5> QED BY <2>1, <2>7, <3>4, <5>1, <5>2 DEF OneItemEach
      <4> HIDE DEF e
      <4> SUFFICES ASSUME NEW i \in 1 .. m + 1, NEW j \in 1 .. m + 1,
                          IsExt(e[i]), IsExt(e[j]), e[i].f = e[j].f
                   PROVE  i = j
        BY <3>2 DEF OneItemEach
      <4>3. CASE i \in 1 .. m /\ j \in 1 .. m
        BY <2>4, <3>2, <4>1, <4>3 DEF OneItemEach
      <4>4. CASE i \in 1 .. m /\ j = m + 1
        BY <3>2, <4>2, <4>4
      <4>5. CASE j \in 1 .. m /\ i = m + 1
        BY <3>2, <4>2, <4>5
      <4>6. CASE j = m + 1 /\ i = m + 1
        BY <4>6
      <4>7. (i \in 1 .. m \/ i = m + 1) /\ (j \in 1 .. m \/ j = m + 1)
        BY <2>4
      <4> QED BY <4>3, <4>4, <4>5, <4>6, <4>7
    <3>5. GetData(e) = <<>>
      <4>1. GetData(e) = Cat(GetData(d), x.es)
        BY <2>2, DataEquations
      <4>2. x.es = <<>>
        BY <2>7, ItemFacts
      <4>3. <<>> \in Seq(Entries)
        OBVIOUS
      <4>4. Cat(<<>>, <<>>) = <<>>
        BY <4>3, CatFacts
      <4> QED BY <2>2, <4>1, <4>2, <4>4
    <3>6. Kept(c)
      <4> HIDE DEF From, e
      <4> QED BY <3>1, <3>2, <3>3, <3>4, <3>5
    <3> HIDE DEF Kept
    <3> QED BY <2>1, <3>6 DEF c
  <2> QED BY <2>6, <2>7
<1> HIDE DEF S
<1>3. Seq(Items) \subseteq S
  BY <1>1, <1>2, PushInduct
<1>4. Kept(a)
  <2> HIDE DEF Kept
  <2> QED BY <1>3 DEF S
<1> QED BY <1>4

(* The items of a are still where they were in b, except for chunks that    *)
(* grew and items behind.                                                  *)
Grew(a, b) ==
    /\ Len(a) <= Len(b)
    /\ \A i \in DOMAIN a : (IsExt(b[i]) <=> IsExt(a[i])) /\ (IsExt(a[i]) => b[i].f = a[i].f)

LEMMA AddUnknownFacts ==
    ASSUME NEW a \in Seq(Items), OneItemEach(a), NEW es \in Seq(Entries), NEW b \in AddUnknown(a, es)
    PROVE  /\ b \in Seq(Items) /\ OneItemEach(b) /\ Grew(a, b)
           /\ GetData(b) = Cat(GetData(a), es)
<1> DEFINE n == Len(a)
           new == Chunk(es)
<1>1. n \in Nat /\ DOMAIN a = 1 .. n
  BY LenProperties
<1>2. new \in Items /\ ~IsExt(new) /\ new.es = es
  BY DEF Items, Chunk, IsExt
<1>3. CASE b = Append(a, new)
  <2>1. b = Push(a, new)
    BY <1>3 DEF Push
  <2> HIDE DEF new
  <2>2. /\ b \in Seq(Items) /\ Len(b) = n + 1 /\ DOMAIN b = 1 .. n + 1 /\ b[n + 1] = new
        /\ \A i \in 1 .. n : b[i] = a[i]
    <3> DEFINE u == Push(a, new)
    <3>1. u \in Seq(Items) /\ Len(u) = Len(a) + 1 /\ u[Len(a) + 1] = new /\ DOMAIN u = 1 .. Len(a) + 1
      BY <1>2, PushFacts
    <3>2. \A i \in 1 .. Len(a) : u[i] = a[i]
      BY <1>2, PushAt
    <3> HIDE DEF u
    <3>3. b = u
      BY <2>1 DEF u
    <3> QED BY <3>1, <3>2, <3>3
  <2> HIDE DEF n
  <2>3. Grew(a, b)
    BY <1>1, <2>2 DEF Grew, n
  <2>4. OneItemEach(b)
    <3>1. \A i \in DOMAIN b : IsExt(b[i]) => i \in DOMAIN a /\ b[i] = a[i]
      BY <1>1, <1>2, <2>2
    <3> QED BY <3>1 DEF OneItemEach
  <2>5. GetData(b) = Cat(GetData(a), es)
    BY <1>2, <2>1, DataEquations
  <2> QED BY <2>2, <2>3, <2>4, <2>5
<1>4. CASE n \in DOMAIN a /\ IsUnknown(a[n]) /\ b = [a EXCEPT ![n].es = @ \o es]
  <2>1. n # 0
    BY <1>1, <1>4
  <2>2. PICK t \in Seq(Items), x \in Items : a = Push(t, x) /\ x = a[n] /\ n = Len(t) + 1
    BY <2>1, Unpush
  <2>3. ~IsExt(x) /\ x.es \in Seq(Entries) /\ x = Chunk(x.es)
    BY <1>4, <2>2, ItemFacts
  <2> DEFINE more == x.es \o es
             y == Chunk(more)
  <2>4. more \in Seq(Entries)
    BY <2>3, ConcatProperties
  <2>5. b = [a EXCEPT ![n] = y]
    <3>1. [x EXCEPT !.es = more] = y
      <4>1. PICK z \in Seq(Entries) : x = Chunk(z)
        BY <2>3
      <4> HIDE DEF more
      <4>2. \A k, f : [[k |-> k, f |-> f, es |-> z] EXCEPT !.es = more] = [k |-> k, f |-> f, es |-> more]
        OBVIOUS
      <4> QED BY <4>1, <4>2, Zenon DEF Chunk
    <3>2. b = [a EXCEPT ![n] = [x EXCEPT !.es = more]]
      BY <1>4, <2>2
    <3> QED BY <3>1, <3>2
  <2>6. y \in Items /\ ~IsExt(y) /\ y.es = more
    <3> HIDE DEF more
    <3> QED BY <2>4 DEF Items, Chunk, IsExt
  <2> HIDE DEF y
  <2>7. /\ b \in Seq(Items) /\ Len(b) = n /\ DOMAIN b = 1 .. n /\ b[n] = y
        /\ \A i \in 1 .. n : i # n => b[i] = a[i]
    <3>1. a \in [1 .. n -> Items] /\ n \in 1 .. n
      BY <1>1, <2>1, LenProperties
    <3>2. b \in [1 .. n -> Items] /\ b[n] = y /\ \A i \in 1 .. n : i # n => b[i] = a[i]
      <4> HIDE DEF n
      <4> QED BY <2>5, <2>6, <3>1
    <3> HIDE DEF n
    <3>3. b \in Seq(Items) /\ Len(b) = n
      BY <1>1, <3>2
    <3> QED BY <3>2, <3>3
  <2>8. b = Push(t, y)
    <3> DEFINE u == Push(t, y)
    <3>1. u \in Seq(Items) /\ Len(u) = n /\ u[n] = y
      <4>1. u \in Seq(Items) /\ Len(u) = Len(t) + 1 /\ u[Len(t) + 1] = y
        BY <2>6, PushFacts
      <4> HIDE DEF u, n
      <4> QED BY <2>2, <4>1
    <3>2. ASSUME NEW i \in 1 .. n, i # n
          PROVE  u[i] = a[i]
      <4>1. i \in 1 .. Len(t)
        BY <1>1, <2>2, <3>2, LenProperties
      <4>2. u[i] = t[i] /\ Push(t, x)[i] = t[i]
        BY <2>6, <4>1, PushAt
      <4> QED BY <2>2, <4>2
    <3> HIDE DEF u, n
    <3>3. \A i \in 1 .. Len(b) : b[i] = u[i]
      BY <2>7, <3>1, <3>2
    <3>4. b = u
      BY <2>7, <3>1, <3>3, SeqEqual
    <3> QED BY <3>4 DEF u
  <2>9. GetData(b) = Cat(GetData(a), es)
    <3>1. GetData(b) = Cat(GetData(t), y.es) /\ GetData(a) = Cat(GetData(t), x.es) /\ GetData(t) \in Seq(Entries)
      BY <2>2, <2>6, <2>8, DataEquations
    <3> DEFINE g == GetData(t)
    <3>2. g \in Seq(Entries)
      BY <3>1
    <3> HIDE DEF g
    <3>3. g \o (x.es \o es) = (g \o x.es) \o es
      <4> DEFINE z == x.es
      <4>1. z \in Seq(Entries)
        BY <2>3
      <4> HIDE DEF z
      <4>2. g \o (z \o es) = (g \o z) \o es
        BY <3>2, <4>1, ConcatAssociative
      <4> QED BY <4>2 DEF z
    <3> QED BY <2>6, <3>1, <3>3 DEF Cat, g
  <2> HIDE DEF n
  <2>10. \A i \in DOMAIN b : IsExt(b[i]) => i \in DOMAIN a /\ b[i] = a[i]
    BY <1>1, <2>6, <2>7
  <2>11. OneItemEach(b)
    BY <2>10 DEF OneItemEach
  <2>12. Grew(a, b)
    <3>1. Len(a) = n /\ n <= n
      BY <1>1 DEF n
    <3>2. ASSUME NEW i \in DOMAIN a
          PROVE  (IsExt(b[i]) <=> IsExt(a[i])) /\ (IsExt(a[i]) => b[i].f = a[i].f)
      BY <1>1, <2>2, <2>3, <2>6, <2>7
    <3> QED BY <2>7, <3>1, <3>2 DEF Grew
  <2> QED BY <2>7, <2>9, <2>11, <2>12
<1> QED BY <1>3, <1>4 DEF AddUnknown

-----------------------------------------------------------------------------
(* Extensions and unknown fields: the invariant.  ScrubKeepsTheRest says    *)
(* what the chunks hold; OneItemEach that an extension has one item, so    *)
(* that one passed over twice would be two; and IterExt what an iteration  *)
(* has returned while it goes on.                                          *)
PassedExts(a, it) == {j \in DOMAIN a : j <= it /\ IsExt(a[j])}

IterExt(a, it, r) ==
    /\ it \in 0 .. Len(a) /\ r \in Seq(Extensions) /\ IsInjective(r)
    /\ ToSet(r) = {a[j].f : j \in PassedExts(a, it)}

AuxIInv ==
    /\ aux \in Seq(Items) /\ want \in Seq(Entries)
    /\ lost \in BOOLEAN /\ shifted \in BOOLEAN
    /\ OneItemEach(aux)
    /\ ScrubKeepsTheRest
    /\ ~shifted => IterExt(aux, ext_iter, ext_returned)

LEMMA GrewIter ==
    ASSUME NEW a \in Seq(Items), NEW b \in Seq(Items), Grew(a, b), NEW it, NEW r, IterExt(a, it, r)
    PROVE  IterExt(b, it, r)
<1> DEFINE n == Len(a)
           m == Len(b)
<1>1. n \in Nat /\ DOMAIN a = 1 .. n /\ m \in Nat /\ DOMAIN b = 1 .. m
  BY LenProperties
<1>2. n <= m /\ it \in 0 .. n
  BY DEF Grew, IterExt
<1>3. \A i \in DOMAIN a : (IsExt(b[i]) <=> IsExt(a[i])) /\ (IsExt(a[i]) => b[i].f = a[i].f)
  BY DEF Grew
<1> HIDE DEF n, m
<1>4. PassedExts(b, it) = PassedExts(a, it)
  BY <1>1, <1>2, <1>3 DEF PassedExts
<1>5. \A j \in PassedExts(a, it) : b[j].f = a[j].f
  BY <1>3 DEF PassedExts
<1>6. {b[j].f : j \in PassedExts(b, it)} = {a[j].f : j \in PassedExts(a, it)}
  BY <1>4, <1>5
<1>7. it \in 0 .. m
  BY <1>1, <1>2
<1> QED BY <1>6, <1>7 DEF IterExt, m

LEMMA UnknownAddStep ==
    ASSUME AuxIInv, NEW es \in Seq(Entries), UnknownAdd(es)
    PROVE  AuxIInv'
<1>1. /\ aux' \in AddUnknown(aux, es) /\ want' = Cat(want, es)
      /\ lost' = lost /\ shifted' = shifted /\ ext_iter' = ext_iter /\ ext_returned' = ext_returned
  BY DEF UnknownAdd, Iterating, Cat
<1>2. aux \in Seq(Items) /\ want \in Seq(Entries) /\ OneItemEach(aux)
  BY DEF AuxIInv
<1>3. /\ aux' \in Seq(Items) /\ OneItemEach(aux') /\ Grew(aux, aux')
      /\ GetData(aux') = Cat(GetData(aux), es)
  BY <1>1, <1>2, AddUnknownFacts
<1>4. want' \in Seq(Entries)
  BY <1>1, <1>2, CatFacts
<1>5. ~shifted' => IterExt(aux', ext_iter', ext_returned')
  BY <1>1, <1>2, <1>3, GrewIter DEF AuxIInv
<1>6. GetData(aux) \in Seq(Entries)
  BY <1>2, ScrubbedSub
<1>7. ScrubKeepsTheRest'
  <2>1. CASE lost
    <3>1. IsSubsequence(GetData(aux), want)
      BY <2>1 DEF AuxIInv, ScrubKeepsTheRest
    <3>2. IsSubsequence(es, es)
      BY SubRefl
    <3>3. IsSubsequence(Cat(GetData(aux), es), Cat(want, es))
      BY <1>2, <1>6, <3>1, <3>2, SubCat
    <3> QED BY <1>1, <1>3, <2>1, <3>3 DEF ScrubKeepsTheRest
  <2>2. CASE ~lost
    <3>1. GetData(aux) = want
      BY <2>2 DEF AuxIInv, ScrubKeepsTheRest
    <3> QED BY <1>1, <1>3, <2>2, <3>1 DEF ScrubKeepsTheRest
  <2> QED BY <2>1, <2>2
<1>8. lost' \in BOOLEAN /\ shifted' \in BOOLEAN
  BY <1>1 DEF AuxIInv
<1> QED BY <1>3, <1>4, <1>5, <1>7, <1>8 DEF AuxIInv

(* Items taken out: if there were none to take out the list is as it was,   *)
(* and otherwise the iteration is marked.                                  *)
LEMMA UnknownClearStep ==
    ASSUME AuxIInv, UnknownClear
    PROVE  AuxIInv'
<1>1. /\ aux' = DiscardUnknown(aux) /\ want' = <<>> /\ lost' = lost
      /\ ext_iter' = ext_iter /\ ext_returned' = ext_returned
  BY DEF UnknownClear, Iterating
<1>2. shifted' = (shifted \/ Len(aux') < Len(aux) \/ DiscardUnknown(aux) # aux)
  BY DEF UnknownClear, Shrunk
<1>3. aux \in Seq(Items) /\ OneItemEach(aux)
  BY DEF AuxIInv
<1>4. aux' \in Seq(Items) /\ OneItemEach(aux') /\ GetData(aux') = <<>>
  BY <1>1, <1>3, DiscardFacts
<1>5. ScrubKeepsTheRest'
  <2>1. IsSubsequence(<<>>, <<>>)
    BY SubEmpty
  <2> QED BY <1>1, <1>4, <2>1 DEF ScrubKeepsTheRest
<1>6. ~shifted' => IterExt(aux', ext_iter', ext_returned')
  BY <1>1, <1>2 DEF AuxIInv
<1>7. want' \in Seq(Entries) /\ lost' \in BOOLEAN /\ shifted' \in BOOLEAN
  BY <1>1, <1>2 DEF AuxIInv
<1> QED BY <1>4, <1>5, <1>6, <1>7 DEF AuxIInv

LEMMA DeleteTagStep ==
    ASSUME AuxIInv, NEW tag \in Tags, DeleteTag(tag)
    PROVE  AuxIInv'
<1> DEFINE kept == Scrubbed(aux, tag)
           bare == DiscardUnknown(aux)
<1>1. /\ (kept = <<>> /\ aux' = bare) \/ aux' \in AddUnknown(bare, kept)
      /\ want' = Others(want, tag)
      /\ lost' = (lost \/ \E i \in DOMAIN want : want[i].stops)
      /\ ext_iter' = ext_iter /\ ext_returned' = ext_returned
  BY DEF DeleteTag, Iterating
<1>2. shifted' = (shifted \/ Len(aux') < Len(aux) \/ bare # aux)
  BY DEF DeleteTag, Shrunk
<1>3. aux \in Seq(Items) /\ OneItemEach(aux) /\ want \in Seq(Entries)
  BY DEF AuxIInv
<1>4. bare \in Seq(Items) /\ OneItemEach(bare) /\ GetData(bare) = <<>>
  BY <1>3, DiscardFacts
<1>5. /\ GetData(aux) \in Seq(Entries) /\ kept \in Seq(Entries)
      /\ IsSubsequence(kept, Others(GetData(aux), tag))
  BY <1>3, ScrubbedSub
<1>6. aux' \in Seq(Items) /\ OneItemEach(aux') /\ Grew(bare, aux') /\ GetData(aux') = kept
  <2> HIDE DEF bare, kept
  <2>1. CASE kept = <<>> /\ aux' = bare
    <3>1. Grew(bare, bare)
      BY <1>4, LenProperties DEF Grew
    <3> QED BY <1>4, <2>1, <3>1
  <2>2. CASE aux' \in AddUnknown(bare, kept)
    <3>1. /\ aux' \in Seq(Items) /\ OneItemEach(aux') /\ Grew(bare, aux')
          /\ GetData(aux') = Cat(GetData(bare), kept)
      BY <1>4, <1>5, <2>2, AddUnknownFacts
    <3>2. Cat(<<>>, kept) = kept
      BY <1>5, CatFacts
    <3> QED BY <1>4, <3>1, <3>2
  <2> QED BY <1>1, <2>1, <2>2
<1>7. want' \in Seq(Entries) /\ lost' \in BOOLEAN /\ shifted' \in BOOLEAN
  BY <1>1, <1>2, <1>3, OthersType DEF AuxIInv
<1>8. ~shifted' => IterExt(aux', ext_iter', ext_returned')
  <2> SUFFICES ASSUME ~shifted'
               PROVE  IterExt(aux', ext_iter', ext_returned')
    OBVIOUS
  <2>1. bare = aux /\ ~shifted
    BY <1>2
  <2>2. Grew(aux, aux') /\ IterExt(aux, ext_iter, ext_returned)
    BY <1>6, <2>1 DEF AuxIInv
  <2> QED BY <1>1, <1>3, <1>6, <2>2, GrewIter
<1>9. ScrubKeepsTheRest'
  <2>1. CASE lost'
    <3>1. IsSubsequence(GetData(aux), want)
      <4>1. CASE lost
        BY <4>1 DEF AuxIInv, ScrubKeepsTheRest
      <4>2. CASE ~lost
        <5>1. GetData(aux) = want
          BY <4>2 DEF AuxIInv, ScrubKeepsTheRest
        <5>2. IsSubsequence(want, want)
          BY <1>3, SubRefl
        <5> QED BY <5>1, <5>2
      <4> QED BY <4>1, <4>2
    <3>2. IsSubsequence(Others(GetData(aux), tag), Others(want, tag))
      BY <1>3, <1>5, <3>1, OthersSub
    <3>3. IsSubsequence(kept, Others(want, tag))
      BY <1>5, <3>2, SubTrans
    <3> QED BY <1>1, <1>6, <2>1, <3>3 DEF ScrubKeepsTheRest
  <2>2. CASE ~lost'
    <3>1. ~lost /\ NoStops(want)
      BY <1>1, <2>2 DEF NoStops
    <3>2. GetData(aux) = want
      BY <3>1 DEF AuxIInv, ScrubKeepsTheRest
    <3>3. kept = Others(GetData(aux), tag)
      BY <1>3, <3>1, <3>2, ScrubbedAll
    <3> QED BY <1>1, <1>6, <2>2, <3>2, <3>3 DEF ScrubKeepsTheRest
  <2> QED BY <2>1, <2>2
<1> QED BY <1>6, <1>7, <1>8, <1>9 DEF AuxIInv

LEMMA ExtSetItemStep ==
    ASSUME AuxIInv, NEW f \in Extensions, ExtSetItem(f)
    PROVE  AuxIInv'
<1> DEFINE x == Ext(f)
           n == Len(aux)
<1>1. /\ aux' = Push(aux, x) /\ f \notin Present(aux)
      /\ UNCHANGED <<shifted, want, lost, ext_iter, ext_returned>>
  BY DEF ExtSetItem, Iterating, Push
<1>2. aux \in Seq(Items) /\ OneItemEach(aux)
  BY DEF AuxIInv
<1>3. x \in Items /\ IsExt(x) /\ x.f = f /\ x.es = <<>>
  BY DEF Items, Ext, IsExt
<1> HIDE DEF x
<1>4. /\ aux' \in Seq(Items) /\ Len(aux') = n + 1 /\ DOMAIN aux' = 1 .. n + 1 /\ aux'[n + 1] = x
      /\ n \in Nat /\ DOMAIN aux = 1 .. n
  <2> DEFINE u == Push(aux, x)
  <2>1. /\ u \in Seq(Items) /\ Len(u) = Len(aux) + 1 /\ u[Len(aux) + 1] = x /\ DOMAIN u = 1 .. Len(aux) + 1
        /\ Len(aux) \in Nat /\ DOMAIN aux = 1 .. Len(aux)
    BY <1>2, <1>3, PushFacts
  <2> HIDE DEF u
  <2>2. aux' = u
    BY <1>1 DEF u
  <2> QED BY <2>1, <2>2
<1>5. \A i \in 1 .. n : aux'[i] = aux[i]
  BY <1>1, <1>2, <1>3, PushAt
<1>6. GetData(aux') = GetData(aux)
  <2>1. GetData(aux') = Cat(GetData(aux), <<>>) /\ GetData(aux) \in Seq(Entries)
    BY <1>1, <1>2, <1>3, DataEquations
  <2>2. Cat(GetData(aux), <<>>) = GetData(aux)
    BY <2>1, CatFacts
  <2> QED BY <2>1, <2>2
<1>7. Grew(aux, aux')
  <2>1. Len(aux) <= Len(aux')
    BY <1>4
  <2> HIDE DEF n
  <2> QED BY <1>4, <1>5, <2>1 DEF Grew
<1>8. OneItemEach(aux')
  <2>1. \A i \in 1 .. n : IsExt(aux[i]) => aux[i].f # f
    BY <1>1, <1>4 DEF Present
  <2> HIDE DEF n
  <2> SUFFICES ASSUME NEW i \in 1 .. n + 1, NEW j \in 1 .. n + 1,
                      IsExt(aux'[i]), IsExt(aux'[j]), aux'[i].f = aux'[j].f
               PROVE  i = j
    BY <1>4 DEF OneItemEach
  <2>2. CASE i \in 1 .. n /\ j \in 1 .. n
    BY <1>2, <1>4, <1>5, <2>2 DEF OneItemEach
  <2>3. CASE i \in 1 .. n /\ j = n + 1
    BY <1>3, <1>4, <1>5, <2>1, <2>3
  <2>4. CASE j \in 1 .. n /\ i = n + 1
    BY <1>3, <1>4, <1>5, <2>1, <2>4
  <2>5. CASE i = n + 1 /\ j = n + 1
    BY <2>5
  <2>6. (i \in 1 .. n \/ i = n + 1) /\ (j \in 1 .. n \/ j = n + 1)
    BY <1>4
  <2> QED BY <2>2, <2>3, <2>4, <2>5, <2>6
<1>9. ~shifted' => IterExt(aux', ext_iter', ext_returned')
  BY <1>1, <1>2, <1>4, <1>7, GrewIter DEF AuxIInv
<1>10. ScrubKeepsTheRest'
  BY <1>1, <1>6 DEF AuxIInv, ScrubKeepsTheRest
<1>11. want' \in Seq(Entries) /\ lost' \in BOOLEAN /\ shifted' \in BOOLEAN
  BY <1>1 DEF AuxIInv
<1> QED BY <1>4, <1>8, <1>9, <1>10, <1>11 DEF AuxIInv

LEMMA IterStart ==
    ASSUME NEW a \in Seq(Items)
    PROVE  IterExt(a, 0, <<>>)
<1>1. Len(a) \in Nat /\ DOMAIN a = 1 .. Len(a)
  BY LenProperties
<1>2. PassedExts(a, 0) = {} /\ 0 \in 0 .. Len(a)
  BY <1>1 DEF PassedExts
<1>3. ToSet(<<>>) = {} /\ IsInjective(<<>>) /\ <<>> \in Seq(Extensions)
  BY DEF ToSet, IsInjective
<1> QED BY <1>2, <1>3 DEF IterExt

LEMMA ExtNextStep ==
    ASSUME AuxIInv, ExtNext
    PROVE  AuxIInv'
<1> DEFINE ahead == {i \in DOMAIN aux : i > ext_iter /\ IsExt(aux[i])}
           next == CHOOSE i \in ahead : \A j \in ahead : i <= j
           n == Len(aux)
<1>1. /\ UNCHANGED <<aux, shifted, want, lost>>
      /\ ahead = {} => ext_iter' = n /\ ext_returned' = ext_returned
      /\ ahead # {} => ext_iter' = next /\ ext_returned' = Append(ext_returned, aux[next].f)
  BY DEF ExtNext
<1>2. aux \in Seq(Items) /\ n \in Nat /\ DOMAIN aux = 1 .. n /\ OneItemEach(aux)
  BY LenProperties DEF AuxIInv
<1>3. ~shifted => IterExt(aux, ext_iter', ext_returned')
  <2> SUFFICES ASSUME ~shifted
               PROVE  IterExt(aux, ext_iter', ext_returned')
    OBVIOUS
  <2> DEFINE r == ext_returned
             P == PassedExts(aux, ext_iter)
  <2>1. ext_iter \in 0 .. n /\ r \in Seq(Extensions) /\ IsInjective(r) /\ ToSet(r) = {aux[j].f : j \in P}
    BY DEF AuxIInv, IterExt
  <2>2. CASE ahead = {}
    <3>1. PassedExts(aux, n) = P
      BY <1>2, <2>1, <2>2 DEF PassedExts
    <3>2. n \in 0 .. n
      BY <1>2
    <3> HIDE DEF P, n, ahead
    <3>3. IterExt(aux, n, r)
      BY <2>1, <3>1, <3>2 DEF IterExt, n
    <3> QED BY <1>1, <2>2, <3>3
  <2>3. CASE ahead # {}
    <3>1. next \in ahead /\ \A j \in ahead : next <= j
      <4>1. ahead \subseteq Nat
        BY <1>2
      <4> HIDE DEF ahead
      <4>2. \E i \in ahead : \A j \in ahead : i <= j
        BY <2>3, <4>1, LeastNat
      <4> QED BY <4>2
    <3> HIDE DEF next
    <3>2. next \in 1 .. n /\ next > ext_iter /\ IsExt(aux[next])
      BY <1>2, <3>1
    <3> DEFINE f == aux[next].f
               Q == PassedExts(aux, next)
               r2 == Append(r, f)
    <3>3. Q = P \cup {next}
      BY <1>2, <2>1, <3>1, <3>2 DEF PassedExts
    <3>4. f \in Extensions
      <4>1. aux[next] \in Items
        BY <1>2, <3>2, ElementOfSeq
      <4> QED BY <3>2, <4>1, ItemFacts
    <3>5. f \notin ToSet(r)
      <4> SUFFICES ASSUME f \in ToSet(r)
                   PROVE  FALSE
        OBVIOUS
      <4>1. PICK j \in P : f = aux[j].f
        BY <2>1
      <4>2. j \in DOMAIN aux /\ j <= ext_iter /\ IsExt(aux[j])
        BY DEF PassedExts
      <4>3. j = next
        BY <1>2, <3>2, <4>1, <4>2 DEF OneItemEach
      <4> QED BY <1>2, <2>1, <3>2, <4>2, <4>3
    <3> HIDE DEF f, Q, P, ahead, n
    <3>6. /\ r2 \in Seq(Extensions) /\ Len(r2) = Len(r) + 1 /\ Len(r) \in Nat
          /\ DOMAIN r = 1 .. Len(r) /\ DOMAIN r2 = 1 .. Len(r) + 1
      BY <2>1, <3>4, AppendProperties, LenProperties
    <3>7. (\A i \in 1 .. Len(r) : r2[i] = r[i]) /\ r2[Len(r) + 1] = f
      BY <2>1, <3>4, AppendProperties
    <3> HIDE DEF r2
    <3>8. ToSet(r2) = ToSet(r) \cup {f}
      BY <3>6, <3>7 DEF ToSet
    <3>9. IsInjective(r2)
      <4>1. \A i \in 1 .. Len(r) : r[i] # f
        BY <3>5, <3>6 DEF ToSet
      <4> SUFFICES ASSUME NEW i \in 1 .. Len(r) + 1, NEW j \in 1 .. Len(r) + 1, r2[i] = r2[j]
                   PROVE  i = j
        BY <3>6 DEF IsInjective
      <4>2. (i \in 1 .. Len(r) \/ i = Len(r) + 1) /\ (j \in 1 .. Len(r) \/ j = Len(r) + 1)
        BY <3>6
      <4>3. CASE i \in 1 .. Len(r) /\ j \in 1 .. Len(r)
        BY <2>1, <3>6, <3>7, <4>3 DEF IsInjective
      <4>4. CASE ~(i \in 1 .. Len(r) /\ j \in 1 .. Len(r))
        BY <3>7, <4>1, <4>2, <4>4
      <4> QED BY <4>3, <4>4
    <3>10. {aux[j].f : j \in Q} = {aux[j].f : j \in P} \cup {f}
      BY <3>3 DEF f
    <3>11. next \in 0 .. n
      BY <1>2, <3>2
    <3>12. IterExt(aux, next, r2)
      BY <2>1, <3>6, <3>8, <3>9, <3>10, <3>11 DEF IterExt, Q, n
    <3> QED BY <1>1, <2>3, <3>12 DEF r2, f
  <2> QED BY <2>2, <2>3
<1>4. ScrubKeepsTheRest'
  BY <1>1 DEF AuxIInv, ScrubKeepsTheRest
<1> QED BY <1>1, <1>3, <1>4 DEF AuxIInv

LEMMA AuxStep ==
    ASSUME AuxIInv, AuxNext
    PROVE  AuxIInv'
<1>1. CASE \E e, d \in Entries : UnknownAdd(<<e>>) \/ UnknownAdd(<<e, d>>)
  <2>1. PICK e \in Entries, d \in Entries : UnknownAdd(<<e>>) \/ UnknownAdd(<<e, d>>)
    BY <1>1
  <2>2. <<e>> \in Seq(Entries) /\ <<e, d>> \in Seq(Entries)
    OBVIOUS
  <2> QED BY <2>1, <2>2, UnknownAddStep
<1>2. CASE UnknownClear
  BY <1>2, UnknownClearStep
<1>3. CASE \E tag \in Tags : DeleteTag(tag)
  BY <1>3, DeleteTagStep
<1>4. CASE \E f \in Extensions : ExtSetItem(f)
  BY <1>4, ExtSetItemStep
<1>5. CASE ExtGetIterator
  <2>1. /\ ext_iter' = 0 /\ ext_returned' = <<>> /\ shifted' = FALSE
        /\ UNCHANGED <<aux, want, lost>>
    BY <1>5 DEF ExtGetIterator
  <2>2. IterExt(aux, 0, <<>>)
    BY IterStart DEF AuxIInv
  <2>3. ScrubKeepsTheRest'
    BY <2>1 DEF AuxIInv, ScrubKeepsTheRest
  <2> QED BY <2>1, <2>2, <2>3 DEF AuxIInv
<1>6. CASE ExtNext
  BY <1>6, ExtNextStep
<1> QED BY <1>1, <1>2, <1>3, <1>4, <1>5, <1>6 DEF AuxNext

LEMMA AuxStart == AuxInit => AuxIInv
<1> SUFFICES ASSUME AuxInit
             PROVE  AuxIInv
  OBVIOUS
<1>1. /\ aux = <<>> /\ ext_iter = 0 /\ ext_returned = <<>> /\ want = <<>>
      /\ shifted = FALSE /\ lost = FALSE
  BY DEF AuxInit
<1>2. <<>> \in Seq(Items) /\ <<>> \in Seq(Entries) /\ DOMAIN <<>> = {}
  OBVIOUS
<1>3. IterExt(<<>>, 0, <<>>)
  BY <1>2, IterStart
<1>4. GetData(<<>>) = <<>>
  <2>1. Chunk(<<>>) \in Items
    BY <1>2 DEF Items
  <2> QED BY <1>2, <2>1, DataEquations
<1>5. OneItemEach(<<>>)
  BY <1>2 DEF OneItemEach
<1>6. ScrubKeepsTheRest
  BY <1>1, <1>4 DEF ScrubKeepsTheRest
<1> QED BY <1>1, <1>2, <1>3, <1>5, <1>6 DEF AuxIInv

(* The list of extensions and unknown fields: an extension has one item,    *)
(* the chunks hold what should be there, and an iteration has returned the *)
(* extensions it has passed, in every reachable state.                     *)
THEOREM AuxInvariance == Spec => []AuxIInv
<1>1. Init => AuxIInv
  BY AuxStart DEF Init
<1>2. AuxIInv /\ [Next]_vars => AuxIInv'
  <2> SUFFICES ASSUME AuxIInv, [Next]_vars
               PROVE  AuxIInv'
    OBVIOUS
  <2>1. AuxNext \/ UNCHANGED avars
    BY DEF Next, NextRepeated, NextMap, NextAux, NextDescriptors, vars
  <2>2. CASE UNCHANGED avars
    <3>1. UNCHANGED <<aux, ext_iter, ext_returned, shifted, want, lost>>
      BY <2>2 DEF avars
    <3>2. ScrubKeepsTheRest'
      BY <3>1 DEF AuxIInv, ScrubKeepsTheRest
    <3> QED BY <3>1, <3>2 DEF AuxIInv
  <2> QED BY <2>1, <2>2, AuxStep
<1> QED BY <1>1, <1>2, PTL DEF Spec

(* delete_tag leaves the fields of the other numbers in their order, in     *)
(* however many chunks of whatever length they lie; when something stopped *)
(* it, it may have lost some, and what is left is still a subsequence.     *)
THEOREM ScrubKeeps == Spec => []ScrubKeepsTheRest
<1>1. AuxIInv => ScrubKeepsTheRest
  BY DEF AuxIInv
<1> QED BY <1>1, AuxInvariance, PTL

(* An iteration over the extensions (Iterator_Next) ends with all that it   *)
(* has passed returned once, while items are added but none taken out.     *)
THEOREM ExtensionIteration == Spec => []ExtensionsAreComplete
<1>1. AuxIInv => ExtensionsAreComplete
  <2> SUFFICES ASSUME AuxIInv, ~shifted
               PROVE  ExtensionsAreComplete
    BY DEF ExtensionsAreComplete
  <2>1. IsInjective(ext_returned) /\ ToSet(ext_returned) = {aux[j].f : j \in PassedExts(aux, ext_iter)}
    BY DEF AuxIInv, IterExt
  <2>2. ToSet(ext_returned) \subseteq Present(aux)
    BY <2>1 DEF PassedExts, Present
  <2>3. \A i \in DOMAIN aux : i <= ext_iter /\ IsExt(aux[i]) => aux[i].f \in ToSet(ext_returned)
    BY <2>1 DEF PassedExts
  <2> QED BY <2>1, <2>2, <2>3 DEF ExtensionsAreComplete
<1> QED BY <1>1, AuxInvariance, PTL

(* The iterations of a map, of the extensions and of a descriptor's         *)
(* container are complete, for every size of each of them.                 *)
THEOREM IterationsComplete == Spec => []IterationsAreComplete
<1>1. IterationIsComplete /\ ExtensionsAreComplete /\ KeysComeWithTheirValues => IterationsAreComplete
  BY DEF IterationsAreComplete
<1> QED BY <1>1, MapIteration, ExtensionIteration, KeysWithValues, PTL
=============================================================================
