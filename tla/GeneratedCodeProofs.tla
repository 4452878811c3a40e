------------------------- MODULE GeneratedCodeProofs -------------------------
(***************************************************************************)
(* Proofs about Generator, DescriptorPool and GeneratedCode.               *)
(***************************************************************************)
EXTENDS GeneratedCode, FiniteSetTheorems, SequenceTheorems, TLAPS

-----------------------------------------------------------------------------
(* Base64. *)

Bytes == 0 .. 255
Groups(s) == (Len(s) + 2) \div 3

(* How many groups there are, and where in its group a digit or a byte is. *)
LEMMA GroupCount ==
    ASSUME NEW s \in Seq(Bytes)
    PROVE  /\ Len(s) \in Nat /\ Groups(s) \in Nat
           /\ Len(s) <= 3 * Groups(s) /\ 3 * Groups(s) < Len(s) + 3
BY DEF Groups

LEMMA PlaceOfDigit ==
    ASSUME NEW n \in Nat \ {0}
    PROVE  \E g \in Nat, k \in 1 .. 4 :
              n = 4 * g + k /\ (n - 1) \div 4 = g /\ ((n - 1) % 4) + 1 = k
OBVIOUS

LEMMA DigitOfPlace ==
    ASSUME NEW g \in Nat
    PROVE  /\ (4 * g + 1 - 1) \div 4 = g /\ ((4 * g + 1 - 1) % 4) + 1 = 1
           /\ (4 * g + 2 - 1) \div 4 = g /\ ((4 * g + 2 - 1) % 4) + 1 = 2
           /\ (4 * g + 3 - 1) \div 4 = g /\ ((4 * g + 3 - 1) % 4) + 1 = 3
           /\ (4 * g + 4 - 1) \div 4 = g /\ ((4 * g + 4 - 1) % 4) + 1 = 4
OBVIOUS

LEMMA PlaceOfByte ==
    ASSUME NEW i \in Nat \ {0}
    PROVE  \E g \in Nat, k \in 1 .. 3 :
              i = 3 * g + k /\ (i - 1) \div 3 = g /\ ((i - 1) % 3) + 1 = k
OBVIOUS

(* The digits of a group, the bytes it stands for, and back. *)
LEMMA TripleType ==
    ASSUME NEW s \in Seq(Bytes), NEW g \in Nat
    PROVE  /\ ByteAt(s, 3 * g + 1) \in Bytes
           /\ ByteAt(s, 3 * g + 2) \in Bytes
           /\ ByteAt(s, 3 * g + 3) \in Bytes
           /\ Triple(s, g) \in Nat
<1>1. ASSUME NEW j \in Nat \ {0}
      PROVE  ByteAt(s, j) \in Bytes
  <2>1. Len(s) \in Nat /\ 0 \in Bytes
    BY DEF Bytes
  <2>2. CASE j <= Len(s)
    BY <2>1, <2>2, ElementOfSeq DEF ByteAt
  <2>3. CASE ~ (j <= Len(s))
    BY <2>1, <2>3 DEF ByteAt
  <2> QED BY <2>2, <2>3
<1>2. 3 * g + 1 \in Nat \ {0} /\ 3 * g + 2 \in Nat \ {0} /\ 3 * g + 3 \in Nat \ {0}
  OBVIOUS
<1>3. /\ ByteAt(s, 3 * g + 1) \in Bytes
      /\ ByteAt(s, 3 * g + 2) \in Bytes
      /\ ByteAt(s, 3 * g + 3) \in Bytes
  BY <1>1, <1>2
<1>4. \A x, y, z \in Bytes : 256 * (256 * x + y) + z \in Nat
  BY DEF Bytes
<1> QED BY <1>3, <1>4 DEF Triple

(* The number v of three bytes in base 256 and in base 64. *)
SplitsInto(v, x, y, z) ==
    /\ (v \div 256) \div 256 = x /\ (v \div 256) % 256 = y /\ v % 256 = z
    /\ ((v \div 64) \div 64) \div 64 \in Nat /\ ((v \div 64) \div 64) % 64 \in Nat
    /\ (v \div 64) % 64 \in Nat /\ v % 64 \in Nat
    /\ 64 * (64 * (64 * (((v \div 64) \div 64) \div 64) + (((v \div 64) \div 64) % 64))
               + ((v \div 64) % 64)) + (v % 64) = v
    /\ z = 0 => v % 64 = 0
    /\ y = 0 /\ z = 0 => (v \div 64) % 64 = 0

LEMMA TripleArithmetic ==
    ASSUME NEW x \in 0 .. 255, NEW y \in 0 .. 255, NEW z \in 0 .. 255, NEW v,
           v = 256 * (256 * x + y) + z
    PROVE  SplitsInto(v, x, y, z)
<1>0. v \in Nat
  OBVIOUS
<1>1. (v \div 256) \div 256 = x
  OBVIOUS
<1>2. v % 256 = z
  OBVIOUS
<1>3. (v \div 256) % 256 = y
  <2>1. v \div 256 = 256 * x + y
    OBVIOUS
  <2> QED BY <2>1
<1>4. z = 0 => v % 64 = 0
  OBVIOUS
<1>5. y = 0 /\ z = 0 => (v \div 64) % 64 = 0
  <2>1. y = 0 /\ z = 0 => v \div 64 = 1024 * x
    OBVIOUS
  <2> QED BY <2>1
<1>6. /\ ((v \div 64) \div 64) \div 64 \in Nat /\ ((v \div 64) \div 64) % 64 \in Nat
      /\ (v \div 64) % 64 \in Nat /\ v % 64 \in Nat
  BY <1>0
<1>7. 64 * (64 * (64 * (((v \div 64) \div 64) \div 64) + (((v \div 64) \div 64) % 64))
                      + ((v \div 64) % 64)) + (v % 64) = v
  <2>1. \A n \in Nat : n = 64 * (n \div 64) + (n % 64) /\ n \div 64 \in Nat
    OBVIOUS
  <2> QED BY <1>0, <2>1
<1> QED BY <1>1, <1>2, <1>3, <1>4, <1>5, <1>6, <1>7 DEF SplitsInto

LEMMA EncodeDigits ==
    ASSUME NEW s \in Seq(Bytes)
    PROVE  /\ DOMAIN Encode(s) = 1 .. 4 * Groups(s)
           /\ Len(Encode(s)) = 4 * Groups(s)
           /\ \A g \in 0 .. Groups(s) - 1 :
                /\ Encode(s)[4 * g + 1] = Digits(s, g)[1]
                /\ Encode(s)[4 * g + 2] = Digits(s, g)[2]
                /\ Encode(s)[4 * g + 3] = Digits(s, g)[3]
                /\ Encode(s)[4 * g + 4] = Digits(s, g)[4]
<1> DEFINE N == 4 * Groups(s)
           digit(n) == Digits(s, (n - 1) \div 4)[((n - 1) % 4) + 1]
<1>1. N \in Nat
  BY GroupCount
<1>2. Encode(s) = [n \in 1 .. N |-> digit(n)]
  BY DEF Encode, Groups
<1> HIDE DEF N
<1>3. DOMAIN Encode(s) = 1 .. N /\ Len(Encode(s)) = N
  <2> HIDE DEF digit
  <2> QED BY <1>1, <1>2
<1>4. ASSUME NEW g \in 0 .. Groups(s) - 1
      PROVE  /\ Encode(s)[4 * g + 1] = Digits(s, g)[1]
             /\ Encode(s)[4 * g + 2] = Digits(s, g)[2]
             /\ Encode(s)[4 * g + 3] = Digits(s, g)[3]
             /\ Encode(s)[4 * g + 4] = Digits(s, g)[4]
  <2>1. g \in Nat /\ {4 * g + 1, 4 * g + 2, 4 * g + 3, 4 * g + 4} \subseteq 1 .. N
    BY GroupCount DEF N
  <2>2. /\ Encode(s)[4 * g + 1] = digit(4 * g + 1)
        /\ Encode(s)[4 * g + 2] = digit(4 * g + 2)
        /\ Encode(s)[4 * g + 3] = digit(4 * g + 3)
        /\ Encode(s)[4 * g + 4] = digit(4 * g + 4)
    <3> HIDE DEF digit
    <3> QED BY <1>2, <2>1
  <2>3. /\ digit(4 * g + 1) = Digits(s, g)[1]
        /\ digit(4 * g + 2) = Digits(s, g)[2]
        /\ digit(4 * g + 3) = Digits(s, g)[3]
        /\ digit(4 * g + 4) = Digits(s, g)[4]
    BY <2>1, DigitOfPlace
  <2> QED BY <2>2, <2>3
<1> QED BY <1>3, <1>4 DEF N

(* A group is decoded to the bytes it was made of. *)
LEMMA GroupDecoded ==
    ASSUME NEW s \in Seq(Bytes), NEW g \in 0 .. Groups(s) - 1
    PROVE  Group(Encode(s), g) = Triple(s, g)
<1> DEFINE x == ByteAt(s, 3 * g + 1)
           y == ByteAt(s, 3 * g + 2)
           z == ByteAt(s, 3 * g + 3)
           v == Triple(s, g)
           b == Encode(s)
<1>1. g \in Nat /\ Len(s) \in Nat
  BY GroupCount
<1>2. x \in 0 .. 255 /\ y \in 0 .. 255 /\ z \in 0 .. 255
  BY <1>1, TripleType DEF Bytes
<1>3. v = 256 * (256 * x + y) + z
  BY DEF Triple
<1>4. /\ 3 * g + 2 > Len(s) => y = 0 /\ z = 0
      /\ 3 * g + 3 > Len(s) => z = 0
  BY <1>1 DEF ByteAt
<1>5. /\ b[4 * g + 1] = ((v \div 64) \div 64) \div 64
      /\ b[4 * g + 2] = ((v \div 64) \div 64) % 64
      /\ b[4 * g + 3] = IF 3 * g + 2 <= Len(s) THEN (v \div 64) % 64 ELSE Pad
      /\ b[4 * g + 4] = IF 3 * g + 3 <= Len(s) THEN v % 64 ELSE Pad
  BY EncodeDigits DEF Digits
<1> HIDE DEF x, y, z, v, b
<1>6. SplitsInto(v, x, y, z)
  BY <1>2, <1>3, TripleArithmetic
<1> DEFINE d1 == ((v \div 64) \div 64) \div 64
           d2 == ((v \div 64) \div 64) % 64
           d3 == (v \div 64) % 64
           d4 == v % 64
<1>7. /\ d1 \in Nat /\ d2 \in Nat /\ d3 \in Nat /\ d4 \in Nat
      /\ 64 * (64 * (64 * d1 + d2) + d3) + d4 = v
      /\ z = 0 => d4 = 0
      /\ y = 0 /\ z = 0 => d3 = 0
      /\ b[4 * g + 1] = d1 /\ b[4 * g + 2] = d2
      /\ b[4 * g + 3] = IF 3 * g + 2 <= Len(s) THEN d3 ELSE Pad
      /\ b[4 * g + 4] = IF 3 * g + 3 <= Len(s) THEN d4 ELSE Pad
  BY <1>5, <1>6 DEF SplitsInto
<1> HIDE DEF d1, d2, d3, d4
<1>8. d1 # Pad /\ d2 # Pad /\ d3 # Pad /\ d4 # Pad
  BY <1>7 DEF Pad
<1>9. DigitAt(b, 4 * g + 1) = d1 /\ DigitAt(b, 4 * g + 2) = d2
  BY <1>7, <1>8 DEF DigitAt
<1>10. DigitAt(b, 4 * g + 3) = d3
  <2>1. CASE 3 * g + 2 <= Len(s)
    BY <1>7, <1>8, <2>1 DEF DigitAt
  <2>2. CASE ~ (3 * g + 2 <= Len(s))
    <3>1. d3 = 0
      BY <1>1, <1>4, <1>7, <2>2
    <3> QED BY <1>7, <2>2, <3>1 DEF DigitAt
  <2> QED BY <2>1, <2>2
<1>11. DigitAt(b, 4 * g + 4) = d4
  <2>1. CASE 3 * g + 3 <= Len(s)
    BY <1>7, <1>8, <2>1 DEF DigitAt
  <2>2. CASE ~ (3 * g + 3 <= Len(s))
    <3>1. d4 = 0
      BY <1>1, <1>4, <1>7, <2>2
    <3> QED BY <1>7, <2>2, <3>1 DEF DigitAt
  <2> QED BY <2>1, <2>2
<1>12. Group(b, g) = v
  BY <1>7, <1>9, <1>10, <1>11 DEF Group
<1> QED BY <1>12 DEF v, b

(* Only the last group is padded, with as many as it lacks bytes. *)
LEMMA PadCount ==
    ASSUME NEW s \in Seq(Bytes)
    PROVE  Cardinality({n \in DOMAIN Encode(s) : Encode(s)[n] = Pad}) = 3 * Groups(s) - Len(s)
<1> DEFINE b == Encode(s)
           G == Groups(s)
           L == Len(s)
           P == {n \in DOMAIN b : b[n] = Pad}
<1>1. G \in Nat /\ L \in Nat /\ L <= 3 * G /\ 3 * G < L + 3
  BY GroupCount
<1>2. DOMAIN b = 1 .. 4 * G
  BY EncodeDigits
<1>3. ASSUME NEW g \in 0 .. G - 1
      PROVE  /\ b[4 * g + 1] # Pad
             /\ b[4 * g + 2] # Pad
             /\ b[4 * g + 3] = Pad <=> 3 * g + 2 > L
             /\ b[4 * g + 4] = Pad <=> 3 * g + 3 > L
  <2> DEFINE v == Triple(s, g)
  <2>1. g \in Nat
    BY <1>1
  <2>2. v \in Nat
    BY <2>1, TripleType
  <2>3. /\ b[4 * g + 1] = ((v \div 64) \div 64) \div 64
        /\ b[4 * g + 2] = ((v \div 64) \div 64) % 64
        /\ b[4 * g + 3] = IF 3 * g + 2 <= L THEN (v \div 64) % 64 ELSE Pad
        /\ b[4 * g + 4] = IF 3 * g + 3 <= L THEN v % 64 ELSE Pad
    BY EncodeDigits DEF Digits
  <2> HIDE DEF v, b, L
  <2>4. /\ ((v \div 64) \div 64) \div 64 >= 0 /\ ((v \div 64) \div 64) % 64 >= 0
        /\ (v \div 64) % 64 >= 0 /\ v % 64 >= 0
    BY <2>2
  <2> QED BY <1>1, <2>1, <2>3, <2>4 DEF Pad
<1> HIDE DEF b, G, L
<1>4. P = {n \in 1 .. 4 * G : n > 4 * G - (3 * G - L)}
  <2>1. ASSUME NEW n \in 1 .. 4 * G
        PROVE  b[n] = Pad <=> n > 4 * G - (3 * G - L)
    <3>0. n \in Nat \ {0}
      BY <1>1
    <3>1. PICK g \in Nat, k \in 1 .. 4 :
              n = 4 * g + k /\ (n - 1) \div 4 = g /\ ((n - 1) % 4) + 1 = k
      BY <3>0, PlaceOfDigit, Zenon
    <3>2. g \in 0 .. G - 1
      BY <1>1, <3>1
    <3>3. CASE k \in {1, 2}
      <4>1. b[n] # Pad
        BY <1>3, <3>1, <3>2, <3>3
      <4>2. n <= 4 * G - (3 * G - L)
        BY <1>1, <3>1, <3>2, <3>3
      <4> QED BY <4>1, <4>2, <1>1
    <3>4. CASE k = 3
      <4>1. b[n] = Pad <=> 3 * g + 2 > L
        BY <1>3, <3>1, <3>2, <3>4
      <4>2. 3 * g + 2 > L <=> n > 4 * G - (3 * G - L)
        BY <1>1, <3>1, <3>2, <3>4
      <4> QED BY <4>1, <4>2
    <3>5. CASE k = 4
      <4>1. b[n] = Pad <=> 3 * g + 3 > L
        BY <1>3, <3>1, <3>2, <3>5
      <4>2. 3 * g + 3 > L <=> n > 4 * G - (3 * G - L)
        BY <1>1, <3>1, <3>2, <3>5
      <4> QED BY <4>1, <4>2
    <3> QED BY <3>3, <3>4, <3>5
  <2> QED BY <1>2, <2>1
<1>5. P = (4 * G - (3 * G - L) + 1) .. 4 * G
  BY <1>1, <1>4
<1>6. Cardinality(P) = 3 * G - L
  <2> HIDE DEF P
  <2> QED BY <1>1, <1>5, FS_Interval
<1> QED BY <1>6 DEF P, b, G, L

(* A module decodes the descriptor that the plugin encoded, whatever its    *)
(* length: decode_base64 undoes Base64Escape.                              *)
THEOREM DecodeUndoesEncode ==
    ASSUME NEW s \in Seq(0 .. 255)
    PROVE  Decode(Encode(s)) = s
<1> DEFINE b == Encode(s)
           G == Groups(s)
           pads == Cardinality({n \in DOMAIN b : b[n] = Pad})
           octet(i) == LET val == Group(b, (i - 1) \div 3)
                       IN  <<(val \div 256) \div 256, (val \div 256) % 256, val % 256>>[((i - 1) % 3) + 1]
<1>0. s \in Seq(Bytes)
  BY DEF Bytes
<1>1. G \in Nat /\ Len(s) \in Nat /\ Len(s) <= 3 * G /\ 3 * G < Len(s) + 3
  BY <1>0, GroupCount
<1>2. 3 * (Len(b) \div 4) - pads = Len(s)
  <2>1. Len(b) = 4 * G /\ pads = 3 * G - Len(s)
    BY <1>0, EncodeDigits, PadCount
  <2>2. (4 * G) \div 4 = G
    BY <1>1
  <2> HIDE DEF b, G, pads
  <2> QED BY <1>1, <2>1, <2>2
<1>3. Decode(b) = [i \in 1 .. 3 * (Len(b) \div 4) - pads |-> octet(i)]
  BY DEF Decode
<1>4. ASSUME NEW i \in 1 .. Len(s)
      PROVE  octet(i) = s[i]
  <2>0. i \in Nat \ {0}
    BY <1>1
  <2>1. PICK g \in Nat, k \in 1 .. 3 :
            i = 3 * g + k /\ (i - 1) \div 3 = g /\ ((i - 1) % 3) + 1 = k
    BY <2>0, PlaceOfByte, Zenon
  <2>2. g \in 0 .. G - 1
    BY <1>1, <2>1
  <2>3. Group(b, g) = Triple(s, g)
    BY <1>0, <2>2, GroupDecoded
  <2> DEFINE x == ByteAt(s, 3 * g + 1)
             y == ByteAt(s, 3 * g + 2)
             z == ByteAt(s, 3 * g + 3)
             v == Triple(s, g)
  <2>4. x \in 0 .. 255 /\ y \in 0 .. 255 /\ z \in 0 .. 255 /\ v = 256 * (256 * x + y) + z
    BY <1>0, TripleType DEF Bytes, Triple
  <2>5. octet(i) = <<(v \div 256) \div 256, (v \div 256) % 256, v % 256>>[k]
    BY <2>1, <2>3
  <2>6. <<(v \div 256) \div 256, (v \div 256) % 256, v % 256>> = <<x, y, z>>
    <3> HIDE DEF x, y, z, v
    <3>1. SplitsInto(v, x, y, z)
      BY <2>4, TripleArithmetic
    <3> QED BY <3>1 DEF SplitsInto
  <2>7. s[i] = <<x, y, z>>[k]
    BY <1>1, <2>1 DEF ByteAt
  <2> HIDE DEF octet, v
  <2> QED BY <2>5, <2>6, <2>7
<1>5. Decode(b) = [i \in 1 .. Len(s) |-> s[i]]
  <2> HIDE DEF octet, pads, b
  <2> QED BY <1>2, <1>3, <1>4
<1> QED BY <1>5
-----------------------------------------------------------------------------
(* The invariant. *)

Depth == CHOOSE depth \in [ProtoFiles -> 0 .. Cardinality(ProtoFiles)] :
             \A f \in ProtoFiles : \A i \in DOMAIN dependency[f] :
                 depth[dependency[f][i]] < depth[f]

(* The plugin wrote what GenerateModule and GenerateTypes say. *)
ResponseOK ==
    \A r \in response : \E f \in ProtoFiles :
        r = [module |-> GenerateModule(f), types |-> GenerateTypes(f)]

PoolOK ==
    /\ DOMAIN files \subseteq ProtoFiles
    /\ files \in [DOMAIN files -> {"real", "stub"}]
    /\ stubbed \subseteq Types \cup Enums

Written(f) == \E r \in response : r.module.file = f

LoadOK ==
    /\ installed \subseteq ProtoFiles
    /\ \A f \in installed : Written(f)
    /\ loaded \in [ProtoFiles -> {"no", "loading", "ok", "failed"}]
    /\ \A f \in ProtoFiles : loaded[f] # "no" => Written(f)
    /\ stack \in Seq([file : ProtoFiles, next : Nat \ {0}])

(* An import that is behind a module: it was compiled, or is absent. *)
Done(f) == f \in Absent \/ loaded[f] = "ok"

(* The modules being compiled are on the stack, each once, and of less      *)
(* depth than those that required it as long as no module was taken for    *)
(* another; the imports that are behind a module are done, but for the one *)
(* that is compiled above it.                                              *)
StackOK ==
    /\ \A j \in 1 .. Len(stack) : loaded[stack[j].file] = "loading"
    /\ \A f \in ProtoFiles : loaded[f] = "loading" => \E j \in 1 .. Len(stack) : stack[j].file = f
    /\ \A j, k \in 1 .. Len(stack) : j < k =>
          /\ stack[k].file # stack[j].file
          /\ mistaken = {} => Depth[stack[k].file] < Depth[stack[j].file]
    /\ \A j \in 1 .. Len(stack) :
          \A i \in 1 .. Len(dependency[stack[j].file]) :
              i < stack[j].next =>
                  \/ Done(dependency[stack[j].file][i])
                  \/ j < Len(stack) /\ dependency[stack[j].file][i] = stack[j + 1].file

CodeIInv ==
    /\ ResponseOK
    /\ PoolOK
    /\ LoadOK
    /\ StackOK
    /\ StubsOnlyForMissing
    /\ LoadedMeansDefined

-----------------------------------------------------------------------------
(* What the constants say. *)

LEMMA DependencyType ==
    ASSUME NEW f \in ProtoFiles
    PROVE  /\ dependency[f] \in Seq(ProtoFiles)
           /\ Len(dependency[f]) \in Nat
           /\ DOMAIN dependency[f] = 1 .. Len(dependency[f])
           /\ \A i \in 1 .. Len(dependency[f]) : dependency[f][i] \in ProtoFiles
           /\ Imports(f) \subseteq ProtoFiles
<1>1. dependency[f] \in Seq(ProtoFiles)
  BY GeneratorAssumption
<1> QED BY <1>1 DEF Imports

LEMMA DepthDecreases ==
    /\ \A f \in ProtoFiles : Depth[f] \in Nat
    /\ \A f \in ProtoFiles : \A i \in 1 .. Len(dependency[f]) :
          Depth[dependency[f][i]] < Depth[f]
<1> DEFINE D == [ProtoFiles -> 0 .. Cardinality(ProtoFiles)]
           P(depth) == \A f \in ProtoFiles : \A i \in DOMAIN dependency[f] :
                           depth[dependency[f][i]] < depth[f]
<1>1. \E depth \in D : P(depth)
  BY GeneratorAssumption
<1>2. Depth = CHOOSE depth \in D : P(depth)
  BY DEF Depth
<1>3. Depth \in D /\ P(Depth)
  <2> HIDE DEF D, P
  <2> QED BY <1>1, <1>2
<1>4. Cardinality(ProtoFiles) \in Nat
  BY GeneratorAssumption, FS_CardinalityType
<1> QED BY <1>3, <1>4, DependencyType

LEMMA UsesAreImported ==
    ASSUME NEW f \in ProtoFiles, NEW t \in Uses(f), t[1] # f
    PROVE  t \in Types \cup Enums /\ t[1] \in Imports(f)
BY PoolAssumption DEF Imports

(* The module of a file, as the program loads it. *)
LEMMA ModuleOfFile ==
    ASSUME ResponseOK, NEW f \in ProtoFiles, Written(f)
    PROVE  /\ Module(f) = GenerateModule(f)
           /\ Len(Module(f).requires) = Len(dependency[f])
           /\ \A i \in 1 .. Len(dependency[f]) :
                 Module(f).requires[i] = GetPerlPackage(dependency[f][i])
           /\ Described(Decode(Module(f).b64)) = f
<1>1. f \in ProtoFiles /\ \E r \in response : r.module.file = f
  BY DEF Written
<1>2. \A g \in ProtoFiles : GenerateModule(g).file = g
  BY DEF GenerateModule
<1>3. ASSUME NEW r \in response, r.module.file = f
      PROVE  r.module = GenerateModule(f)
  <2>1. PICK g \in ProtoFiles : r = [module |-> GenerateModule(g), types |-> GenerateTypes(g)]
    BY DEF ResponseOK
  <2>2. r.module = GenerateModule(g)
    BY <2>1
  <2> QED BY <1>2, <1>3, <2>2
<1>4. Module(f) = GenerateModule(f)
  BY <1>1, <1>3 DEF Module
<1>5. /\ Len(GenerateModule(f).requires) = Len(dependency[f])
      /\ \A i \in 1 .. Len(dependency[f]) :
            GenerateModule(f).requires[i] = GetPerlPackage(dependency[f][i])
  <2>1. GenerateModule(f).requires
            = [i \in 1 .. Len(dependency[f]) |-> GetPerlPackage(dependency[f][i])]
    BY <1>1, DependencyType DEF GenerateModule
  <2>2. Len(dependency[f]) \in Nat
    BY <1>1, DependencyType
  <2> QED BY <2>1, <2>2
<1>6. Decode(GenerateModule(f).b64) = serialized[f]
  <2>1. serialized[f] \in Seq(0 .. 255)
    BY <1>1, GeneratorAssumption
  <2>2. GenerateModule(f).b64 = Encode(serialized[f])
    BY DEF GenerateModule
  <2> QED BY <2>1, <2>2, DecodeUndoesEncode
<1>7. Described(serialized[f]) = f
  BY <1>1, GeneratorAssumption DEF Described
<1> QED BY <1>4, <1>5, <1>6, <1>7
-----------------------------------------------------------------------------
(* The pool. *)

(* What add_serialized_file may do to the pool, however it ends: real files *)
(* stay, and the stubs are for what was missing.                           *)
PoolGrows(f) ==
    /\ PoolOK'
    /\ \A g \in ProtoFiles : Real(g) => Real(g)'
    /\ \A g \in DOMAIN files' : files'[g] = "stub" =>
          g \in MissingFiles(f) \/ (g \in DOMAIN files /\ files[g] = "stub")
    /\ stubbed' \subseteq stubbed \cup MissingTypes(f)

LEMMA EnterStubs ==
    ASSUME PoolOK, NEW f \in ProtoFiles, NEW fs \in SUBSET MissingFiles(f),
           files' = Enter(fs, "stub"), stubbed' \subseteq stubbed \cup MissingTypes(f)
    PROVE  PoolGrows(f)
<1>1. MissingFiles(f) \subseteq ProtoFiles
  BY DependencyType DEF MissingFiles
<1>2. MissingTypes(f) \subseteq Types \cup Enums
  BY UsesAreImported DEF MissingTypes
<1>3. DOMAIN files' = DOMAIN files \cup fs
  BY DEF Enter
<1>4. \A g \in DOMAIN files' : files'[g] = IF g \in fs THEN "stub" ELSE files[g]
  BY DEF Enter
<1>5. PoolOK'
  BY <1>1, <1>2, <1>3, <1>4 DEF PoolOK, Enter
<1>6. \A g \in fs : g \notin DOMAIN files
  BY DEF MissingFiles, Has
<1> QED BY <1>3, <1>4, <1>5, <1>6 DEF PoolGrows, Real, Has

LEMMA AddedGrows ==
    ASSUME PoolOK, NEW f \in ProtoFiles, Added(f)
    PROVE  PoolGrows(f) /\ Real(f)' /\ Symbols(f) \cap stubbed' = {}
<1>1. MissingFiles(f) \subseteq ProtoFiles
  BY DependencyType DEF MissingFiles
<1>2. MissingTypes(f) \subseteq Types \cup Enums
  BY UsesAreImported DEF MissingTypes
<1>3. /\ files' = [Enter(MissingFiles(f) \cup {f}, "stub") EXCEPT ![f] = "real"]
      /\ stubbed' = stubbed \cup MissingTypes(f)
  BY DEF Added
<1>4. f \notin DOMAIN files /\ Symbols(f) \cap stubbed = {}
  BY DEF Added, Duplicate, Has
<1>5. files' = [g \in DOMAIN files \cup (MissingFiles(f) \cup {f}) |->
                   IF g = f THEN "real"
                   ELSE IF g \in MissingFiles(f) \cup {f} THEN "stub" ELSE files[g]]
  BY <1>3 DEF Enter
<1>6. /\ DOMAIN files' = {f} \cup DOMAIN files \cup MissingFiles(f)
      /\ files'[f] = "real"
      /\ \A g \in DOMAIN files' : g # f =>
            files'[g] = IF g \in MissingFiles(f) THEN "stub" ELSE files[g]
  BY <1>5
<1>7. PoolOK'
  <2>1. \A g \in DOMAIN files' : files'[g] \in {"real", "stub"}
    BY <1>6 DEF PoolOK
  <2>2. files' = [g \in DOMAIN files' |-> files'[g]]
    BY <1>5
  <2> QED BY <1>1, <1>2, <1>3, <1>6, <2>1, <2>2 DEF PoolOK
<1>8. \A g \in MissingFiles(f) : g \notin DOMAIN files
  BY DEF MissingFiles, Has
<1>9. Symbols(f) \cap MissingTypes(f) = {}
  BY DEF Symbols, MissingTypes
<1> QED BY <1>3, <1>4, <1>6, <1>7, <1>8, <1>9 DEF PoolGrows, Real, Has

LEMMA OthersGrow ==
    ASSUME PoolOK, NEW f \in ProtoFiles, GaveUp(f) \/ Ignored(f) \/ Died(f)
    PROVE  PoolGrows(f)
<1>1. Short(MissingFiles(f)) \subseteq MissingFiles(f)
      /\ Short(MissingTypes(f)) \subseteq MissingTypes(f)
  BY DEF Short
<1>2. CASE GaveUp(f)
  <2>1. PICK fs \in SUBSET Short(MissingFiles(f)), ts \in SUBSET Short(MissingTypes(f)) :
            files' = Enter(fs, "stub") /\ stubbed' = stubbed \cup ts
    BY <1>2 DEF GaveUp
  <2> QED BY <1>1, <2>1, EnterStubs
<1>3. CASE Ignored(f)
  <2>1. PICK ts \in SUBSET (Short(MissingTypes(f)) \ Enums) :
            files' = Enter(MissingFiles(f), "stub") /\ stubbed' = stubbed \cup ts
    BY <1>3 DEF Ignored
  <2> QED BY <1>1, <2>1, EnterStubs
<1>4. CASE Refused(f)
  <2>1. PICK fs \in SUBSET MissingFiles(f) : files' = Enter(fs, "stub") /\ stubbed' = stubbed
    BY <1>4 DEF Refused
  <2> QED BY <2>1, EnterStubs
<1>5. CASE Mismatched(f)
  <2>1. PICK ts \in SUBSET Short(MissingTypes(f)) :
            files' = Enter(MissingFiles(f), "stub") /\ stubbed' = stubbed \cup ts
    BY <1>5 DEF Mismatched
  <2> QED BY <1>1, <2>1, EnterStubs
<1> QED BY <1>2, <1>3, <1>4, <1>5 DEF Died

LEMMA SetGrows ==
    ASSUME PoolOK, NEW fs, AddSet(fs)
    PROVE  /\ PoolOK' /\ stubbed' = stubbed
           /\ \A g \in ProtoFiles : Real(g) => Real(g)'
           /\ \A g \in DOMAIN files' : files'[g] = "stub" => g \in DOMAIN files /\ files[g] = "stub"
<1>1. /\ fs \subseteq ProtoFiles /\ stubbed' = stubbed
      /\ files' = [f \in DOMAIN files \cup fs |-> IF f \in fs THEN "real" ELSE files[f]]
  BY DEF AddSet, Enter
<1>2. PoolOK'
  BY <1>1 DEF PoolOK
<1> QED BY <1>1, <1>2 DEF Real, Has
-----------------------------------------------------------------------------
(* The stack. *)

StackEntry == [file : ProtoFiles, next : Nat \ {0}]

LEMMA TopOfStack ==
    ASSUME LoadOK, StackOK, stack # <<>>
    PROVE  /\ Len(stack) \in Nat \ {0}
           /\ Top \in StackEntry /\ Top = stack[Len(stack)]
           /\ Written(Top.file) /\ Top.file \in ProtoFiles
           /\ loaded[Top.file] = "loading"
           /\ Below \in Seq(StackEntry) /\ Len(Below) = Len(stack) - 1
           /\ \A j \in 1 .. Len(Below) : Below[j] = stack[j]
<1>1. stack \in Seq(StackEntry)
  BY DEF LoadOK, StackEntry
<1>2. Len(stack) \in Nat \ {0}
  BY <1>1, EmptySeq
<1>3. stack[Len(stack)] \in StackEntry
  BY <1>1, <1>2, ElementOfSeq
<1>4. Top = stack[Len(stack)]
  BY DEF Top
<1>5. Below \in Seq(StackEntry) /\ Len(Below) = Len(stack) - 1
      /\ \A j \in 1 .. Len(Below) : Below[j] = stack[j]
  BY <1>1, <1>2 DEF Below
<1>6. Top.file \in ProtoFiles
  BY <1>3, <1>4 DEF StackEntry
<1>7. loaded[Top.file] = "loading"
  BY <1>2, <1>4 DEF StackOK
<1>8. Written(Top.file)
  BY <1>6, <1>7 DEF LoadOK
<1> QED BY <1>2, <1>3, <1>4, <1>5, <1>6, <1>7, <1>8

(* As long as no module was taken for another, an import of the module on   *)
(* top is not being compiled: that would be a cycle.                       *)
LEMMA ImportIsNotLoading ==
    ASSUME LoadOK, StackOK, stack # <<>>, NEW i \in 1 .. Len(dependency[Top.file]), mistaken = {}
    PROVE  loaded[dependency[Top.file][i]] # "loading"
<1> DEFINE f == dependency[Top.file][i]
<1>1. Top.file \in ProtoFiles /\ Len(stack) \in Nat \ {0} /\ Top = stack[Len(stack)]
  BY TopOfStack
<1>2. f \in ProtoFiles /\ Depth[f] < Depth[Top.file]
  BY <1>1, DependencyType, DepthDecreases
<1>3. ASSUME NEW j \in 1 .. Len(stack), stack[j].file = f
      PROVE  FALSE
  <2>1. j = Len(stack) \/ Depth[Top.file] < Depth[f]
    BY <1>1, <1>3 DEF StackOK
  <2>2. Depth[Top.file] \in Nat /\ Depth[f] \in Nat
    BY <1>1, <1>2, DepthDecreases
  <2> QED BY <1>1, <1>2, <1>3, <2>1, <2>2
<1> QED BY <1>2, <1>3 DEF StackOK

(* When the imports of the module on top are behind it, each is in the pool *)
(* or has a reason not to be.                                              *)
LEMMA ImportsAccounted ==
    ASSUME CodeIInv, stack # <<>>, Top.next > Len(dependency[Top.file]),
           NEW f \in Imports(Top.file)
    PROVE  Real(f) \/ f \in Absent
<1>1. Top.file \in ProtoFiles /\ Len(stack) \in Nat \ {0} /\ Top = stack[Len(stack)]
      /\ Top.next \in Nat
  BY TopOfStack DEF CodeIInv, StackEntry
<1>2. PICK i \in 1 .. Len(dependency[Top.file]) : f = dependency[Top.file][i]
  BY <1>1, DependencyType DEF Imports
<1>3. i < Top.next /\ f \in ProtoFiles
  BY <1>1, <1>2, DependencyType
<1>4. Done(f)
  BY <1>1, <1>2, <1>3 DEF CodeIInv, StackOK
<1>5. CASE loaded[f] = "ok"
  BY <1>3, <1>5 DEF CodeIInv, LoadedMeansDefined, Absent
<1> QED BY <1>3, <1>4, <1>5 DEF Done

-----------------------------------------------------------------------------
(* The steps. *)

LEMMA CodeInit == Init => CodeIInv
<1> SUFFICES ASSUME Init
             PROVE  CodeIInv
  OBVIOUS
<1> USE DEF Init, GeneratorInit, PoolInit
<1>1. stack = <<>> /\ Len(stack) = 0
  OBVIOUS
<1>2. ResponseOK
  BY DEF ResponseOK
<1>3. PoolOK
  BY DEF PoolOK
<1>4. LoadOK
  BY DEF LoadOK
<1>5. StackOK
  BY <1>1 DEF StackOK
<1>6. StubsOnlyForMissing /\ LoadedMeansDefined
  BY DEF StubsOnlyForMissing, LoadedMeansDefined
<1> QED BY <1>2, <1>3, <1>4, <1>5, <1>6 DEF CodeIInv

DoneNext(f) == f \in Absent' \/ loaded'[f] = "ok"

(* The modules below a require of the module of f, or of what answers for   *)
(* it, with the import counted as behind them.                             *)
BelowOK(below, f) ==
    /\ below \in Seq(StackEntry)
    /\ \A j \in 1 .. Len(below) : loaded[below[j].file] = "loading"
    /\ \A g \in ProtoFiles : loaded[g] = "loading" => \E j \in 1 .. Len(below) : below[j].file = g
    /\ \A j, k \in 1 .. Len(below) : j < k =>
          /\ below[k].file # below[j].file
          /\ mistaken = {} => Depth[below[k].file] < Depth[below[j].file]
    /\ \A j \in 1 .. Len(below) : \A i \in 1 .. Len(dependency[below[j].file]) :
          i < below[j].next =>
              \/ Done(dependency[below[j].file][i])
              \/ dependency[below[j].file][i] = IF j < Len(below) THEN below[j + 1].file ELSE f

(* What a require leaves alone: only a module that was not begun changes. *)
RequireChanges ==
    /\ UNCHANGED <<gvars, pvars, installed, hollow>>
    /\ missed \subseteq missed' /\ mistaken \subseteq mistaken'
    /\ \/ loaded' = loaded
       \/ \E g \in ProtoFiles, how \in {"loading", "failed"} :
             loaded[g] = "no" /\ loaded' = [loaded EXCEPT ![g] = how]

LEMMA RequireKeeps ==
    ASSUME CodeIInv, RequireChanges
    PROVE  /\ ResponseOK' /\ PoolOK' /\ StubsOnlyForMissing' /\ LoadedMeansDefined'
           /\ \A g \in ProtoFiles : Done(g) => DoneNext(g)
<1>1. ResponseOK' /\ PoolOK'
  BY DEF CodeIInv, ResponseOK, PoolOK, gvars, pvars, RequireChanges
<1>2. /\ loaded \in [ProtoFiles -> {"no", "loading", "ok", "failed"}]
      /\ hollow' = hollow /\ files' = files /\ stubbed' = stubbed
  BY DEF CodeIInv, LoadOK, pvars, RequireChanges
<1>3. \A g \in ProtoFiles : loaded[g] # "no" => loaded'[g] = loaded[g]
  BY <1>2 DEF RequireChanges
<1>4. \A g \in ProtoFiles : loaded'[g] = "ok" => loaded[g] = "ok"
  BY <1>2 DEF RequireChanges
<1>5. \A g \in Absent : g \in Absent'
  <2>1. missed \subseteq missed' /\ mistaken \subseteq mistaken'
    BY DEF RequireChanges
  <2> QED BY <1>2, <1>3, <2>1 DEF Absent
<1>6. \A g \in ProtoFiles : Done(g) => DoneNext(g)
  BY <1>3, <1>5 DEF Done, DoneNext
<1>7. LoadedMeansDefined'
  <2>1. \A g \in ProtoFiles : Real(g)' = Real(g)
    BY <1>2 DEF Real, Has
  <2> QED BY <1>2, <1>4, <2>1 DEF CodeIInv, LoadedMeansDefined, Symbols
<1>8. StubsOnlyForMissing'
  BY <1>2, <1>5 DEF CodeIInv, StubsOnlyForMissing
<1> QED BY <1>1, <1>6, <1>7, <1>8

(* The require found nothing to compile, or what does not compile. *)
LEMMA ReturnStep ==
    ASSUME CodeIInv, RequireChanges, NEW f \in ProtoFiles, NEW below, BelowOK(below, f),
           stack' = below, DoneNext(f),
           \A g \in ProtoFiles : loaded'[g] = "loading" <=> loaded[g] = "loading",
           \A g \in ProtoFiles : loaded'[g] # "no" => Written(g)
    PROVE  CodeIInv'
<1>1. /\ Len(below) \in Nat
      /\ \A j \in 1 .. Len(below) : below[j].file \in ProtoFiles
  <2>1. \A j \in 1 .. Len(below) : below[j] \in StackEntry
    BY ElementOfSeq DEF BelowOK
  <2> QED BY <2>1 DEF StackEntry, BelowOK
<1>2. \A g \in ProtoFiles : Done(g) => DoneNext(g)
  BY RequireKeeps
<1>3. LoadOK'
  <2>1. loaded' \in [ProtoFiles -> {"no", "loading", "ok", "failed"}]
    BY DEF CodeIInv, LoadOK, RequireChanges
  <2>2. installed' = installed /\ response' = response
    BY DEF RequireChanges, gvars
  <2>3. \A g : Written(g)' = Written(g)
    BY <2>2 DEF Written
  <2> QED BY <2>1, <2>2, <2>3 DEF CodeIInv, LoadOK, BelowOK, StackEntry
<1>4. ASSUME NEW j \in 1 .. Len(below), NEW i \in 1 .. Len(dependency[below[j].file]),
             i < below[j].next
      PROVE  \/ DoneNext(dependency[below[j].file][i])
             \/ j < Len(below) /\ dependency[below[j].file][i] = below[j + 1].file
  <2>1. dependency[below[j].file][i] \in ProtoFiles
    BY <1>1, DependencyType
  <2>2. \/ Done(dependency[below[j].file][i])
        \/ dependency[below[j].file][i] = IF j < Len(below) THEN below[j + 1].file ELSE f
    BY <1>4 DEF BelowOK
  <2> QED BY <1>2, <2>1, <2>2
<1>5. \A j, k \in 1 .. Len(below) : j < k =>
          /\ below[k].file # below[j].file
          /\ mistaken' = {} => Depth[below[k].file] < Depth[below[j].file]
  BY DEF BelowOK, RequireChanges
<1>6. /\ \A j \in 1 .. Len(below) : loaded'[below[j].file] = "loading"
      /\ \A g \in ProtoFiles : loaded'[g] = "loading" => \E j \in 1 .. Len(below) : below[j].file = g
  BY <1>1 DEF BelowOK
<1>7. StackOK'
  BY <1>4, <1>5, <1>6 DEF StackOK, Done, DoneNext
<1> QED BY <1>3, <1>7, RequireKeeps DEF CodeIInv

(* The require pushes the module of f, or one that is taken for it. *)
LEMMA PushStep ==
    ASSUME CodeIInv, RequireChanges, NEW f \in ProtoFiles, NEW below, BelowOK(below, f),
           NEW g \in ProtoFiles, loaded[g] = "no", Written(g),
           loaded' = [loaded EXCEPT ![g] = "loading"],
           stack' = Append(below, [file |-> g, next |-> 1]),
           g = f \/ f \in mistaken',
           mistaken' = {} => \A j \in 1 .. Len(below) : Depth[g] < Depth[below[j].file]
    PROVE  CodeIInv'
<1>1. /\ Len(below) \in Nat
      /\ \A j \in 1 .. Len(below) : below[j].file \in ProtoFiles
  <2>1. \A j \in 1 .. Len(below) : below[j] \in StackEntry
    BY ElementOfSeq DEF BelowOK
  <2> QED BY <2>1 DEF StackEntry, BelowOK
<1>2. loaded \in [ProtoFiles -> {"no", "loading", "ok", "failed"}]
  BY DEF CodeIInv, LoadOK
<1>3. [file |-> g, next |-> 1] \in StackEntry
  BY DEF StackEntry
<1>4. /\ stack' \in Seq(StackEntry) /\ Len(stack') = Len(below) + 1
      /\ \A j \in 1 .. Len(below) : stack'[j] = below[j]
      /\ stack'[Len(below) + 1] = [file |-> g, next |-> 1]
  BY <1>3, AppendProperties DEF BelowOK
<1>5. LoadOK'
  <2>1. loaded' \in [ProtoFiles -> {"no", "loading", "ok", "failed"}]
    BY <1>2
  <2>2. installed' = installed /\ response' = response
    BY DEF RequireChanges, gvars
  <2>3. \A x : Written(x)' = Written(x)
    BY <2>2 DEF Written
  <2>4. \A x \in ProtoFiles : loaded'[x] # "no" => Written(x)
    BY <1>2 DEF CodeIInv, LoadOK
  <2> QED BY <1>4, <2>1, <2>2, <2>3, <2>4 DEF CodeIInv, LoadOK, StackEntry
<1>6. \A j \in 1 .. Len(below) : below[j].file # g
  BY DEF BelowOK
<1>7. \A j \in 1 .. Len(stack') : loaded'[stack'[j].file] = "loading"
  <2>1. \A j \in 1 .. Len(below) : loaded'[below[j].file] = "loading"
    BY <1>1, <1>2, <1>6 DEF BelowOK
  <2>2. loaded'[g] = "loading"
    BY <1>2
  <2> QED BY <1>1, <1>4, <2>1, <2>2
<1>8. ASSUME NEW x \in ProtoFiles, loaded'[x] = "loading"
      PROVE  \E j \in 1 .. Len(stack') : stack'[j].file = x
  <2>1. CASE x = g
    BY <1>1, <1>4, <2>1
  <2>2. CASE x # g
    <3>1. PICK j \in 1 .. Len(below) : below[j].file = x
      BY <1>2, <1>8, <2>2 DEF BelowOK
    <3> QED BY <1>1, <1>4, <3>1
  <2> QED BY <2>1, <2>2
<1>9. ASSUME NEW j \in 1 .. Len(stack'), NEW k \in 1 .. Len(stack'), j < k
      PROVE  /\ stack'[k].file # stack'[j].file
             /\ mistaken' = {} => Depth[stack'[k].file] < Depth[stack'[j].file]
  <2>1. j \in 1 .. Len(below) /\ stack'[j] = below[j]
    BY <1>1, <1>4, <1>9
  <2>2. CASE k = Len(below) + 1
    BY <1>4, <1>6, <2>1, <2>2
  <2>3. CASE k \in 1 .. Len(below)
    BY <1>4, <1>9, <2>1, <2>3 DEF BelowOK, RequireChanges
  <2> QED BY <1>1, <1>4, <2>2, <2>3
<1>10. ASSUME NEW j \in 1 .. Len(stack'), NEW i \in 1 .. Len(dependency[stack'[j].file]),
              i < stack'[j].next
       PROVE  \/ DoneNext(dependency[stack'[j].file][i])
              \/ j < Len(stack') /\ dependency[stack'[j].file][i] = stack'[j + 1].file
  <2>1. CASE j = Len(below) + 1
    <3>1. Len(dependency[g]) \in Nat
      BY DependencyType
    <3> QED BY <1>4, <1>10, <2>1, <3>1
  <2>2. CASE j \in 1 .. Len(below)
    <3> DEFINE d == dependency[below[j].file][i]
    <3>1. stack'[j] = below[j] /\ j < Len(stack') /\ below[j].file \in ProtoFiles
      BY <1>1, <1>4, <2>2
    <3>2. d \in ProtoFiles
      BY <1>10, <3>1, DependencyType
    <3>3. stack'[j + 1].file = IF j < Len(below) THEN below[j + 1].file ELSE g
      BY <1>1, <1>4, <2>2
    <3>4. Done(d) \/ d = IF j < Len(below) THEN below[j + 1].file ELSE f
      BY <1>10, <2>2, <3>1 DEF BelowOK
    <3>5. f # g => DoneNext(f)
      BY DEF DoneNext, Absent
    <3>6. Done(d) => DoneNext(d)
      BY <3>2, RequireKeeps
    <3> HIDE DEF d
    <3>7. DoneNext(d) \/ d = stack'[j + 1].file
      BY <3>3, <3>4, <3>5, <3>6
    <3> QED BY <3>1, <3>7 DEF d
  <2> QED BY <1>1, <1>4, <2>1, <2>2
<1>11. StackOK'
  BY <1>7, <1>8, <1>9, <1>10 DEF StackOK, Done, DoneNext
<1> QED BY <1>5, <1>11, RequireKeeps DEF CodeIInv

(* A module that was not begun is compiled, or is failed at once. *)
LEMMA CompileStep ==
    ASSUME CodeIInv, NEW f \in ProtoFiles, NEW g \in ProtoFiles, NEW below, BelowOK(below, f),
           loaded[g] = "no", Written(g), Compile(g, below),
           UNCHANGED <<gvars, pvars, installed, hollow>>,
           missed \subseteq missed', mistaken \subseteq mistaken',
           g = f \/ f \in mistaken',
           mistaken' = {} => \A j \in 1 .. Len(below) : Depth[g] < Depth[below[j].file]
    PROVE  CodeIInv'
<1>1. loaded \in [ProtoFiles -> {"no", "loading", "ok", "failed"}]
  BY DEF CodeIInv, LoadOK
<1>2. CASE /\ loaded' = [loaded EXCEPT ![g] = "loading"]
           /\ stack' = Append(below, [file |-> g, next |-> 1])
  <2>1. RequireChanges
    BY <1>2 DEF RequireChanges
  <2> QED BY <1>2, <2>1, PushStep
<1>3. CASE loaded' = [loaded EXCEPT ![g] = "failed"] /\ stack' = below
  <2>1. RequireChanges
    BY <1>3 DEF RequireChanges
  <2>2. DoneNext(f)
    BY <1>1, <1>3 DEF DoneNext, Absent
  <2>3. \A x \in ProtoFiles : loaded'[x] = "loading" <=> loaded[x] = "loading"
    BY <1>1, <1>3
  <2>4. \A x \in ProtoFiles : loaded'[x] # "no" => Written(x)
    BY <1>1, <1>3 DEF CodeIInv, LoadOK
  <2> QED BY <1>3, <2>1, <2>2, <2>3, <2>4, ReturnStep
<1> QED BY <1>2, <1>3 DEF Compile

LEMMA RequireStep ==
    ASSUME CodeIInv, NEW f \in ProtoFiles, Require(f)
    PROVE  CodeIInv'
<1> DEFINE below == stack
<1>1. below = <<>> /\ Len(below) = 0 /\ below \in Seq(StackEntry)
  BY EmptySeq DEF Require
<1>2. /\ Compile(f, below) /\ loaded[f] = "no"
      /\ UNCHANGED <<gvars, pvars, installed, hollow>> /\ missed' = missed /\ mistaken' = mistaken
  BY DEF Require
<1>3. Written(f)
  BY <1>2 DEF Require, Answer, Begun, CodeIInv, LoadOK
<1>4. \A g \in ProtoFiles : loaded[g] # "loading"
  BY <1>1 DEF CodeIInv, StackOK
<1> HIDE DEF below
<1>5. 1 .. Len(below) = {}
  BY <1>1
<1>6. BelowOK(below, f)
  BY <1>1, <1>4, <1>5 DEF BelowOK
<1> QED BY <1>2, <1>3, <1>5, <1>6, CompileStep

LEMMA RequireImportStep ==
    ASSUME CodeIInv, RequireImport
    PROVE  CodeIInv'
<1> DEFINE top == [Top EXCEPT !.next = @ + 1]
           below == Append(Below, top)
           f == dependency[Top.file][Top.next]
           name == GetPerlPackage(f)
<1>0. LoadOK /\ StackOK /\ ResponseOK
  BY DEF CodeIInv
<1>1. stack # <<>>
  BY DEF RequireImport
<1>2. /\ Len(stack) \in Nat \ {0}
      /\ Top \in StackEntry /\ Top = stack[Len(stack)]
      /\ Written(Top.file) /\ Top.file \in ProtoFiles
      /\ loaded[Top.file] = "loading"
      /\ Below \in Seq(StackEntry) /\ Len(Below) = Len(stack) - 1
      /\ \A j \in 1 .. Len(Below) : Below[j] = stack[j]
  BY <1>0, <1>1, TopOfStack
<1>3. /\ Len(Module(Top.file).requires) = Len(dependency[Top.file])
      /\ \A i \in 1 .. Len(dependency[Top.file]) :
            Module(Top.file).requires[i] = GetPerlPackage(dependency[Top.file][i])
  BY <1>0, <1>2, ModuleOfFile
<1>4. /\ Top.next <= Len(dependency[Top.file])
      /\ RequireName(Module(Top.file).requires[Top.next], f, below)
      /\ UNCHANGED <<gvars, pvars, installed, hollow, preloaded>>
  BY <1>3 DEF RequireImport
<1>5. Top.next \in 1 .. Len(dependency[Top.file])
  BY <1>2, <1>4, DependencyType DEF StackEntry
<1>6. /\ f \in ProtoFiles /\ Depth[f] < Depth[Top.file]
      /\ mistaken = {} => loaded[f] # "loading"
      /\ RequireName(name, f, below)
  <2>1. f \in ProtoFiles /\ Depth[f] < Depth[Top.file]
    BY <1>2, <1>5, DependencyType, DepthDecreases
  <2>2. mistaken = {} => loaded[f] # "loading"
    BY <1>0, <1>1, <1>5, ImportIsNotLoading
  <2>3. Module(Top.file).requires[Top.next] = name
    BY <1>3, <1>5
  <2> QED BY <1>4, <2>1, <2>2, <2>3
<1>7. top \in StackEntry /\ top.file = Top.file /\ top.next = Top.next + 1
  BY <1>2 DEF StackEntry
<1> HIDE DEF top, f, name
<1>8. /\ below \in Seq(StackEntry) /\ Len(below) = Len(stack)
      /\ \A j \in 1 .. Len(stack) - 1 : below[j] = stack[j]
      /\ below[Len(stack)] = top
  BY <1>2, <1>7, AppendProperties
<1> HIDE DEF below
<1>9. \A j \in 1 .. Len(stack) : below[j].file = stack[j].file
  BY <1>2, <1>7, <1>8
<1>10. \A j \in 1 .. Len(stack) : stack[j].file \in ProtoFiles
  <2>1. \A j \in 1 .. Len(stack) : stack[j] \in StackEntry
    BY <1>0, ElementOfSeq DEF LoadOK, StackEntry
  <2> QED BY <2>1 DEF StackEntry
<1>11. ASSUME mistaken = {}, NEW j \in 1 .. Len(below)
       PROVE  Depth[f] < Depth[below[j].file]
  <2>1. j = Len(stack) \/ Depth[Top.file] < Depth[stack[j].file]
    BY <1>0, <1>2, <1>8, <1>11 DEF StackOK
  <2>2. Depth[f] \in Nat /\ Depth[Top.file] \in Nat /\ Depth[stack[j].file] \in Nat
    BY <1>2, <1>6, <1>8, <1>10, DepthDecreases
  <2> QED BY <1>2, <1>6, <1>8, <1>9, <2>1, <2>2
<1>12. ASSUME NEW j \in 1 .. Len(below), NEW i \in 1 .. Len(dependency[below[j].file]),
              i < below[j].next
       PROVE  \/ Done(dependency[below[j].file][i])
              \/ dependency[below[j].file][i] = IF j < Len(below) THEN below[j + 1].file ELSE f
  <2>1. CASE j < Len(stack)
    <3>1. below[j] = stack[j] /\ below[j + 1].file = stack[j + 1].file
      BY <1>2, <1>8, <1>9, <2>1
    <3> QED BY <1>0, <1>8, <1>12, <2>1, <3>1 DEF StackOK
  <2>2. CASE j = Len(stack)
    <3>1. below[j].file = Top.file /\ below[j].next = Top.next + 1
      BY <1>7, <1>8, <2>2
    <3>2. CASE i = Top.next
      BY <1>8, <2>2, <3>1, <3>2 DEF f
    <3>3. CASE i < Top.next
      BY <1>0, <1>2, <1>12, <3>1, <3>3 DEF StackOK
    <3> QED BY <1>5, <1>12, <3>1, <3>2, <3>3
  <2> QED BY <1>2, <1>8, <2>1, <2>2
<1>13. BelowOK(below, f)
  <2>1. /\ \A j \in 1 .. Len(below) : loaded[below[j].file] = "loading"
        /\ \A g \in ProtoFiles : loaded[g] = "loading" => \E j \in 1 .. Len(below) : below[j].file = g
    BY <1>0, <1>8, <1>9 DEF StackOK
  <2>2. \A j, k \in 1 .. Len(below) : j < k =>
            /\ below[k].file # below[j].file
            /\ mistaken = {} => Depth[below[k].file] < Depth[below[j].file]
    BY <1>0, <1>8, <1>9 DEF StackOK
  <2> QED BY <1>8, <1>12, <2>1, <2>2 DEF BelowOK
<1>14. loaded \in [ProtoFiles -> {"no", "loading", "ok", "failed"}]
       /\ \A x \in ProtoFiles : loaded[x] # "no" => Written(x)
  BY <1>0 DEF LoadOK
<1>15. CASE stack' = below /\ missed' = missed \cup {f} /\ UNCHANGED <<loaded, mistaken>>
  <2>1. RequireChanges
    BY <1>4, <1>15 DEF RequireChanges
  <2>2. DoneNext(f)
    BY <1>15 DEF DoneNext, Absent
  <2> QED BY <1>6, <1>13, <1>14, <1>15, <2>1, <2>2, ReturnStep
<1>16. ASSUME NEW g \in Answer(name), Begin(g, below), mistaken' = mistaken \cup ({f} \ {g}),
              UNCHANGED missed
       PROVE  CodeIInv'
  <2>1. g \in ProtoFiles /\ Written(g)
    BY <1>0, <1>14 DEF Answer, Begun, Named, LoadOK
  <2>2. (g = f \/ f \in mistaken') /\ mistaken \subseteq mistaken' /\ missed \subseteq missed'
    BY <1>16
  <2>3. mistaken' = {} => g = f /\ mistaken = {}
    BY <1>16
  <2>4. CASE loaded[g] = "no"
    <3>1. Compile(g, below)
      BY <1>16, <2>4 DEF Begin
    <3>2. mistaken' = {} => \A j \in 1 .. Len(below) : Depth[g] < Depth[below[j].file]
      BY <1>11, <2>3
    <3> QED BY <1>4, <1>6, <1>13, <2>1, <2>2, <2>4, <3>1, <3>2, CompileStep
  <2>5. CASE loaded[g] # "no"
    <3>1. stack' = below /\ loaded' = loaded
      BY <1>16, <2>5 DEF Begin
    <3>2. RequireChanges
      BY <1>4, <2>2, <3>1 DEF RequireChanges
    <3>3. DoneNext(f)
      <4>1. CASE f \in mistaken'
        BY <4>1 DEF DoneNext, Absent
      <4>2. CASE f \notin mistaken'
        <5>1. g = f /\ loaded[f] \in {"loading", "ok", "failed"} /\ loaded'[f] = loaded[f]
          BY <1>6, <1>14, <2>2, <2>5, <3>1, <4>2
        <5>2. loaded[f] = "loading" => mistaken' # {}
          BY <1>6, <2>2
        <5> QED BY <1>6, <5>1, <5>2 DEF DoneNext, Absent
      <4> QED BY <4>1, <4>2
    <3> QED BY <1>6, <1>13, <1>14, <3>1, <3>2, <3>3, ReturnStep
  <2> QED BY <2>4, <2>5
<1> QED BY <1>6, <1>15, <1>16 DEF RequireName

(* The module on top is done; the one below has its import behind it. *)
LEMMA FinishStep ==
    ASSUME CodeIInv, stack # <<>>, NEW how \in {"ok", "failed"}, Finish(how),
           UNCHANGED <<installed, missed, mistaken, response>>, hollow \subseteq hollow'
    PROVE  LoadOK' /\ StackOK'
<1>0. LoadOK /\ StackOK
  BY DEF CodeIInv
<1>1. /\ Len(stack) \in Nat \ {0}
      /\ Top = stack[Len(stack)] /\ Written(Top.file) /\ Top.file \in ProtoFiles
      /\ Below \in Seq(StackEntry) /\ Len(Below) = Len(stack) - 1
      /\ \A j \in 1 .. Len(Below) : Below[j] = stack[j]
  BY <1>0, TopOfStack
<1>2. /\ stack' \in Seq(StackEntry) /\ Len(stack') = Len(stack) - 1
      /\ \A j \in 1 .. Len(stack') : stack'[j] = stack[j]
      /\ loaded' = [loaded EXCEPT ![Top.file] = how]
  BY <1>1 DEF Finish
<1>3. loaded \in [ProtoFiles -> {"no", "loading", "ok", "failed"}]
  BY <1>0 DEF LoadOK
<1>4. LoadOK'
  <2>1. loaded' \in [ProtoFiles -> {"no", "loading", "ok", "failed"}]
    BY <1>2, <1>3
  <2>2. \A x : Written(x)' = Written(x)
    BY DEF Written
  <2>3. \A x \in ProtoFiles : loaded'[x] # "no" => Written(x)
    BY <1>0, <1>1, <1>2, <1>3 DEF LoadOK
  <2> QED BY <1>0, <1>2, <2>1, <2>2, <2>3 DEF LoadOK, StackEntry
<1>5. \A j \in 1 .. Len(stack) : stack[j].file \in ProtoFiles
  <2>1. \A j \in 1 .. Len(stack) : stack[j] \in StackEntry
    BY <1>0, ElementOfSeq DEF LoadOK, StackEntry
  <2> QED BY <2>1 DEF StackEntry
<1>6. \A j \in 1 .. Len(stack') : stack'[j].file # Top.file
  BY <1>0, <1>1, <1>2 DEF StackOK
<1>7. \A j \in 1 .. Len(stack') : loaded'[stack'[j].file] = "loading"
  BY <1>0, <1>1, <1>2, <1>3, <1>5, <1>6 DEF StackOK
<1>8. ASSUME NEW g \in ProtoFiles, loaded'[g] = "loading"
      PROVE  \E j \in 1 .. Len(stack') : stack'[j].file = g
  <2>1. g # Top.file /\ loaded[g] = "loading"
    BY <1>2, <1>3, <1>8
  <2>2. PICK j \in 1 .. Len(stack) : stack[j].file = g
    BY <1>0, <2>1 DEF StackOK
  <2>3. j \in 1 .. Len(stack')
    BY <1>1, <1>2, <2>1, <2>2
  <2> QED BY <1>2, <2>2, <2>3
<1>9. ASSUME NEW j \in 1 .. Len(stack'), NEW k \in 1 .. Len(stack'), j < k
      PROVE  /\ stack'[k].file # stack'[j].file
             /\ mistaken' = {} => Depth[stack'[k].file] < Depth[stack'[j].file]
  <2>1. /\ j \in 1 .. Len(stack) /\ k \in 1 .. Len(stack)
        /\ stack'[j] = stack[j] /\ stack'[k] = stack[k]
    BY <1>1, <1>2
  <2> QED BY <1>0, <1>9, <2>1 DEF StackOK
<1>10. ASSUME NEW g \in ProtoFiles, Done(g)
       PROVE  DoneNext(g)
  <2>1. CASE g = Top.file
    <3>1. loaded'[g] \in {"ok", "failed"}
      BY <1>2, <1>3, <2>1
    <3> QED BY <3>1 DEF DoneNext, Absent
  <2>2. CASE g # Top.file
    <3>1. loaded'[g] = loaded[g]
      BY <1>2, <1>3, <2>2
    <3> QED BY <1>10, <3>1 DEF Done, DoneNext, Absent
  <2> QED BY <2>1, <2>2
<1>11. DoneNext(Top.file)
  <2>1. loaded'[Top.file] \in {"ok", "failed"}
    BY <1>1, <1>2, <1>3
  <2> QED BY <1>1, <2>1 DEF DoneNext, Absent
<1>12. ASSUME NEW j \in 1 .. Len(stack'), NEW i \in 1 .. Len(dependency[stack'[j].file]),
              i < stack'[j].next
       PROVE  \/ DoneNext(dependency[stack'[j].file][i])
              \/ j < Len(stack') /\ dependency[stack'[j].file][i] = stack'[j + 1].file
  <2>1. /\ j \in 1 .. Len(stack) /\ j < Len(stack) /\ stack'[j] = stack[j]
        /\ stack[j].file \in ProtoFiles
    BY <1>1, <1>2, <1>5
  <2>2. dependency[stack[j].file][i] \in ProtoFiles
    BY <1>12, <2>1, DependencyType
  <2>3. \/ Done(dependency[stack[j].file][i])
        \/ dependency[stack[j].file][i] = stack[j + 1].file
    BY <1>0, <1>12, <2>1 DEF StackOK
  <2>4. \/ j < Len(stack') /\ stack'[j + 1] = stack[j + 1]
        \/ stack[j + 1] = Top
    BY <1>1, <1>2, <2>1
  <2> QED BY <1>10, <1>11, <2>1, <2>2, <2>3, <2>4
<1>13. StackOK'
  BY <1>7, <1>8, <1>9, <1>12 DEF StackOK, Done, DoneNext
<1> QED BY <1>4, <1>13

LEMMA AddOwnFileStep ==
    ASSUME CodeIInv, AddOwnFile
    PROVE  CodeIInv'
<1> DEFINE f == Top.file
<1>0. ResponseOK /\ PoolOK /\ LoadOK /\ StackOK /\ StubsOnlyForMissing /\ LoadedMeansDefined
  BY DEF CodeIInv
<1>1. stack # <<>> /\ UNCHANGED <<gvars, installed, missed, mistaken, preloaded>>
  BY DEF AddOwnFile
<1>2. Written(f) /\ f \in ProtoFiles /\ loaded[f] = "loading"
  BY <1>0, <1>1, TopOfStack
<1>3. /\ Len(Module(f).requires) = Len(dependency[f])
      /\ Described(Decode(Module(f).b64)) = f
  BY <1>0, <1>2, ModuleOfFile
<1>4. /\ Top.next > Len(dependency[f])
      /\ \/ Added(f) /\ (Finish("ok") \/ Finish("failed")) /\ UNCHANGED hollow
         \/ (GaveUp(f) \/ Ignored(f)) /\ Finish("ok") /\ hollow' = hollow \cup {f}
         \/ Died(f) /\ Finish("failed") /\ UNCHANGED hollow
  BY <1>3 DEF AddOwnFile
<1>5. PICK how \in {"ok", "failed"} : Finish(how)
  BY <1>4
<1>6. /\ installed' = installed /\ missed' = missed /\ mistaken' = mistaken
      /\ response' = response /\ hollow \subseteq hollow'
      /\ loaded' = [loaded EXCEPT ![f] = how]
      /\ loaded \in [ProtoFiles -> {"no", "loading", "ok", "failed"}]
  BY <1>0, <1>1, <1>4, <1>5 DEF gvars, Finish, LoadOK
<1>7. LoadOK' /\ StackOK'
  BY <1>1, <1>5, <1>6, FinishStep
<1>8. ResponseOK'
  BY <1>0, <1>6 DEF ResponseOK
<1>9. PoolGrows(f)
  BY <1>0, <1>2, <1>4, AddedGrows, OthersGrow
<1>10. \A g \in Imports(f) : Real(g) \/ g \in Absent
  BY <1>1, <1>4, ImportsAccounted
<1>11. ASSUME NEW g \in ProtoFiles, g \in Absent, g # f
       PROVE  g \in Absent'
  <2>1. loaded'[g] = loaded[g]
    BY <1>2, <1>6, <1>11
  <2> QED BY <1>6, <1>11, <2>1 DEF Absent
<1>12. ASSUME Added(f)
       PROVE  StubsOnlyForMissing'
  <2>1. f \notin DOMAIN files /\ Symbols(f) \cap stubbed = {}
    BY <1>12 DEF Added, Duplicate, Has
  <2>2. files'[f] = "real"
    BY <1>0, <1>2, <1>12, AddedGrows DEF Real
  <2>3. ASSUME NEW g \in DOMAIN files', files'[g] = "stub"
        PROVE  g \in Absent'
    <3>1. g \in ProtoFiles /\ g # f /\ (g \in MissingFiles(f) \/ (g \in DOMAIN files /\ files[g] = "stub"))
      BY <1>9, <2>2, <2>3 DEF PoolGrows, PoolOK
    <3>2. g \in MissingFiles(f) => g \in Absent
      BY <1>10 DEF MissingFiles, Real
    <3>3. g \in DOMAIN files /\ files[g] = "stub" => g \in Absent
      BY <1>0 DEF StubsOnlyForMissing
    <3> QED BY <1>11, <3>1, <3>2, <3>3
  <2>4. ASSUME NEW u \in stubbed'
        PROVE  u[1] \in Absent'
    <3>1. u \in Types \cup Enums /\ u[1] \in ProtoFiles
      BY <1>9 DEF PoolGrows, PoolOK, Types, Enums
    <3>2. CASE u \in stubbed
      <4>1. u[1] # f /\ u[1] \in Absent
        BY <1>0, <2>1, <3>1, <3>2 DEF Symbols, StubsOnlyForMissing
      <4> QED BY <1>11, <3>1, <4>1
    <3>3. CASE u \in MissingTypes(f)
      <4>1. u[1] # f /\ u[1] \in Absent
        BY <1>2, <1>10, <3>3, UsesAreImported DEF MissingTypes
      <4> QED BY <1>11, <3>1, <4>1
    <3> QED BY <1>9, <3>2, <3>3 DEF PoolGrows
  <2> QED BY <2>3, <2>4 DEF StubsOnlyForMissing
<1>13. ASSUME ~ Added(f)
       PROVE  StubsOnlyForMissing'
  <2>1. f \in Absent'
    <3>1. \/ hollow' = hollow \cup {f}
          \/ Finish("failed")
      BY <1>4, <1>13
    <3>2. Finish("failed") => loaded'[f] = "failed"
      BY <1>2, <1>6 DEF Finish
    <3> QED BY <1>2, <3>1, <3>2 DEF Absent
  <2>2. \A g \in ProtoFiles : g \in Absent => g \in Absent'
    BY <1>11, <2>1
  <2>3. \A g \in MissingFiles(f) : g \in Absent
    BY <1>10 DEF MissingFiles, Real
  <2>4. \A u \in MissingTypes(f) : u[1] \in Absent
    BY <1>2, <1>10, UsesAreImported DEF MissingTypes
  <2>5. \A g \in DOMAIN files' : files'[g] = "stub" => g \in Absent'
    BY <1>0, <1>9, <2>2, <2>3 DEF PoolGrows, PoolOK, StubsOnlyForMissing
  <2>6. ASSUME NEW u \in stubbed'
        PROVE  u[1] \in Absent'
    <3>1. u[1] \in ProtoFiles
      BY <1>9 DEF PoolGrows, PoolOK, Types, Enums
    <3>2. u[1] \in Absent
      BY <1>0, <1>9, <2>4 DEF PoolGrows, StubsOnlyForMissing
    <3> QED BY <2>2, <3>1, <3>2
  <2> QED BY <2>5, <2>6 DEF StubsOnlyForMissing
<1>14. StubsOnlyForMissing'
  BY <1>12, <1>13
<1>15. ASSUME NEW g \in ProtoFiles \ hollow', loaded'[g] = "ok"
       PROVE  Real(g)' /\ Symbols(g) \cap stubbed' = {}
  <2>1. CASE g = f
    <3>1. Added(f)
      <4>1. f \notin hollow'
        BY <1>15, <2>1
      <4>2. loaded'[f] = "ok"
        BY <1>15, <2>1
      <4>3. ~ Finish("failed")
        BY <1>2, <1>6, <4>2 DEF Finish
      <4> QED BY <1>4, <4>1, <4>3
    <3> QED BY <1>0, <1>2, <2>1, <3>1, AddedGrows
  <2>2. CASE g # f
    <3>1. loaded[g] = "ok" /\ g \in ProtoFiles \ hollow
      BY <1>2, <1>4, <1>6, <1>15, <2>2
    <3>2. Real(g) /\ Symbols(g) \cap stubbed = {}
      BY <1>0, <3>1 DEF LoadedMeansDefined
    <3>3. Symbols(g) \cap MissingTypes(f) = {}
      BY <3>2 DEF Symbols, MissingTypes
    <3> QED BY <1>9, <3>2, <3>3 DEF PoolGrows
  <2> QED BY <2>1, <2>2
<1>16. LoadedMeansDefined'
  BY <1>15 DEF LoadedMeansDefined, Symbols
<1> QED BY <1>7, <1>8, <1>9, <1>14, <1>16 DEF CodeIInv, PoolGrows

(* The plugin, an installation and the program between requires. *)
LEMMA RunPluginStep ==
    ASSUME CodeIInv, RunPlugin
    PROVE  CodeIInv'
<1>1. /\ response' = response \cup {[module |-> GenerateModule(g), types |-> GenerateTypes(g)] :
                                        g \in {Head(todo)} \cap ProtoFiles}
      /\ UNCHANGED <<pvars, lvars>>
  BY DEF RunPlugin, Generate
<1>2. ResponseOK'
  BY <1>1 DEF CodeIInv, ResponseOK
<1>3. PoolOK' /\ StackOK' /\ StubsOnlyForMissing' /\ LoadedMeansDefined'
  BY <1>1 DEF CodeIInv, PoolOK, StackOK, Done, Absent, StubsOnlyForMissing, LoadedMeansDefined,
              Symbols, Real, Has, pvars, lvars
<1>4. LoadOK'
  <2>1. \A g : Written(g) => Written(g)'
    BY <1>1 DEF Written
  <2> QED BY <1>1, <2>1 DEF CodeIInv, LoadOK, lvars
<1> QED BY <1>2, <1>3, <1>4 DEF CodeIInv

LEMMA InstallStep ==
    ASSUME CodeIInv, NEW f \in ProtoFiles, Install(f)
    PROVE  CodeIInv'
<1>1. /\ Written(f)
      /\ installed' \subseteq installed \cup {f}
      /\ UNCHANGED <<gvars, pvars, loaded, stack, missed, mistaken, hollow, preloaded>>
  BY DEF Install, Written
<1>2. ResponseOK' /\ PoolOK' /\ StackOK' /\ StubsOnlyForMissing' /\ LoadedMeansDefined'
  BY <1>1 DEF CodeIInv, ResponseOK, PoolOK, StackOK, Done, Absent, StubsOnlyForMissing,
              LoadedMeansDefined, Symbols, Real, Has, gvars, pvars
<1>3. LoadOK'
  <2>1. \A g : Written(g)' = Written(g)
    BY <1>1 DEF Written, gvars
  <2> QED BY <1>1, <2>1 DEF CodeIInv, LoadOK
<1> QED BY <1>2, <1>3 DEF CodeIInv

LEMMA ProgramAddsSetStep ==
    ASSUME CodeIInv, NEW fs, ProgramAddsSet(fs)
    PROVE  CodeIInv'
<1>1. /\ AddSet(fs)
      /\ UNCHANGED <<gvars, installed, loaded, stack, missed, mistaken, hollow>>
  BY DEF ProgramAddsSet
<1>2. /\ PoolOK' /\ stubbed' = stubbed
      /\ \A g \in ProtoFiles : Real(g) => Real(g)'
      /\ \A g \in DOMAIN files' : files'[g] = "stub" => g \in DOMAIN files /\ files[g] = "stub"
  BY <1>1, SetGrows DEF CodeIInv
<1>3. ResponseOK' /\ LoadOK' /\ StackOK'
  BY <1>1 DEF CodeIInv, ResponseOK, LoadOK, Written, StackOK, Done, Absent, gvars
<1>4. StubsOnlyForMissing'
  BY <1>1, <1>2 DEF CodeIInv, StubsOnlyForMissing, Absent
<1>5. LoadedMeansDefined'
  BY <1>1, <1>2 DEF CodeIInv, LoadedMeansDefined, Symbols
<1> QED BY <1>2, <1>3, <1>4, <1>5 DEF CodeIInv

LEMMA QuietStep ==
    ASSUME CodeIInv, UNCHANGED <<gvars, files, stubbed, lvars>>
    PROVE  CodeIInv'
BY DEF CodeIInv, ResponseOK, PoolOK, LoadOK, Written, StackOK, Done, Absent, StubsOnlyForMissing,
       LoadedMeansDefined, Symbols, Real, Has, gvars, lvars

-----------------------------------------------------------------------------
(* The theorems. *)

(* What is true of the plugin's modules, the pool and the modules being     *)
(* compiled, whatever the program requires, installs, adds or freezes and  *)
(* in whatever order: the invariant of the generated code.                 *)
THEOREM CodeInvariance == Spec => []CodeIInv
<1>1. CodeIInv /\ [Next]_vars => CodeIInv'
  <2> SUFFICES ASSUME CodeIInv, [Next]_vars
               PROVE  CodeIInv'
    OBVIOUS
  <2>1. CASE RunPlugin
    BY <2>1, RunPluginStep
  <2>2. CASE \E f \in ProtoFiles : Install(f) \/ Require(f)
    BY <2>2, InstallStep, RequireStep
  <2>3. CASE RequireImport
    BY <2>3, RequireImportStep
  <2>4. CASE AddOwnFile
    BY <2>4, AddOwnFileStep
  <2>5. CASE \E fs \in SUBSET ProtoFiles : ProgramAddsSet(fs)
    BY <2>5, ProgramAddsSetStep
  <2>6. CASE ProgramFreezes
    <3>1. UNCHANGED <<gvars, files, stubbed, lvars>>
      BY <2>6 DEF ProgramFreezes, Freeze, DropWrapper
    <3> QED BY <3>1, QuietStep
  <2>7. CASE UNCHANGED vars
    <3>1. UNCHANGED <<gvars, files, stubbed, lvars>>
      BY <2>7 DEF vars, pvars
    <3> QED BY <3>1, QuietStep
  <2> QED BY <2>1, <2>2, <2>3, <2>4, <2>5, <2>6, <2>7 DEF Next
<1> QED BY <1>1, CodeInit, PTL DEF Spec

(* Whatever the order in which the modules are required, a stub is made     *)
(* only for a file whose module was required and was not there, was taken  *)
(* for another file's of its name, loaded without its file, or died, or,   *)
(* when one was taken for another, is still being compiled.                *)
THEOREM StubsAreForMissing == Spec => []StubsOnlyForMissing
<1>1. CodeIInv => StubsOnlyForMissing
  BY DEF CodeIInv
<1> QED BY <1>1, CodeInvariance, PTL

(* A module that loads without an error has its file and its types in      *)
(* the pool, unless add_serialized_file gave up in silence.                *)
THEOREM LoadedIsDefined == Spec => []LoadedMeansDefined
<1>1. CodeIInv => LoadedMeansDefined
  BY DEF CodeIInv
<1> QED BY <1>1, CodeInvariance, PTL
-----------------------------------------------------------------------------
(* The names of the classes. *)

Segments == Seq(Seq(Words))

LEMMA UpperWord ==
    ASSUME NEW word \in Words
    PROVE  /\ Upper(word) \in Words /\ Upper(word).cap # "small"
           /\ word.cap # "small" => Upper(word) = word
           /\ Segment(word) \in Segments /\ Segment(word)[1][1] = word
<1>1. word = [w |-> word.w, cap |-> word.cap] /\ word.w \in STRING \ {""}
      /\ word.cap \in {"small", "capital", "none"}
  BY DEF Words
<1>2. /\ Upper(word) \in Words /\ Upper(word).cap # "small"
      /\ word.cap # "small" => Upper(word) = word
  <2>1. ASSUME word.cap = "small"
        PROVE  Upper(word) \in Words /\ Upper(word).cap # "small"
    <3> DEFINE W == STRING \ {""}
               B == {"small", "capital", "none"}
               v == "capital"
    <3>1. word \in [w : W, cap : B]
      BY DEF Words
    <3> HIDE DEF W, B
    <3>2. [word EXCEPT !.cap = v] = [w |-> word.w, cap |-> v]
      BY <3>1
    <3>3. Upper(word) = [w |-> word.w, cap |-> v]
      BY <2>1, <3>2 DEF Upper
    <3>4. [w |-> word.w, cap |-> v] \in Words
      BY <1>1 DEF Words
    <3> QED BY <3>3, <3>4
  <2>2. word.cap # "small" => Upper(word) = word
    BY DEF Upper
  <2> QED BY <2>1, <2>2
<1>3. Segment(word) \in Segments /\ Segment(word)[1][1] = word
  <2> HIDE DEF Words
  <2> QED BY DEF Segment, Segments
<1> QED BY <1>2, <1>3

(* A name as the segments of a class, as it is and capitalized. *)
LEMMA NameSegments ==
    ASSUME NEW name \in Seq(Words)
    PROVE  /\ FullNameToClassName(name) \in Seq(Segments)
           /\ Len(FullNameToClassName(name)) = Len(name)
           /\ \A i \in 1 .. Len(name) : FullNameToClassName(name)[i] = Segment(name[i])
           /\ CapitalizePackage(name) \in Seq(Segments)
           /\ Len(CapitalizePackage(name)) = Len(name)
           /\ \A i \in 1 .. Len(name) : CapitalizePackage(name)[i] = Segment(Upper(name[i]))
           /\ capitalize_path(name) = CapitalizePackage(name)
<1>1. Len(name) \in Nat /\ DOMAIN name = 1 .. Len(name)
  OBVIOUS
<1>2. \A i \in 1 .. Len(name) : name[i] \in Words
  BY ElementOfSeq
<1>3. \A i \in 1 .. Len(name) :
          Segment(name[i]) \in Segments /\ Segment(Upper(name[i])) \in Segments
  BY <1>2, UpperWord
<1>4. /\ FullNameToClassName(name) = [i \in 1 .. Len(name) |-> Segment(name[i])]
      /\ CapitalizePackage(name) = [i \in 1 .. Len(name) |-> Segment(Upper(name[i]))]
      /\ capitalize_path(name) = CapitalizePackage(name)
  BY <1>1 DEF FullNameToClassName, CapitalizePackage, capitalize_path
<1> HIDE DEF FullNameToClassName, CapitalizePackage, Segments, Segment
<1> QED BY <1>1, <1>3, <1>4

LEMMA FileNames ==
    ASSUME NEW f \in ProtoFiles
    PROVE  /\ package[f] \in Seq(Words)
           /\ \A name \in messages[f] : name \in Seq(Words)
           /\ FileSegment(f) \in Segments /\ get_file_module(f) \in Segments
           /\ (FileSegment(f) = get_file_module(f)) <=> Len(basename[f]) = 2
<1> DEFINE base == basename[f]
<1>1. /\ package[f] \in Seq(Words)
      /\ \A name \in messages[f] : name \in Seq(Words)
      /\ base \in Seq(Seq(Words)) /\ Len(base) > 1
  BY GeneratorAssumption
<1>2. \A p \in 1 .. Len(base) : base[p] \in Seq(Words)
  BY <1>1, ElementOfSeq
<1>3. \A p \in 1 .. Len(base) : \A i \in DOMAIN base[p] : base[p][i] \in Words
  BY <1>2, ElementOfSeq
<1> DEFINE part(p) == [i \in DOMAIN base[p] |->
                          IF p > 1 /\ i = 1 THEN base[p][i] ELSE Upper(base[p][i])]
<1>4. ASSUME NEW p \in 1 .. Len(base)
      PROVE  part(p) \in Seq(Words)
  <2>1. DOMAIN base[p] = 1 .. Len(base[p]) /\ Len(base[p]) \in Nat
    BY <1>2
  <2>2. \A i \in 1 .. Len(base[p]) : base[p][i] \in Words /\ Upper(base[p][i]) \in Words
    BY <1>3, <2>1, UpperWord
  <2> HIDE DEF base
  <2> QED BY <2>1, <2>2
<1>5. FileSegment(f) = [p \in 1 .. Len(base) - 1 |-> part(p)]
  BY DEF FileSegment
<1>6. get_file_module(f) = <<part(1)>>
  BY DEF get_file_module
<1> HIDE DEF part, base
<1>7. FileSegment(f) \in Segments /\ Len(FileSegment(f)) = Len(base) - 1
  BY <1>1, <1>4, <1>5 DEF Segments
<1>8. get_file_module(f) \in Segments /\ Len(get_file_module(f)) = 1
  <2>1. part(1) \in Seq(Words)
    BY <1>1, <1>4
  <2> QED BY <1>6, <2>1 DEF Segments
<1>9. Len(base) = 2 => FileSegment(f) = get_file_module(f)
  <2> SUFFICES ASSUME Len(base) = 2
               PROVE  FileSegment(f) = get_file_module(f)
    OBVIOUS
  <2>1. FileSegment(f) = [p \in 1 .. 1 |-> part(p)]
    BY <1>5
  <2>2. <<part(1)>> = [p \in 1 .. 1 |-> part(1)]
    OBVIOUS
  <2> QED BY <1>6, <2>1, <2>2
<1>10. FileSegment(f) = get_file_module(f) => Len(base) = 2
  <2> SUFFICES ASSUME FileSegment(f) = get_file_module(f)
               PROVE  Len(base) = 2
    OBVIOUS
  <2>1. Len(base) \in Nat
    BY <1>1, LenProperties
  <2>2. Len(FileSegment(f)) = 1
    BY <1>8
  <2>3. Len(base) - 1 = 1
    BY <1>7, <2>2
  <2> QED BY <2>1, <2>3
<1> QED BY <1>1, <1>7, <1>8, <1>9, <1>10 DEF base

(* Two classes of one package length are the same when their files and      *)
(* names are.                                                              *)
Class(p, x, r) == Append(p, x) \o r

LEMMA ClassParts ==
    ASSUME NEW S, NEW p \in Seq(S), NEW x \in S, NEW y \in S,
           NEW r \in Seq(S), NEW q \in Seq(S)
    PROVE  /\ Len(Class(p, x, r)) = Len(p) + 1 + Len(r)
           /\ Class(p, x, r) = Class(p, y, q) => x = y /\ r = q
<1> DEFINE l == Append(p, x) \o r
           m == Append(p, y) \o q
<1>1. /\ Append(p, x) \in Seq(S) /\ Len(Append(p, x)) = Len(p) + 1
      /\ Append(p, y) \in Seq(S) /\ Len(Append(p, y)) = Len(p) + 1
      /\ Append(p, x)[Len(p) + 1] = x /\ Append(p, y)[Len(p) + 1] = y
      /\ Len(p) \in Nat /\ Len(r) \in Nat /\ Len(q) \in Nat
  OBVIOUS
<1>2. /\ Len(l) = Len(p) + 1 + Len(r) /\ Len(m) = Len(p) + 1 + Len(q)
      /\ l[Len(p) + 1] = x /\ m[Len(p) + 1] = y
      /\ \A i \in 1 .. Len(r) : l[Len(p) + 1 + i] = r[i]
      /\ \A i \in 1 .. Len(q) : m[Len(p) + 1 + i] = q[i]
  BY <1>1
<1>3. l = m => x = y /\ r = q
  <2> SUFFICES ASSUME l = m
               PROVE  x = y /\ r = q
    OBVIOUS
  <2> HIDE DEF l, m
  <2>1. Len(r) = Len(q) /\ x = y
    BY <1>1, <1>2
  <2>2. \A i \in 1 .. Len(r) : r[i] = q[i]
    BY <1>2, <2>1
  <2> QED BY <2>1, <2>2, SeqEqual
<1> QED BY <1>2, <1>3 DEF Class

(* A name as it is and a name capitalized are the same only when no part of *)
(* the first begins with a small letter.                                   *)
LEMMA SameSegments ==
    ASSUME NEW name \in Seq(Words), NEW other \in Seq(Words)
    PROVE  /\ FullNameToClassName(name) = CapitalizePackage(other) => Capitals(name)
           /\ Capitals(name) => FullNameToClassName(name) = CapitalizePackage(name)
<1>1. /\ \A i \in 1 .. Len(name) : name[i] \in Words
      /\ DOMAIN name = 1 .. Len(name)
  BY ElementOfSeq
<1>2. ASSUME FullNameToClassName(name) = CapitalizePackage(other), NEW i \in 1 .. Len(name)
      PROVE  name[i].cap # "small"
  <2>1. Len(name) = Len(other)
    BY <1>2, NameSegments
  <2>2. Segment(name[i]) = Segment(Upper(other[i]))
    BY <1>2, <2>1, NameSegments
  <2>3. other[i] \in Words
    BY <2>1, ElementOfSeq
  <2>4. name[i] = Upper(other[i])
    BY <1>1, <2>2, <2>3, UpperWord
  <2> QED BY <2>3, <2>4, UpperWord
<1>3. ASSUME Capitals(name)
      PROVE  FullNameToClassName(name) = CapitalizePackage(name)
  <2> DEFINE r == FullNameToClassName(name)
             q == CapitalizePackage(name)
  <2>1. \A i \in 1 .. Len(name) : Upper(name[i]) = name[i]
    BY <1>1, <1>3, UpperWord DEF Capitals
  <2>2. r \in Seq(Segments) /\ q \in Seq(Segments) /\ Len(r) = Len(name) /\ Len(q) = Len(name)
    BY NameSegments
  <2>3. \A i \in 1 .. Len(r) : r[i] = q[i]
    BY <2>1, <2>2, NameSegments
  <2> HIDE DEF r, q
  <2>4. r = q
    BY <2>2, <2>3, SeqEqual
  <2> QED BY <2>4 DEF r, q
<1> QED BY <1>1, <1>2, <1>3 DEF Capitals

(* The two ways to name a class agree for a file with one dot and a message *)
(* of capitals only, and give a class that some other message has at run   *)
(* time to no other message.                                               *)
LEMMA ClassesAgree ==
    ASSUME NEW f \in ProtoFiles, NEW name \in messages[f], NEW other \in messages[f]
    PROVE  /\ PerlClass(f, name) = GetMessageStash(f, other) => Styled(f, name)
           /\ Styled(f, name) => PerlClass(f, name) = GetMessageStash(f, name)
           /\ (GenerateForMessage(f, name) = GetMessageStash(f, name)) <=> Capitals(name)
<1> DEFINE p == CapitalizePackage(package[f])
<1>1. /\ package[f] \in Seq(Words) /\ name \in Seq(Words) /\ other \in Seq(Words)
      /\ FileSegment(f) \in Segments /\ get_file_module(f) \in Segments
      /\ (FileSegment(f) = get_file_module(f)) <=> Len(basename[f]) = 2
  BY FileNames
<1>2. /\ p \in Seq(Segments)
      /\ FullNameToClassName(name) \in Seq(Segments) /\ CapitalizePackage(other) \in Seq(Segments)
  BY <1>1, NameSegments
<1>3. /\ PerlClass(f, name) = Append(p, FileSegment(f)) \o FullNameToClassName(name)
      /\ GetMessageStash(f, name) = Append(p, get_file_module(f)) \o CapitalizePackage(name)
      /\ GetMessageStash(f, other) = Append(p, get_file_module(f)) \o CapitalizePackage(other)
      /\ GenerateForMessage(f, name) = Append(p, get_file_module(f)) \o FullNameToClassName(name)
  BY <1>1, NameSegments DEF PerlClass, GetPerlPackage, GetMessageStash, GenerateForMessage
<1>5. ASSUME PerlClass(f, name) = GetMessageStash(f, other)
      PROVE  Styled(f, name)
  <2>1. /\ FileSegment(f) = get_file_module(f)
        /\ FullNameToClassName(name) = CapitalizePackage(other)
    <3> DEFINE x == FileSegment(f)
               y == get_file_module(f)
               r == FullNameToClassName(name)
               q == CapitalizePackage(other)
    <3>1. x \in Segments /\ y \in Segments /\ r \in Seq(Segments) /\ q \in Seq(Segments)
      BY <1>1, <1>2
    <3>2. Class(p, x, r) = Class(p, y, q)
      BY <1>3, <1>5 DEF Class
    <3> HIDE DEF p, x, y, r, q
    <3>3. x = y /\ r = q
      BY <1>2, <3>1, <3>2, ClassParts
    <3> QED BY <3>3 DEF x, y, r, q
  <2> QED BY <1>1, <2>1, SameSegments DEF Styled
<1>6. ASSUME Styled(f, name)
      PROVE  PerlClass(f, name) = GetMessageStash(f, name)
  <2>1. FileSegment(f) = get_file_module(f) /\ FullNameToClassName(name) = CapitalizePackage(name)
    BY <1>1, <1>6, SameSegments DEF Styled
  <2> QED BY <1>3, <2>1
<1>7. ASSUME GenerateForMessage(f, name) = GetMessageStash(f, name)
      PROVE  Capitals(name)
  <2> DEFINE x == get_file_module(f)
             r == FullNameToClassName(name)
             q == CapitalizePackage(name)
  <2>1. x \in Segments /\ r \in Seq(Segments) /\ q \in Seq(Segments)
    BY <1>1, NameSegments
  <2>2. Class(p, x, r) = Class(p, x, q)
    BY <1>3, <1>7 DEF Class
  <2> HIDE DEF p, x, r, q
  <2>3. r = q
    BY <1>2, <2>1, <2>2, ClassParts
  <2>4. FullNameToClassName(name) = CapitalizePackage(name)
    BY <2>3 DEF r, q
  <2> QED BY <1>1, <2>4, SameSegments
<1>8. ASSUME Capitals(name)
      PROVE  GenerateForMessage(f, name) = GetMessageStash(f, name)
  <2>1. FullNameToClassName(name) = CapitalizePackage(name)
    BY <1>1, <1>8, SameSegments
  <2> QED BY <1>3, <2>1
<1> QED BY <1>5, <1>6, <1>7, <1>8

(* A message is looked up by its full name: the entry found is its own, and *)
(* nothing is found for a message without a package.                       *)
LEMMA ResolvedClass ==
    ASSUME NEW t \in Types
    PROVE  /\ t[1] \in ProtoFiles /\ t[2] \in messages[t[1]]
           /\ package[t[1]] # <<>> => ResolvePerlClass(FullName(t)) = PerlClass(t[1], t[2])
           /\ package[t[1]] = <<>> => ResolvePerlClass(FullName(t)) = CapitalizePackage(t[2])
<1>1. \A u \in Types : u[1] \in ProtoFiles /\ u[2] \in messages[u[1]]
  BY DEF Types
<1>2. \A u \in Types : package[u[1]] \in Seq(Words) /\ u[2] \in Seq(Words)
  BY <1>1, FileNames
<1>3. NoName \notin Words
  BY DEF NoName, Words
<1> DEFINE full == FullName(t)
           known == {u \in Types : TypeKey(u[1], u[2]) = full}
<1>4. full = package[t[1]] \o t[2] /\ full \in Seq(Words)
  BY <1>2 DEF FullName
<1>5. ASSUME NEW u \in Types, package[u[1]] = <<>>
      PROVE  TypeKey(u[1], u[2]) # full
  <2>1. TypeKey(u[1], u[2]) = <<NoName>> \o u[2]
    BY <1>5 DEF TypeKey
  <2> HIDE DEF full
  <2>2. (<<NoName>> \o u[2])[1] = NoName /\ Len(<<NoName>> \o u[2]) > 0
    <3> DEFINE n == NoName
               S == Words \cup {n}
    <3>1. u[2] \in Seq(S) /\ <<n>> \in Seq(S)
      BY <1>2
    <3> HIDE DEF n, S
    <3>2. (<<n>> \o u[2])[1] = n /\ Len(<<n>> \o u[2]) > 0
      BY <3>1
    <3> QED BY <3>2 DEF n
  <2>3. Len(full) > 0 => full[1] \in Words
    <3>1. Len(full) \in Nat
      BY <1>4, LenProperties
    <3>2. Len(full) > 0 => 1 \in 1 .. Len(full)
      BY <3>1
    <3> QED BY <1>4, <3>2, ElementOfSeq
  <2> QED BY <1>3, <2>1, <2>2, <2>3
<1>6. ASSUME NEW u \in known
      PROVE  u = t /\ package[t[1]] # <<>>
  <2>1. package[u[1]] # <<>>
    BY <1>5
  <2>2. FullName(u) = FullName(t)
    BY <2>1 DEF TypeKey, FullName
  <2> QED BY <2>1, <2>2, NamesAssumption
<1>7. ResolvePerlClass(full) = IF known = {} THEN CapitalizePackage(full)
                               ELSE PerlClass((CHOOSE u \in known : TRUE)[1], (CHOOSE u \in known : TRUE)[2])
  BY DEF ResolvePerlClass
<1>8. ASSUME package[t[1]] # <<>>
      PROVE  ResolvePerlClass(full) = PerlClass(t[1], t[2])
  <2>1. t \in known
    BY <1>4, <1>8 DEF TypeKey
  <2>2. (CHOOSE u \in known : TRUE) \in known
    <3> HIDE DEF known
    <3> QED BY <2>1
  <2>3. (CHOOSE u \in known : TRUE) = t
    BY <1>6, <2>2
  <2> HIDE DEF known, full
  <2> QED BY <1>7, <2>1, <2>3
<1>9. ASSUME package[t[1]] = <<>>
      PROVE  ResolvePerlClass(full) = CapitalizePackage(t[2])
  <2>1. known = {}
    BY <1>6, <1>9
  <2>2. full = t[2]
    BY <1>2, <1>4, <1>9
  <2> HIDE DEF known, full
  <2> QED BY <1>7, <2>1, <2>2
<1> QED BY <1>1, <1>8, <1>9

LEMMA StubClasses ==
    ASSUME NEW f \in ProtoFiles, NEW s \in Stubs(f)
    PROVE  LET out == s.of.output
           IN  /\ (s.res_class = GetMessageStash(out[1], out[2]))
                     <=> Styled(out[1], out[2]) /\ package[out[1]] # <<>>
               /\ (s.path = Append(package[f], s.service)) <=> package[f] # <<>>
<1>1. PICK service \in services[f] : \E method \in service.methods :
          s = [path |-> ServicePath(f, service), service |-> service.name,
               sub |-> ToSnakeCase(method.name), of |-> method,
               req_class |-> ResolvePerlClass(FullName(method.input)),
               res_class |-> ResolvePerlClass(FullName(method.output))]
  BY DEF Stubs
<1>2. PICK method \in service.methods :
          s = [path |-> ServicePath(f, service), service |-> service.name,
               sub |-> ToSnakeCase(method.name), of |-> method,
               req_class |-> ResolvePerlClass(FullName(method.input)),
               res_class |-> ResolvePerlClass(FullName(method.output))]
  BY <1>1
<1> DEFINE out == method.output
<1>3. /\ s.path = ServicePath(f, service) /\ s.service = service.name
      /\ s.of.output = out /\ s.res_class = ResolvePerlClass(FullName(out))
  BY <1>2
<1>4. out \in Types /\ service.name \in Words
  BY NamesAssumption
<1> HIDE DEF out
<1>5. out[1] \in ProtoFiles /\ out[2] \in messages[out[1]]
  BY <1>4, ResolvedClass
<1>6. ASSUME package[out[1]] # <<>>
      PROVE  (s.res_class = GetMessageStash(out[1], out[2])) <=> Styled(out[1], out[2])
  <2> DEFINE g == out[1]
             n == out[2]
  <2>1. s.res_class = PerlClass(g, n)
    BY <1>3, <1>4, <1>6, ResolvedClass
  <2>2. g \in ProtoFiles /\ n \in messages[g]
    BY <1>5
  <2> HIDE DEF g, n
  <2>3. (PerlClass(g, n) = GetMessageStash(g, n)) <=> Styled(g, n)
    BY <2>2, ClassesAgree DEF Styled
  <2> QED BY <2>1, <2>3 DEF g, n
<1>7. ASSUME package[out[1]] = <<>>
      PROVE  s.res_class # GetMessageStash(out[1], out[2])
  <2>1. s.res_class = CapitalizePackage(out[2])
    BY <1>3, <1>4, <1>7, ResolvedClass
  <2>2. /\ package[out[1]] \in Seq(Words) /\ out[2] \in Seq(Words)
        /\ get_file_module(out[1]) \in Segments
    BY <1>5, FileNames
  <2> DEFINE p == CapitalizePackage(package[out[1]])
             q == CapitalizePackage(out[2])
  <2>3. p \in Seq(Segments) /\ q \in Seq(Segments) /\ Len(q) \in Nat /\ Len(p) \in Nat
    BY <2>2, NameSegments
  <2>4. GetMessageStash(out[1], out[2]) = Class(p, get_file_module(out[1]), q)
    BY <2>2, NameSegments DEF GetMessageStash, Class
  <2> HIDE DEF p
  <2>5. Len(GetMessageStash(out[1], out[2])) = Len(p) + 1 + Len(q)
    BY <2>2, <2>3, <2>4, ClassParts
  <2> QED BY <2>1, <2>3, <2>5
<1>8. (s.path = Append(package[f], s.service)) <=> package[f] # <<>>
  <2>1. CASE package[f] = <<>>
    <3>1. s.path = <<NoName, s.service>> /\ Append(package[f], s.service) = <<s.service>>
      BY <1>3, <2>1 DEF ServicePath
    <3>2. Len(<<NoName, s.service>>) = 2 /\ Len(<<s.service>>) = 1
      OBVIOUS
    <3> QED BY <2>1, <3>1, <3>2
  <2>2. CASE package[f] # <<>>
    BY <1>3, <2>2 DEF ServicePath
  <2> QED BY <2>1, <2>2
<1> QED BY <1>3, <1>6, <1>7, <1>8

(* The class the generated code names for a message, in its module, in its  *)
(* type constraints and in the stubs of services, is the class that the    *)
(* objects get at run time exactly where ClassNamesAgree says.             *)
THEOREM ClassNames == Spec => []ClassNamesAgree
<1>1. ResponseOK => ClassNamesAgree
  <2> SUFFICES ASSUME ResponseOK, NEW r \in response
               PROVE  LET f == r.module.file
                      IN  /\ \A name \in messages[f] :
                                /\ (PerlClass(f, name) = GetMessageStash(f, name)) <=> Styled(f, name)
                                /\ (GenerateForMessage(f, name) = GetMessageStash(f, name))
                                      <=> Capitals(name)
                                /\ ClassNameToFullName(FullNameToClassName(name)) = name
                          /\ \A d \in r.types.declares :
                                (\E name \in messages[f] : d.class = GetMessageStash(f, name))
                                   <=> \E name \in messages[f] :
                                          d.class = PerlClass(f, name) /\ Styled(f, name)
                          /\ \A s \in r.module.stubs :
                                LET out == s.of.output
                                IN  /\ (s.res_class = GetMessageStash(out[1], out[2]))
                                          <=> Styled(out[1], out[2]) /\ package[out[1]] # <<>>
                                    /\ (s.path = Append(package[f], s.service)) <=> package[f] # <<>>
    BY DEF ClassNamesAgree
  <2>1. PICK f \in ProtoFiles : r = [module |-> GenerateModule(f), types |-> GenerateTypes(f)]
    BY DEF ResponseOK
  <2>2. /\ r.module.file = f /\ r.module.stubs = Stubs(f)
        /\ r.types.declares = UNION {PrintMessageTypes(f, name) : name \in messages[f]}
    <3>1. r.module = GenerateModule(f) /\ r.types = GenerateTypes(f)
      BY <2>1
    <3>2. GenerateModule(f).file = f /\ GenerateModule(f).stubs = Stubs(f)
      BY DEF GenerateModule
    <3>3. GenerateTypes(f).declares = UNION {PrintMessageTypes(f, name) : name \in messages[f]}
      BY DEF GenerateTypes
    <3> QED BY <3>1, <3>2, <3>3
  <2>3. ASSUME NEW name \in messages[f]
        PROVE  /\ (PerlClass(f, name) = GetMessageStash(f, name)) <=> Styled(f, name)
               /\ (GenerateForMessage(f, name) = GetMessageStash(f, name)) <=> Capitals(name)
               /\ ClassNameToFullName(FullNameToClassName(name)) = name
    <3>1. name \in Seq(Words)
      BY FileNames
    <3> DEFINE class == FullNameToClassName(name)
    <3>2. /\ class \in Seq(Segments) /\ Len(class) = Len(name)
          /\ \A i \in 1 .. Len(name) : class[i] = Segment(name[i])
      BY <3>1, NameSegments
    <3>3. \A i \in 1 .. Len(name) : class[i][1][1] = name[i]
      BY <3>1, <3>2, ElementOfSeq, UpperWord
    <3>4. DOMAIN class = 1 .. Len(name) /\ DOMAIN name = 1 .. Len(name)
      BY <3>1, <3>2
    <3> HIDE DEF class
    <3>5. ClassNameToFullName(class) = [i \in DOMAIN name |-> name[i]]
      BY <3>3, <3>4 DEF ClassNameToFullName
    <3>6. name = [i \in DOMAIN name |-> name[i]]
      BY <3>1
    <3> QED BY <3>5, <3>6, ClassesAgree DEF class
  <2>4. ASSUME NEW d \in r.types.declares
        PROVE  (\E name \in messages[f] : d.class = GetMessageStash(f, name))
                  <=> \E name \in messages[f] : d.class = PerlClass(f, name) /\ Styled(f, name)
    <3>1. PICK name \in messages[f] : d \in PrintMessageTypes(f, name)
      BY <2>2
    <3>2. PICK prefix \in {"", "Repeated", "MapString"} :
              d = [name |-> <<prefix, name[Len(name)]>>, class |-> PerlClass(f, name)]
      BY <3>1 DEF PrintMessageTypes
    <3>3. d.class = PerlClass(f, name)
      BY <3>2
    <3> QED BY <3>3, ClassesAgree
  <2> QED BY <2>2, <2>3, <2>4, StubClasses
<1>2. CodeIInv => ResponseOK
  BY DEF CodeIInv
<1> QED BY <1>1, <1>2, CodeInvariance, PTL

(* The variables have their types; the modules on the stack are the ones    *)
(* being compiled.                                                         *)
THEOREM CodeTypeCorrect == Spec => []TypeOK
<1>1. CodeIInv => TypeOK
  <2> SUFFICES ASSUME CodeIInv
               PROVE  TypeOK
    OBVIOUS
  <2>1. DOMAIN stack = 1 .. Len(stack)
    BY DEF CodeIInv, LoadOK
  <2> QED BY <2>1 DEF CodeIInv, PoolOK, LoadOK, StackOK, TypeOK, PoolTypeOK
<1> QED BY <1>1, CodeInvariance, PTL
=============================================================================
