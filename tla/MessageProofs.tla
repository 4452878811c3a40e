--------------------------- MODULE MessageProofs ---------------------------
(***************************************************************************)
(* Proofs about Message and MessageStream.  Of Message, the messages and   *)
(* the memos of the wrappers are two arguments: every write puts sound     *)
(* contents into one message, and every wrapper of that message learns of  *)
(* it or is counted as bypassed.  Of MessageStream: what a varint and a    *)
(* frame are read as, what a cut leaves of a row of frames, and from       *)
(* these the invariant of a file that is written, cut and read.            *)
(***************************************************************************)
EXTENDS Message, MessageStream, SequenceFacts

-----------------------------------------------------------------------------
(* Messages and their wrappers. *)

(* v is what a field f holds that was given sv: the body of                 *)
(* FieldHoldsWhatWasGiven for one field, and v is a value of the type.     *)
FieldOK(f, v, sv) ==
    /\ SvToUpb(UpbToSv(v, type[f]), type[f]) = {v}
    /\ HasNumber(sv) /\ type[f] \in {"int32", "uint32"} =>
          v = Number(sv) /\ InRange(v, type[f])
    /\ HasNumber(sv) /\ type[f] \in {"int64", "uint64"} =>
          (InRange(Digits(sv), type[f]) => v = Digits(sv))
    /\ type[f] \notin {"string", "bytes"} => InRange(v, type[f])

(* No two members of the oneof. *)
OneAtMost(fs) == \A f, g \in Oneof : f \in fs /\ g \in fs => f = g

(* The contents c of a message that was given the scalars g. *)
Sound(c, g) ==
    /\ DOMAIN c \subseteq Fields
    /\ DOMAIN g = DOMAIN c
    /\ OneAtMost(DOMAIN c)
    /\ \A f \in DOMAIN c : FieldOK(f, c[f], g[f])

MessagesSound ==
    /\ msg = [m \in Msgs |-> msg[m]]
    /\ given = [m \in Msgs |-> given[m]]
    /\ \A m \in Msgs : Sound(msg[m], given[m])

(* A step changes the contents of m alone. *)
Rewrites(m, c, g) ==
    /\ msg' = [msg EXCEPT ![m] = c]
    /\ given' = [given EXCEPT ![m] = g]

-----------------------------------------------------------------------------
(* upb's part keeps contents sound. *)

LEMMA EmptyIsSound == Sound(Empty, Empty)
BY DEF Sound, Empty, OneAtMost

LEMMA OnlyIsSound ==
    ASSUME NEW f \in Fields, NEW v, NEW sv, FieldOK(f, v, sv)
    PROVE  Sound(Only(f, v), Only(f, sv))
<1>1. /\ DOMAIN Only(f, v) = {f} /\ Only(f, v)[f] = v
      /\ DOMAIN Only(f, sv) = {f} /\ Only(f, sv)[f] = sv
  BY DEF Only
<1> QED
  BY <1>1 DEF Sound, OneAtMost

LEMMA PutIsFunction ==
    ASSUME NEW c, NEW d
    PROVE  /\ DOMAIN Put(c, d) =
                (IF DOMAIN d \cap Oneof = {} THEN DOMAIN c ELSE DOMAIN c \ Oneof) \cup DOMAIN d
           /\ \A f \in DOMAIN Put(c, d) : Put(c, d)[f] = IF f \in DOMAIN d THEN d[f] ELSE c[f]
BY DEF Put

LEMMA PutIsSound ==
    ASSUME NEW c, NEW g, NEW d, NEW h, Sound(c, g), Sound(d, h)
    PROVE  Sound(Put(c, d), Put(g, h))
<1> DEFINE kept == IF DOMAIN d \cap Oneof = {} THEN DOMAIN c ELSE DOMAIN c \ Oneof
<1>1. DOMAIN g = DOMAIN c /\ DOMAIN h = DOMAIN d
  BY DEF Sound
<1>2. /\ DOMAIN Put(c, d) = kept \cup DOMAIN d
      /\ \A f \in DOMAIN Put(c, d) : Put(c, d)[f] = IF f \in DOMAIN d THEN d[f] ELSE c[f]
  BY PutIsFunction
<1>3. /\ DOMAIN Put(g, h) = kept \cup DOMAIN d
      /\ \A f \in DOMAIN Put(g, h) : Put(g, h)[f] = IF f \in DOMAIN h THEN h[f] ELSE g[f]
  BY <1>1, PutIsFunction
<1>4. kept \subseteq DOMAIN c
  OBVIOUS
<1>5. OneAtMost(kept \cup DOMAIN d)
  BY DEF Sound, OneAtMost
<1>6. ASSUME NEW f \in DOMAIN Put(c, d)
      PROVE  FieldOK(f, Put(c, d)[f], Put(g, h)[f])
  <2>1. CASE f \in DOMAIN d
    BY <2>1, <1>1, <1>2, <1>3 DEF Sound
  <2>2. CASE f \notin DOMAIN d
    BY <2>2, <1>1, <1>2, <1>3, <1>4 DEF Sound
  <2> QED
    BY <2>1, <2>2
<1> HIDE DEF kept
<1> QED
  BY <1>2, <1>3, <1>4, <1>5, <1>6 DEF Sound

LEMMA RestrictIsSound ==
    ASSUME NEW c, NEW g, NEW S \in SUBSET DOMAIN c, Sound(c, g)
    PROVE  Sound(Restrict(c, S), Restrict(g, S))
<1>1. /\ DOMAIN Restrict(c, S) = S /\ \A f \in S : Restrict(c, S)[f] = c[f]
      /\ DOMAIN Restrict(g, S) = S /\ \A f \in S : Restrict(g, S)[f] = g[f]
  BY DEF Restrict
<1> QED
  BY <1>1 DEF Sound, OneAtMost

LEMMA RewritesKeep ==
    ASSUME MessagesSound, NEW m \in Msgs, NEW c, NEW g, Rewrites(m, c, g), Sound(c, g)
    PROVE  MessagesSound'
<1>1. \A q \in Msgs : /\ msg'[q] = IF q = m THEN c ELSE msg[q]
                      /\ given'[q] = IF q = m THEN g ELSE given[q]
  BY DEF Rewrites, MessagesSound
<1>2. \A q \in Msgs : Sound(msg'[q], given'[q])
  BY <1>1 DEF MessagesSound
<1>3. /\ msg' = [q \in Msgs |-> msg'[q]]
      /\ given' = [q \in Msgs |-> given'[q]]
  BY DEF Rewrites, MessagesSound
<1> QED
  BY <1>2, <1>3 DEF MessagesSound

-----------------------------------------------------------------------------
(* The conversions. *)

LEMMA ModSmall ==
    ASSUME NEW q \in Nat \ {0}, NEW n \in Int, 0 <= n, n < q
    PROVE  n % q = n
OBVIOUS

LEMMA ModNegative ==
    ASSUME NEW q \in Nat \ {0}, NEW n \in Int, -q <= n, n < 0
    PROVE  n % q = n + q
OBVIOUS

LEMMA ModRange ==
    ASSUME NEW q \in Nat \ {0}, NEW n \in Int
    PROVE  n % q \in 0 .. q - 1
OBVIOUS

(* Wrapping to w bits: nothing happens to a number that has its place, and  *)
(* every other gets one.                                                   *)
LEMMA Wrapping ==
    ASSUME NEW w \in {W32, W64}, NEW n \in Int
    PROVE  /\ AsSigned(n, w) \in Int /\ Low(w) <= AsSigned(n, w) /\ AsSigned(n, w) <= High(w)
           /\ Low(w) <= n /\ n <= High(w) => AsSigned(n, w) = n
           /\ AsUnsigned(n, w) \in Int /\ 0 <= AsUnsigned(n, w) /\ AsUnsigned(n, w) <= 2 ^ w - 1
           /\ 0 <= n /\ n <= 2 ^ w - 1 => AsUnsigned(n, w) = n
<1> DEFINE q == 2 ^ w
           h == 2 ^ (w - 1)
<1>1. h \in Nat \ {0} /\ q = 2 * h
  BY PowersOfTwo
<1>2. /\ AsUnsigned(n, w) = n % q /\ Low(w) = -h /\ High(w) = h - 1
      /\ AsSigned(n, w) = IF n % q > h - 1 THEN (n % q) - q ELSE n % q
  BY DEF AsUnsigned, AsSigned, Low, High
<1> HIDE DEF q, h
<1>3. n % q \in 0 .. q - 1
  BY <1>1, ModRange
<1>4. 0 <= n /\ n < q => n % q = n
  BY <1>1, ModSmall
<1>5. -q <= n /\ n < 0 => n % q = n + q
  BY <1>1, ModNegative
<1>6. q \in Nat
  BY <1>1
<1>7. /\ AsSigned(n, w) \in Int /\ Low(w) <= AsSigned(n, w) /\ AsSigned(n, w) <= High(w)
      /\ Low(w) <= n /\ n <= High(w) => AsSigned(n, w) = n
  BY <1>1, <1>2, <1>3, <1>4, <1>5
<1>8. /\ AsUnsigned(n, w) \in Int /\ 0 <= AsUnsigned(n, w) /\ AsUnsigned(n, w) <= q - 1
      /\ 0 <= n /\ n <= q - 1 => AsUnsigned(n, w) = n
  BY <1>1, <1>2, <1>3, <1>4
<1> QED
  BY <1>7, <1>8 DEF q

LEMMA Truncating ==
    ASSUME NEW h \in Int, NEW lo \in Int, NEW hi \in Int
    PROVE  /\ Truncate(h) \in Int
           /\ 2 * lo <= h /\ h <= 2 * hi /\ lo <= 0 /\ 0 <= hi =>
                 lo <= Truncate(h) /\ Truncate(h) <= hi
           /\ h >= 0 => Truncate(h) >= 0
BY DEF Truncate

(* The limits of the types, in the order the code relies on. *)
LEMMA Limits ==
    /\ Low(W32) \in Int /\ High(W32) \in Int /\ 2 ^ W32 \in Int
    /\ Low(W64) \in Int /\ High(W64) \in Int /\ 2 ^ W64 \in Int
    /\ Low(W64) <= Low(W32) /\ Low(W32) < 0 /\ 0 <= High(W32) /\ High(W32) <= 2 ^ W32 - 1
    /\ 2 ^ W32 - 1 <= High(W64) /\ High(W64) < 2 ^ W64 - 1
<1> DEFINE a == 2 ^ (W32 - 1)
           b == 2 ^ (W64 - 1)
<1>1. /\ a \in Nat \ {0} /\ b \in Nat \ {0} /\ 2 ^ W32 = 2 * a /\ 2 ^ W64 = 2 * b /\ 2 * a <= b
  BY PowersOfTwo
<1>2. Low(W32) = -a /\ High(W32) = a - 1 /\ Low(W64) = -b /\ High(W64) = b - 1
  BY DEF Low, High
<1> HIDE DEF a, b
<1> QED
  BY <1>1, <1>2

(* What sv becomes in a field of type t, read back and converted again. *)
ReadsBack(v, t) == SvToUpb(UpbToSv(v, t), t) = {v}

(* SvIV and SvUV give a number in their range as it is. *)
LEMMA NumberIsInteger ==
    ASSUME NEW sv, sv.n \in Int
    PROVE  /\ Number(sv) \in Int /\ Digits(sv) \in Int
           /\ sv.k \in {"iv", "uv", "ref"} => Number(sv) = sv.n /\ Digits(sv) = sv.n
           /\ sv.k # "exp" => Digits(sv) = Number(sv)
<1>1. Truncate(sv.n) \in Int /\ Radix * sv.n \in Int
  <2>1. ASSUME NEW a \in Nat, NEW b \in Int
        PROVE  a * b \in Int
    OBVIOUS
  <2>2. Radix \in Nat
    BY ConvertAssumption
  <2>3. Radix * sv.n \in Int
    BY <2>1, <2>2
  <2>4. Truncate(sv.n) \in Int
    BY Truncating
  <2> QED
    BY <2>3, <2>4
<1>2. Number(sv) \in {Truncate(sv.n), Radix * sv.n, sv.n}
  BY DEF Number
<1>3. sv.k \in {"iv", "uv", "ref"} => Number(sv) = sv.n
  BY DEF Number
<1> QED
  BY <1>1, <1>2, <1>3 DEF Digits

LEMMA PerlIntegers ==
    ASSUME NEW sv, sv.n \in Int, IsNumber(sv)
    PROVE  /\ Number(sv) \in Int
           /\ Low(W64) <= Number(sv) /\ Number(sv) <= High(W64) => SvIV(sv) = Number(sv)
           /\ 0 <= Number(sv) /\ Number(sv) <= 2 ^ W64 - 1 => SvUV(sv) = Number(sv)
<1>1. Number(sv) \in Int /\ (sv.k \in {"iv", "uv"} => Number(sv) = sv.n)
  BY NumberIsInteger
<1>2. CASE sv.k \in {"iv", "uv"}
  <2>1. SvIV(sv) = AsSigned(sv.n, W64) /\ SvUV(sv) = AsUnsigned(sv.n, W64)
    BY <1>2 DEF SvIV, SvUV
  <2> QED
    BY <1>1, <1>2, <2>1, Wrapping
<1>3. CASE sv.k \in {"nv", "num", "frac", "exp"}
  <2>1. /\ SvIV(sv) = IF Number(sv) > High(W64)
                      THEN AsSigned(Clamp(Number(sv), 0, 2 ^ W64 - 1), W64)
                      ELSE Clamp(Number(sv), Low(W64), High(W64))
        /\ SvUV(sv) = IF Number(sv) < 0 THEN AsUnsigned(Clamp(Number(sv), Low(W64), 0), W64)
                                        ELSE Clamp(Number(sv), 0, 2 ^ W64 - 1)
    BY <1>3 DEF SvIV, SvUV
  <2> QED
    BY <1>1, <2>1, Limits DEF Clamp
<1> QED
  BY <1>2, <1>3 DEF IsNumber, IsNumeric

LEMMA Int32Converts ==
    ASSUME NEW sv, sv.n \in Int, NEW v \in Convert32(sv, "int32")
    PROVE  /\ v = Number(sv) /\ InRange(Number(sv), "int32")
           /\ ReadsBack(v, "int32")
<1>1. /\ Least("int32") = Low(W32) /\ Greatest("int32") = High(W32)
  BY DEF Least, Greatest
<1>2. /\ IsNumber(sv) /\ 2 * Low(W32) <= Halves(sv) /\ Halves(sv) <= 2 * High(W32)
      /\ v = AsSigned(SvIV(sv), W32)
  BY <1>1 DEF Convert32, verify_limits
<1>3. Low(W32) <= Number(sv) /\ Number(sv) <= High(W32) /\ Number(sv) \in Int
  <2>1. CASE sv.k \in {"nv", "frac"}
    <3>1. Number(sv) = Truncate(sv.n) /\ Halves(sv) = sv.n
      BY <2>1 DEF Number, Halves
    <3>2. Low(W32) \in Int /\ High(W32) \in Int /\ Low(W32) <= 0 /\ 0 <= High(W32)
      BY Limits
    <3> QED
      BY <3>1, <3>2, <1>2, Truncating
  <2>2. CASE sv.k \notin {"nv", "frac"}
    <3>1. Halves(sv) = 2 * Number(sv) /\ Number(sv) \in Int
      BY <2>2, NumberIsInteger DEF Halves
    <3> QED
      BY <3>1, <1>2, Limits
  <2> QED
    BY <2>1, <2>2
<1>4. v = Number(sv)
  <2>1. SvIV(sv) = Number(sv)
    BY <1>2, <1>3, Limits, PerlIntegers
  <2> QED
    BY <1>2, <1>3, <2>1, Wrapping
<1>5. ReadsBack(v, "int32")
  <2> DEFINE back == [k |-> "iv", n |-> v]
  <2>1. UpbToSv(v, "int32") = back
    BY DEF UpbToSv
  <2>2. /\ back.k = "iv" /\ back.n = v /\ IsNumber(back) /\ Number(back) = v
        /\ Halves(back) = 2 * v
    BY DEF IsNumber, Number, Halves
  <2>3. SvToUpb(back, "int32") = Convert32(back, "int32")
    BY <2>2 DEF SvToUpb, ConvertSingular
  <2> HIDE DEF back
  <2>4. SvIV(back) = v
    BY <2>2, <1>3, <1>4, Limits, PerlIntegers
  <2>5. verify_limits(back, Least("int32"), Greatest("int32"))
    BY <1>1, <1>3, <1>4, <2>2, Limits DEF verify_limits
  <2>6. AsSigned(SvIV(back), W32) = v
    BY <2>4, <1>3, <1>4, Wrapping
  <2> QED
    BY <2>1, <2>2, <2>3, <2>5, <2>6 DEF ReadsBack, Convert32
<1> QED
  BY <1>1, <1>3, <1>4, <1>5 DEF InRange

LEMMA UInt32Converts ==
    ASSUME NEW sv, sv.n \in Int, NEW v \in Convert32(sv, "uint32")
    PROVE  /\ v = Number(sv) /\ InRange(Number(sv), "uint32")
           /\ ReadsBack(v, "uint32")
<1>1. /\ Least("uint32") = 0 /\ Greatest("uint32") = 2 ^ W32 - 1
  BY DEF Least, Greatest
<1>2. /\ IsNumber(sv) /\ 0 <= Halves(sv) /\ Halves(sv) <= 2 * (2 ^ W32 - 1)
      /\ v = AsUnsigned(SvUV(sv), W32)
  BY <1>1 DEF Convert32, verify_limits
<1>3. 0 <= Number(sv) /\ Number(sv) <= 2 ^ W32 - 1 /\ Number(sv) \in Int
  <2>1. CASE sv.k \in {"nv", "frac"}
    <3>1. Number(sv) = Truncate(sv.n) /\ Halves(sv) = sv.n
      BY <2>1 DEF Number, Halves
    <3>2. 0 \in Int /\ (2 ^ W32 - 1) \in Int /\ 0 <= 0 /\ 0 <= (2 ^ W32 - 1)
      BY Limits
    <3> QED
      BY <3>1, <3>2, <1>2, Truncating
  <2>2. CASE sv.k \notin {"nv", "frac"}
    <3>1. Halves(sv) = 2 * Number(sv) /\ Number(sv) \in Int
      BY <2>2, NumberIsInteger DEF Halves
    <3> QED
      BY <3>1, <1>2, Limits
  <2> QED
    BY <2>1, <2>2
<1>4. v = Number(sv)
  <2>1. SvUV(sv) = Number(sv)
    BY <1>2, <1>3, Limits, PerlIntegers
  <2> QED
    BY <1>2, <1>3, <2>1, Wrapping
<1>5. ReadsBack(v, "uint32")
  <2> DEFINE back == [k |-> "uv", n |-> v]
  <2>1. UpbToSv(v, "uint32") = back
    BY DEF UpbToSv
  <2>2. /\ back.k = "uv" /\ back.n = v /\ IsNumber(back) /\ Number(back) = v
        /\ Halves(back) = 2 * v
    BY DEF IsNumber, Number, Halves
  <2>3. SvToUpb(back, "uint32") = Convert32(back, "uint32")
    BY <2>2 DEF SvToUpb, ConvertSingular
  <2> HIDE DEF back
  <2>4. SvUV(back) = v
    BY <2>2, <1>3, <1>4, Limits, PerlIntegers
  <2>5. verify_limits(back, Least("uint32"), Greatest("uint32"))
    BY <1>1, <1>3, <1>4, <2>2, Limits DEF verify_limits
  <2>6. AsUnsigned(SvUV(back), W32) = v
    BY <2>4, <1>3, <1>4, Wrapping
  <2> QED
    BY <2>1, <2>2, <2>3, <2>5, <2>6 DEF ReadsBack, Convert32
<1> QED
  BY <1>1, <1>3, <1>4, <1>5 DEF InRange

LEMMA Int64ReadsBack ==
    ASSUME NEW v \in Int, Low(W64) <= v, v <= High(W64)
    PROVE  ReadsBack(v, "int64")
<1> DEFINE back == [k |-> "iv", n |-> v]
<1>1. UpbToSv(v, "int64") = back
  BY DEF UpbToSv, I64ToSV
<1>2. back.k = "iv" /\ back.n = v
  OBVIOUS
<1>3. SvToUpb(back, "int64") = Convert64(back, "int64")
  BY <1>2 DEF SvToUpb, ConvertSingular
<1> HIDE DEF back
<1>4. SVToI64(back) = {AsSigned(v, W64)}
  <2>1. SvIV(back) = AsSigned(v, W64)
    BY <1>2 DEF SvIV
  <2>2. SVToI64(back) = {SvIV(back)}
    BY <1>2 DEF SVToI64, IsNumeric
  <2> QED
    BY <2>1, <2>2
<1>5. AsSigned(v, W64) = v
  BY Wrapping
<1> QED
  BY <1>1, <1>3, <1>4, <1>5 DEF ReadsBack, Convert64, verify_limits_64

LEMMA UInt64ReadsBack ==
    ASSUME NEW v \in Int, 0 <= v, v <= 2 ^ W64 - 1
    PROVE  ReadsBack(v, "uint64")
<1> DEFINE back == [k |-> "uv", n |-> v]
<1>1. UpbToSv(v, "uint64") = back
  BY DEF UpbToSv, U64ToSV
<1>2. back.k = "uv" /\ back.n = v
  OBVIOUS
<1>3. SvToUpb(back, "uint64") = Convert64(back, "uint64")
  BY <1>2 DEF SvToUpb, ConvertSingular
<1> HIDE DEF back
<1>4. SVToU64(back) = {AsUnsigned(v, W64)}
  <2>1. SvUV(back) = AsUnsigned(v, W64)
    BY <1>2 DEF SvUV
  <2>2. SVToU64(back) = {SvUV(back)}
    BY <1>2 DEF SVToU64, IsNumeric
  <2> QED
    BY <2>1, <2>2
<1>5. AsUnsigned(v, W64) = v
  BY Wrapping
<1> QED
  BY <1>1, <1>2, <1>3, <1>4, <1>5 DEF ReadsBack, Convert64, verify_limits_64

LEMMA Int64Converts ==
    ASSUME NEW sv, sv.n \in Int, NEW v \in Convert64(sv, "int64"),
           sv.k = "iv" => InRange(sv.n, "int64")
    PROVE  /\ HasNumber(sv) /\ InRange(Digits(sv), "int64") => v = Digits(sv)
           /\ InRange(v, "int64")
           /\ ReadsBack(v, "int64")
<1>1. v \in SVToI64(sv)
  BY DEF Convert64
<1>2. /\ Least("int64") = Low(W64) /\ Greatest("int64") = High(W64)
  BY DEF Least, Greatest
<1>3. /\ Number(sv) \in Int /\ Digits(sv) \in Int
      /\ sv.k \in {"iv", "uv"} => Digits(sv) = sv.n
      /\ sv.k # "exp" => Digits(sv) = Number(sv)
  BY NumberIsInteger
<1>4. ASSUME NEW n \in Int
      PROVE  /\ Clamp(n, Low(W64), High(W64)) \in Int
             /\ Low(W64) <= Clamp(n, Low(W64), High(W64))
             /\ Clamp(n, Low(W64), High(W64)) <= High(W64)
             /\ Low(W64) <= n /\ n <= High(W64) => Clamp(n, Low(W64), High(W64)) = n
  BY Limits DEF Clamp
<1>5. /\ v \in Int /\ Low(W64) <= v /\ v <= High(W64)
      /\ HasNumber(sv) /\ InRange(Digits(sv), "int64") => v = Digits(sv)
  <2>1. CASE sv.k \in {"iv", "uv"}
    <3>1. v = AsSigned(sv.n, W64)
      <4>1. SvIV(sv) = AsSigned(sv.n, W64)
        BY <2>1 DEF SvIV
      <4>2. SVToI64(sv) = {SvIV(sv)}
        BY <2>1 DEF SVToI64, IsNumeric
      <4> QED
        BY <1>1, <4>1, <4>2
    <3> QED
      BY <3>1, <2>1, <1>2, <1>3, Wrapping DEF InRange
  <2>2. CASE IsNumeric(sv) \/ sv.k = "big"
    <3>1. v = Clamp(Digits(sv), Low(W64), High(W64))
      BY <1>1, <2>2 DEF SVToI64, Strtoll, IsNumeric
    <3> QED
      BY <3>1, <1>2, <1>3, <1>4 DEF InRange
  <2>3. CASE sv.k \in {"nv", "ref"}
    <3>1. v \in CastNV(sv, "int64")
      BY <1>1, <2>3 DEF SVToI64, IsNumeric
    <3>2. Least("int64") \in Int /\ Greatest("int64") \in Int
      BY <1>2, Limits
    <3>3. /\ v \in Int /\ Least("int64") <= v /\ v <= Greatest("int64")
          /\ InRange(Number(sv), "int64") => v = Number(sv)
      BY <3>1, <3>2, <1>3 DEF CastNV, InRange
    <3> QED
      BY <3>3, <2>3, <1>2, <1>3
  <2>4. CASE sv.k \notin {"iv", "uv", "big", "nv", "ref"} /\ ~IsNumeric(sv)
    <3>1. v = 0 /\ ~HasNumber(sv)
      BY <1>1, <2>4 DEF SVToI64, HasNumber, IsNumber
    <3> QED
      BY <3>1, Limits
  <2> QED
    BY <2>1, <2>2, <2>3, <2>4
<1> QED
  BY <1>2, <1>5, Int64ReadsBack DEF InRange

LEMMA UInt64Converts ==
    ASSUME NEW sv, sv.n \in Int, NEW v \in Convert64(sv, "uint64"),
           sv.k \in {"uv", "ref"} => InRange(sv.n, "uint64")
    PROVE  /\ HasNumber(sv) /\ InRange(Digits(sv), "uint64") => v = Digits(sv)
           /\ InRange(v, "uint64")
           /\ ReadsBack(v, "uint64")
<1>1. v \in SVToU64(sv)
  BY DEF Convert64
<1>2. /\ Least("uint64") = 0 /\ Greatest("uint64") = 2 ^ W64 - 1
  BY DEF Least, Greatest
<1>3. /\ Number(sv) \in Int /\ Digits(sv) \in Int
      /\ sv.k \in {"iv", "uv"} => Digits(sv) = sv.n
      /\ sv.k # "exp" => Digits(sv) = Number(sv)
  BY NumberIsInteger
<1>4. /\ v \in Int /\ 0 <= v /\ v <= 2 ^ W64 - 1
      /\ HasNumber(sv) /\ InRange(Digits(sv), "uint64") => v = Digits(sv)
  <2>1. CASE sv.k \in {"iv", "uv"}
    <3>1. v = AsUnsigned(sv.n, W64)
      <4>1. SvUV(sv) = AsUnsigned(sv.n, W64)
        BY <2>1 DEF SvUV
      <4>2. SVToU64(sv) = {SvUV(sv)}
        BY <2>1 DEF SVToU64, IsNumeric
      <4> QED
        BY <1>1, <4>1, <4>2
    <3> QED
      BY <3>1, <2>1, <1>2, <1>3, Wrapping DEF InRange
  <2>2. CASE IsNumeric(sv) \/ sv.k = "big"
    <3> DEFINE n == Digits(sv)
    <3>1. v = IF n < -(2 ^ W64 - 1) \/ n > 2 ^ W64 - 1 THEN 2 ^ W64 - 1
              ELSE AsUnsigned(n, W64)
      BY <1>1, <2>2 DEF SVToU64, Strtoull, IsNumeric
    <3>2. n \in Int
      BY <1>3
    <3>3. InRange(n, "uint64") <=> 0 <= n /\ n <= 2 ^ W64 - 1
      BY <1>2 DEF InRange
    <3> HIDE DEF n
    <3>4. /\ v \in Int /\ 0 <= v /\ v <= 2 ^ W64 - 1
          /\ InRange(n, "uint64") => v = n
      BY <3>1, <3>2, <3>3, Limits, Wrapping
    <3> QED
      BY <3>4 DEF n
  <2>3. CASE sv.k \in {"nv", "ref"}
    <3>1. v \in CastNV(sv, "uint64")
      BY <1>1, <2>3 DEF SVToU64, IsNumeric
    <3>2. Least("uint64") \in Int /\ Greatest("uint64") \in Int
      BY <1>2, Limits
    <3>3. /\ v \in Int /\ Least("uint64") <= v /\ v <= Greatest("uint64")
          /\ InRange(Number(sv), "uint64") => v = Number(sv)
      BY <3>1, <3>2, <1>3 DEF CastNV, InRange
    <3> QED
      BY <3>3, <2>3, <1>2, <1>3
  <2>4. CASE sv.k \notin {"iv", "uv", "big", "nv", "ref"} /\ ~IsNumeric(sv)
    <3>1. v = 0 /\ ~HasNumber(sv)
      BY <1>1, <2>4 DEF SVToU64, HasNumber, IsNumber
    <3> QED
      BY <3>1, Limits
  <2> QED
    BY <2>1, <2>2, <2>3, <2>4
<1> QED
  BY <1>2, <1>4, UInt64ReadsBack DEF InRange

LEMMA EnumConverts ==
    ASSUME NEW sv, sv.n \in Int, NEW v \in ConvertEnum(sv)
    PROVE  ReadsBack(v, "enum") /\ InRange(v, "enum")
<1>1. v \in Int /\ Low(W32) <= v /\ v <= High(W32)
  <2>1. CASE sv.k \in {"iv", "uv"}
    <3>1. v = AsSigned(SvIV(sv), W32) /\ SvIV(sv) = AsSigned(sv.n, W64)
      BY <2>1 DEF ConvertEnum, SvIV
    <3> QED
      BY <3>1, Wrapping
  <2>2. CASE sv.k = "str"
    <3>1. v \in EnumNames
      BY <2>2 DEF ConvertEnum
    <3> QED
      BY <3>1, EnumAssumption DEF InRange, Least, Greatest
  <2>3. sv.k \in {"iv", "uv", "str"}
    BY DEF ConvertEnum
  <2> QED
    BY <2>1, <2>2, <2>3
<1> DEFINE back == [k |-> "iv", n |-> v]
<1>2. UpbToSv(v, "enum") = back
  BY DEF UpbToSv
<1>3. back.k = "iv" /\ back.n = v
  OBVIOUS
<1>4. SvToUpb(back, "enum") = ConvertEnum(back)
  BY <1>3 DEF SvToUpb, ConvertSingular
<1> HIDE DEF back
<1>5. ConvertEnum(back) = {AsSigned(AsSigned(v, W64), W32)}
  BY <1>3 DEF ConvertEnum, SvIV
<1>6. AsSigned(v, W64) = v /\ AsSigned(v, W32) = v
  <2>1. Low(W64) <= v /\ v <= High(W64)
    BY <1>1, Limits
  <2> QED
    BY <1>1, <2>1, Wrapping
<1>7. InRange(v, "enum")
  BY <1>1 DEF InRange, Least, Greatest
<1> QED
  BY <1>2, <1>4, <1>5, <1>6, <1>7 DEF ReadsBack

LEMMA BoolConverts ==
    ASSUME NEW sv, NEW v \in ConvertBool(sv)
    PROVE  ReadsBack(v, "bool") /\ InRange(v, "bool")
<1>1. v \in {0, 1}
  BY DEF ConvertBool
<1> DEFINE back == [k |-> "iv", n |-> v]
<1>2. UpbToSv(v, "bool") = back
  BY DEF UpbToSv
<1>3. back.k = "iv" /\ back.n = v
  OBVIOUS
<1>4. SvToUpb(back, "bool") = ConvertBool(back)
  BY <1>3 DEF SvToUpb, ConvertSingular
<1> HIDE DEF back
<1>5. ConvertBool(back) = {IF v = 0 THEN 0 ELSE 1}
  BY <1>3 DEF ConvertBool, IsFalse
<1>6. InRange(v, "bool")
  BY <1>1 DEF InRange, Least, Greatest
<1> QED
  BY <1>1, <1>2, <1>4, <1>5, <1>6 DEF ReadsBack

LEMMA StringConverts ==
    ASSUME NEW sv, NEW t \in {"string", "bytes"}, NEW v \in ConvertString(sv, t)
    PROVE  ReadsBack(v, t)
<1>1. v = sv /\ sv.k # "undef" /\ ConvertString(sv, t) = {sv}
  BY DEF ConvertString, IsNumeric
<1>2. UpbToSv(v, t) = sv
  BY <1>1 DEF UpbToSv
<1>3. SvToUpb(sv, t) = ConvertString(sv, t)
  BY <1>1 DEF SvToUpb, ConvertSingular
<1> QED
  BY <1>1, <1>2, <1>3 DEF ReadsBack

(* A field that was just set. *)
LEMMA ConvertedIsOK ==
    ASSUME NEW f \in Fields, NEW sv \in Inputs, NEW v \in SvToUpb(sv, type[f])
    PROVE  FieldOK(f, v, Told(f, sv))
<1> DEFINE t == type[f]
           g == Told(f, sv)
<1>1. /\ sv.n \in Int
      /\ sv.k = "iv" => InRange(sv.n, "int64")
      /\ sv.k \in {"uv", "ref"} => InRange(sv.n, "uint64")
  BY InputsAssumption
<1>2. v \in ConvertSingular(sv, t)
  BY DEF SvToUpb
<1>3. t \in {"int32", "uint32", "int64", "uint64", "enum", "bool", "string", "bytes"}
  BY MessageAssumption
<1>4. t \in {"int32", "uint32", "int64", "uint64"} => g = sv
  BY DEF Told
<1>5. /\ ReadsBack(v, t)
      /\ t \in {"int32", "uint32"} => v = Number(sv)
      /\ t \in {"int64", "uint64"} /\ HasNumber(sv) =>
            (InRange(Digits(sv), t) => v = Digits(sv))
      /\ t \notin {"string", "bytes"} => InRange(v, t)
  <2> HIDE DEF t
  <2>5. CASE t = "int32"
    BY <1>1, <1>2, <2>5, Int32Converts DEF ConvertSingular
  <2>6. CASE t = "uint32"
    BY <1>1, <1>2, <2>6, UInt32Converts DEF ConvertSingular
  <2>7. CASE t = "int64"
    BY <1>1, <1>2, <2>7, Int64Converts DEF ConvertSingular
  <2>8. CASE t = "uint64"
    BY <1>1, <1>2, <2>8, UInt64Converts DEF ConvertSingular
  <2>9. CASE t = "enum"
    BY <1>1, <1>2, <2>9, EnumConverts DEF ConvertSingular
  <2>10. CASE t = "bool"
    BY <1>2, <2>10, BoolConverts DEF ConvertSingular
  <2>11. CASE t \in {"string", "bytes"}
    BY <1>2, <2>11, StringConverts DEF ConvertSingular
  <2> QED
    BY <1>3, <2>5, <2>6, <2>7, <2>8, <2>9, <2>10, <2>11
<1>6. t \notin {"int32", "uint32", "int64", "uint64"} \/ g = sv
  BY <1>4
<1> HIDE DEF g
<1>7. FieldOK(f, v, g)
  BY <1>5, <1>6 DEF FieldOK, ReadsBack
<1> QED
  BY <1>7 DEF g

-----------------------------------------------------------------------------
(* Every write puts sound contents into its message. *)

LEMMA ClearFieldsKeeps ==
    ASSUME MessagesSound, NEW m \in Msgs, NEW fs, ClearFields(m, fs)
    PROVE  MessagesSound'
<1> DEFINE S == DOMAIN msg[m] \ fs
<1>1. Sound(msg[m], given[m])
  BY DEF MessagesSound
<1>2. Rewrites(m, Restrict(msg[m], S), Restrict(given[m], S))
  BY <1>1 DEF ClearFields, Rewrites, Without, Sound
<1>3. Sound(Restrict(msg[m], S), Restrict(given[m], S))
  BY <1>1, RestrictIsSound
<1> QED
  BY <1>2, <1>3, RewritesKeep

LEMMA SetFieldKeeps ==
    ASSUME MessagesSound, NEW m \in Msgs, NEW f \in Fields, NEW sv \in Inputs, SetField(m, f, sv)
    PROVE  MessagesSound'
<1> DEFINE given1 == Put(given[m], Only(f, Told(f, sv)))
<1>1. PICK v \in SvToUpb(sv, type[f]) :
         \/ ClearFields(m, {f})
         \/ Rewrites(m, Put(msg[m], Only(f, v)), given1)
  BY DEF SetField, Rewrites
<1>2. CASE ClearFields(m, {f})
  BY <1>2, ClearFieldsKeeps
<1>3. CASE Rewrites(m, Put(msg[m], Only(f, v)), given1)
  <2>1. Sound(Only(f, v), Only(f, Told(f, sv)))
    BY ConvertedIsOK, OnlyIsSound
  <2>2. Sound(Put(msg[m], Only(f, v)), given1)
    BY <2>1, PutIsSound DEF MessagesSound
  <2> QED
    BY <1>3, <2>2, RewritesKeep
<1> QED
  BY <1>1, <1>2, <1>3

LEMMA MergeFromKeeps ==
    ASSUME MessagesSound, NEW w \in Wrappers, NEW src \in Msgs, MergeFrom(w, src)
    PROVE  MessagesSound'
<1> DEFINE m == msg_of[w]
<1>1. m \in Msgs
  BY MessageAssumption
<1>2. CASE mdef[m] = mdef[src]
  <2>1. Rewrites(m, Put(msg[m], msg[src]), Put(given[m], given[src]))
    BY <1>2 DEF MergeFrom, Rewrites
  <2>2. Sound(Put(msg[m], msg[src]), Put(given[m], given[src]))
    BY <1>1, PutIsSound DEF MessagesSound
  <2> QED
    BY <1>1, <2>1, <2>2, RewritesKeep
<1>3. CASE mdef[m] # mdef[src]
  BY <1>3 DEF MergeFrom, MessagesSound
<1> QED
  BY <1>2, <1>3

LEMMA CopyFromKeeps ==
    ASSUME MessagesSound, NEW w \in Wrappers, NEW src \in Msgs, CopyFrom(w, src)
    PROVE  MessagesSound'
<1> DEFINE m == msg_of[w]
<1>1. m \in Msgs
  BY MessageAssumption
<1>2. CASE mdef[m] = mdef[src] /\ src # m
  <2>1. Rewrites(m, msg[src], given[src])
    BY <1>2 DEF CopyFrom, Rewrites
  <2> QED
    BY <1>1, <2>1, RewritesKeep DEF MessagesSound
<1>3. CASE ~(mdef[m] = mdef[src] /\ src # m)
  <2>1. Rewrites(m, Empty, Empty)
    BY <1>3 DEF CopyFrom, Rewrites
  <2> QED
    BY <1>1, <2>1, EmptyIsSound, RewritesKeep
<1> QED
  BY <1>2, <1>3

LEMMA ParseFromKeeps ==
    ASSUME MessagesSound, NEW w \in Wrappers, NEW src \in Msgs, ParseFrom(w, src)
    PROVE  MessagesSound'
<1> DEFINE m == msg_of[w]
<1>1. m \in Msgs
  BY MessageAssumption
<1>2. PICK decoded \in SUBSET DOMAIN msg[src] :
         Rewrites(m, Put(msg[m], Restrict(msg[src], decoded)),
                     Put(given[m], Restrict(given[src], decoded)))
  BY DEF ParseFrom, Rewrites
<1>3. Sound(Restrict(msg[src], decoded), Restrict(given[src], decoded))
  BY RestrictIsSound DEF MessagesSound
<1>4. Sound(Put(msg[m], Restrict(msg[src], decoded)), Put(given[m], Restrict(given[src], decoded)))
  BY <1>1, <1>3, PutIsSound DEF MessagesSound
<1> QED
  BY <1>1, <1>2, <1>4, RewritesKeep

(* JSON gives the fields back as they were. *)
LEMMA JsonRoundTrip ==
    ASSUME NEW v, NEW t, t \notin {"string", "bytes"} => InRange(v, t)
    PROVE  JsonDecode(JsonEncode(v, t), t) = {v}
<1> DEFINE j == JsonEncode(v, t)
<1>1. CASE t = "string"
  BY <1>1 DEF JsonDecode, JsonEncode
<1>2. CASE t = "bytes"
  <2>1. j = [k |-> "base64", n |-> v]
    BY <1>2 DEF JsonEncode
  <2>2. JsonDecode(j, t) = IF j.k = "base64" THEN {j.n} ELSE {}
    BY <1>2 DEF JsonDecode
  <2> QED
    BY <2>1, <2>2
<1>3. CASE t = "enum" /\ v \in EnumNames
  <2>1. j = [k |-> "str", n |-> v]
    BY <1>3 DEF JsonEncode
  <2>2. j.k = "str" /\ j.n = v
    BY <2>1
  <2>3. JsonDecode(j, t) = {j.n} \cap EnumNames
    BY <1>3, <2>2 DEF JsonDecode
  <2> QED
    BY <1>3, <2>2, <2>3
<1>4. CASE t \notin {"string", "bytes"} /\ ~(t = "enum" /\ v \in EnumNames)
  <2>1. j = [k |-> "num", n |-> v] \/ j = [k |-> "iv", n |-> v]
    BY <1>4 DEF JsonEncode
  <2>2. j.k # "str" /\ j.n = v
    BY <2>1
  <2>3. JsonDecode(j, t) = IF InRange(j.n, t) THEN {j.n} ELSE {}
    BY <1>4, <2>2 DEF JsonDecode
  <2> QED
    BY <1>4, <2>2, <2>3
<1> QED
  BY <1>1, <1>2, <1>3, <1>4

LEMMA ReplaceKeeps ==
    ASSUME MessagesSound, NEW m \in Msgs, NEW src \in Msgs, Parse(m, src) \/ FromJson(m, src)
    PROVE  MessagesSound'
<1>1. Sound(msg[src], given[src])
  BY DEF MessagesSound
<1>2. CASE Parse(m, src)
  <2>1. Rewrites(m, msg[src], given[src])
    BY <1>2 DEF Parse, Replace, Rewrites
  <2> QED
    BY <1>1, <2>1, RewritesKeep
<1>3. CASE FromJson(m, src)
  <2> DEFINE c == [f \in DOMAIN msg[src] |->
                     CHOOSE v \in JsonDecode(ToJson(src)[f], type[f]) : TRUE]
  <2>1. Rewrites(m, c, given[src])
    BY <1>3 DEF FromJson, Replace, Rewrites
  <2>2. ASSUME NEW f \in DOMAIN msg[src]
        PROVE  c[f] = msg[src][f]
    <3>1. type[f] \notin {"string", "bytes"} => InRange(msg[src][f], type[f])
      BY <1>1 DEF Sound, FieldOK
    <3>2. JsonDecode(ToJson(src)[f], type[f]) = {msg[src][f]}
      BY <3>1, JsonRoundTrip DEF ToJson
    <3> QED
      BY <3>2
  <2>3. DOMAIN c = DOMAIN msg[src]
    OBVIOUS
  <2> HIDE DEF c
  <2>4. Sound(c, given[src])
    BY <1>1, <2>2, <2>3 DEF Sound
  <2> QED
    BY <2>1, <2>4, RewritesKeep
<1> QED
  BY <1>2, <1>3

LEMMA MessagesInductive ==
    ASSUME MessagesSound, [Next]_vars
    PROVE  MessagesSound'
<1>1. CASE UNCHANGED <<msg, given>>
  BY <1>1 DEF MessagesSound
<1>2. ASSUME NEW w \in Wrappers, NEW f \in Fields, NEW sv \in Inputs,
             FastSet(w, f, sv) \/ GenericSet(w, f, sv)
      PROVE  MessagesSound'
  BY <1>2, SetFieldKeeps, MessageAssumption DEF FastSet, GenericSet
<1>3. ASSUME NEW w \in Wrappers, NEW f, FastClear(w, f) \/ GenericClear(w, f)
      PROVE  MessagesSound'
  BY <1>3, ClearFieldsKeeps, MessageAssumption DEF FastClear, GenericClear
<1> QED
  BY <1>1, <1>2, <1>3, MergeFromKeeps, CopyFromKeeps, ParseFromKeeps, ReplaceKeeps
     DEF Next, FastGet, vars

-----------------------------------------------------------------------------
(* The memos.  A memo that is neither stale nor bypassed agrees with the    *)
(* message.                                                                *)
MemoFresh(w) ==
    w \notin WriteHeavy /\ ~dirty[w] /\ ~bypassed[w] =>
        \A f \in DOMAIN memo[w] : memo[w][f] = GetField(msg_of[w], f)

MemosOK ==
    /\ memo = [w \in Wrappers |-> memo[w]]
    /\ dirty \in [Wrappers -> BOOLEAN]
    /\ bypassed \in [Wrappers -> BOOLEAN]
    /\ \A w \in Wrappers : MemoFresh(w)

MessageIInv == MessagesSound /\ MemosOK

(* The write went to the message of w: every other memo of it is bypassed.  *)
Notices(w) ==
    /\ \A m \in Msgs : m # msg_of[w] => msg'[m] = msg[m]
    /\ memo' = [u \in Wrappers |-> memo'[u]]
    /\ dirty' \in [Wrappers -> BOOLEAN]
    /\ bypassed' \in [Wrappers -> BOOLEAN]
    /\ \A u \in Wrappers : u # w =>
          /\ memo'[u] = memo[u] /\ dirty'[u] = dirty[u]
          /\ bypassed[u] => bypassed'[u]
          /\ u \notin WriteHeavy /\ msg_of[u] = msg_of[w] => bypassed'[u]

LEMMA OthersStayFresh ==
    ASSUME MemosOK, NEW w \in Wrappers, Notices(w), MemoFresh(w)'
    PROVE  MemosOK'
<1>1. ASSUME NEW u \in Wrappers, u # w PROVE MemoFresh(u)'
  <2> SUFFICES ASSUME u \notin WriteHeavy, ~dirty'[u], ~bypassed'[u], NEW f \in DOMAIN memo'[u]
               PROVE  memo'[u][f] = GetField(msg_of[u], f)'
    BY DEF MemoFresh
  <2>1. /\ memo'[u] = memo[u] /\ ~dirty[u] /\ ~bypassed[u] /\ msg_of[u] # msg_of[w]
    BY <1>1 DEF Notices
  <2>2. msg'[msg_of[u]] = msg[msg_of[u]]
    BY <2>1, MessageAssumption DEF Notices
  <2>3. memo[u][f] = GetField(msg_of[u], f)
    BY <2>1 DEF MemosOK, MemoFresh
  <2> QED
    BY <2>1, <2>2, <2>3 DEF GetField
<1> QED
  BY <1>1 DEF MemosOK, Notices

(* How each kind of write tells the wrappers. *)
LEMMA UnnoticedKeeps ==
    ASSUME MemosOK, NEW w \in Wrappers, Unnoticed(w),
           \A m \in Msgs : m # msg_of[w] => msg'[m] = msg[m]
    PROVE  MemosOK'
<1>1. /\ memo' = memo /\ dirty' = dirty
      /\ bypassed' = [u \in Wrappers |->
                        bypassed[u] \/ u \in Others(w) \/ (u = w /\ w \notin WriteHeavy)]
  BY DEF Unnoticed
<1>2. \A u \in Wrappers : bypassed'[u] =
         (bypassed[u] \/ u \in Others(w) \/ (u = w /\ w \notin WriteHeavy))
  BY <1>1
<1>3. bypassed' \in [Wrappers -> BOOLEAN]
  BY <1>1, Zenon
<1>4. Notices(w)
  BY <1>1, <1>2, <1>3 DEF Notices, Others, MemosOK
<1>5. MemoFresh(w)'
  BY <1>2 DEF MemoFresh
<1> QED
  BY <1>4, <1>5, OthersStayFresh

LEMMA MarkDirtyKeeps ==
    ASSUME MemosOK, NEW w \in Wrappers, NEW f, MarkDirty(w, f),
           \A m \in Msgs : m # msg_of[w] => msg'[m] = msg[m]
    PROVE  MemosOK'
<1>1. /\ memo' = memo /\ dirty' = [dirty EXCEPT ![w] = w \notin WriteHeavy]
      /\ bypassed' = [u \in Wrappers |-> u # w /\ (bypassed[u] \/ u \in Others(w))]
  BY DEF MarkDirty
<1>2. \A u \in Wrappers : bypassed'[u] = (u # w /\ (bypassed[u] \/ u \in Others(w)))
  BY <1>1
<1>3. bypassed' \in [Wrappers -> BOOLEAN]
  BY <1>1, Zenon
<1>4. /\ dirty' \in [Wrappers -> BOOLEAN] /\ dirty'[w] = (w \notin WriteHeavy)
      /\ \A u \in Wrappers : u # w => dirty'[u] = dirty[u]
  BY <1>1 DEF MemosOK
<1>5. Notices(w)
  BY <1>1, <1>2, <1>3, <1>4 DEF Notices, Others, MemosOK
<1>6. MemoFresh(w)'
  BY <1>4 DEF MemoFresh
<1> QED
  BY <1>5, <1>6, OthersStayFresh

LEMMA ForgetMemoKeeps ==
    ASSUME MemosOK, NEW w \in Wrappers, ForgetMemo(w),
           \A m \in Msgs : m # msg_of[w] => msg'[m] = msg[m]
    PROVE  MemosOK'
<1>1. /\ dirty' = dirty /\ memo' = [memo EXCEPT ![w] = Empty]
      /\ bypassed' = [u \in Wrappers |-> u # w /\ (bypassed[u] \/ u \in Others(w))]
  BY DEF ForgetMemo
<1>2. \A u \in Wrappers : bypassed'[u] = (u # w /\ (bypassed[u] \/ u \in Others(w)))
  BY <1>1
<1>3. bypassed' \in [Wrappers -> BOOLEAN]
  BY <1>1, Zenon
<1>4. /\ memo' = [u \in Wrappers |-> memo'[u]] /\ memo'[w] = Empty
      /\ \A u \in Wrappers : u # w => memo'[u] = memo[u]
  BY <1>1 DEF MemosOK
<1>5. Notices(w)
  BY <1>1, <1>2, <1>3, <1>4 DEF Notices, Others, MemosOK
<1>6. MemoFresh(w)'
  BY <1>4 DEF MemoFresh, Empty
<1> QED
  BY <1>5, <1>6, OthersStayFresh

(* A getter drops a stale memo before it adds to it. *)
LEMMA FastGetKeeps ==
    ASSUME MemosOK, NEW w \in Wrappers, NEW f \in Fields, FastGet(w, f)
    PROVE  MemosOK'
<1> DEFINE kept == IF dirty[w] THEN Empty ELSE memo[w]
           new == [g \in DOMAIN kept \cup {f} |->
                     IF g \in DOMAIN kept THEN kept[g] ELSE FastValue(w, f)]
<1>1. /\ w \notin WriteHeavy /\ memo' = [memo EXCEPT ![w] = new]
      /\ dirty' = [dirty EXCEPT ![w] = FALSE]
      /\ bypassed' = [bypassed EXCEPT ![w] = bypassed[w] /\ ~dirty[w]]
      /\ msg' = msg
  BY DEF FastGet
<1>2. /\ DOMAIN new = DOMAIN kept \cup {f}
      /\ \A g \in DOMAIN new : new[g] = IF g \in DOMAIN kept THEN kept[g] ELSE FastValue(w, f)
  OBVIOUS
<1> HIDE DEF new
<1>3. /\ memo' = [u \in Wrappers |-> memo'[u]] /\ memo'[w] = new
      /\ \A u \in Wrappers : u # w => memo'[u] = memo[u]
  BY <1>1 DEF MemosOK
<1>4. /\ dirty' \in [Wrappers -> BOOLEAN]
      /\ \A u \in Wrappers : u # w => dirty'[u] = dirty[u]
  BY <1>1 DEF MemosOK
<1>5. /\ bypassed' \in [Wrappers -> BOOLEAN]
      /\ \A u \in Wrappers : u # w => bypassed'[u] = bypassed[u]
      /\ bypassed'[w] = (bypassed[w] /\ ~dirty[w])
  BY <1>1 DEF MemosOK
<1>6. ASSUME NEW u \in Wrappers, u # w PROVE MemoFresh(u)'
  BY <1>1, <1>3, <1>4, <1>5, <1>6 DEF MemosOK, MemoFresh, GetField
<1>7. MemoFresh(w)'
  <2> SUFFICES ASSUME ~bypassed'[w], NEW g \in DOMAIN new
               PROVE  new[g] = GetField(msg_of[w], g)
    BY <1>1, <1>3 DEF MemoFresh, GetField
  <2>1. CASE dirty[w]
    <3>1. DOMAIN kept = {}
      BY <2>1 DEF Empty
    <3>2. g = f /\ new[g] = FastValue(w, f)
      BY <1>2, <3>1
    <3> QED
      BY <2>1, <3>2 DEF FastValue
  <2>2. CASE ~dirty[w]
    <3>1. kept = memo[w] /\ ~bypassed[w]
      BY <2>2, <1>5
    <3>2. \A h \in DOMAIN memo[w] : memo[w][h] = GetField(msg_of[w], h)
      BY <1>1, <2>2, <3>1 DEF MemosOK, MemoFresh
    <3>3. CASE g \in DOMAIN kept
      BY <1>2, <3>1, <3>2, <3>3
    <3>4. CASE g \notin DOMAIN kept
      <4>1. g = f /\ new[g] = FastValue(w, f)
        BY <1>2, <3>4
      <4> QED
        BY <4>1, <3>1, <3>4 DEF FastValue
    <3> QED
      BY <3>3, <3>4
  <2> QED
    BY <2>1, <2>2
<1> QED
  BY <1>3, <1>4, <1>5, <1>6, <1>7 DEF MemosOK

(* A new message has no wrapper with a memo. *)
LEMMA ReplaceForgets ==
    ASSUME MessagesSound, MemosOK, NEW m \in Msgs, NEW c, NEW src, Replace(m, c, src)
    PROVE  MemosOK'
<1>1. /\ msg' = [msg EXCEPT ![m] = c]
      /\ memo' = [w \in Wrappers |-> IF msg_of[w] = m THEN Empty ELSE memo[w]]
      /\ dirty' = [w \in Wrappers |-> msg_of[w] # m /\ dirty[w]]
      /\ bypassed' = [w \in Wrappers |-> msg_of[w] # m /\ bypassed[w]]
  BY DEF Replace
<1>2. dirty' \in [Wrappers -> BOOLEAN] /\ bypassed' \in [Wrappers -> BOOLEAN]
  BY <1>1, Zenon
<1>3. \A q \in Msgs : q # m => msg'[q] = msg[q]
  BY <1>1 DEF MessagesSound
<1>4. ASSUME NEW w \in Wrappers PROVE MemoFresh(w)'
  <2>1. CASE msg_of[w] = m
    <3>1. DOMAIN memo'[w] = {}
      BY <2>1, <1>1 DEF Empty
    <3> QED
      BY <3>1 DEF MemoFresh
  <2>2. CASE msg_of[w] # m
    <3>1. /\ memo'[w] = memo[w] /\ dirty'[w] = dirty[w] /\ bypassed'[w] = bypassed[w]
      BY <2>2, <1>1 DEF MemosOK
    <3>2. msg'[msg_of[w]] = msg[msg_of[w]]
      BY <2>2, <1>3, MessageAssumption
    <3> QED
      BY <3>1, <3>2 DEF MemosOK, MemoFresh, GetField
  <2> QED
    BY <2>1, <2>2
<1> QED
  BY <1>1, <1>2, <1>4 DEF MemosOK

LEMMA WritesOneMessage ==
    ASSUME MessagesSound, NEW m \in Msgs, NEW c, msg' = [msg EXCEPT ![m] = c]
    PROVE  \A q \in Msgs : q # m => msg'[q] = msg[q]
BY DEF MessagesSound

LEMMA SetFieldWrites ==
    ASSUME NEW m, NEW f, NEW sv, SetField(m, f, sv)
    PROVE  \E c : msg' = [msg EXCEPT ![m] = c]
<1>1. PICK v : \/ msg' = [msg EXCEPT ![m] = Put(msg[m], Only(f, v))]
               \/ msg' = [msg EXCEPT ![m] = Without(msg[m], {f})]
  BY DEF SetField, ClearFields
<1> QED
  BY <1>1

LEMMA MemosInductive ==
    ASSUME MessagesSound, MemosOK, [Next]_vars
    PROVE  MemosOK'
<1> USE MessageAssumption
<1>1. CASE UNCHANGED vars
  BY <1>1 DEF vars, MemosOK, MemoFresh, GetField
<1>2. ASSUME NEW w \in Wrappers, NEW f \in Fields, FastGet(w, f)
      PROVE  MemosOK'
  BY <1>2, FastGetKeeps
<1>3. ASSUME NEW w \in Wrappers, NEW f \in Fields, NEW sv \in Inputs,
             FastSet(w, f, sv) \/ GenericSet(w, f, sv)
      PROVE  MemosOK'
  <2>1. \E c : msg' = [msg EXCEPT ![msg_of[w]] = c]
    BY <1>3, SetFieldWrites DEF FastSet, GenericSet
  <2> QED
    BY <1>3, <2>1, WritesOneMessage, MarkDirtyKeeps, UnnoticedKeeps DEF FastSet, GenericSet
<1>4. ASSUME NEW w \in Wrappers, NEW f, FastClear(w, f) \/ GenericClear(w, f)
      PROVE  MemosOK'
  <2>1. \E c : msg' = [msg EXCEPT ![msg_of[w]] = c]
    BY <1>4 DEF FastClear, GenericClear, ClearFields
  <2> QED
    BY <1>4, <2>1, WritesOneMessage, MarkDirtyKeeps, UnnoticedKeeps DEF FastClear, GenericClear
<1>5. ASSUME NEW w \in Wrappers, NEW src \in Msgs,
             MergeFrom(w, src) \/ CopyFrom(w, src) \/ ParseFrom(w, src)
      PROVE  MemosOK'
  <2>1. (\E c : msg' = [msg EXCEPT ![msg_of[w]] = c]) \/ msg' = msg
    BY <1>5 DEF MergeFrom, CopyFrom, ParseFrom
  <2>2. \A q \in Msgs : q # msg_of[w] => msg'[q] = msg[q]
    <3>1. CASE msg' = msg
      BY <3>1
    <3>2. CASE \E c : msg' = [msg EXCEPT ![msg_of[w]] = c]
      <4>1. PICK c : msg' = [msg EXCEPT ![msg_of[w]] = c]
        BY <3>2
      <4>2. msg_of[w] \in Msgs
        OBVIOUS
      <4> QED
        BY <4>1, <4>2, WritesOneMessage
    <3> QED
      BY <2>1, <3>1, <3>2
  <2>3. ForgetMemo(w)
    BY <1>5 DEF MergeFrom, CopyFrom, ParseFrom
  <2> QED
    BY <2>2, <2>3, ForgetMemoKeeps
<1>6. ASSUME NEW m \in Msgs, NEW src \in Msgs, Parse(m, src) \/ FromJson(m, src)
      PROVE  MemosOK'
  BY <1>6, ReplaceForgets DEF Parse, FromJson
<1> QED
  BY <1>1, <1>2, <1>3, <1>4, <1>5, <1>6 DEF Next

-----------------------------------------------------------------------------
LEMMA MessageIInvInitially == Init => MessageIInv
<1> SUFFICES ASSUME Init PROVE MessageIInv
  OBVIOUS
<1>1. MessagesSound
  BY EmptyIsSound DEF Init, MessagesSound
<1>2. DOMAIN Empty = {}
  BY DEF Empty
<1>3. MemosOK
  BY <1>2 DEF Init, MemosOK, MemoFresh
<1> QED
  BY <1>1, <1>3 DEF MessageIInv

LEMMA MessageIInvAlways == Spec => []MessageIInv
<1>1. MessageIInv /\ [Next]_vars => MessageIInv'
  BY MessagesInductive, MemosInductive DEF MessageIInv
<1> QED
  BY <1>1, MessageIInvInitially, PTL DEF Spec

(* PerlUpb_SvToUpb and PerlUpb_UpbToSv agree on every field, through every  *)
(* merge, copy, parse and JSON round trip, for integers of any two widths: *)
(* what the program gave is what is there, or never got there.             *)
THEOREM FieldsHoldWhatTheyWereGiven == Spec => []FieldHoldsWhatWasGiven
<1>1. MessageIInv => FieldHoldsWhatWasGiven
  <2> SUFFICES ASSUME MessageIInv, NEW m \in Msgs, NEW f \in DOMAIN msg[m]
               PROVE  FieldOK(f, msg[m][f], given[m][f])
    BY DEF FieldHoldsWhatWasGiven, FieldOK
  <2> QED
    BY DEF MessageIInv, MessagesSound, Sound
<1> QED
  BY <1>1, MessageIInvAlways, PTL

(* PerlUpb_FastAccessor returns what the message holds, unless a write went *)
(* past its memo.                                                          *)
THEOREM GettersStayFresh == Spec => []GettersAreFresh
<1>1. MessageIInv => GettersAreFresh
  BY DEF MessageIInv, MemosOK, MemoFresh, GettersAreFresh, FastValue
<1> QED
  BY <1>1, MessageIInvAlways, PTL

(* At most one member of a oneof is set, and has_, which_oneof and the list *)
(* of fields all say which.                                                *)
THEOREM OneofStaysExclusive == Spec => []OneofIsExclusive
<1>1. MessageIInv => OneofIsExclusive
  <2> SUFFICES ASSUME MessageIInv, NEW w \in Wrappers, NEW f \in Oneof
               PROVE  /\ "has_" \in Accessors(f)
                      /\ FastHas(w, f) = {IF WhichOneof(msg_of[w]) = f THEN 1 ELSE 0}
                      /\ (f \in MessageFields(msg_of[w])) <=> (WhichOneof(msg_of[w]) = f)
    BY DEF OneofIsExclusive
  <2> USE MessageAssumption
  <2> DEFINE m == msg_of[w]
  <2>1. m \in Msgs /\ f \in HasPresence /\ f \in Fields /\ f # ""
    OBVIOUS
  <2>2. OneAtMost(DOMAIN msg[m])
    BY <2>1 DEF MessageIInv, MessagesSound, Sound
  <2>3. (f \in DOMAIN msg[m]) <=> (WhichOneof(m) = f)
    <3>1. CASE Oneof \cap DOMAIN msg[m] = {}
      BY <3>1, <2>1 DEF WhichOneof
    <3>2. CASE Oneof \cap DOMAIN msg[m] # {}
      <4>1. WhichOneof(m) \in Oneof /\ WhichOneof(m) \in DOMAIN msg[m]
        BY <3>2 DEF WhichOneof
      <4> QED
        BY <4>1, <2>2 DEF OneAtMost
    <3> QED
      BY <3>1, <3>2
  <2>4. FastHas(w, f) = {IF WhichOneof(m) = f THEN 1 ELSE 0}
    BY <2>1, <2>3 DEF FastHas, HasField
  <2>5. "has_" \in Accessors(f)
    BY <2>1 DEF Accessors
  <2>6. (f \in MessageFields(m)) <=> (WhichOneof(m) = f)
    BY <2>1, <2>3 DEF MessageFields
  <2> QED
    BY <2>4, <2>5, <2>6
<1> QED
  BY <1>1, MessageIInvAlways, PTL

-----------------------------------------------------------------------------
(* Message streams. *)

(* Varints. *)

Bytes == 0 .. (2 * Base) - 1

LEMMA BaseFacts ==
    ASSUME NEW n \in Nat
    PROVE  /\ Base \in Nat /\ Base > 1
           /\ n % Base \in Nat /\ n % Base < Base /\ n \div Base \in Nat
           /\ n = (n % Base) + (Base * (n \div Base))
           /\ n >= Base => n \div Base < n
<1>1. Base \in Nat /\ Base > 1
  BY MessageStreamAssumption
<1>2. n % Base \in Nat /\ n % Base < Base /\ n \div Base \in Nat
  BY <1>1
<1>3. n = (n % Base) + (Base * (n \div Base))
  BY <1>1
<1>4. n >= Base => n \div Base < n
  BY <1>1, <1>2, <1>3
<1> QED BY <1>1, <1>2, <1>3, <1>4

VarintStep(f, n) == IF n < Base THEN <<n>> ELSE Cat(<<Base + (n % Base)>>, f[n \div Base])
VarintUpto(f, k) == \A n \in Nat : n <= k => f[n] = VarintStep(f, n)

LEMMA VarintStepType ==
    ASSUME NEW f \in [Nat -> Seq(Bytes)], NEW n \in Nat
    PROVE  VarintStep(f, n) \in Seq(Bytes)
<1>1. /\ Base \in Nat /\ Base > 1 /\ n % Base \in Nat /\ n % Base < Base /\ n \div Base \in Nat
  BY BaseFacts
<1>2. CASE n < Base
  <2>1. n \in Bytes
    BY <1>1, <1>2 DEF Bytes
  <2> QED BY <1>2, <2>1 DEF VarintStep
<1>3. CASE ~(n < Base)
  <2> DEFINE b == Base + (n % Base)
  <2>1. b \in Bytes
    BY <1>1 DEF Bytes
  <2> HIDE DEF b
  <2>2. <<b>> \in Seq(Bytes) /\ f[n \div Base] \in Seq(Bytes)
    BY <1>1, <2>1
  <2>3. Cat(<<b>>, f[n \div Base]) \in Seq(Bytes)
    BY <2>2, CatFacts
  <2> QED BY <1>3, <2>3 DEF VarintStep, b
<1> QED BY <1>2, <1>3

(* The step depends on the smaller number only. *)
LEMMA VarintStepSame ==
    ASSUME NEW f, NEW g, NEW n \in Nat, \A i \in Nat : i < n => f[i] = g[i]
    PROVE  VarintStep(f, n) = VarintStep(g, n)
<1>1. n >= Base => n \div Base \in Nat /\ n \div Base < n
  BY BaseFacts
<1>2. Base \in Nat
  BY BaseFacts
<1>3. CASE n < Base
  BY <1>3 DEF VarintStep
<1>4. CASE n >= Base
  <2>1. f[n \div Base] = g[n \div Base]
    BY <1>1, <1>4
  <2> QED BY <2>1 DEF VarintStep
<1> QED BY <1>2, <1>3, <1>4

LEMMA VarintUptoExists ==
    ASSUME NEW k \in Nat
    PROVE  \E g \in [Nat -> Seq(Bytes)] : VarintUpto(g, k)
<1> DEFINE Q == {n \in Nat : \E g \in [Nat -> Seq(Bytes)] : VarintUpto(g, n)}
<1>1. 0 \in Q
  <2> DEFINE g == [n \in Nat |-> <<0>>]
  <2>1. Base \in Nat /\ Base > 1 /\ 0 \in Bytes
    BY MessageStreamAssumption DEF Bytes
  <2>2. <<0>> \in Seq(Bytes)
    BY <2>1
  <2>3. g \in [Nat -> Seq(Bytes)] /\ g[0] = <<0>>
    BY <2>2
  <2> HIDE DEF g
  <2>4. VarintStep(g, 0) = <<0>>
    BY <2>1 DEF VarintStep
  <2>5. VarintUpto(g, 0)
    <3>1. \A n \in Nat : n <= 0 => n = 0
      OBVIOUS
    <3> QED BY <2>3, <2>4, <3>1 DEF VarintUpto
  <2> QED BY <2>3, <2>5
<1>2. ASSUME NEW n \in Nat, n \in Q
      PROVE  n + 1 \in Q
  <2>1. PICK g \in [Nat -> Seq(Bytes)] : VarintUpto(g, n)
    BY <1>2
  <2> DEFINE h == [i \in Nat |-> VarintStep(g, i)]
  <2>2. h \in [Nat -> Seq(Bytes)] /\ \A i \in Nat : h[i] = VarintStep(g, i)
    BY VarintStepType
  <2> HIDE DEF h
  <2>3. \A i \in Nat : i <= n => h[i] = g[i]
    BY <2>1, <2>2 DEF VarintUpto
  <2>4. ASSUME NEW i \in Nat, i <= n + 1
        PROVE  h[i] = VarintStep(h, i)
    <3>1. \A j \in Nat : j < i => g[j] = h[j]
      BY <2>3, <2>4
    <3>2. VarintStep(g, i) = VarintStep(h, i)
      BY <3>1, VarintStepSame
    <3> QED BY <2>2, <3>2
  <2>5. VarintUpto(h, n + 1)
    BY <2>4 DEF VarintUpto
  <2> QED BY <2>2, <2>5
<1> HIDE DEF Q
<1>3. Nat \subseteq Q
  BY <1>1, <1>2, Induct
<1> QED BY <1>3 DEF Q

LEMMA VarintUptoUnique ==
    ASSUME NEW g, NEW h, NEW k \in Nat, VarintUpto(g, k), VarintUpto(h, k)
    PROVE  g[k] = h[k]
<1> DEFINE Q == {n \in Nat : \A i \in Nat : i < n /\ i <= k => g[i] = h[i]}
<1>1. 0 \in Q
  OBVIOUS
<1>2. ASSUME NEW n \in Nat, n \in Q
      PROVE  n + 1 \in Q
  <2> SUFFICES ASSUME NEW i \in Nat, i < n + 1, i <= k
               PROVE  g[i] = h[i]
    OBVIOUS
  <2>1. \A j \in Nat : j < i => g[j] = h[j]
    BY <1>2
  <2>2. VarintStep(g, i) = VarintStep(h, i)
    BY <2>1, VarintStepSame
  <2> QED BY <2>2 DEF VarintUpto
<1> HIDE DEF Q
<1>3. Nat \subseteq Q
  BY <1>1, <1>2, Induct
<1>4. k + 1 \in Q /\ k < k + 1
  BY <1>3
<1> QED BY <1>4 DEF Q

(* WriteVarint by its equations. *)
LEMMA VarintEquations ==
    WriteVarint \in [Nat -> Seq(Bytes)] /\ \A n \in Nat : WriteVarint[n] = VarintStep(WriteVarint, n)
<1> DEFINE ValueAt(n, v) == \E g \in [Nat -> Seq(Bytes)] : VarintUpto(g, n) /\ v = g[n]
           Chosen(n) == CHOOSE v : ValueAt(n, v)
           G == [n \in Nat |-> Chosen(n)]
<1>1. ASSUME NEW g \in [Nat -> Seq(Bytes)], NEW k \in Nat, VarintUpto(g, k), NEW n \in Nat, n <= k
      PROVE  G[n] = g[n]
  <2> DEFINE w == CHOOSE v : ValueAt(n, v)
  <2>1. VarintUpto(g, n)
    BY <1>1 DEF VarintUpto
  <2>2. ValueAt(n, g[n])
    BY <2>1
  <2>3. ValueAt(n, w)
    <3> HIDE DEF ValueAt
    <3> QED BY <2>2
  <2>4. G[n] = w
    OBVIOUS
  <2> HIDE DEF w, G
  <2>5. PICK h \in [Nat -> Seq(Bytes)] : VarintUpto(h, n) /\ w = h[n]
    BY <2>3
  <2>6. h[n] = g[n]
    BY <2>1, <2>5, VarintUptoUnique
  <2> QED BY <2>4, <2>5, <2>6
<1>2. G = [n \in Nat |-> Chosen(n)] /\ \A n \in Nat : G[n] = Chosen(n)
  <2> HIDE DEF Chosen
  <2> QED OBVIOUS
<1> HIDE DEF G, Chosen
<1>3. G = [n \in Nat |-> G[n]]
  BY <1>2
<1>4. ASSUME NEW n \in Nat
      PROVE  G[n] \in Seq(Bytes) /\ G[n] = VarintStep(G, n)
  <2>1. PICK g \in [Nat -> Seq(Bytes)] : VarintUpto(g, n)
    BY VarintUptoExists
  <2>2. \A i \in Nat : i <= n => G[i] = g[i]
    BY <1>1, <2>1
  <2>3. G[n] = g[n] /\ g[n] = VarintStep(g, n)
    BY <2>1, <2>2 DEF VarintUpto
  <2>4. \A i \in Nat : i < n => g[i] = G[i]
    BY <2>2
  <2>5. VarintStep(g, n) = VarintStep(G, n)
    BY <2>4, VarintStepSame
  <2> QED BY <2>3, <2>5
<1> DEFINE Eq(f) == f = [n \in Nat |-> VarintStep(f, n)]
<1>5. Eq(G)
  <2>1. [n \in Nat |-> G[n]] = [n \in Nat |-> VarintStep(G, n)]
    BY <1>4
  <2> QED BY <1>3, <2>1
<1>6. WriteVarint = CHOOSE f : Eq(f)
  BY DEF WriteVarint, VarintStep, Cat
<1>7. Eq(WriteVarint)
  <2> HIDE DEF Eq
  <2> QED BY <1>5, <1>6
<1> DEFINE W == WriteVarint
<1> HIDE DEF W
<1>8. W = [n \in Nat |-> VarintStep(W, n)]
  BY <1>7 DEF W
<1>9. \A n \in Nat : W[n] = VarintStep(W, n)
  <2> DEFINE rhs == [n \in Nat |-> VarintStep(W, n)]
  <2>1. \A n \in Nat : rhs[n] = VarintStep(W, n)
    OBVIOUS
  <2>2. W = rhs
    BY <1>8
  <2> HIDE DEF rhs
  <2> QED BY <2>1, <2>2
<1>10. ASSUME NEW n \in Nat
       PROVE  W[n] \in Seq(Bytes)
  <2>1. PICK g \in [Nat -> Seq(Bytes)] : VarintUpto(g, n)
    BY VarintUptoExists
  <2>2. VarintUpto(W, n)
    BY <1>9 DEF VarintUpto
  <2>3. W[n] = g[n]
    BY <2>1, <2>2, VarintUptoUnique
  <2> QED BY <2>3
<1>11. W \in [Nat -> Seq(Bytes)]
  BY <1>8, <1>10
<1> QED BY <1>9, <1>11 DEF W

(* v holds the values of the last k bytes, for every k. *)
FromEnd(bytes, k) == bytes[Len(bytes) - k + 1]
Shifted(b, x) == (b % Base) + (Base * x)
Values(v, bytes) ==
    v[0] = 0 /\ \A k \in 1 .. Len(bytes) : v[k] = Shifted(FromEnd(bytes, k), v[k - 1])

LEMMA ShiftedType ==
    ASSUME NEW b \in Nat, NEW x \in Nat
    PROVE  Shifted(b, x) \in Nat
<1>1. Base \in Nat /\ b % Base \in Nat
  BY BaseFacts
<1>2. Base * x \in Nat
  BY <1>1
<1> QED BY <1>1, <1>2 DEF Shifted

LEMMA FromEndType ==
    ASSUME NEW bytes \in Seq(Bytes), NEW k \in 1 .. Len(bytes)
    PROVE  FromEnd(bytes, k) \in Nat
<1>1. Len(bytes) \in Nat
  BY LenProperties
<1>2. Len(bytes) - k + 1 \in 1 .. Len(bytes)
  BY <1>1
<1>3. bytes[Len(bytes) - k + 1] \in Bytes
  BY <1>2, ElementOfSeq
<1> QED BY <1>3 DEF FromEnd, Bytes

LEMMA ValuesExist ==
    ASSUME NEW bytes \in Seq(Bytes)
    PROVE  \E v \in [0 .. Len(bytes) -> Nat] : Values(v, bytes)
<1> DEFINE L == Len(bytes)
           Upto(v, n) == v[0] = 0 /\ \A k \in 1 .. L : k <= n => v[k] = Shifted(FromEnd(bytes, k), v[k - 1])
           Q == {n \in Nat : \E v \in [0 .. L -> Nat] : Upto(v, n)}
<1>1. L \in Nat
  BY LenProperties
<1> HIDE DEF L
<1>2. 0 \in Q
  <2> DEFINE v == [k \in 0 .. L |-> 0]
  <2>1. v \in [0 .. L -> Nat] /\ v[0] = 0
    BY <1>1
  <2> HIDE DEF v
  <2>2. Upto(v, 0)
    BY <1>1, <2>1
  <2> QED BY <2>1, <2>2
<1>3. ASSUME NEW n \in Nat, n \in Q
      PROVE  n + 1 \in Q
  <2>1. PICK v \in [0 .. L -> Nat] : Upto(v, n)
    BY <1>3
  <2> DEFINE at(k) == Shifted(FromEnd(bytes, k), v[k - 1])
             w == [k \in 0 .. L |-> IF k = 0 THEN 0 ELSE at(k)]
  <2>2. \A k \in 1 .. L : at(k) \in Nat
    <3> TAKE k \in 1 .. L
    <3>1. k - 1 \in 0 .. L /\ v[k - 1] \in Nat /\ FromEnd(bytes, k) \in Nat
      BY <1>1, FromEndType DEF L
    <3> QED BY <3>1, ShiftedType
  <2> HIDE DEF at
  <2>3. w \in [0 .. L -> Nat] /\ w[0] = 0 /\ \A k \in 1 .. L : w[k] = at(k)
    BY <1>1, <2>2
  <2> HIDE DEF w
  <2>4. \A k \in 0 .. L : k <= n => w[k] = v[k]
    BY <1>1, <2>1, <2>3 DEF at
  <2>5. ASSUME NEW k \in 1 .. L, k <= n + 1
        PROVE  w[k] = Shifted(FromEnd(bytes, k), w[k - 1])
    <3>1. k - 1 \in 0 .. L /\ k - 1 <= n
      BY <1>1, <2>5
    <3>2. w[k - 1] = v[k - 1]
      BY <2>4, <3>1
    <3> QED BY <2>3, <3>2 DEF at
  <2>6. Upto(w, n + 1)
    BY <2>3, <2>5
  <2> HIDE DEF Upto
  <2> QED BY <2>3, <2>6
<1> HIDE DEF Q
<1>4. Nat \subseteq Q
  BY <1>2, <1>3, Induct
<1>5. PICK v \in [0 .. L -> Nat] : Upto(v, L)
  BY <1>1, <1>4 DEF Q
<1>6. Values(v, bytes)
  BY <1>1, <1>5 DEF Values, L
<1> QED BY <1>6 DEF L

LEMMA ValueIs ==
    ASSUME NEW bytes \in Seq(Bytes), NEW v \in [0 .. Len(bytes) -> Nat], Values(v, bytes)
    PROVE  VarintSum(bytes) = v[Len(bytes)]
<1> DEFINE L == Len(bytes)
           at(f, k) == IF k = 0 THEN 0 ELSE Shifted(FromEnd(bytes, k), f[k - 1])
           Eq(f) == f = [k \in 0 .. L |-> at(f, k)]
           value == CHOOSE f : Eq(f)
<1>1. L \in Nat
  BY LenProperties
<1>2. VarintSum(bytes) = value[L]
  BY DEF VarintSum, Shifted, FromEnd
<1> HIDE DEF L
<1>3. v = [k \in 0 .. L |-> v[k]] /\ \A k \in 0 .. L : v[k] = at(v, k)
  BY <1>1 DEF Values, L
<1>4. Eq(v)
  <2> HIDE DEF at
  <2> QED BY <1>3
<1>5. Eq(value)
  <2> HIDE DEF Eq
  <2> QED BY <1>4
<1> HIDE DEF value
<1>6. \A k \in 0 .. L : value[k] = at(value, k)
  <2> HIDE DEF at
  <2> DEFINE rhs == [k \in 0 .. L |-> at(value, k)]
  <2>1. \A k \in 0 .. L : rhs[k] = at(value, k)
    OBVIOUS
  <2>2. value = rhs
    BY <1>5
  <2> HIDE DEF rhs
  <2> QED BY <2>1, <2>2
<1> HIDE DEF Eq
<1> DEFINE Q == {k \in Nat : k <= L => value[k] = v[k]}
<1>7. 0 \in Q
  <2>1. 0 \in 0 .. L
    BY <1>1
  <2> QED BY <1>3, <1>6, <2>1
<1>8. ASSUME NEW k \in Nat, k \in Q
      PROVE  k + 1 \in Q
  <2> SUFFICES ASSUME k + 1 <= L
               PROVE  value[k + 1] = v[k + 1]
    OBVIOUS
  <2>1. k + 1 \in 0 .. L /\ k + 1 # 0 /\ (k + 1) - 1 = k /\ k <= L
    BY <1>1
  <2>2. value[k] = v[k]
    BY <1>8, <2>1
  <2>3. at(value, k + 1) = at(v, k + 1)
    BY <2>1, <2>2
  <2> HIDE DEF at
  <2> QED BY <1>3, <1>6, <2>1, <2>3
<1> HIDE DEF Q, at
<1>9. Nat \subseteq Q
  BY <1>7, <1>8, Induct
<1>10. value[L] = v[L]
  BY <1>1, <1>9 DEF Q
<1> QED BY <1>2, <1>10 DEF L

LEMMA ValueOfOne ==
    ASSUME NEW b \in Nat, b < Base
    PROVE  VarintSum(<<b>>) = b
<1> DEFINE s == <<b>>
           v == [k \in 0 .. 1 |-> IF k = 0 THEN 0 ELSE b]
<1>1. Base \in Nat /\ Base > 1 /\ b \in Bytes
  BY BaseFacts DEF Bytes
<1>2. s \in Seq(Bytes) /\ Len(s) = 1 /\ s[1] = b
  BY <1>1
<1>3. v \in [0 .. 1 -> Nat] /\ v[0] = 0 /\ v[1] = b
  OBVIOUS
<1> HIDE DEF s, v
<1>4. FromEnd(s, 1) = b
  BY <1>2 DEF FromEnd
<1>5. Shifted(b, 0) = b
  BY <1>1 DEF Shifted
<1>6. Values(v, s)
  <2>1. \A k \in 1 .. 1 : k = 1 /\ k - 1 = 0
    OBVIOUS
  <2> QED BY <1>2, <1>3, <1>4, <1>5, <2>1 DEF Values
<1>7. VarintSum(s) = v[1]
  BY <1>2, <1>3, <1>6, ValueIs
<1> QED BY <1>3, <1>7 DEF s

LEMMA ConsFacts ==
    ASSUME NEW X, NEW b \in X, NEW u \in Seq(X)
    PROVE  /\ Cat(<<b>>, u) \in Seq(X) /\ Len(Cat(<<b>>, u)) = Len(u) + 1 /\ Len(u) \in Nat
           /\ Cat(<<b>>, u)[1] = b
           /\ \A i \in 1 .. Len(u) : Cat(<<b>>, u)[i + 1] = u[i]
<1> DEFINE s == <<b>>
<1>1. s \in Seq(X) /\ Len(s) = 1 /\ s[1] = b /\ Len(u) \in Nat
  BY LenProperties
<1> HIDE DEF s
<1>2. s \o u \in Seq(X) /\ Len(s \o u) = 1 + Len(u)
  BY <1>1, ConcatProperties
<1>3. \A i \in 1 .. 1 + Len(u) : (s \o u)[i] = IF i <= 1 THEN s[i] ELSE u[i - 1]
  <2>1. \A i \in 1 .. Len(s) + Len(u) : (s \o u)[i] = IF i <= Len(s) THEN s[i] ELSE u[i - Len(s)]
    BY <1>1, ConcatProperties
  <2> QED BY <1>1, <2>1
<1>4. (s \o u)[1] = b
  BY <1>1, <1>3
<1>5. ASSUME NEW i \in 1 .. Len(u)
      PROVE  (s \o u)[i + 1] = u[i]
  <2>1. i + 1 \in 1 .. 1 + Len(u) /\ ~(i + 1 <= 1) /\ (i + 1) - 1 = i
    BY <1>1
  <2> QED BY <1>3, <2>1
<1> QED BY <1>1, <1>2, <1>4, <1>5 DEF s, Cat

LEMMA ValueOfMore ==
    ASSUME NEW b \in Bytes, NEW u \in Seq(Bytes)
    PROVE  VarintSum(Cat(<<b>>, u)) = Shifted(b, VarintSum(u))
<1> DEFINE s == Cat(<<b>>, u)
           L == Len(u)
<1>1. /\ s \in Seq(Bytes) /\ Len(s) = L + 1 /\ L \in Nat /\ s[1] = b
      /\ \A i \in 1 .. L : s[i + 1] = u[i]
  BY ConsFacts
<1> HIDE DEF s
<1>2. PICK v \in [0 .. L + 1 -> Nat] : Values(v, s)
  BY <1>1, ValuesExist
<1>3. VarintSum(s) = v[L + 1]
  BY <1>1, <1>2, ValueIs
<1>4. v[L + 1] = Shifted(b, v[L])
  <2>1. L + 1 \in 1 .. Len(s) /\ (L + 1) - 1 = L
    BY <1>1
  <2>2. FromEnd(s, L + 1) = b
    BY <1>1 DEF FromEnd
  <2>3. v[L + 1] = Shifted(FromEnd(s, L + 1), v[(L + 1) - 1])
    BY <1>2, <2>1 DEF Values
  <2> HIDE DEF L
  <2> QED BY <2>1, <2>2, <2>3
<1> DEFINE w == [k \in 0 .. L |-> v[k]]
<1>5. w \in [0 .. L -> Nat] /\ \A k \in 0 .. L : w[k] = v[k]
  BY <1>1
<1> HIDE DEF w
<1>6. Values(w, u)
  <2>1. w[0] = 0
    BY <1>1, <1>2, <1>5 DEF Values
  <2>2. ASSUME NEW k \in 1 .. L
        PROVE  w[k] = Shifted(FromEnd(u, k), w[k - 1])
    <3>1. k \in 0 .. L /\ k - 1 \in 0 .. L /\ k \in 1 .. Len(s)
      BY <1>1
    <3>2. L - k + 1 \in 1 .. L /\ Len(s) - k + 1 = (L - k + 1) + 1
      BY <1>1
    <3>3. FromEnd(s, k) = FromEnd(u, k)
      BY <1>1, <3>2 DEF FromEnd
    <3>4. v[k] = Shifted(FromEnd(s, k), v[k - 1])
      BY <1>2, <3>1 DEF Values
    <3>5. w[k] = v[k] /\ w[k - 1] = v[k - 1]
      BY <1>5, <3>1
    <3> QED BY <3>3, <3>4, <3>5
  <2> QED BY <2>1, <2>2 DEF Values
<1>7. VarintSum(u) = w[L]
  BY <1>5, <1>6, ValueIs
<1>8. w[L] = v[L]
  BY <1>1, <1>5
<1> QED BY <1>3, <1>4, <1>7, <1>8 DEF s

(* What WriteVarint puts out has the continuation bit everywhere but at its *)
(* end, and is read as the number it was.                                  *)
VarintOf(s, n) ==
    /\ s \in Seq(Bytes) /\ Len(s) >= 1 /\ s[Len(s)] < Base
    /\ \A j \in 1 .. Len(s) - 1 : s[j] >= Base
    /\ VarintSum(s) = n

LEMMA VarintFacts ==
    ASSUME NEW n \in Nat
    PROVE  VarintOf(WriteVarint[n], n)
<1> DEFINE W == WriteVarint
           Q == {k \in Nat : \A i \in Nat : i < k => VarintOf(W[i], i)}
<1>1. W \in [Nat -> Seq(Bytes)] /\ \A i \in Nat : W[i] = VarintStep(W, i)
  BY VarintEquations
<1> HIDE DEF W
<1>2. 0 \in Q
  OBVIOUS
<1>3. ASSUME NEW k \in Nat, k \in Q
      PROVE  k + 1 \in Q
  <2> SUFFICES ASSUME NEW i \in Nat, i < k + 1
               PROVE  VarintOf(W[i], i)
    OBVIOUS
  <2> DEFINE r == i % Base
             q == i \div Base
             b == Base + r
  <2>1. /\ Base \in Nat /\ Base > 1 /\ r \in Nat /\ r < Base /\ q \in Nat
        /\ i = r + (Base * q) /\ (i >= Base => q < i)
    BY BaseFacts
  <2>2. CASE i < Base
    <3>1. W[i] = <<i>>
      BY <1>1, <2>2 DEF VarintStep
    <3>2. <<i>> \in Seq(Bytes) /\ Len(<<i>>) = 1 /\ <<i>>[1] = i
      <4>1. i \in Bytes
        BY <2>1, <2>2 DEF Bytes
      <4> QED BY <4>1
    <3>3. VarintSum(<<i>>) = i
      BY <2>2, ValueOfOne
    <3> DEFINE one == <<i>>
    <3> HIDE DEF one
    <3>4. one \in Seq(Bytes) /\ Len(one) = 1 /\ one[1] = i /\ VarintSum(one) = i
      BY <3>2, <3>3 DEF one
    <3>5. VarintOf(one, i)
      BY <2>2, <3>4 DEF VarintOf
    <3> QED BY <3>1, <3>5 DEF one
  <2>3. CASE i >= Base
    <3> DEFINE u == W[q]
               s == Cat(<<b>>, u)
    <3>1. W[i] = s
      BY <1>1, <2>1, <2>3 DEF VarintStep
    <3>2. VarintOf(u, q)
      <4>1. q < k /\ q \in Nat
        BY <2>1, <2>3
      <4> HIDE DEF q
      <4> QED BY <1>3, <4>1
    <3>3. b \in Bytes
      BY <2>1 DEF Bytes
    <3>4. Shifted(b, q) = i
      <4>1. b % Base = r
        <5> HIDE DEF r
        <5> QED BY <2>1
      <4> HIDE DEF r, q, b
      <4> QED BY <2>1, <4>1 DEF Shifted
    <3> HIDE DEF b, q, u
    <3>5. u \in Seq(Bytes) /\ Len(u) >= 1 /\ u[Len(u)] < Base /\ VarintSum(u) = q
      BY <3>2 DEF VarintOf
    <3>6. VarintSum(s) = i
      BY <3>3, <3>4, <3>5, ValueOfMore
    <3>7. /\ s \in Seq(Bytes) /\ Len(s) = Len(u) + 1 /\ Len(u) \in Nat
          /\ s[1] = b /\ \A j \in 1 .. Len(u) : s[j + 1] = u[j]
      BY <3>3, <3>5, ConsFacts
    <3> HIDE DEF s
    <3>8. s[Len(s)] < Base
      BY <3>5, <3>7
    <3>9. ASSUME NEW j \in 1 .. Len(s) - 1
          PROVE  s[j] >= Base
      <4>1. CASE j = 1
        BY <2>1, <3>7, <4>1 DEF b
      <4>2. CASE j # 1
        <5>1. j - 1 \in 1 .. Len(u) - 1 /\ j - 1 \in 1 .. Len(u) /\ (j - 1) + 1 = j
          BY <3>7, <4>2
        <5>2. u[j - 1] >= Base
          BY <3>2, <5>1 DEF VarintOf
        <5> QED BY <3>7, <5>1, <5>2
      <4> QED BY <4>1, <4>2
    <3>10. VarintOf(s, i)
      BY <3>5, <3>6, <3>7, <3>8, <3>9 DEF VarintOf
    <3> QED BY <3>1, <3>10
  <2> QED BY <2>1, <2>2, <2>3
<1> HIDE DEF Q
<1>4. Nat \subseteq Q
  BY <1>2, <1>3, Induct
<1>5. n + 1 \in Q /\ n < n + 1
  BY <1>4
<1> QED BY <1>5 DEF Q, W

-----------------------------------------------------------------------------
(* Parts of sequences. *)

Take(s, c) == SubSeq(s, 1, c)

LEMMA CatAt ==
    ASSUME NEW X, NEW s \in Seq(X), NEW t \in Seq(X)
    PROVE  /\ Cat(s, t) \in Seq(X) /\ Len(Cat(s, t)) = Len(s) + Len(t)
           /\ Len(s) \in Nat /\ Len(t) \in Nat
           /\ \A i \in 1 .. Len(s) : Cat(s, t)[i] = s[i]
           /\ \A i \in 1 .. Len(t) : Cat(s, t)[Len(s) + i] = t[i]
<1> DEFINE c == s \o t
           n == Len(s)
           m == Len(t)
<1>1. n \in Nat /\ m \in Nat
  BY LenProperties
<1>2. c \in Seq(X) /\ Len(c) = n + m /\ \A i \in 1 .. n + m : c[i] = IF i <= n THEN s[i] ELSE t[i - n]
  BY ConcatProperties
<1> HIDE DEF c, n, m
<1>3. \A i \in 1 .. n : c[i] = s[i]
  BY <1>1, <1>2
<1>4. ASSUME NEW i \in 1 .. m
      PROVE  c[n + i] = t[i]
  <2>1. n + i \in 1 .. n + m /\ ~(n + i <= n) /\ (n + i) - n = i
    BY <1>1
  <2> QED BY <1>2, <2>1
<1> QED BY <1>1, <1>2, <1>3, <1>4 DEF c, n, m, Cat

(* Cat(s, t), by its parts. *)
IsCat(c, X, s, t) ==
    /\ c \in Seq(X) /\ Len(c) = Len(s) + Len(t) /\ Len(s) \in Nat /\ Len(t) \in Nat
    /\ \A i \in 1 .. Len(s) : c[i] = s[i]
    /\ \A i \in 1 .. Len(t) : c[Len(s) + i] = t[i]

LEMMA CatIs ==
    ASSUME NEW X, NEW s \in Seq(X), NEW t \in Seq(X)
    PROVE  IsCat(Cat(s, t), X, s, t)
<1> DEFINE c == Cat(s, t)
<1>1. c \in Seq(X) /\ Len(c) = Len(s) + Len(t) /\ Len(s) \in Nat /\ Len(t) \in Nat
  BY CatAt
<1>2. \A i \in 1 .. Len(s) : c[i] = s[i]
  BY CatAt
<1>3. \A i \in 1 .. Len(t) : c[Len(s) + i] = t[i]
  BY CatAt
<1> HIDE DEF c
<1>4. IsCat(c, X, s, t)
  BY <1>1, <1>2, <1>3 DEF IsCat
<1> QED BY <1>4 DEF c

LEMMA CatNone ==
    ASSUME NEW X, NEW s \in Seq(X)
    PROVE  Cat(s, <<>>) = s /\ Cat(<<>>, s) = s
BY CatFacts

LEMMA CatAssoc ==
    ASSUME NEW X, NEW s \in Seq(X), NEW t \in Seq(X), NEW u \in Seq(X)
    PROVE  Cat(Cat(s, t), u) = Cat(s, Cat(t, u))
BY ConcatAssociative DEF Cat

LEMMA PartOf ==
    ASSUME NEW X, NEW s \in Seq(X), NEW a \in Nat, NEW c \in Nat, a + c <= Len(s)
    PROVE  /\ SubSeq(s, a + 1, a + c) \in Seq(X) /\ Len(SubSeq(s, a + 1, a + c)) = c
           /\ \A i \in 1 .. c : SubSeq(s, a + 1, a + c)[i] = s[a + i]
<1> DEFINE p == SubSeq(s, a + 1, a + c)
<1>1. Len(s) \in Nat
  BY LenProperties
<1>2. \A i \in a + 1 .. a + c : s[i] \in X
  BY <1>1, ElementOfSeq
<1>3. /\ p \in Seq(X) /\ Len(p) = IF a + 1 <= a + c THEN (a + c) - (a + 1) + 1 ELSE 0
      /\ \A i \in 1 .. (a + c) - (a + 1) + 1 : p[i] = s[(a + 1) + i - 1]
  BY <1>2, SubSeqProperties
<1>4. (a + c) - (a + 1) + 1 = c
  OBVIOUS
<1> HIDE DEF p
<1>5. Len(p) = c
  BY <1>3
<1>6. ASSUME NEW i \in 1 .. c
      PROVE  p[i] = s[a + i]
  <2>1. (a + 1) + i - 1 = a + i
    OBVIOUS
  <2> QED BY <1>3, <1>4, <2>1
<1> QED BY <1>3, <1>5, <1>6 DEF p

LEMMA TakeFacts ==
    ASSUME NEW X, NEW s \in Seq(X), NEW c \in 0 .. Len(s)
    PROVE  /\ Take(s, c) \in Seq(X) /\ Len(Take(s, c)) = c /\ c \in Nat /\ c <= Len(s)
           /\ \A i \in 1 .. c : Take(s, c)[i] = s[i]
<1> DEFINE t == SubSeq(s, 0 + 1, 0 + c)
<1>1. Len(s) \in Nat /\ c \in Nat /\ 0 + c <= Len(s)
  BY LenProperties
<1>2. t \in Seq(X) /\ Len(t) = c /\ \A i \in 1 .. c : t[i] = s[0 + i]
  BY <1>1, PartOf
<1>3. Take(s, c) = t
  BY <1>1 DEF Take
<1> HIDE DEF t
<1> QED BY <1>1, <1>2, <1>3

(* The last part of a sequence is what is behind the first one. *)
LEMMA CatBack ==
    ASSUME NEW X, NEW s \in Seq(X), NEW t \in Seq(X)
    PROVE  SubSeq(Cat(s, t), Len(s) + 1, Len(s) + Len(t)) = t
<1> DEFINE c == Cat(s, t)
           p == SubSeq(c, Len(s) + 1, Len(s) + Len(t))
<1>1. /\ c \in Seq(X) /\ Len(c) = Len(s) + Len(t) /\ Len(s) \in Nat /\ Len(t) \in Nat
      /\ \A i \in 1 .. Len(t) : c[Len(s) + i] = t[i]
  BY CatAt
<1> HIDE DEF c
<1>2. p \in Seq(X) /\ Len(p) = Len(t) /\ \A i \in 1 .. Len(t) : p[i] = c[Len(s) + i]
  BY <1>1, PartOf
<1> HIDE DEF p
<1>3. \A i \in 1 .. Len(p) : p[i] = t[i]
  BY <1>1, <1>2
<1>4. p = t
  BY <1>2, <1>3, SeqEqual
<1> QED BY <1>4 DEF p, c

LEMMA TakeSame ==
    ASSUME NEW X, NEW s \in Seq(X), NEW t \in Seq(X), NEW c \in Nat, c <= Len(s), c <= Len(t),
           \A i \in 1 .. c : s[i] = t[i]
    PROVE  Take(s, c) = Take(t, c)
<1> DEFINE a == Take(s, c)
           b == Take(t, c)
<1>1. Len(s) \in Nat /\ Len(t) \in Nat /\ c \in 0 .. Len(s) /\ c \in 0 .. Len(t)
  BY LenProperties
<1>2. a \in Seq(X) /\ Len(a) = c /\ \A i \in 1 .. c : a[i] = s[i]
  BY <1>1, TakeFacts
<1>3. b \in Seq(X) /\ Len(b) = c /\ \A i \in 1 .. c : b[i] = t[i]
  BY <1>1, TakeFacts
<1> HIDE DEF a, b
<1>4. \A i \in 1 .. Len(a) : a[i] = b[i]
  BY <1>2, <1>3
<1>5. a = b
  BY <1>2, <1>3, <1>4, SeqEqual
<1> QED BY <1>5 DEF a, b

LEMMA TakeAll ==
    ASSUME NEW X, NEW s \in Seq(X)
    PROVE  Take(s, Len(s)) = s
<1> DEFINE t == Take(s, Len(s))
<1>1. Len(s) \in Nat /\ Len(s) \in 0 .. Len(s)
  BY LenProperties
<1>2. t \in Seq(X) /\ Len(t) = Len(s) /\ \A i \in 1 .. Len(s) : t[i] = s[i]
  BY <1>1, TakeFacts
<1> HIDE DEF t
<1>3. t = s
  BY <1>2, SeqEqual
<1> QED BY <1>3 DEF t

LEMMA TakeOfCat ==
    ASSUME NEW X, NEW s \in Seq(X), NEW t \in Seq(X)
    PROVE  Take(Cat(s, t), Len(s)) = s
<1>1. /\ Cat(s, t) \in Seq(X) /\ Len(Cat(s, t)) = Len(s) + Len(t) /\ Len(s) \in Nat /\ Len(t) \in Nat
      /\ \A i \in 1 .. Len(s) : Cat(s, t)[i] = s[i]
  BY CatAt
<1> DEFINE c == Cat(s, t)
<1> HIDE DEF c
<1>2. c \in Seq(X) /\ Len(s) <= Len(c) /\ \A i \in 1 .. Len(s) : c[i] = s[i]
  BY <1>1 DEF c
<1>3. Take(c, Len(s)) = Take(s, Len(s))
  BY <1>1, <1>2, TakeSame
<1>4. Take(s, Len(s)) = s
  BY TakeAll
<1> QED BY <1>3, <1>4 DEF c

LEMMA TakeInto ==
    ASSUME NEW X, NEW s \in Seq(X), NEW t \in Seq(X), NEW c \in 0 .. Len(t)
    PROVE  Take(Cat(s, t), Len(s) + c) = Cat(s, Take(t, c))
<1> DEFINE u == Take(t, c)
           d == Cat(s, u)
           e == Cat(s, t)
<1>1. u \in Seq(X) /\ Len(u) = c /\ c \in Nat /\ c <= Len(t) /\ \A i \in 1 .. c : u[i] = t[i]
  BY TakeFacts
<1> HIDE DEF u
<1>2. /\ d \in Seq(X) /\ Len(d) = Len(s) + c /\ Len(s) \in Nat
      /\ \A i \in 1 .. Len(s) : d[i] = s[i]
      /\ \A i \in 1 .. c : d[Len(s) + i] = u[i]
  <2>1. IsCat(d, X, s, u)
    BY <1>1, CatIs
  <2> HIDE DEF d
  <2> QED BY <1>1, <2>1 DEF IsCat
<1>3. /\ e \in Seq(X) /\ Len(e) = Len(s) + Len(t) /\ Len(t) \in Nat
      /\ \A i \in 1 .. Len(s) : e[i] = s[i]
      /\ \A i \in 1 .. Len(t) : e[Len(s) + i] = t[i]
  <2>1. IsCat(e, X, s, t)
    BY CatIs
  <2> HIDE DEF e
  <2> QED BY <2>1 DEF IsCat
<1> HIDE DEF d, e
<1>4. ASSUME NEW i \in 1 .. Len(s) + c
      PROVE  e[i] = d[i]
  <2>1. CASE i <= Len(s)
    <3>1. i \in 1 .. Len(s)
      BY <1>2, <2>1
    <3> QED BY <1>2, <1>3, <3>1
  <2>2. CASE ~(i <= Len(s))
    <3>1. i - Len(s) \in 1 .. c /\ i - Len(s) \in 1 .. Len(t) /\ Len(s) + (i - Len(s)) = i
      BY <1>1, <1>2, <1>3, <2>2
    <3>2. e[Len(s) + (i - Len(s))] = t[i - Len(s)] /\ d[Len(s) + (i - Len(s))] = u[i - Len(s)]
      BY <1>2, <1>3, <3>1
    <3> QED BY <1>1, <3>1, <3>2
  <2> QED BY <2>1, <2>2
<1>5. Len(s) + c \in Nat /\ Len(s) + c <= Len(e) /\ Len(s) + c <= Len(d)
  BY <1>1, <1>2, <1>3
<1>6. Take(e, Len(s) + c) = Take(d, Len(s) + c)
  BY <1>2, <1>3, <1>4, <1>5, TakeSame
<1>7. Take(d, Len(s) + c) = d
  BY <1>2, TakeAll
<1> QED BY <1>6, <1>7 DEF d, e, u

-----------------------------------------------------------------------------
(* Frames: how a file of whole messages is put together. *)

Header(m) == WriteVarint[Len(Body[m])]
Frames == [m \in Messages |-> Frame(m)]
Framed(ms) == FlattenSeq(Mapped(Frames, ms))

LEMMA FrameFacts ==
    ASSUME NEW m \in Messages
    PROVE  /\ Header(m) \in Seq(Bytes) /\ Body[m] \in Seq(Bytes)
           /\ Frame(m) = Cat(Header(m), Body[m]) /\ Frame(m) \in Seq(Bytes)
           /\ Len(Body[m]) \in Nat /\ Len(Header(m)) \in Nat
           /\ Len(Frame(m)) = Len(Header(m)) + Len(Body[m])
           /\ VarintOf(Header(m), Len(Body[m]))
           /\ Len(Header(m)) <= VarintBytes /\ Len(Header(m)) >= 1 /\ VarintBytes \in Nat
<1> DEFINE h == Header(m)
           b == Body[m]
<1>1. b \in Seq(Bytes) /\ VarintBytes \in Nat
  BY MessageStreamAssumption DEF Bytes
<1>2. Len(b) \in Nat
  BY <1>1, LenProperties
<1> HIDE DEF b
<1>3. VarintOf(h, Len(b))
  BY <1>2, VarintFacts DEF Header, b
<1>4. h \in Seq(Bytes) /\ Len(h) >= 1
  BY <1>3 DEF VarintOf
<1>5. Len(h) <= VarintBytes
  BY FramesAssumption DEF Header
<1>6. Frame(m) = Cat(h, b)
  BY DEF Frame, Cat, Header, b
<1> HIDE DEF h
<1>7. Cat(h, b) \in Seq(Bytes) /\ Len(Cat(h, b)) = Len(h) + Len(b) /\ Len(h) \in Nat
  BY <1>1, <1>4, CatAt
<1> QED BY <1>1, <1>2, <1>3, <1>4, <1>5, <1>6, <1>7 DEF h, b

LEMMA FramedTypes ==
    ASSUME NEW ms \in Seq(Messages)
    PROVE  Framed(ms) \in Seq(Bytes) /\ Len(Framed(ms)) \in Nat
<1> DEFINE Y == {Frames[x] : x \in Messages}
           ss == Mapped(Frames, ms)
<1>1. Y \subseteq Seq(Bytes)
  BY FrameFacts DEF Frames
<1>2. ss \in Seq(Y)
  <2>1. CASE Messages = {}
    <3>1. Len(ms) = 0
      <4>1. \A i \in 1 .. Len(ms) : ms[i] \in Messages
        BY ElementOfSeq
      <4> QED BY <2>1, <4>1, LenProperties
    <3>2. ms = <<>>
      BY <3>1, EmptySeq
    <3> QED BY <3>2 DEF Mapped
  <2>2. CASE Messages # {}
    BY <2>2, MapAppend
  <2> QED BY <2>1, <2>2
<1> HIDE DEF ss, Y
<1>3. ss \in Seq(Seq(Bytes))
  BY <1>1, <1>2
<1>4. <<>> \in Seq(Bytes)
  OBVIOUS
<1>5. FlattenSeq(ss) \in Seq(Bytes)
  BY <1>3, <1>4, FlattenFacts
<1> QED BY <1>5, LenProperties DEF Framed, ss

LEMMA FramedNone == Framed(<<>>) = <<>>
<1>1. Mapped(Frames, <<>>) = <<>>
  BY DEF Mapped
<1> QED BY <1>1, FlattenEmpty DEF Framed

LEMMA FramedPush ==
    ASSUME NEW ms \in Seq(Messages), NEW m \in Messages
    PROVE  Framed(Push(ms, m)) = Cat(Framed(ms), Frame(m))
<1> DEFINE Y == {Frames[x] : x \in Messages}
           ss == Mapped(Frames, ms)
           f == Frames[m]
<1>1. Y \subseteq Seq(Bytes) /\ f \in Seq(Bytes) /\ f = Frame(m)
  BY FrameFacts DEF Frames
<1>2. ss \in Seq(Y) /\ Mapped(Frames, Push(ms, m)) = Push(ss, f)
  BY MapAppend
<1> HIDE DEF ss, Y, f
<1>3. ss \in Seq(Seq(Bytes))
  BY <1>1, <1>2
<1>4. FlattenSeq(Append(ss, f)) = FlattenSeq(ss) \o f
  BY <1>1, <1>3, FlattenFacts
<1>5. FlattenSeq(Push(ss, f)) = Cat(FlattenSeq(ss), f)
  BY <1>4 DEF Push, Cat
<1> QED BY <1>1, <1>2, <1>5 DEF Framed, ss

LEMMA FramedCat ==
    ASSUME NEW ms \in Seq(Messages), NEW q \in Seq(Messages)
    PROVE  Framed(Cat(ms, q)) = Cat(Framed(ms), Framed(q))
<1> DEFINE S == {r \in Seq(Messages) : Framed(Cat(ms, r)) = Cat(Framed(ms), Framed(r))}
<1>1. <<>> \in S
  <2>1. <<>> \in Seq(Messages) /\ Cat(ms, <<>>) = ms
    BY CatNone
  <2> DEFINE f == Framed(ms)
  <2>2. Cat(f, <<>>) = f
    <3>1. f \in Seq(Bytes)
      BY FramedTypes
    <3> HIDE DEF f
    <3> QED BY <3>1, CatNone
  <2> QED BY <2>1, <2>2, FramedNone
<1>2. ASSUME NEW r \in Seq(Messages), NEW e \in Messages, r \in S
      PROVE  Push(r, e) \in S
  <2>1. Push(r, e) \in Seq(Messages) /\ Cat(ms, r) \in Seq(Messages)
    BY PushFacts, CatFacts
  <2>2. Framed(Cat(ms, r)) = Cat(Framed(ms), Framed(r))
    BY <1>2
  <2>3. Framed(Cat(ms, Push(r, e))) = Framed(Push(Cat(ms, r), e))
    BY CatPush
  <2>4. Framed(Push(Cat(ms, r), e)) = Cat(Framed(Cat(ms, r)), Frame(e))
    BY <2>1, FramedPush
  <2>5. Framed(Push(r, e)) = Cat(Framed(r), Frame(e))
    BY FramedPush
  <2>6. Framed(ms) \in Seq(Bytes) /\ Framed(r) \in Seq(Bytes) /\ Frame(e) \in Seq(Bytes)
    BY FramedTypes, FrameFacts
  <2>7. Cat(Cat(Framed(ms), Framed(r)), Frame(e)) = Cat(Framed(ms), Cat(Framed(r), Frame(e)))
    BY <2>6, CatAssoc
  <2>8. Framed(Cat(ms, Push(r, e))) = Cat(Framed(ms), Framed(Push(r, e)))
    BY <2>2, <2>3, <2>4, <2>5, <2>7
  <2> QED BY <2>1, <2>8
<1> HIDE DEF S
<1>3. Seq(Messages) \subseteq S
  BY <1>1, <1>2, PushInduct
<1> QED BY <1>3 DEF S

-----------------------------------------------------------------------------
(* Reading one frame. *)

(* bytes begin as the frame of m does, as far as its length goes. *)
BeginsAs(bytes, m) ==
    \A i \in 1 .. Len(bytes) : i <= Len(Header(m)) => bytes[i] = Header(m)[i]

(* The length ends where the writer ended it, and nowhere else. *)
LEMMA LengthFound ==
    ASSUME NEW s \in Seq(Bytes), NEW m \in Messages, BeginsAs(s, m), NEW k \in VarintEnds(s)
    PROVE  k = Len(Header(m)) /\ k <= Len(s)
<1> DEFINE h == Header(m)
<1>1. /\ Len(h) \in Nat /\ Len(h) >= 1 /\ h[Len(h)] < Base /\ h \in Seq(Bytes)
      /\ \A j \in 1 .. Len(h) - 1 : h[j] >= Base
  BY FrameFacts DEF VarintOf
<1>2. Len(s) \in Nat /\ VarintBytes \in Nat
  BY FrameFacts, LenProperties
<1>3. k \in 1 .. Len(s) /\ s[k] < Base /\ \A j \in 1 .. k - 1 : s[j] >= Base
  BY <1>2 DEF VarintEnds, Min2
<1>4. \A i \in 1 .. Len(s) : i <= Len(h) => s[i] = h[i]
  BY DEF BeginsAs
<1>5. Base \in Nat /\ \A i \in 1 .. Len(s) : s[i] \in Nat
  <2>1. Base \in Nat
    BY MessageStreamAssumption
  <2>2. \A i \in 1 .. Len(s) : s[i] \in Bytes
    BY ElementOfSeq
  <2> QED BY <2>1, <2>2 DEF Bytes
<1> HIDE DEF h
<1>6. ~(k < Len(h))
  <2> SUFFICES ASSUME k < Len(h) PROVE FALSE
    OBVIOUS
  <2>1. k \in 1 .. Len(h) - 1 /\ k <= Len(h)
    BY <1>1, <1>2, <1>3
  <2>2. s[k] >= Base
    BY <1>1, <1>3, <1>4, <2>1
  <2> QED BY <1>3, <1>5, <2>2
<1>7. ~(k > Len(h))
  <2> SUFFICES ASSUME k > Len(h) PROVE FALSE
    OBVIOUS
  <2>1. Len(h) \in 1 .. k - 1 /\ Len(h) \in 1 .. Len(s)
    BY <1>1, <1>2, <1>3
  <2>2. s[Len(h)] < Base
    BY <1>1, <1>4, <2>1
  <2>3. s[Len(h)] >= Base
    BY <1>3, <2>1
  <2> QED BY <1>5, <2>1, <2>2, <2>3
<1>8. k = Len(h) /\ k <= Len(s)
  BY <1>1, <1>2, <1>3, <1>6, <1>7
<1> QED BY <1>8 DEF h

LEMMA LengthThere ==
    ASSUME NEW s \in Seq(Bytes), NEW m \in Messages, BeginsAs(s, m), Len(Header(m)) <= Len(s)
    PROVE  Len(Header(m)) \in VarintEnds(s)
<1> DEFINE h == Header(m)
           k == Len(h)
<1>1. /\ k \in Nat /\ k >= 1 /\ h[k] < Base /\ k <= VarintBytes
      /\ \A j \in 1 .. k - 1 : h[j] >= Base
  BY FrameFacts DEF VarintOf
<1>2. Len(s) \in Nat /\ VarintBytes \in Nat
  BY FrameFacts, LenProperties
<1>3. k <= Len(s) /\ \A i \in 1 .. Len(s) : i <= k => s[i] = h[i]
  BY DEF BeginsAs
<1> HIDE DEF h, k
<1>4. k \in 1 .. Len(s) /\ \A j \in 1 .. k - 1 : j \in 1 .. Len(s) /\ j <= k
  BY <1>1, <1>2, <1>3
<1>5. s[k] < Base /\ \A j \in 1 .. k - 1 : s[j] >= Base
  BY <1>1, <1>3, <1>4
<1>6. k \in 1 .. Min2(VarintBytes, Len(s))
  BY <1>1, <1>2, <1>4 DEF Min2
<1>7. k \in VarintEnds(s)
  BY <1>5, <1>6 DEF VarintEnds
<1> QED BY <1>7 DEF k, h

(* What ReadVarint makes of it. *)
LEMMA LengthRead ==
    ASSUME NEW s \in Seq(Bytes), NEW m \in Messages, BeginsAs(s, m), Len(Header(m)) <= Len(s)
    PROVE  /\ VarintValue(Take(s, Len(Header(m)))) = Len(Body[m])
           /\ SSize(Len(Body[m])) = Len(Body[m])
<1> DEFINE h == Header(m)
<1>1. Len(h) \in Nat /\ h \in Seq(Bytes) /\ VarintSum(h) = Len(Body[m])
  BY FrameFacts DEF VarintOf
<1>2. Len(h) <= Len(s) /\ Len(s) \in Nat /\ \A i \in 1 .. Len(s) : i <= Len(h) => s[i] = h[i]
  BY LenProperties DEF BeginsAs
<1> HIDE DEF h
<1>3. \A i \in 1 .. Len(h) : s[i] = h[i]
  BY <1>1, <1>2
<1>4. Take(s, Len(h)) = Take(h, Len(h))
  BY <1>1, <1>2, <1>3, TakeSame
<1>5. Take(h, Len(h)) = h
  BY <1>1, TakeAll
<1> DEFINE l == Len(Body[m])
<1>6. l \in Nat /\ Half \in Nat \ {0} /\ l < Half
  BY FrameFacts, FramesAssumption, MessageStreamAssumption
<1> HIDE DEF l
<1>7. 2 * Half \in Nat \ {0} /\ l < 2 * Half
  BY <1>6
<1>8. l % (2 * Half) = l
  BY <1>6, <1>7, ModSmall
<1>9. VarintValue(h) = l
  BY <1>1, <1>8 DEF VarintValue, l
<1>10. SSize(l) = l
  BY <1>6 DEF SSize
<1> QED BY <1>4, <1>5, <1>9, <1>10 DEF h, l

(* A whole frame in front: the message comes out of it. *)
LEMMA WholeFrame ==
    ASSUME NEW m \in Messages, NEW z \in Seq(Bytes)
    PROVE  /\ Cat(Frame(m), z) \in Seq(Bytes)
           /\ BeginsAs(Cat(Frame(m), z), m)
           /\ Len(Cat(Frame(m), z)) = Len(Header(m)) + Len(Body[m]) + Len(z)
           /\ Len(z) \in Nat
           /\ SubSeq(Cat(Frame(m), z), Len(Header(m)) + 1, Len(Header(m)) + Len(Body[m])) = Body[m]
<1> DEFINE h == Header(m)
           b == Body[m]
           f == Frame(m)
           s == Cat(f, z)
<1>1. /\ h \in Seq(Bytes) /\ b \in Seq(Bytes) /\ f = Cat(h, b) /\ f \in Seq(Bytes)
      /\ Len(h) \in Nat /\ Len(b) \in Nat
  BY FrameFacts
<1> HIDE DEF h, b, f
<1>2. IsCat(f, Bytes, h, b)
  BY <1>1, CatIs
<1>3. IsCat(s, Bytes, f, z)
  BY <1>1, CatIs
<1> HIDE DEF s
<1>4. /\ Len(f) = Len(h) + Len(b)
      /\ \A i \in 1 .. Len(h) : f[i] = h[i]
      /\ \A i \in 1 .. Len(b) : f[Len(h) + i] = b[i]
  BY <1>2 DEF IsCat
<1>5. /\ s \in Seq(Bytes) /\ Len(s) = Len(f) + Len(z) /\ Len(z) \in Nat
      /\ \A i \in 1 .. Len(f) : s[i] = f[i]
  BY <1>3 DEF IsCat
<1>6. \A i \in 1 .. Len(s) : i <= Len(h) => s[i] = h[i]
  <2> SUFFICES ASSUME NEW i \in 1 .. Len(s), i <= Len(h)
               PROVE  s[i] = h[i]
    OBVIOUS
  <2>1. i \in 1 .. Len(h) /\ i \in 1 .. Len(f)
    BY <1>1, <1>4, <1>5
  <2> QED BY <1>4, <1>5, <2>1
<1> DEFINE p == SubSeq(s, Len(h) + 1, Len(h) + Len(b))
<1>7. Len(h) + Len(b) <= Len(s)
  BY <1>1, <1>4, <1>5
<1>8. p \in Seq(Bytes) /\ Len(p) = Len(b) /\ \A i \in 1 .. Len(b) : p[i] = s[Len(h) + i]
  BY <1>1, <1>5, <1>7, PartOf
<1> HIDE DEF p
<1>9. \A i \in 1 .. Len(p) : p[i] = b[i]
  <2> TAKE i \in 1 .. Len(p)
  <2>1. i \in 1 .. Len(b) /\ Len(h) + i \in 1 .. Len(f)
    BY <1>1, <1>4, <1>8
  <2> QED BY <1>4, <1>5, <1>8, <2>1
<1>10. p = b
  BY <1>1, <1>8, <1>9, SeqEqual
<1>11. BeginsAs(s, m)
  BY <1>6 DEF BeginsAs, h
<1>12. Len(s) = Len(h) + Len(b) + Len(z)
  BY <1>1, <1>4, <1>5
<1> QED BY <1>5, <1>10, <1>11, <1>12 DEF p, s, f, b, h

-----------------------------------------------------------------------------
(* What a cut leaves of the last frame. *)

Torn(tail) ==
    \/ tail = <<>>
    \/ \E m \in Messages : \E c \in 0 .. Len(Frame(m)) : c # Len(Frame(m)) /\ tail = Take(Frame(m), c)

LEMMA TornType ==
    ASSUME NEW tail, Torn(tail)
    PROVE  tail \in Seq(Bytes) /\ Len(tail) \in Nat
<1>1. CASE tail = <<>>
  BY <1>1
<1>2. CASE \E m \in Messages : \E c \in 0 .. Len(Frame(m)) : c # Len(Frame(m)) /\ tail = Take(Frame(m), c)
  <2>1. PICK m \in Messages : \E c \in 0 .. Len(Frame(m)) : c # Len(Frame(m)) /\ tail = Take(Frame(m), c)
    BY <1>2
  <2> DEFINE f == Frame(m)
  <2>2. PICK c \in 0 .. Len(f) : tail = Take(f, c)
    BY <2>1
  <2>3. f \in Seq(Bytes)
    BY FrameFacts
  <2> HIDE DEF f
  <2>4. Take(f, c) \in Seq(Bytes)
    BY <2>3, TakeFacts
  <2> QED BY <2>2, <2>4, LenProperties
<1> QED BY <1>1, <1>2 DEF Torn

(* A part of a torn frame is torn. *)
LEMMA TornTake ==
    ASSUME NEW tail, Torn(tail), NEW d \in 0 .. Len(tail)
    PROVE  Torn(Take(tail, d))
<1>1. tail \in Seq(Bytes) /\ Len(tail) \in Nat
  BY TornType
<1>2. /\ Take(tail, d) \in Seq(Bytes) /\ Len(Take(tail, d)) = d /\ d \in Nat /\ d <= Len(tail)
  BY <1>1, TakeFacts
<1>3. CASE tail = <<>>
  <2>1. d = 0
    BY <1>2, <1>3
  <2>2. Take(tail, d) = <<>>
    BY <1>2, <2>1, EmptySeq
  <2> QED BY <2>2 DEF Torn
<1>4. CASE \E m \in Messages : \E c \in 0 .. Len(Frame(m)) : c # Len(Frame(m)) /\ tail = Take(Frame(m), c)
  <2>1. PICK m \in Messages : \E c \in 0 .. Len(Frame(m)) : c # Len(Frame(m)) /\ tail = Take(Frame(m), c)
    BY <1>4
  <2> DEFINE f == Frame(m)
  <2>2. PICK c \in 0 .. Len(f) : c # Len(f) /\ tail = Take(f, c)
    BY <2>1
  <2>3. f \in Seq(Bytes) /\ Len(f) \in Nat
    BY FrameFacts, LenProperties
  <2> HIDE DEF f
  <2>4. Len(Take(f, c)) = c /\ c \in Nat /\ \A i \in 1 .. c : Take(f, c)[i] = f[i]
    BY <2>3, TakeFacts
  <2>5. Len(tail) = c /\ \A i \in 1 .. c : tail[i] = f[i]
    BY <2>2, <2>4
  <2>6. d <= Len(f) /\ d # Len(f) /\ d \in 0 .. Len(f) /\ \A i \in 1 .. d : tail[i] = f[i]
    BY <1>2, <2>2, <2>3, <2>5
  <2>7. Take(tail, d) = Take(f, d)
    BY <1>1, <1>2, <2>3, <2>6, TakeSame
  <2> QED BY <2>6, <2>7 DEF Torn, f
<1> QED BY <1>3, <1>4 DEF Torn

(* A torn frame is met by an undef or a croak: no length, or one that says  *)
(* more than there is.                                                     *)
LEMMA TornRead ==
    ASSUME NEW tail, Torn(tail), NEW k \in VarintEnds(tail)
    PROVE  k \in Nat /\ VarintValue(Take(tail, k)) \in Nat
           /\ ~(VarintValue(Take(tail, k)) <= Len(tail) - k)
           /\ SSize(VarintValue(Take(tail, k))) = VarintValue(Take(tail, k))
           /\ Len(tail) - k \in Int
<1>1. tail \in Seq(Bytes) /\ Len(tail) \in Nat
  BY TornType
<1>2. tail # <<>>
  <2>1. k \in 1 .. Len(tail)
    <3>1. VarintBytes \in Nat
      BY MessageStreamAssumption
    <3> QED BY <1>1, <3>1 DEF VarintEnds, Min2
  <2> QED BY <2>1
<1>3. PICK m \in Messages : \E c \in 0 .. Len(Frame(m)) : c # Len(Frame(m)) /\ tail = Take(Frame(m), c)
  BY <1>2 DEF Torn
<1> DEFINE f == Frame(m)
           h == Header(m)
           b == Body[m]
<1>4. PICK c \in 0 .. Len(f) : c # Len(f) /\ tail = Take(f, c)
  BY <1>3
<1>5. /\ h \in Seq(Bytes) /\ b \in Seq(Bytes) /\ f = Cat(h, b) /\ f \in Seq(Bytes)
      /\ Len(h) \in Nat /\ Len(b) \in Nat /\ Len(f) = Len(h) + Len(b)
  BY FrameFacts
<1> HIDE DEF f, h, b
<1>6. IsCat(f, Bytes, h, b)
  BY <1>5, CatIs
<1>7. Len(Take(f, c)) = c /\ c \in Nat /\ \A i \in 1 .. c : Take(f, c)[i] = f[i]
  BY <1>5, TakeFacts
<1>8. Len(tail) = c /\ \A i \in 1 .. c : tail[i] = f[i]
  BY <1>4, <1>7
<1>9. \A i \in 1 .. Len(tail) : i <= Len(h) => tail[i] = h[i]
  <2> SUFFICES ASSUME NEW i \in 1 .. Len(tail), i <= Len(h)
               PROVE  tail[i] = h[i]
    OBVIOUS
  <2>1. i \in 1 .. Len(h) /\ i \in 1 .. c
    BY <1>5, <1>7, <1>8
  <2> QED BY <1>6, <1>8, <2>1 DEF IsCat
<1>10. BeginsAs(tail, m)
  BY <1>9 DEF BeginsAs, h
<1>11. k = Len(h) /\ k <= Len(tail)
  BY <1>1, <1>10, LengthFound DEF h
<1>12. VarintValue(Take(tail, k)) = Len(b) /\ SSize(Len(b)) = Len(b)
  BY <1>1, <1>10, <1>11, LengthRead DEF h, b
<1>13. ~(Len(b) <= c - Len(h))
  BY <1>4, <1>5, <1>7
<1> QED BY <1>5, <1>8, <1>11, <1>12, <1>13

-----------------------------------------------------------------------------
(* What the first bytes of a file hold. *)

Starts(x, y) == \E q \in Seq(Messages) : y = Cat(x, q)

LEMMA StartsFacts ==
    ASSUME NEW x \in Seq(Messages)
    PROVE  Starts(<<>>, x) /\ Starts(x, x)
<1> DEFINE none == <<>>
<1>1. none \in Seq(Messages) /\ x = Cat(x, none) /\ x = Cat(none, x)
  BY CatNone
<1> HIDE DEF none
<1>2. Starts(none, x) /\ Starts(x, x)
  BY <1>1 DEF Starts
<1> QED BY <1>2 DEF none

LEMMA StartsTransitive ==
    ASSUME NEW x \in Seq(Messages), NEW y, NEW z, Starts(x, y), Starts(y, z)
    PROVE  Starts(x, z)
<1>1. PICK q \in Seq(Messages) : y = Cat(x, q)
  BY DEF Starts
<1>2. PICK r \in Seq(Messages) : z = Cat(y, r)
  BY DEF Starts
<1>3. z = Cat(x, Cat(q, r)) /\ Cat(q, r) \in Seq(Messages)
  BY <1>1, <1>2, CatAssoc, CatFacts
<1> QED BY <1>3 DEF Starts

LEMMA StartsPush ==
    ASSUME NEW x \in Seq(Messages), NEW m \in Messages
    PROVE  Starts(x, Push(x, m))
<1> DEFINE one == <<m>>
<1>1. one \in Seq(Messages) /\ x \o one = Append(x, m)
  BY OneMore
<1> HIDE DEF one
<1> QED BY <1>1 DEF Starts, Cat, Push

LEMMA StartsPrefix ==
    ASSUME NEW x \in Seq(Messages), NEW y, Starts(x, y)
    PROVE  IsPrefix(x, y)
<1>1. PICK q \in Seq(Messages) : y = Cat(x, q)
  BY DEF Starts
<1>2. Len(y) = Len(x) + Len(q) /\ Len(x) \in Nat /\ Len(q) \in Nat
  BY <1>1, CatAt
<1>3. Take(y, Len(x)) = x /\ Take(x, Len(x)) = x
  BY <1>1, TakeOfCat, TakeAll
<1>4. Len(x) <= Len(y)
  BY <1>2
<1> QED BY <1>3, <1>4 DEF IsPrefix, Take

(* s is whole frames of the first of ms, and then part of one at most. *)
CutOf(s, ms) ==
    \E ns \in Seq(Messages) : \E tail \in Seq(Bytes) :
        Torn(tail) /\ Starts(ns, ms) /\ s = Cat(Framed(ns), tail)

LEMMA CutOfFramed ==
    ASSUME NEW ms \in Seq(Messages), NEW c \in 0 .. Len(Framed(ms))
    PROVE  CutOf(Take(Framed(ms), c), ms)
<1> DEFINE S == {r \in Seq(Messages) : \A d \in 0 .. Len(Framed(r)) : CutOf(Take(Framed(r), d), r)}
<1>1. <<>> \in S
  <2> DEFINE none == <<>>
  <2>1. none \in Seq(Messages) /\ Framed(none) = none /\ Len(none) = 0
    BY FramedNone
  <2>2. none \in Seq(Bytes) /\ Torn(none) /\ Cat(none, none) = none
    <3>1. none \in Seq(Bytes) /\ Torn(none)
      BY DEF Torn
    <3> HIDE DEF none
    <3>2. Cat(none, <<>>) = none
      BY <3>1, CatNone
    <3> QED BY <3>1, <3>2 DEF none
  <2>3. Take(none, 0) = none
    <3> HIDE DEF none
    <3>1. Take(none, Len(none)) = none
      BY <2>1, TakeAll
    <3> QED BY <2>1, <3>1
  <2>4. Starts(none, none)
    <3> HIDE DEF none
    <3> QED BY <2>1, StartsFacts
  <2> HIDE DEF none
  <2>5. CutOf(none, none)
    BY <2>1, <2>2, <2>4 DEF CutOf
  <2>6. \A d \in 0 .. 0 : d = 0
    OBVIOUS
  <2>7. \A d \in 0 .. Len(Framed(none)) : CutOf(Take(Framed(none), d), none)
    BY <2>1, <2>3, <2>5, <2>6
  <2>8. none \in S
    BY <2>1, <2>7
  <2> QED BY <2>8 DEF none
<1>2. ASSUME NEW r \in Seq(Messages), NEW e \in Messages, r \in S
      PROVE  Push(r, e) \in S
  <2> DEFINE f == Framed(r)
             g == Frame(e)
             w == Cat(f, g)
             n == Push(r, e)
  <2>1. Framed(n) = w /\ n \in Seq(Messages) /\ Starts(r, n)
    BY FramedPush, PushFacts, StartsPush
  <2>2. f \in Seq(Bytes) /\ Len(f) \in Nat /\ g \in Seq(Bytes) /\ Len(g) \in Nat
    BY FramedTypes, FrameFacts, LenProperties
  <2>3. \A d \in 0 .. Len(f) : CutOf(Take(f, d), r)
    BY <1>2
  <2> SUFFICES ASSUME NEW d \in 0 .. Len(w)
               PROVE  CutOf(Take(w, d), n)
    BY <2>1
  <2> HIDE DEF f, g, n
  <2>4. IsCat(w, Bytes, f, g)
    BY <2>2, CatIs
  <2>5. /\ w \in Seq(Bytes) /\ Len(w) = Len(f) + Len(g)
        /\ \A i \in 1 .. Len(f) : w[i] = f[i]
    <3> HIDE DEF w
    <3> QED BY <2>4 DEF IsCat
  <2>6. CASE d <= Len(f)
    <3>1. d \in 0 .. Len(f) /\ d \in Nat /\ d <= Len(w)
      BY <2>2, <2>5, <2>6
    <3> HIDE DEF w
    <3>2. \A i \in 1 .. d : w[i] = f[i]
      BY <2>2, <2>5, <3>1, <2>6
    <3>3. Take(w, d) = Take(f, d)
      BY <2>2, <2>5, <2>6, <3>1, <3>2, TakeSame
    <3>4. PICK ns \in Seq(Messages) : \E tail \in Seq(Bytes) :
              Torn(tail) /\ Starts(ns, r) /\ Take(w, d) = Cat(Framed(ns), tail)
      BY <2>3, <3>1, <3>3 DEF CutOf
    <3>5. Starts(ns, r)
      BY <3>4
    <3>6. Starts(ns, n)
      BY <2>1, <3>5, StartsTransitive
    <3> QED BY <3>4, <3>6 DEF CutOf
  <2>7. CASE ~(d <= Len(f)) /\ d # Len(w)
    <3> DEFINE cut == d - Len(f)
    <3>1. cut \in 0 .. Len(g) /\ cut # Len(g) /\ Len(f) + cut = d
      BY <2>2, <2>5, <2>7
    <3> HIDE DEF cut
    <3>2. Take(w, d) = Cat(f, Take(g, cut))
      BY <2>2, <3>1, TakeInto
    <3>3. Torn(Take(g, cut))
      BY <3>1 DEF Torn, g
    <3>4. Take(g, cut) \in Seq(Bytes)
      BY <3>3, TornType
    <3> QED BY <2>1, <3>2, <3>3, <3>4 DEF CutOf, f
  <2>8. CASE d = Len(w)
    <3> DEFINE none == <<>>
    <3>1. Torn(none) /\ none \in Seq(Bytes)
      BY DEF Torn
    <3>2. Cat(w, none) = w /\ Take(w, d) = w
      <4> HIDE DEF w
      <4> QED BY <2>5, <2>8, CatNone, TakeAll
    <3>3. Starts(n, n)
      BY <2>1, StartsFacts
    <3> HIDE DEF w, none
    <3>4. Take(w, d) = Cat(Framed(n), none)
      BY <2>1, <3>2
    <3> QED BY <2>1, <3>1, <3>3, <3>4 DEF CutOf
  <2> QED BY <2>6, <2>7, <2>8
<1> HIDE DEF S
<1>3. Seq(Messages) \subseteq S
  BY <1>1, <1>2, PushInduct
<1> QED BY <1>3 DEF S

(* A cut leaves whole frames and a torn one. *)
LEMMA CutTake ==
    ASSUME NEW ms \in Seq(Messages), NEW tail, Torn(tail), NEW c \in 0 .. Len(Cat(Framed(ms), tail))
    PROVE  CutOf(Take(Cat(Framed(ms), tail), c), ms)
<1> DEFINE f == Framed(ms)
           w == Cat(f, tail)
<1>1. f \in Seq(Bytes) /\ Len(f) \in Nat /\ tail \in Seq(Bytes) /\ Len(tail) \in Nat
  BY FramedTypes, TornType
<1>2. \A d \in 0 .. Len(f) : CutOf(Take(f, d), ms)
  BY CutOfFramed
<1> HIDE DEF f
<1>3. IsCat(w, Bytes, f, tail)
  BY <1>1, CatIs
<1>4. /\ w \in Seq(Bytes) /\ Len(w) = Len(f) + Len(tail) /\ c \in 0 .. Len(w)
      /\ \A i \in 1 .. Len(f) : w[i] = f[i]
  <2>1. c \in 0 .. Len(w)
    BY DEF f
  <2> HIDE DEF w
  <2> QED BY <1>3, <2>1 DEF IsCat
<1>5. CASE c <= Len(f)
  <2> HIDE DEF w
  <2>1. c \in 0 .. Len(f) /\ c \in Nat /\ c <= Len(w)
    BY <1>1, <1>4, <1>5
  <2>2. ASSUME NEW i \in 1 .. c
        PROVE  w[i] = f[i]
    <3>1. i \in 1 .. Len(f)
      BY <1>1, <2>1
    <3> QED BY <1>4, <3>1
  <2>3. Take(w, c) = Take(f, c)
    BY <1>1, <1>4, <1>5, <2>1, <2>2, TakeSame
  <2> QED BY <1>2, <2>1, <2>3 DEF w, f
<1>6. CASE ~(c <= Len(f))
  <2> DEFINE d == c - Len(f)
  <2>1. d \in 0 .. Len(tail) /\ Len(f) + d = c
    BY <1>1, <1>4, <1>6
  <2> HIDE DEF d
  <2>2. Take(w, c) = Cat(f, Take(tail, d))
    BY <1>1, <2>1, TakeInto
  <2>3. Torn(Take(tail, d))
    BY <2>1, TornTake
  <2>4. Take(tail, d) \in Seq(Bytes)
    BY <2>3, TornType
  <2>5. Starts(ms, ms)
    BY StartsFacts
  <2> QED BY <2>2, <2>3, <2>4, <2>5 DEF CutOf, f
<1> QED BY <1>5, <1>6

-----------------------------------------------------------------------------
(* The invariant of the stream. *)

LEMMA Uncons ==
    ASSUME NEW X, NEW q \in Seq(X), q # <<>>
    PROVE  \E m \in X : \E r \in Seq(X) : q = Cat(<<m>>, r)
<1> DEFINE n == Len(q) - 1
           r == SubSeq(q, 1 + 1, 1 + n)
           m == q[1]
           one == <<m>>
           c == Cat(one, r)
<1>1. Len(q) \in Nat /\ Len(q) # 0
  BY LenProperties, EmptySeq
<1>2. n \in Nat /\ 1 + n = Len(q) /\ 1 \in 1 .. Len(q)
  BY <1>1
<1>3. m \in X
  BY <1>2, ElementOfSeq
<1>4. one \in Seq(X) /\ Len(one) = 1 /\ one[1] = m
  BY <1>3
<1> HIDE DEF n, m, one
<1>5. r \in Seq(X) /\ Len(r) = n /\ \A i \in 1 .. n : r[i] = q[1 + i]
  BY <1>2, PartOf
<1> HIDE DEF r
<1>6. IsCat(c, X, one, r)
  BY <1>4, <1>5, CatIs
<1> HIDE DEF c
<1>7. /\ c \in Seq(X) /\ Len(c) = 1 + n
      /\ \A i \in 1 .. 1 : c[i] = one[i]
      /\ \A i \in 1 .. n : c[1 + i] = r[i]
  BY <1>4, <1>5, <1>6 DEF IsCat
<1>8. ASSUME NEW i \in 1 .. Len(q)
      PROVE  q[i] = c[i]
  <2>1. CASE i = 1
    BY <1>4, <1>7, <2>1 DEF m
  <2>2. CASE i # 1
    <3>1. i - 1 \in 1 .. n /\ 1 + (i - 1) = i
      BY <1>2, <2>2
    <3>2. c[1 + (i - 1)] = r[i - 1] /\ r[i - 1] = q[1 + (i - 1)]
      BY <1>5, <1>7, <3>1
    <3> QED BY <3>1, <3>2
  <2> QED BY <2>1, <2>2
<1>9. q = c
  BY <1>2, <1>7, <1>8, SeqEqual
<1> QED BY <1>3, <1>5, <1>9 DEF c, one

LEMMA PushCat ==
    ASSUME NEW X, NEW x \in Seq(X), NEW m \in X, NEW r \in Seq(X)
    PROVE  Cat(x, Cat(<<m>>, r)) = Cat(Push(x, m), r)
<1> DEFINE one == <<m>>
<1>1. one \in Seq(X) /\ x \o one = Append(x, m)
  BY OneMore
<1> HIDE DEF one
<1>2. Cat(Cat(x, one), r) = Cat(x, Cat(one, r))
  BY <1>1, CatAssoc
<1>3. Cat(x, one) = Push(x, m)
  BY <1>1 DEF Cat, Push
<1> QED BY <1>2, <1>3 DEF one

LEMMA FramedCons ==
    ASSUME NEW m \in Messages, NEW r \in Seq(Messages)
    PROVE  Framed(Cat(<<m>>, r)) = Cat(Frame(m), Framed(r))
<1> DEFINE none == <<>>
           one == <<m>>
<1>1. none \in Seq(Messages) /\ one \in Seq(Messages) /\ Append(none, m) = one
  OBVIOUS
<1>2. Framed(none) = <<>>
  BY FramedNone
<1> HIDE DEF none, one
<1>3. Framed(Push(none, m)) = Cat(Framed(none), Frame(m))
  BY <1>1, FramedPush
<1>4. Frame(m) \in Seq(Bytes)
  BY FrameFacts
<1>5. Cat(<<>>, Frame(m)) = Frame(m)
  <2> DEFINE f == Frame(m)
  <2> HIDE DEF f
  <2>1. f \in Seq(Bytes)
    BY <1>4 DEF f
  <2>2. Cat(<<>>, f) = f
    BY <2>1, CatNone
  <2> QED BY <2>2 DEF f
<1>6. Framed(one) = Frame(m)
  BY <1>1, <1>2, <1>3, <1>5 DEF Push
<1>7. Framed(Cat(one, r)) = Cat(Framed(one), Framed(r))
  BY <1>1, FramedCat
<1> QED BY <1>6, <1>7 DEF one

(* What the file holds: the frames of messages that were written, and       *)
(* maybe part of one; and how much of them the reader has.                 *)
Held ==
    \E ms \in Seq(Messages) : \E tail \in Seq(Bytes) :
        /\ Torn(tail)
        /\ file = Cat(Framed(ms), tail)
        /\ Starts(ms, written)
        /\ writer # "crashed" => ms = written
        /\ Starts(results, ms)

StreamIInv ==
    /\ file \in Seq(Bytes) /\ written \in Seq(Messages) /\ results \in Seq(Messages)
    /\ garbled \in BOOLEAN
    /\ writer \in {"open", "failed"} => reader = "idle" /\ pos = 0 /\ results = <<>>
    /\ garbled = FALSE =>
          /\ Held
          /\ writer = "open" => file = Framed(written)
          /\ reader = "idle" => pos = Len(Framed(results))
          /\ reader = "undef" /\ writer = "closed" => results = written

LEMMA StreamBegins == StreamInit => StreamIInv
<1> SUFFICES ASSUME StreamInit
             PROVE  StreamIInv
  OBVIOUS
<1> DEFINE none == <<>>
<1>1. /\ file = none /\ written = none /\ results = none /\ pos = 0 /\ writer = "open"
      /\ reader = "idle" /\ garbled = FALSE
  BY DEF StreamInit
<1>2. none \in Seq(Bytes) /\ none \in Seq(Messages) /\ Len(none) = 0 /\ Torn(none)
  BY DEF Torn
<1>3. Framed(none) = none
  BY FramedNone
<1>4. Cat(none, none) = none
  <2> HIDE DEF none
  <2>1. Cat(none, <<>>) = none
    BY <1>2, CatNone
  <2> QED BY <2>1 DEF none
<1>5. Starts(none, none)
  <2> HIDE DEF none
  <2> QED BY <1>2, StartsFacts
<1>7. results = <<>>
  BY <1>1
<1> HIDE DEF none
<1>6. Held
  BY <1>1, <1>2, <1>3, <1>4, <1>5 DEF Held
<1> QED BY <1>1, <1>2, <1>3, <1>6, <1>7 DEF StreamIInv

(* Where an unspoilt file is written to, nothing has been read. *)
LEMMA WriteHeld ==
    ASSUME StreamIInv, writer \in {"open", "failed"}, garbled = FALSE,
           NEW tail, Torn(tail), written' \in Seq(Messages),
           file' = Cat(Framed(written'), tail), UNCHANGED <<pos, results, reader>>
    PROVE  Held' /\ reader' = "idle" /\ pos' = Len(Framed(results')) /\ results' = <<>>
<1>1. results = <<>> /\ pos = 0 /\ reader = "idle"
  BY DEF StreamIInv
<1>2. Framed(<<>>) = <<>> /\ Len(<<>>) = 0
  BY FramedNone
<1>3. Starts(<<>>, written') /\ Starts(written', written')
  BY StartsFacts
<1>4. tail \in Seq(Bytes)
  BY TornType
<1>5. results' = <<>> /\ pos' = 0 /\ reader' = "idle"
  BY <1>1
<1>6. Starts(results', written')
  BY <1>3, <1>5
<1>7. Held'
  BY <1>3, <1>4, <1>6 DEF Held
<1>8. pos' = Len(Framed(results'))
  BY <1>2, <1>5
<1> QED BY <1>5, <1>7, <1>8

LEMMA WriteStep ==
    ASSUME StreamIInv, NEW m \in Messages, ToHandle(m)
    PROVE  StreamIInv'
<1> DEFINE none == <<>>
           fs == Framed(written)
           f == Frame(m)
<1>1. /\ writer \in {"open", "failed"} /\ file' = file \o f /\ written' = Append(written, m)
      /\ garbled' = (garbled \/ writer = "failed") /\ writer' = "open"
      /\ UNCHANGED <<pos, results, reader>>
  BY DEF ToHandle
<1>2. /\ file \in Seq(Bytes) /\ written \in Seq(Messages) /\ results \in Seq(Messages)
      /\ garbled \in BOOLEAN /\ reader = "idle" /\ pos = 0 /\ results = <<>>
  BY <1>1 DEF StreamIInv
<1>3. f \in Seq(Bytes) /\ fs \in Seq(Bytes)
  BY <1>2, FrameFacts, FramedTypes
<1> HIDE DEF f
<1>4. file' \in Seq(Bytes) /\ written' \in Seq(Messages) /\ results' \in Seq(Messages)
      /\ garbled' \in BOOLEAN
  <2>1. Cat(file, f) \in Seq(Bytes) /\ Push(written, m) \in Seq(Messages)
    BY <1>2, <1>3, CatFacts, PushFacts
  <2>2. file' = Cat(file, f) /\ written' = Push(written, m) /\ results' = results
    BY <1>1 DEF Cat, Push
  <2>3. garbled' \in BOOLEAN
    BY <1>1, <1>2
  <2> QED BY <1>2, <2>1, <2>2, <2>3
<1>5. ASSUME garbled' = FALSE
      PROVE  /\ Held' /\ pos' = Len(Framed(results'))
             /\ file' = Framed(written') /\ reader' = "idle"
  <2>1. garbled = FALSE /\ writer = "open"
    BY <1>1, <1>2, <1>5
  <2>2. file = fs
    BY <2>1 DEF StreamIInv
  <2>3. Framed(Push(written, m)) = Cat(fs, f)
    BY <1>2, FramedPush DEF f
  <2> HIDE DEF fs
  <2>4. file' = Framed(written')
    BY <1>1, <2>2, <2>3 DEF Cat, Push
  <2>5. Torn(none) /\ none \in Seq(Bytes)
    BY DEF Torn
  <2>6. Cat(Framed(written'), none) = Framed(written')
    BY <1>4, <2>4, CatNone
  <2> HIDE DEF none
  <2>7. file' = Cat(Framed(written'), none)
    BY <2>4, <2>6
  <2>8. Held' /\ reader' = "idle" /\ pos' = Len(Framed(results'))
    BY <1>1, <1>4, <2>1, <2>5, <2>7, WriteHeld
  <2> QED BY <2>4, <2>8
<1>6. reader' = "idle" /\ pos' = 0 /\ results' = <<>>
  BY <1>1, <1>2
<1> QED BY <1>4, <1>5, <1>6 DEF StreamIInv

LEMMA WriteCroaks ==
    ASSUME StreamIInv, NEW m \in Messages, ToHandleCroaks(m)
    PROVE  StreamIInv'
<1> DEFINE h == Header(m)
           b == Body[m]
           f == Frame(m)
<1>1. /\ writer \in {"open", "failed"} /\ written' = written
      /\ writer' = "failed" /\ UNCHANGED <<pos, results, reader>>
  BY DEF ToHandleCroaks
<1>2. PICK j \in 0 .. Len(h), k \in 0 .. Len(b) - 1 :
          /\ file' = file \o SubSeq(h, 1, j) \o SubSeq(b, 1, k)
          /\ garbled' = (garbled \/ writer = "failed" \/ (j < Len(h) /\ k > 0))
  BY DEF ToHandleCroaks, Header
<1>3. /\ file \in Seq(Bytes) /\ written \in Seq(Messages) /\ results \in Seq(Messages)
      /\ garbled \in BOOLEAN /\ reader = "idle" /\ pos = 0 /\ results = <<>>
  BY <1>1 DEF StreamIInv
<1>4. /\ h \in Seq(Bytes) /\ b \in Seq(Bytes) /\ f = Cat(h, b) /\ Len(h) \in Nat /\ Len(b) \in Nat
      /\ Len(f) = Len(h) + Len(b)
  BY FrameFacts
<1> HIDE DEF h, b, f
<1> DEFINE u == Take(h, j)
           t == Take(b, k)
           tail == Cat(u, t)
<1>5. k \in 0 .. Len(b) /\ j \in Nat /\ k \in Nat /\ k < Len(b)
  BY <1>4
<1>6. t \in Seq(Bytes) /\ u \in Seq(Bytes)
  BY <1>4, <1>5, TakeFacts
<1>8. file' = Cat(file, tail)
  <2>1. file' = Cat(Cat(file, u), t)
    BY <1>2 DEF Cat, Take
  <2> HIDE DEF t, u
  <2>2. Cat(Cat(file, u), t) = Cat(file, Cat(u, t))
    BY <1>3, <1>6, CatAssoc
  <2> QED BY <2>1, <2>2
<1>9. ASSUME ~(j < Len(h) /\ k > 0)
      PROVE  Torn(tail)
  <2>1. CASE j = Len(h)
    <3> DEFINE c == Len(h) + k
    <3>1. c \in 0 .. Len(f) /\ c # Len(f)
      BY <1>4, <1>5
    <3>2. Take(f, c) = Cat(h, t)
      BY <1>4, <1>5, TakeInto
    <3>3. u = h
      BY <1>4, <2>1, TakeAll
    <3> HIDE DEF c, t, u
    <3> QED BY <3>1, <3>2, <3>3 DEF Torn, f
  <2>2. CASE k = 0
    <3>1. t = <<>>
      BY <1>4, <1>5, <2>2, TakeFacts, EmptySeq
    <3> HIDE DEF t, u
    <3>2. tail = u
      BY <1>6, <3>1, CatNone
    <3>3. j \in 0 .. Len(f) /\ j # Len(f) /\ j <= Len(h) /\ j <= Len(f)
      BY <1>4, <1>5
    <3>4. \A i \in 1 .. j : h[i] = f[i]
      <4>1. IsCat(f, Bytes, h, b)
        BY <1>4, CatIs
      <4> QED BY <1>4, <1>5, <3>3, <4>1 DEF IsCat
    <3>5. f \in Seq(Bytes)
      BY <1>4, CatFacts
    <3>6. Take(h, j) = Take(f, j)
      BY <1>4, <1>5, <3>3, <3>4, <3>5, TakeSame
    <3> HIDE DEF tail
    <3> QED BY <3>2, <3>3, <3>6 DEF Torn, f, u
  <2> QED BY <1>4, <1>5, <1>9, <2>1, <2>2
<1>10. tail \in Seq(Bytes)
  <2> HIDE DEF t, u
  <2> QED BY <1>6, CatFacts
<1> HIDE DEF tail, t, u
<1>12. /\ file' \in Seq(Bytes) /\ written' \in Seq(Messages) /\ results' \in Seq(Messages)
       /\ garbled' \in BOOLEAN
  <2>1. Cat(file, tail) \in Seq(Bytes)
    BY <1>3, <1>10, CatFacts
  <2>2. garbled' \in BOOLEAN
    BY <1>2, <1>3
  <2> QED BY <1>1, <1>3, <1>8, <2>1, <2>2
<1>13. ASSUME garbled' = FALSE
       PROVE  Held' /\ pos' = Len(Framed(results'))
  <2>1. garbled = FALSE /\ writer = "open" /\ ~(j < Len(h) /\ k > 0)
    BY <1>1, <1>2, <1>3, <1>13
  <2>2. file = Framed(written)
    BY <2>1 DEF StreamIInv
  <2>3. file' = Cat(Framed(written'), tail)
    BY <1>1, <1>8, <2>2
  <2> QED BY <1>1, <1>9, <1>12, <2>1, <2>3, WriteHeld
<1>14. reader' = "idle" /\ pos' = 0 /\ results' = <<>> /\ writer' = "failed"
  BY <1>1, <1>3
<1> QED BY <1>12, <1>13, <1>14 DEF StreamIInv

(* Once the file is garbled only the types are left to keep. *)
LEMMA SpoiltStep ==
    ASSUME StreamIInv, writer \in {"open", "failed"}, garbled' = TRUE, file' \in Seq(Bytes),
           written' \in Seq(Messages), UNCHANGED <<pos, results, reader>>
    PROVE  StreamIInv'
<1>1. results \in Seq(Messages) /\ reader = "idle" /\ pos = 0 /\ results = <<>>
  BY DEF StreamIInv
<1>2. results' \in Seq(Messages) /\ reader' = "idle" /\ pos' = 0 /\ results' = <<>>
  BY <1>1
<1>3. garbled' \in BOOLEAN /\ garbled' # FALSE
  OBVIOUS
<1> QED BY <1>2, <1>3 DEF StreamIInv

LEMMA WriteLosesLength ==
    ASSUME StreamIInv, NEW m \in Messages, ToHandleLosesLength(m)
    PROVE  StreamIInv'
<1> DEFINE h == Header(m)
           b == Body[m]
<1>1. /\ writer \in {"open", "failed"} /\ written' = Append(written, m)
      /\ garbled' = TRUE /\ UNCHANGED <<pos, results, reader>>
  BY DEF ToHandleLosesLength
<1>2. PICK k \in 0 .. Len(h) - 1 : file' = file \o SubSeq(h, 1, k) \o b
  BY DEF ToHandleLosesLength, Header
<1>3. file \in Seq(Bytes) /\ written \in Seq(Messages)
  BY DEF StreamIInv
<1>4. h \in Seq(Bytes) /\ b \in Seq(Bytes) /\ Len(h) \in Nat
  BY FrameFacts
<1> HIDE DEF h, b
<1> DEFINE t == Take(h, k)
<1>5. k \in 0 .. Len(h)
  BY <1>4
<1>6. t \in Seq(Bytes)
  BY <1>4, <1>5, TakeFacts
<1>7. file' = Cat(Cat(file, t), b)
  BY <1>2 DEF Cat, Take
<1> HIDE DEF t
<1>8. Cat(file, t) \in Seq(Bytes)
  BY <1>3, <1>6, CatFacts
<1>9. Cat(Cat(file, t), b) \in Seq(Bytes)
  BY <1>4, <1>8, CatFacts
<1>10. Push(written, m) \in Seq(Messages)
  BY <1>3, PushFacts
<1>11. written' \in Seq(Messages) /\ file' \in Seq(Bytes)
  BY <1>1, <1>7, <1>9, <1>10 DEF Push
<1> QED BY <1>1, <1>11, SpoiltStep

LEMMA WriteJson ==
    ASSUME StreamIInv, NEW m \in Messages, JsonToHandle(m)
    PROVE  StreamIInv'
<1> DEFINE j == Json[m]
<1>1. /\ writer \in {"open", "failed"} /\ written' = written
      /\ garbled' = TRUE /\ UNCHANGED <<pos, results, reader>>
  BY DEF JsonToHandle
<1>2. PICK k \in 0 .. Len(j) : file' = file \o SubSeq(j, 1, k)
  BY DEF JsonToHandle
<1>3. file \in Seq(Bytes) /\ written \in Seq(Messages)
  BY DEF StreamIInv
<1>4. j \in Seq(Bytes)
  BY MessageStreamAssumption DEF Bytes
<1> HIDE DEF j
<1> DEFINE t == Take(j, k)
<1>5. t \in Seq(Bytes)
  BY <1>4, TakeFacts
<1>6. file' = Cat(file, t)
  BY <1>2 DEF Cat, Take
<1> HIDE DEF t
<1>7. Cat(file, t) \in Seq(Bytes)
  BY <1>3, <1>5, CatFacts
<1>8. written' \in Seq(Messages) /\ file' \in Seq(Bytes)
  BY <1>1, <1>3, <1>6, <1>7
<1> QED BY <1>1, <1>8, SpoiltStep

LEMMA CloseStep ==
    ASSUME StreamIInv, Close
    PROVE  StreamIInv'
<1>1. /\ writer \in {"open", "failed"} /\ writer' = "closed"
      /\ UNCHANGED <<file, written, garbled, pos, results, reader>>
  BY DEF Close
<1>2. reader' = "idle"
  BY <1>1 DEF StreamIInv
<1>3. Held => Held'
  BY <1>1 DEF Held
<1> QED BY <1>1, <1>2, <1>3 DEF StreamIInv

LEMMA CrashStep ==
    ASSUME StreamIInv, Crash
    PROVE  StreamIInv'
<1>1. /\ writer \in {"open", "failed"} /\ writer' = "crashed"
      /\ UNCHANGED <<written, garbled, pos, results, reader>>
  BY DEF Crash
<1>2. PICK k \in 0 .. Len(file) : file' = Take(file, k)
  BY DEF Crash, Take
<1>3. /\ file \in Seq(Bytes) /\ written \in Seq(Messages) /\ results \in Seq(Messages)
      /\ garbled \in BOOLEAN /\ reader = "idle" /\ results = <<>>
  BY <1>1 DEF StreamIInv
<1>4. Take(file, k) \in Seq(Bytes)
  BY <1>3, TakeFacts
<1>5. file' \in Seq(Bytes)
  BY <1>2, <1>4
<1>6. ASSUME garbled = FALSE
      PROVE  Held' /\ pos = Len(Framed(results))
  <2>1. Held /\ pos = Len(Framed(results))
    BY <1>3, <1>6 DEF StreamIInv
  <2>2. PICK ms \in Seq(Messages) : \E tail \in Seq(Bytes) :
            Torn(tail) /\ file = Cat(Framed(ms), tail) /\ Starts(ms, written)
    BY <2>1 DEF Held
  <2>3. PICK tail \in Seq(Bytes) : Torn(tail) /\ file = Cat(Framed(ms), tail)
    BY <2>2
  <2>4. Starts(ms, written)
    BY <2>2
  <2>5. CutOf(Take(file, k), ms)
    BY <2>3, CutTake
  <2>6. PICK ns \in Seq(Messages) : \E rest \in Seq(Bytes) :
            Torn(rest) /\ Starts(ns, ms) /\ Take(file, k) = Cat(Framed(ns), rest)
    BY <2>5 DEF CutOf
  <2>7. PICK rest \in Seq(Bytes) : Torn(rest) /\ Take(file, k) = Cat(Framed(ns), rest)
    BY <2>6
  <2>8. Starts(ns, ms)
    BY <2>6
  <2>9. Starts(ns, written)
    BY <2>4, <2>8, StartsTransitive
  <2>10. Starts(<<>>, ns)
    BY StartsFacts
  <2>11. /\ file' = Cat(Framed(ns), rest) /\ Starts(ns, written') /\ Starts(results', ns)
         /\ writer' = "crashed"
    BY <1>1, <1>2, <1>3, <2>7, <2>9, <2>10
  <2>12. Held'
    BY <2>7, <2>11 DEF Held
  <2> QED BY <2>1, <2>12
<1> QED BY <1>1, <1>3, <1>5, <1>6 DEF StreamIInv

(* What the reader has before it. *)
LEMMA RestIs ==
    ASSUME NEW ms \in Seq(Messages), NEW tail, Torn(tail), file = Cat(Framed(ms), tail),
           results \in Seq(Messages), NEW q \in Seq(Messages), ms = Cat(results, q),
           pos = Len(Framed(results))
    PROVE  Rest = Cat(Framed(q), tail)
<1> DEFINE fr == Framed(results)
           fq == Framed(q)
           z == Cat(fq, tail)
<1>1. fr \in Seq(Bytes) /\ fq \in Seq(Bytes) /\ tail \in Seq(Bytes)
  BY FramedTypes, TornType
<1>2. Framed(ms) = Cat(fr, fq)
  BY FramedCat
<1>3. pos = Len(fr)
  OBVIOUS
<1> HIDE DEF fr, fq
<1>4. z \in Seq(Bytes)
  BY <1>1, CatFacts
<1>5. file = Cat(fr, z)
  BY <1>1, <1>2, CatAssoc
<1> HIDE DEF z
<1>6. Len(Cat(fr, z)) = Len(fr) + Len(z)
  BY <1>1, <1>4, CatAt
<1>7. SubSeq(Cat(fr, z), Len(fr) + 1, Len(fr) + Len(z)) = z
  BY <1>1, <1>4, CatBack
<1>8. Rest = z
  BY <1>3, <1>5, <1>6, <1>7 DEF Rest
<1> QED BY <1>8 DEF z, fq

(* Either a whole frame is before the reader, or every message was read and *)
(* what is left is torn.                                                   *)
LEMMA NextFrame ==
    ASSUME NEW ms \in Seq(Messages), NEW tail, Torn(tail), file = Cat(Framed(ms), tail),
           results \in Seq(Messages), Starts(results, ms), pos = Len(Framed(results))
    PROVE  \/ results = ms /\ Rest = tail
           \/ \E m \in Messages : \E z \in Seq(Bytes) :
                 Rest = Cat(Frame(m), z) /\ Starts(Push(results, m), ms)
<1>1. PICK q \in Seq(Messages) : ms = Cat(results, q)
  BY DEF Starts
<1>2. Rest = Cat(Framed(q), tail)
  BY <1>1, RestIs
<1>3. tail \in Seq(Bytes)
  BY TornType
<1>4. CASE q = <<>>
  <2>1. Cat(results, <<>>) = results
    BY CatNone
  <2>2. Cat(<<>>, tail) = tail
    BY <1>3, CatNone
  <2>3. Framed(<<>>) = <<>>
    BY FramedNone
  <2> QED BY <1>1, <1>2, <1>4, <2>1, <2>2, <2>3
<1>5. CASE q # <<>>
  <2>1. PICK m \in Messages : \E r \in Seq(Messages) : q = Cat(<<m>>, r)
    BY <1>5, Uncons
  <2>2. PICK r \in Seq(Messages) : q = Cat(<<m>>, r)
    BY <2>1
  <2>3. Framed(q) = Cat(Frame(m), Framed(r))
    BY <2>2, FramedCons
  <2> DEFINE fr == Framed(r)
             z == Cat(fr, tail)
             f == Frame(m)
  <2>4. fr \in Seq(Bytes) /\ f \in Seq(Bytes)
    BY FramedTypes, FrameFacts
  <2> HIDE DEF fr, f
  <2>5. z \in Seq(Bytes)
    BY <1>3, <2>4, CatFacts
  <2>6. Cat(Cat(f, fr), tail) = Cat(f, z)
    BY <1>3, <2>4, CatAssoc
  <2> HIDE DEF z
  <2>7. Rest = Cat(Frame(m), z)
    BY <1>2, <2>3, <2>6 DEF f, fr
  <2>8. ms = Cat(Push(results, m), r)
    BY <1>1, <2>2, PushCat
  <2>9. Starts(Push(results, m), ms)
    BY <2>8 DEF Starts
  <2> QED BY <2>5, <2>7, <2>9
<1> QED BY <1>4, <1>5

(* A whole frame is never taken for the end of the file. *)
LEMMA FrameHasLength ==
    ASSUME NEW m \in Messages, NEW z \in Seq(Bytes)
    PROVE  Len(Header(m)) \in VarintEnds(Cat(Frame(m), z))
<1> DEFINE s == Cat(Frame(m), z)
<1>1. s \in Seq(Bytes) /\ BeginsAs(s, m) /\ Len(s) = Len(Header(m)) + Len(Body[m]) + Len(z) /\ Len(z) \in Nat
  BY WholeFrame
<1>2. Len(Header(m)) \in Nat /\ Len(Body[m]) \in Nat
  BY FrameFacts
<1> HIDE DEF s
<1>3. Len(Header(m)) <= Len(s)
  BY <1>1, <1>2
<1>4. Len(Header(m)) \in VarintEnds(s)
  BY <1>1, <1>3, LengthThere
<1> QED BY <1>4 DEF s

LEMMA UndefStep ==
    ASSUME StreamIInv, FromHandleUndef
    PROVE  StreamIInv'
<1>1. /\ reader = "idle" /\ writer \in {"closed", "crashed"} /\ VarintEnds(Rest) = {}
      /\ reader' = "undef" /\ UNCHANGED <<file, written, writer, garbled, results>>
  BY DEF FromHandleUndef, Reads, writing
<1>2. results \in Seq(Messages)
  BY DEF StreamIInv
<1>3. ASSUME garbled = FALSE
      PROVE  Held' /\ (writer = "closed" => results = written)
  <2>1. Held /\ pos = Len(Framed(results))
    BY <1>1, <1>3 DEF StreamIInv
  <2>2. Held'
    BY <1>1, <2>1 DEF Held
  <2>3. PICK ms \in Seq(Messages) : \E tail \in Seq(Bytes) :
            /\ Torn(tail) /\ file = Cat(Framed(ms), tail) /\ Starts(results, ms)
            /\ writer # "crashed" => ms = written
    BY <2>1 DEF Held
  <2>4. PICK tail \in Seq(Bytes) : Torn(tail) /\ file = Cat(Framed(ms), tail)
    BY <2>3
  <2>5. Starts(results, ms) /\ (writer # "crashed" => ms = written)
    BY <2>3
  <2>6. \/ results = ms
        \/ \E m \in Messages : \E z \in Seq(Bytes) : Rest = Cat(Frame(m), z)
    BY <1>2, <2>1, <2>4, <2>5, NextFrame
  <2>7. ~ \E m \in Messages : \E z \in Seq(Bytes) : Rest = Cat(Frame(m), z)
    BY <1>1, FrameHasLength
  <2> QED BY <2>2, <2>5, <2>6, <2>7
<1> QED BY <1>1, <1>3 DEF StreamIInv

(* FromHandle where the frame of m is next returns m. *)
LEMMA FrameRead ==
    ASSUME NEW m \in Messages, NEW z \in Seq(Bytes), Rest = Cat(Frame(m), z),
           FromHandleLength, pos \in Nat
    PROVE  results' = Append(results, m) /\ reader' = reader /\ pos' = pos + Len(Frame(m))
<1> DEFINE h == Header(m)
           b == Body[m]
           total(k) == VarintValue(SubSeq(Rest, 1, k))
           n(k) == BodyRead(k, total(k))
           decoded(k) == Decoded(SubSeq(Rest, k + 1, k + n(k)))
<1>1. PICK k \in VarintEnds(Rest) :
          \/ /\ n(k) < SSize(total(k))
             /\ reader' = "croak"
             /\ pos' = Len(file)
             /\ UNCHANGED results
          \/ /\ n(k) = total(k)
             /\ pos' = pos + k + n(k)
             /\ IF decoded(k) = {}
                THEN reader' = "decode_error" /\ UNCHANGED results
                ELSE /\ \E l \in decoded(k) : results' = Append(results, l)
                     /\ UNCHANGED reader
  BY DEF FromHandleLength
<1>2. /\ Rest \in Seq(Bytes) /\ BeginsAs(Rest, m) /\ Len(Rest) = Len(h) + Len(b) + Len(z) /\ Len(z) \in Nat
      /\ SubSeq(Rest, Len(h) + 1, Len(h) + Len(b)) = b
  BY WholeFrame
<1>3. Len(h) \in Nat /\ Len(b) \in Nat /\ Len(Frame(m)) = Len(h) + Len(b)
  BY FrameFacts
<1>4. k = Len(h) /\ k <= Len(Rest)
  BY <1>2, LengthFound
<1>5. total(k) = Len(b) /\ SSize(total(k)) = Len(b)
  <2>1. VarintValue(Take(Rest, Len(h))) = Len(b) /\ SSize(Len(b)) = Len(b)
    BY <1>2, <1>4, LengthRead
  <2> QED BY <1>4, <2>1 DEF Take
<1> HIDE DEF total
<1>6. n(k) = Len(b)
  <2> HIDE DEF h, b
  <2>1. Len(b) <= Len(Rest) - k /\ Len(Rest) - k \in Int
    BY <1>2, <1>3, <1>4
  <2> QED BY <1>3, <1>5, <2>1 DEF BodyRead, Min2
<1> HIDE DEF n, h
<1>7. decoded(k) = {m}
  <2>1. SubSeq(Rest, k + 1, k + n(k)) = b
    BY <1>2, <1>4, <1>6
  <2>2. Decoded(b) = {m}
    BY FramesAssumption DEF Decoded
  <2> QED BY <2>1, <2>2
<1> HIDE DEF decoded, b
<1>8. ~(n(k) < SSize(total(k))) /\ decoded(k) # {}
  BY <1>3, <1>5, <1>6, <1>7
<1>9. pos' = pos + k + n(k) /\ reader' = reader /\ \E l \in decoded(k) : results' = Append(results, l)
  BY <1>1, <1>8
<1>10. results' = Append(results, m)
  BY <1>7, <1>9
<1>11. pos' = pos + Len(Frame(m))
  BY <1>3, <1>4, <1>6, <1>9
<1> QED BY <1>9, <1>10, <1>11

(* FromHandle where a torn frame is next croaks. *)
LEMMA TornCroaks ==
    ASSUME Torn(Rest), FromHandleLength
    PROVE  reader' = "croak" /\ results' = results
<1> DEFINE total(k) == VarintValue(SubSeq(Rest, 1, k))
           n(k) == BodyRead(k, total(k))
           decoded(k) == Decoded(SubSeq(Rest, k + 1, k + n(k)))
<1>1. PICK k \in VarintEnds(Rest) :
          \/ /\ n(k) < SSize(total(k))
             /\ reader' = "croak"
             /\ pos' = Len(file)
             /\ UNCHANGED results
          \/ /\ n(k) = total(k)
             /\ pos' = pos + k + n(k)
             /\ IF decoded(k) = {}
                THEN reader' = "decode_error" /\ UNCHANGED results
                ELSE /\ \E l \in decoded(k) : results' = Append(results, l)
                     /\ UNCHANGED reader
  BY DEF FromHandleLength
<1>2. /\ ~(total(k) <= Len(Rest) - k) /\ SSize(total(k)) = total(k)
      /\ total(k) \in Nat /\ Len(Rest) - k \in Int
  BY TornRead DEF Take
<1> HIDE DEF total
<1>3. n(k) < total(k)
  BY <1>2 DEF BodyRead, Min2
<1>4. n(k) # total(k)
  BY <1>2, <1>3 DEF BodyRead, Min2
<1> HIDE DEF n, decoded
<1> QED BY <1>1, <1>4

(* In any file, what is returned is a message. *)
LEMMA ReadTypes ==
    ASSUME FromHandleLength \/ FromHandleOverread, results \in Seq(Messages)
    PROVE  results' \in Seq(Messages)
<1> DEFINE total(k) == VarintValue(SubSeq(Rest, 1, k))
           n(k) == BodyRead(k, total(k))
           decoded(k) == Decoded(SubSeq(Rest, k + 1, k + n(k)))
<1>1. ASSUME FromHandleLength
      PROVE  results' = results \/ \E l \in Messages : results' = Append(results, l)
  <2>1. PICK k \in VarintEnds(Rest) :
            \/ /\ n(k) < SSize(total(k))
               /\ reader' = "croak"
               /\ pos' = Len(file)
               /\ UNCHANGED results
            \/ /\ n(k) = total(k)
               /\ pos' = pos + k + n(k)
               /\ IF decoded(k) = {}
                  THEN reader' = "decode_error" /\ UNCHANGED results
                  ELSE /\ \E l \in decoded(k) : results' = Append(results, l)
                       /\ UNCHANGED reader
    BY <1>1 DEF FromHandleLength
  <2>2. decoded(k) \subseteq Messages
    BY DEF Decoded
  <2> HIDE DEF n, decoded
  <2>3. results' = results \/ \E l \in Messages : results' = Append(results, l)
    BY <2>1, <2>2
  <2> QED BY <2>3
<1>2. ASSUME FromHandleOverread
      PROVE  results' = results \/ \E l \in Messages : results' = Append(results, l)
  BY <1>2 DEF FromHandleOverread
<1>3. results' = results \/ \E l \in Messages : results' = Append(results, l)
  BY <1>1, <1>2
<1>4. \A l \in Messages : Push(results, l) \in Seq(Messages)
  BY PushFacts
<1> QED BY <1>3, <1>4 DEF Push

LEMMA LengthStep ==
    ASSUME StreamIInv, FromHandleLength
    PROVE  StreamIInv'
<1>1. /\ reader = "idle" /\ writer \in {"closed", "crashed"}
      /\ UNCHANGED <<file, written, writer, garbled>>
  BY DEF FromHandleLength, Reads, writing
<1>2. /\ results \in Seq(Messages) /\ results' \in Seq(Messages)
  BY ReadTypes DEF StreamIInv
<1>3. ASSUME garbled = FALSE
      PROVE  /\ Held' /\ reader' # "undef"
             /\ reader' = "idle" => pos' = Len(Framed(results'))
  <2>1. Held /\ pos = Len(Framed(results))
    BY <1>1, <1>3 DEF StreamIInv
  <2>2. PICK ms \in Seq(Messages) : \E tail \in Seq(Bytes) :
            /\ Torn(tail) /\ file = Cat(Framed(ms), tail) /\ Starts(results, ms)
            /\ Starts(ms, written) /\ (writer # "crashed" => ms = written)
    BY <2>1 DEF Held
  <2>3. PICK tail \in Seq(Bytes) : Torn(tail) /\ file = Cat(Framed(ms), tail)
    BY <2>2
  <2>4. Starts(results, ms) /\ Starts(ms, written) /\ (writer # "crashed" => ms = written)
    BY <2>2
  <2>5. \/ results = ms /\ Rest = tail
        \/ \E m \in Messages : \E z \in Seq(Bytes) :
              Rest = Cat(Frame(m), z) /\ Starts(Push(results, m), ms)
    BY <1>2, <2>1, <2>3, <2>4, NextFrame
  <2>6. ASSUME Starts(results', ms)
        PROVE  Held'
    BY <1>1, <2>3, <2>4, <2>6 DEF Held
  <2>7. CASE Rest = tail
    <3>1. Torn(Rest)
      BY <2>3, <2>7
    <3>2. reader' = "croak" /\ results' = results
      BY <3>1, TornCroaks
    <3> QED BY <2>4, <2>6, <3>2
  <2>8. CASE \E m \in Messages : \E z \in Seq(Bytes) :
                 Rest = Cat(Frame(m), z) /\ Starts(Push(results, m), ms)
    <3>1. PICK m \in Messages : \E z \in Seq(Bytes) :
                 Rest = Cat(Frame(m), z) /\ Starts(Push(results, m), ms)
      BY <2>8
    <3>2. PICK z \in Seq(Bytes) : Rest = Cat(Frame(m), z)
      BY <3>1
    <3> DEFINE fs == Framed(results)
               f == Frame(m)
    <3>3. fs \in Seq(Bytes) /\ Len(fs) \in Nat /\ f \in Seq(Bytes)
      BY <1>2, FramedTypes, FrameFacts
    <3>4. results' = Append(results, m) /\ reader' = reader /\ pos' = pos + Len(f)
      BY <2>1, <3>2, <3>3, FrameRead
    <3>5. results' = Push(results, m)
      BY <3>4 DEF Push
    <3>6. Framed(results') = Cat(fs, f)
      BY <1>2, <3>5, FramedPush
    <3> HIDE DEF fs, f
    <3>7. Len(Cat(fs, f)) = Len(fs) + Len(f)
      BY <3>3, CatAt
    <3>8. pos' = Len(Framed(results'))
      BY <2>1, <3>4, <3>6, <3>7 DEF fs
    <3>9. Starts(results', ms)
      BY <3>1, <3>5
    <3> QED BY <1>1, <2>6, <3>4, <3>8, <3>9
  <2> QED BY <2>5, <2>7, <2>8
<1> QED BY <1>1, <1>2, <1>3 DEF StreamIInv

(* No frame that was written, whole or torn, has a length that upb_Decode   *)
(* would run over.                                                         *)
LEMMA NoOverread ==
    ASSUME Torn(Rest) \/ \E m \in Messages : \E z \in Seq(Bytes) : Rest = Cat(Frame(m), z)
    PROVE  ~FromHandleOverread
<1> SUFFICES ASSUME FromHandleOverread
             PROVE  FALSE
  OBVIOUS
<1> DEFINE total(k) == VarintValue(SubSeq(Rest, 1, k))
           n(k) == BodyRead(k, total(k))
<1>1. PICK k \in VarintEnds(Rest) : n(k) < total(k) /\ ~(n(k) < SSize(total(k)))
  BY DEF FromHandleOverread
<1>2. CASE Torn(Rest)
  <2>1. SSize(total(k)) = total(k)
    BY <1>2, TornRead DEF Take
  <2> HIDE DEF n, total
  <2> QED BY <1>1, <2>1
<1>3. CASE \E m \in Messages : \E z \in Seq(Bytes) : Rest = Cat(Frame(m), z)
  <2>1. PICK m \in Messages : \E z \in Seq(Bytes) : Rest = Cat(Frame(m), z)
    BY <1>3
  <2>2. PICK z \in Seq(Bytes) : Rest = Cat(Frame(m), z)
    BY <2>1
  <2>3. Rest \in Seq(Bytes) /\ BeginsAs(Rest, m)
    BY <2>2, WholeFrame
  <2>4. k = Len(Header(m)) /\ k <= Len(Rest)
    BY <2>3, LengthFound
  <2>5. VarintValue(Take(Rest, k)) = Len(Body[m]) /\ SSize(Len(Body[m])) = Len(Body[m])
    BY <2>3, <2>4, LengthRead
  <2>6. SSize(total(k)) = total(k)
    BY <2>5 DEF Take
  <2> HIDE DEF n, total
  <2> QED BY <1>1, <2>6
<1> QED BY <1>2, <1>3

LEMMA OverreadStep ==
    ASSUME StreamIInv, FromHandleOverread
    PROVE  StreamIInv'
<1>1. /\ reader = "idle" /\ writer \in {"closed", "crashed"}
      /\ UNCHANGED <<file, written, writer, garbled>>
  BY DEF FromHandleOverread, Reads, writing
<1>2. /\ results \in Seq(Messages) /\ results' \in Seq(Messages)
  BY ReadTypes DEF StreamIInv
<1>3. garbled # FALSE
  <2> SUFFICES ASSUME garbled = FALSE
               PROVE  FALSE
    OBVIOUS
  <2>1. Held /\ pos = Len(Framed(results))
    BY <1>1 DEF StreamIInv
  <2>2. PICK ms \in Seq(Messages) : \E tail \in Seq(Bytes) :
            Torn(tail) /\ file = Cat(Framed(ms), tail) /\ Starts(results, ms)
    BY <2>1 DEF Held
  <2>3. PICK tail \in Seq(Bytes) : Torn(tail) /\ file = Cat(Framed(ms), tail)
    BY <2>2
  <2>4. Starts(results, ms)
    BY <2>2
  <2>5. \/ Rest = tail
        \/ \E m \in Messages : \E z \in Seq(Bytes) : Rest = Cat(Frame(m), z)
    BY <1>2, <2>1, <2>3, <2>4, NextFrame
  <2> QED BY <2>3, <2>5, NoOverread
<1> QED BY <1>1, <1>2, <1>3 DEF StreamIInv

(* Reading to the end, and steps that change nothing here. *)
LEMMA WholeStep ==
    ASSUME StreamIInv, FromHandleAll \/ ReadChunk \/ ReadChunksEnd \/ OutOfMemory
    PROVE  StreamIInv'
<1>1. /\ reader' \in {"all", "whole", "decode_error", "crash"} /\ UNCHANGED <<file, written, writer, garbled, results>>
      /\ writer \notin {"open", "failed"}
  <2>1. CASE FromHandleAll
    BY <2>1 DEF FromHandleAll, Reads, writing
  <2>2. CASE ReadChunk
    BY <2>2 DEF ReadChunk, writing, StreamIInv
  <2>3. CASE ReadChunksEnd
    BY <2>3 DEF ReadChunksEnd, writing, StreamIInv
  <2>4. CASE OutOfMemory
    BY <2>4 DEF OutOfMemory, Reads, writing, StreamIInv
  <2> QED BY <2>1, <2>2, <2>3, <2>4
<1>2. Held => Held'
  BY <1>1 DEF Held
<1> QED BY <1>1, <1>2 DEF StreamIInv

LEMMA StreamStutter ==
    ASSUME StreamIInv, UNCHANGED stream_vars
    PROVE  StreamIInv'
<1>1. UNCHANGED <<file, written, writer, garbled, pos, results, reader>>
  BY DEF stream_vars
<1>2. Held => Held'
  BY <1>1 DEF Held
<1> QED BY <1>1, <1>2 DEF StreamIInv

(* What the file holds of the messages that were written, and what of that  *)
(* the reader has, stays as the invariant says through every write, failed  *)
(* write, crash and read of PerlUpb_Message_ToHandle and _FromHandle.       *)
THEOREM StreamInvariance == StreamSpec => []StreamIInv
<1>1. ASSUME StreamIInv, [StreamNext]_stream_vars
      PROVE  StreamIInv'
  <2>1. ASSUME NEW m \in Messages,
               ToHandle(m) \/ ToHandleCroaks(m) \/ ToHandleLosesLength(m) \/ JsonToHandle(m)
        PROVE  StreamIInv'
    BY <1>1, <2>1, WriteStep, WriteCroaks, WriteLosesLength, WriteJson
  <2>2. CASE Close
    BY <1>1, <2>2, CloseStep
  <2>3. CASE Crash
    BY <1>1, <2>3, CrashStep
  <2>4. CASE FromHandleUndef
    BY <1>1, <2>4, UndefStep
  <2>5. CASE FromHandleLength
    BY <1>1, <2>5, LengthStep
  <2>6. CASE FromHandleAll \/ ReadChunk \/ ReadChunksEnd \/ OutOfMemory
    BY <1>1, <2>6, WholeStep
  <2>7. CASE UNCHANGED stream_vars
    BY <1>1, <2>7, StreamStutter
  <2>8. CASE FromHandleOverread
    BY <1>1, <2>8, OverreadStep
  <2> QED BY <1>1, <2>1, <2>2, <2>3, <2>4, <2>5, <2>6, <2>7, <2>8 DEF StreamNext
<1> QED BY <1>1, StreamBegins, PTL DEF StreamSpec

(* ReadsWhatWasWritten for any messages, any number of writes and any       *)
(* varint width: a cut file gives up the messages in front of the cut and  *)
(* then an undef or a croak, and an undef at the end of a closed file means *)
(* that all of them were read.                                             *)
THEOREM StreamReads == StreamSpec => []ReadsWhatWasWritten
<1>1. ASSUME StreamIInv
      PROVE  ReadsWhatWasWritten
  <2> SUFFICES ASSUME garbled = FALSE
               PROVE  /\ IsPrefix(results, written)
                      /\ reader = "undef" /\ writer = "closed" => results = written
    BY <1>1 DEF ReadsWhatWasWritten, StreamIInv
  <2>1. results \in Seq(Messages) /\ Held
    BY <1>1 DEF StreamIInv
  <2>2. PICK ms \in Seq(Messages) : Starts(results, ms) /\ Starts(ms, written)
    BY <2>1 DEF Held
  <2>3. Starts(results, written)
    BY <2>1, <2>2, StartsTransitive
  <2>4. IsPrefix(results, written)
    BY <2>1, <2>3, StartsPrefix
  <2> QED BY <1>1, <2>4 DEF StreamIInv
<1> QED BY <1>1, StreamInvariance, PTL

-----------------------------------------------------------------------------
(* Types, and the bounds of the reader's position and of its buffer. *)

LEMMA ValueIsNat ==
    ASSUME NEW bytes \in Seq(Bytes)
    PROVE  VarintValue(bytes) \in 0 .. (2 * Half) - 1
<1>1. PICK v \in [0 .. Len(bytes) -> Nat] : Values(v, bytes)
  BY ValuesExist
<1>2. VarintSum(bytes) = v[Len(bytes)]
  BY <1>1, ValueIs
<1>3. Len(bytes) \in 0 .. Len(bytes)
  BY LenProperties
<1>4. VarintSum(bytes) \in Nat
  BY <1>1, <1>2, <1>3
<1>5. Half \in Nat \ {0}
  BY MessageStreamAssumption
<1> QED BY <1>4, <1>5 DEF VarintValue

LEMMA RestFacts ==
    ASSUME file \in Seq(Bytes), pos \in 0 .. Len(file)
    PROVE  /\ Rest \in Seq(Bytes) /\ Len(Rest) = Len(file) - pos
           /\ Len(file) \in Nat /\ pos \in Nat /\ Len(Rest) \in Nat
<1> DEFINE n == Len(file) - pos
<1>1. Len(file) \in Nat /\ pos \in Nat /\ n \in Nat /\ pos + n = Len(file)
  BY LenProperties
<1>2. SubSeq(file, pos + 1, pos + n) \in Seq(Bytes) /\ Len(SubSeq(file, pos + 1, pos + n)) = n
  <2> HIDE DEF n
  <2>1. pos + n <= Len(file)
    BY <1>1
  <2> QED BY <1>1, <2>1, PartOf
<1>3. Rest = SubSeq(file, pos + 1, pos + n)
  BY <1>1 DEF Rest
<1> QED BY <1>1, <1>2, <1>3

(* A read that is croaked at or decoded leaves the position in the file. *)
LEMMA ReadStays ==
    ASSUME StreamTypeOK, FromHandleLength
    PROVE  pos' \in 0 .. Len(file) /\ reader' \in {"idle", "croak", "decode_error"}
<1> DEFINE total(k) == VarintValue(SubSeq(Rest, 1, k))
           n(k) == BodyRead(k, total(k))
           decoded(k) == Decoded(SubSeq(Rest, k + 1, k + n(k)))
<1>1. PICK k \in VarintEnds(Rest) :
          \/ /\ n(k) < SSize(total(k))
             /\ reader' = "croak"
             /\ pos' = Len(file)
             /\ UNCHANGED results
          \/ /\ n(k) = total(k)
             /\ pos' = pos + k + n(k)
             /\ IF decoded(k) = {}
                THEN reader' = "decode_error" /\ UNCHANGED results
                ELSE /\ \E l \in decoded(k) : results' = Append(results, l)
                     /\ UNCHANGED reader
  BY DEF FromHandleLength
<1>2. reader = "idle"
  BY DEF FromHandleLength, Reads
<1>3. /\ Rest \in Seq(Bytes) /\ Len(Rest) = Len(file) - pos
      /\ Len(file) \in Nat /\ pos \in Nat /\ Len(Rest) \in Nat
  BY RestFacts DEF StreamTypeOK, Bytes
<1>4. k \in 1 .. Len(Rest)
  <2>1. VarintBytes \in Nat
    BY MessageStreamAssumption
  <2> QED BY <1>3, <2>1 DEF VarintEnds, Min2
<1>5. total(k) \in Nat
  <2>1. k \in 0 .. Len(Rest)
    BY <1>4
  <2>2. Take(Rest, k) \in Seq(Bytes)
    BY <1>3, <2>1, TakeFacts
  <2>3. VarintValue(Take(Rest, k)) \in 0 .. (2 * Half) - 1 /\ Half \in Nat
    BY <2>2, ValueIsNat, MessageStreamAssumption
  <2> QED BY <2>3 DEF Take
<1> HIDE DEF total
<1>6. n(k) \in Nat /\ n(k) <= Len(Rest) - k
  BY <1>3, <1>4, <1>5 DEF BodyRead, Min2
<1> HIDE DEF n, decoded
<1>7. pos' \in 0 .. Len(file)
  <2>1. CASE pos' = Len(file)
    BY <1>3, <2>1
  <2>2. CASE pos' = pos + k + n(k)
    BY <1>3, <1>4, <1>6, <2>2
  <2> QED BY <1>1, <2>1, <2>2
<1> QED BY <1>1, <1>2, <1>7

LEMMA TypesOfWrites ==
    ASSUME StreamTypeOK, StreamIInv, StreamIInv', NEW m \in Messages,
           ToHandle(m) \/ ToHandleCroaks(m) \/ ToHandleLosesLength(m) \/ JsonToHandle(m)
    PROVE  StreamTypeOK'
<1>1. /\ writer \in {"open", "failed"} /\ writes < MaxWrites /\ writes' = writes + 1
      /\ writer' \in {"open", "failed"} /\ UNCHANGED <<pos, results, reader, buffer>>
  BY DEF ToHandle, ToHandleCroaks, ToHandleLosesLength, JsonToHandle
<1>2. pos' = 0 /\ file' \in Seq(Bytes) /\ written' \in Seq(Messages) /\ garbled' \in BOOLEAN
  BY <1>1 DEF StreamIInv
<1>3. pos' \in 0 .. Len(file')
  BY <1>2, LenProperties
<1>4. writes' \in 0 .. MaxWrites
  BY <1>1, MessageStreamAssumption DEF StreamTypeOK
<1> QED BY <1>1, <1>2, <1>3, <1>4 DEF StreamTypeOK, Bytes

LEMMA TypesOfEnds ==
    ASSUME StreamTypeOK, StreamIInv, StreamIInv', Close \/ Crash
    PROVE  StreamTypeOK'
<1>1. /\ writer \in {"open", "failed"} /\ writer' \in {"closed", "crashed"}
      /\ UNCHANGED <<written, writes, garbled, pos, results, reader, buffer>>
  BY DEF Close, Crash
<1>2. pos' = 0 /\ file' \in Seq(Bytes)
  BY <1>1 DEF StreamIInv
<1>3. pos' \in 0 .. Len(file')
  BY <1>2, LenProperties
<1> QED BY <1>1, <1>2, <1>3 DEF StreamTypeOK, Bytes

LEMMA TypesOfUndef ==
    ASSUME StreamTypeOK, FromHandleUndef
    PROVE  StreamTypeOK'
<1>1. /\ Rest \in Seq(Bytes) /\ Len(Rest) = Len(file) - pos
      /\ Len(file) \in Nat /\ pos \in Nat /\ Len(Rest) \in Nat
  BY RestFacts DEF StreamTypeOK, Bytes
<1>2. VarintBytes \in Nat
  BY MessageStreamAssumption
<1>3. /\ pos' = pos + Min2(VarintBytes, Len(Rest)) /\ reader' = "undef"
      /\ UNCHANGED <<file, written, writes, writer, garbled, results, buffer>>
  BY DEF FromHandleUndef, writing
<1>4. pos' \in 0 .. Len(file)
  BY <1>1, <1>2, <1>3 DEF Min2
<1> QED BY <1>3, <1>4 DEF StreamTypeOK

LEMMA TypesOfLength ==
    ASSUME StreamTypeOK, FromHandleLength
    PROVE  StreamTypeOK'
<1>1. UNCHANGED <<file, written, writes, writer, garbled, buffer>>
  BY DEF FromHandleLength, writing
<1>2. results' \in Seq(Messages)
  BY ReadTypes DEF StreamTypeOK
<1>3. pos' \in 0 .. Len(file) /\ reader' \in {"idle", "croak", "decode_error"}
  BY ReadStays
<1> QED BY <1>1, <1>2, <1>3 DEF StreamTypeOK

LEMMA TypesOfOverread ==
    ASSUME StreamTypeOK, FromHandleOverread
    PROVE  StreamTypeOK'
<1>1. /\ UNCHANGED <<file, written, writes, writer, garbled, buffer>>
      /\ pos' = Len(file) /\ reader' \in {"idle", "crash", "decode_error"}
  BY DEF FromHandleOverread, Reads, writing
<1>2. results' \in Seq(Messages)
  BY ReadTypes DEF StreamTypeOK
<1>3. pos' \in 0 .. Len(file)
  BY <1>1, LenProperties DEF StreamTypeOK
<1> QED BY <1>1, <1>2, <1>3 DEF StreamTypeOK

(* The buffer of a read to the end never takes more than it holds. *)
LEMMA TypesOfChunk ==
    ASSUME StreamTypeOK, ReadChunk
    PROVE  StreamTypeOK'
<1> DEFINE cap == buffer.capacity
           got == buffer.total_read
           grown == Grown
<1>1. cap \in Nat \ {0} /\ got \in Nat /\ got <= cap
  BY DEF StreamTypeOK
<1>2. grown = IF got = cap THEN 2 * cap ELSE cap
  BY DEF Grown
<1>3. PICK n \in 1 .. Min2(grown - got, Len(Rest)) :
          pos' = pos + n /\ buffer' = [capacity |-> grown, total_read |-> got + n]
  BY DEF ReadChunk
<1>4. /\ Rest \in Seq(Bytes) /\ Len(Rest) = Len(file) - pos
      /\ Len(file) \in Nat /\ pos \in Nat /\ Len(Rest) \in Nat
  BY RestFacts DEF StreamTypeOK, Bytes
<1>5. UNCHANGED <<file, written, writes, writer, garbled, results, reader>>
  BY DEF ReadChunk, writing
<1> HIDE DEF cap, got, grown
<1>6. grown \in Nat \ {0} /\ got <= grown
  BY <1>1, <1>2
<1>7. n \in Nat /\ n <= grown - got /\ n <= Len(Rest)
  BY <1>1, <1>4, <1>6 DEF Min2
<1>8. pos' \in 0 .. Len(file) /\ got + n \in Nat /\ got + n <= grown
  BY <1>1, <1>3, <1>4, <1>6, <1>7
<1>9. buffer' \in [capacity : Nat \ {0}, total_read : Nat] /\ buffer'.total_read <= buffer'.capacity
  BY <1>3, <1>6, <1>8
<1> QED BY <1>5, <1>8, <1>9 DEF StreamTypeOK

LEMMA TypesOfTheRest ==
    ASSUME StreamTypeOK, FromHandleAll \/ ReadChunksEnd \/ OutOfMemory \/ UNCHANGED stream_vars
    PROVE  StreamTypeOK'
<1>1. CASE FromHandleAll
  BY <1>1 DEF FromHandleAll, writing, StreamTypeOK
<1>2. CASE ReadChunksEnd
  BY <1>2 DEF ReadChunksEnd, writing, StreamTypeOK
<1>3. CASE UNCHANGED stream_vars
  BY <1>3 DEF stream_vars, StreamTypeOK
<1>4. CASE OutOfMemory
  BY <1>4 DEF OutOfMemory, writing, StreamTypeOK
<1> QED BY <1>1, <1>2, <1>3, <1>4

(* The state of a message stream has its type, whatever bytes are in the    *)
(* file: PerlUpb_Message_FromHandle never takes more bytes from the handle  *)
(* than the file has, also behind a length that its comparison lets through *)
(* (what upb_Decode then reads of the buffer is FromHandleOverread), and a  *)
(* read to the end never puts more into its buffer than the buffer holds.  *)
THEOREM StreamTypeCorrect == StreamSpec => []StreamTypeOK
<1>1. StreamInit => StreamTypeOK
  <2> SUFFICES ASSUME StreamInit PROVE StreamTypeOK
    OBVIOUS
  <2>1. MaxWrites \in Nat /\ Capacity \in Nat \ {0} /\ 0 \in 0 .. MaxWrites
    BY MessageStreamAssumption
  <2>2. /\ file \in Seq(0 .. 2 * Base - 1) /\ written \in Seq(Messages) /\ results \in Seq(Messages)
    BY DEF StreamInit
  <2>3. pos \in 0 .. Len(file) /\ garbled \in BOOLEAN
    <3>1. file = <<>> /\ pos = 0 /\ garbled = FALSE /\ Len(<<>>) = 0
      BY DEF StreamInit
    <3>2. Len(file) = 0
      BY <3>1
    <3>3. 0 \in 0 .. 0
      OBVIOUS
    <3> QED BY <3>1, <3>2, <3>3
  <2>4. writes \in 0 .. MaxWrites /\ writer = "open" /\ reader = "idle"
    BY <2>1 DEF StreamInit
  <2>5. buffer \in [capacity : Nat \ {0}, total_read : Nat] /\ buffer.total_read <= buffer.capacity
    BY <2>1 DEF StreamInit
  <2> QED BY <2>2, <2>3, <2>4, <2>5 DEF StreamTypeOK
<1>2. ASSUME StreamTypeOK, StreamIInv, StreamIInv', [StreamNext]_stream_vars
      PROVE  StreamTypeOK'
  <2>1. ASSUME NEW m \in Messages,
               ToHandle(m) \/ ToHandleCroaks(m) \/ ToHandleLosesLength(m) \/ JsonToHandle(m)
        PROVE  StreamTypeOK'
    BY <1>2, <2>1, TypesOfWrites
  <2>2. CASE Close \/ Crash
    BY <1>2, <2>2, TypesOfEnds
  <2>3. CASE FromHandleUndef
    BY <1>2, <2>3, TypesOfUndef
  <2>4. CASE FromHandleLength
    BY <1>2, <2>4, TypesOfLength
  <2>5. CASE ReadChunk
    BY <1>2, <2>5, TypesOfChunk
  <2>6. CASE FromHandleAll \/ ReadChunksEnd \/ OutOfMemory \/ UNCHANGED stream_vars
    BY <1>2, <2>6, TypesOfTheRest
  <2>7. CASE FromHandleOverread
    BY <1>2, <2>7, TypesOfOverread
  <2> QED BY <1>2, <2>1, <2>2, <2>3, <2>4, <2>5, <2>6, <2>7 DEF StreamNext
<1> QED BY <1>1, <1>2, StreamInvariance, PTL DEF StreamSpec
=============================================================================
