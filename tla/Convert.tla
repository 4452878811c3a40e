------------------------------- MODULE Convert -------------------------------
(***************************************************************************)
(* xs/convert/sv_to_upb.c, xs/convert/upb_to_sv.c and the integer helpers  *)
(* of xs/protobuf/utils.c: what a Perl scalar becomes in a field, and what *)
(* a field is read back as.                                                *)
(*                                                                         *)
(* A scalar is [k |-> its kind, n |-> its number].  Kinds: "iv" and "uv"   *)
(* integers, "nv" floating point with n counting halves; numeric strings:  *)
(* "num" of digits alone, "frac" with a fraction, n counting halves, "exp" *)
(* with the exponent 1, n being the digits before it; "str" any other      *)
(* string, beginning with no digit (n names it, 0 the empty one); "big" a  *)
(* Math::BigInt, "undef", and "ref" any other reference, n its address.    *)
(* The widths of the integers are parameters: W32 bits where the code has  *)
(* 32, W64 where it has 64.  A conversion that croaks has no result and    *)
(* one that is undefined in C has any, so the operators return the set of  *)
(* results.                                                                *)
(***************************************************************************)
EXTENDS Integers

CONSTANTS
    W32, W64,
    Radix,        \* the base numbers are written in, 10 in the code
    EnumNames,    \* the strings that name a value of the enum, here its number
    WideNames     \* the strings with a character no byte holds

ASSUME ConvertAssumption ==
    /\ W32 \in Nat \ {0}
    /\ W64 \in Nat \ {0}
    /\ W32 < W64
    /\ Radix \in Nat
    /\ WideNames \subseteq Int

(* Arithmetic that the provers do not have.                                 *)
ASSUME PowersOfTwo ==
    /\ \A w \in {W32, W64} : 2 ^ (w - 1) \in Nat \ {0} /\ 2 ^ w = 2 * 2 ^ (w - 1)
    /\ 2 ^ W32 <= 2 ^ (W64 - 1)

Low(w) == -(2 ^ (w - 1))
High(w) == 2 ^ (w - 1) - 1
AsUnsigned(n, w) == n % 2 ^ w
AsSigned(n, w) == LET u == n % 2 ^ w IN IF u > High(w) THEN u - 2 ^ w ELSE u
Clamp(n, lo, hi) == IF n < lo THEN lo ELSE IF n > hi THEN hi ELSE n
Truncate(h) == IF h >= 0 THEN h \div 2 ELSE -((-h) \div 2)

(* The least and the greatest value of a field's type. *)
Least(type) ==
    CASE type \in {"int32", "enum"} -> Low(W32)
      [] type = "int64" -> Low(W64)
      [] OTHER -> 0
Greatest(type) ==
    CASE type \in {"int32", "enum"} -> High(W32)
      [] type = "uint32" -> 2 ^ W32 - 1
      [] type = "int64" -> High(W64)
      [] type = "uint64" -> 2 ^ W64 - 1
      [] type = "bool" -> 1
InRange(n, type) == Least(type) <= n /\ n <= Greatest(type)

(* The numbers of an enum are 32-bit integers. *)
ASSUME EnumAssumption == \A n \in EnumNames : n \in Int /\ InRange(n, "enum")

IsNumeric(sv) == sv.k \in {"num", "frac", "exp"}
IsNumber(sv) == sv.k \in {"iv", "uv", "nv"} \/ IsNumeric(sv)
HasNumber(sv) == IsNumber(sv) \/ sv.k = "big"
Number(sv) ==
    CASE sv.k \in {"nv", "frac"} -> Truncate(sv.n)
      [] sv.k = "exp" -> Radix * sv.n
      [] OTHER -> sv.n
Halves(sv) == IF sv.k \in {"nv", "frac"} THEN sv.n ELSE 2 * Number(sv)

-----------------------------------------------------------------------------
(* Perl's SvIV and SvUV.  A Math::BigInt gives its number, by overloading. *)

SvIV(sv) ==
    CASE sv.k \in {"iv", "uv", "ref"} -> AsSigned(sv.n, W64)
      [] sv.k \in {"nv", "num", "frac", "exp", "big"} ->
            IF Number(sv) > High(W64) THEN AsSigned(Clamp(Number(sv), 0, 2 ^ W64 - 1), W64)
                                      ELSE Clamp(Number(sv), Low(W64), High(W64))
      [] OTHER -> 0

SvUV(sv) ==
    CASE sv.k \in {"iv", "uv", "ref"} -> AsUnsigned(sv.n, W64)
      [] sv.k \in {"nv", "num", "frac", "exp", "big"} ->
            IF Number(sv) < 0 THEN AsUnsigned(Clamp(Number(sv), Low(W64), 0), W64)
                              ELSE Clamp(Number(sv), 0, 2 ^ W64 - 1)
      [] OTHER -> 0

(* strtoll and strtoull stop at the first character that is no digit, and   *)
(* at the ends of their range; strtoull negates what follows a minus sign. *)
Digits(sv) == IF sv.k = "exp" THEN sv.n ELSE Number(sv)
Strtoll(n) == Clamp(n, Low(W64), High(W64))
Strtoull(n) ==
    IF n < -(2 ^ W64 - 1) \/ n > 2 ^ W64 - 1 THEN 2 ^ W64 - 1 ELSE AsUnsigned(n, W64)

(* SvNV cast to an integer type: undefined when the number is outside it.   *)
CastNV(sv, type) ==
    IF InRange(Number(sv), type) THEN {Number(sv)} ELSE Least(type) .. Greatest(type)

SVToI64(sv) ==
    CASE sv.k \in {"iv", "uv"} -> {SvIV(sv)}
      [] IsNumeric(sv) \/ sv.k = "big" -> {Strtoll(Digits(sv))}
      [] sv.k \in {"nv", "ref"} -> CastNV(sv, "int64")
      [] OTHER -> {0}

(* Faulty variant: a string takes the signed conversion.                   *)
Faulty_SVToU64(sv) ==
    CASE sv.k \in {"iv", "uv"} -> {SvUV(sv)}
      [] IsNumeric(sv) \/ sv.k = "big" -> {AsUnsigned(Strtoll(Digits(sv)), W64)}
      [] sv.k \in {"nv", "ref"} -> CastNV(sv, "uint64")
      [] OTHER -> {0}

SVToU64(sv) ==
    CASE sv.k \in {"iv", "uv"} -> {SvUV(sv)}
      [] IsNumeric(sv) \/ sv.k = "big" -> {Strtoull(Digits(sv))}
      [] sv.k \in {"nv", "ref"} -> CastNV(sv, "uint64")
      [] OTHER -> {0}

-----------------------------------------------------------------------------
(* The scalar, as a floating point number, lies between the limits. *)
verify_limits(sv, min, max) == 2 * min <= Halves(sv) /\ Halves(sv) <= 2 * max

(* Only a negative number for an unsigned field is found, and not when it   *)
(* is a string or a Math::BigInt.                                          *)
verify_limits_64(sv, type) == ~(type = "uint64" /\ sv.k \in {"iv", "nv"} /\ sv.n < 0)

Convert32(sv, type) ==
    IF IsNumber(sv) /\ verify_limits(sv, Least(type), Greatest(type))
    THEN {IF type = "int32" THEN AsSigned(SvIV(sv), W32) ELSE AsUnsigned(SvUV(sv), W32)}
    ELSE {}

Convert64(sv, type) ==
    IF verify_limits_64(sv, type)
    THEN IF type = "int64" THEN SVToI64(sv) ELSE SVToU64(sv)
    ELSE {}

ConvertEnum(sv) ==
    CASE sv.k \in {"iv", "uv"} -> {AsSigned(SvIV(sv), W32)}
      [] sv.k = "str" -> {sv.n} \cap EnumNames
      [] OTHER -> {}

(* SvTRUE: of the strings only the empty one and "0" are false. *)
IsFalse(sv) == sv.k = "undef" \/ (sv.n = 0 /\ sv.k \in {"iv", "uv", "nv", "num", "big", "str"})
ConvertBool(sv) == {IF IsFalse(sv) THEN 0 ELSE 1}

(* Strings are copied into the arena; bytes must be bytes. *)
ConvertString(sv, type) ==
    IF (sv.k = "str" \/ IsNumeric(sv)) /\ ~(type = "bytes" /\ sv.n \in WideNames) THEN {sv} ELSE {}

(* convert_singular_sv_to_upb *)
ConvertSingular(sv, type) ==
    CASE type \in {"int32", "uint32"} -> Convert32(sv, type)
      [] type \in {"int64", "uint64"} -> Convert64(sv, type)
      [] type = "enum" -> ConvertEnum(sv)
      [] type = "bool" -> ConvertBool(sv)
      [] type \in {"string", "bytes"} -> ConvertString(sv, type)

(* PerlUpb_SvToUpb of a field that is not repeated. *)
SvToUpb(sv, type) == IF sv.k = "undef" THEN {} ELSE ConvertSingular(sv, type)

(* PerlUpb_SvToUpb_BatchRaw, an element of a plain list: no scalar is       *)
(* refused, none is compared with limits, and enum names are not looked up. *)
(* Where the cast to 64 bits is undefined, this is some value of the type.  *)
BatchRaw(sv, type) ==
    CASE type \in {"int32", "enum"} -> AsSigned(SvIV(sv), W32)
      [] type = "uint32" -> AsUnsigned(SvUV(sv), W32)
      [] type = "int64" -> CHOOSE v \in SVToI64(sv) : TRUE
      [] type = "uint64" -> CHOOSE v \in SVToU64(sv) : TRUE
      [] type = "bool" -> IF IsFalse(sv) THEN 0 ELSE 1

-----------------------------------------------------------------------------
(* PerlUpb_I64ToSV and PerlUpb_U64ToSV: an IV of perl has all 64 bits, so   *)
(* that what they keep a Math::BigInt for never comes.                     *)
I64ToSV(v) == [k |-> IF Low(W64) <= v /\ v <= High(W64) THEN "iv" ELSE "big", n |-> v]
U64ToSV(v) == [k |-> IF v <= 2 ^ W64 - 1 THEN "uv" ELSE "big", n |-> v]

(* PerlUpb_UpbToSv_BatchRaw, an element of a list of numbers. *)
UpbToSv_BatchRaw(v, type) ==
    CASE type = "bool" -> [k |-> "iv", n |-> v]
      [] type \in {"int32", "enum"} -> [k |-> "iv", n |-> v]
      [] type = "uint32" -> [k |-> "uv", n |-> v]
      [] type = "int64" -> I64ToSV(v)
      [] type = "uint64" -> U64ToSV(v)

(* convert_singular_upb_to_sv *)
UpbToSv(v, type) ==
    CASE type \in {"int32", "enum", "bool"} -> [k |-> "iv", n |-> v]
      [] type = "uint32" -> [k |-> "uv", n |-> v]
      [] type = "int64" -> I64ToSV(v)
      [] type = "uint64" -> U64ToSV(v)
      [] type \in {"string", "bytes"} -> v
=============================================================================
