------------------------------- MODULE Message -------------------------------
(***************************************************************************)
(* xs/message/*.c and xs/protobuf/fast_accessors.c: the fields of messages *)
(* and the ways to reach them.  A generated accessor keeps what it read in *)
(* a memo of the wrapper (the hash key _cache) and drops the whole memo    *)
(* before the next read when a generated setter has run (the flag          *)
(* CACHE_DIRTY); merge_from, copy_from and parse_from delete it first.     *)
(* The generic set and clear, and every write through a second wrapper of  *)
(* the message, do neither.                                                *)
(*                                                                         *)
(* A message is a function from the fields that are set to their values.   *)
(* A field without presence that holds its default is not set: upb does    *)
(* not tell the two apart.                                                 *)
(***************************************************************************)
EXTENDS Convert, FiniteSets, Functions

CONSTANTS
    Msgs,         \* messages
    Wrappers,     \* Perl objects
    msg_of,       \* the message of each wrapper
    mdef,         \* the descriptor of each message
    WriteHeavy,   \* the wrappers made with the profile write_heavy
    Fields,
    type,         \* the type of each field
    Oneof,        \* the fields of a oneof
    Required,     \* the fields that serialization insists on
    HasPresence,  \* the fields whose presence can be asked for
    Inputs        \* the scalars the program sets fields to

ASSUME MessageAssumption ==
    /\ msg_of \in [Wrappers -> Msgs]
    /\ WriteHeavy \subseteq Wrappers
    /\ type \in [Fields -> {"int32", "uint32", "int64", "uint64", "enum", "bool",
                             "string", "bytes"}]
    /\ "" \notin Fields
    /\ Oneof \subseteq HasPresence
    /\ HasPresence \subseteq Fields
    /\ Required \subseteq HasPresence \ Oneof

Kinds == {"iv", "uv", "nv", "num", "frac", "exp", "str", "big", "undef", "ref"}

(* An integer of perl has 64 bits, with or without a sign. *)
ASSUME InputsAssumption ==
    \A sv \in Inputs :
        /\ sv \in [k : Kinds, n : Int]
        /\ sv.k = "iv" => InRange(sv.n, "int64")
        /\ sv.k \in {"uv", "ref"} => InRange(sv.n, "uint64")

VARIABLES
    msg,          \* the fields of each message
    given,        \* the scalar each integer field was last set to (history)
    memo,         \* _cache of each wrapper
    dirty,        \* PERL_UPB_MG_CACHE_DIRTY of each wrapper
    bypassed      \* a write went past the wrapper's memo (history)

vars == <<msg, given, memo, dirty, bypassed>>

Empty == [f \in {} |-> 0]
Scalars == [k : Kinds, n : Int]
Value(f) == IF type[f] \in {"string", "bytes"} THEN Scalars ELSE Int

Default(f) == IF type[f] \in {"string", "bytes"} THEN [k |-> "str", n |-> 0] ELSE 0

TypeOK ==
    /\ \A m \in Msgs :
          /\ DOMAIN msg[m] \subseteq Fields
          /\ \A f \in DOMAIN msg[m] : msg[m][f] \in Value(f)
          /\ \A f \in DOMAIN msg[m] \ HasPresence : msg[m][f] # Default(f)
          /\ DOMAIN given[m] = DOMAIN msg[m]
    /\ \A w \in Wrappers :
          /\ DOMAIN memo[w] \subseteq Fields
          /\ w \in WriteHeavy => memo[w] = Empty /\ ~dirty[w]
    /\ dirty \in [Wrappers -> BOOLEAN]
    /\ bypassed \in [Wrappers -> BOOLEAN]

Init ==
    /\ msg = [m \in Msgs |-> Empty]
    /\ given = [m \in Msgs |-> Empty]
    /\ memo = [w \in Wrappers |-> Empty]
    /\ dirty = [w \in Wrappers |-> FALSE]
    /\ bypassed = [w \in Wrappers |-> FALSE]

-----------------------------------------------------------------------------
(* upb's part. *)

(* Faulty variant: setting a member of the oneof leaves the others.        *)
Faulty_Put(c, d) ==
    [f \in DOMAIN c \cup DOMAIN d |-> IF f \in DOMAIN d THEN d[f] ELSE c[f]]

(* The fields of d set over those of c: a member of the oneof replaces the  *)
(* one that was set.                                                       *)
Put(c, d) ==
    LET kept == IF DOMAIN d \cap Oneof = {} THEN DOMAIN c ELSE DOMAIN c \ Oneof
    IN  [f \in kept \cup DOMAIN d |-> IF f \in DOMAIN d THEN d[f] ELSE c[f]]

Without(c, fs) == Restrict(c, DOMAIN c \ fs)
Only(f, v) == [g \in {f} |-> v]

(* What the history keeps of the scalar: all of it for an integer field. *)
Told(f, sv) ==
    IF type[f] \in {"int32", "uint32", "int64", "uint64"} THEN sv ELSE [k |-> "undef", n |-> 0]

(* PerlUpb_Message_GetField *)
GetField(m, f) == IF f \in DOMAIN msg[m] THEN msg[m][f] ELSE Default(f)

(* PerlUpb_Message_HasField croaks for a field without presence;            *)
(* PerlUpb_Message_WhichOneof walks the oneof, PerlUpb_Message_Fields the  *)
(* message.                                                                *)
HasField(m, f) ==
    IF f \in HasPresence THEN {IF f \in DOMAIN msg[m] THEN 1 ELSE 0} ELSE {}
WhichOneof(m) == IF Oneof \cap DOMAIN msg[m] = {} THEN ""
                 ELSE CHOOSE f \in Oneof : f \in DOMAIN msg[m]
MessageFields(m) == {f \in Fields : f \in DOMAIN msg[m]}

(* PerlUpb_Message_ToPerl asks for the presence of every field: one that    *)
(* has none is never in what it returns (a build with upb's assertions     *)
(* stops there).  PerlUpb_Message_IsEqual compares messages of one type.   *)
ToPerl(m) == [f \in DOMAIN msg[m] \cap HasPresence |-> UpbToSv(msg[m][f], type[f])]
IsEqual(m, n) == mdef[m] = mdef[n] /\ msg[m] = msg[n]

(* upb_Encode with CheckRequired succeeds. *)
Serializes(m) == Required \subseteq DOMAIN msg[m]

(* upb_JsonEncode writes 64-bit integers as strings, enums by name where    *)
(* the value has one, and bytes in base64.  upb_JsonDecode reads a number  *)
(* from either form and refuses one outside the type, and a name the enum  *)
(* does not have.                                                          *)
JsonEncode(v, t) ==
    CASE t \in {"int64", "uint64"} -> [k |-> "num", n |-> v]
      [] t = "enum" /\ v \in EnumNames -> [k |-> "str", n |-> v]
      [] t = "bytes" -> [k |-> "base64", n |-> v]
      [] t = "string" -> v
      [] OTHER -> [k |-> "iv", n |-> v]
JsonDecode(j, t) ==
    CASE t = "string" -> {j}
      [] t = "bytes" -> IF j.k = "base64" THEN {j.n} ELSE {}
      [] t = "enum" /\ j.k = "str" -> {j.n} \cap EnumNames
      [] OTHER -> IF InRange(j.n, t) THEN {j.n} ELSE {}

(* PerlUpb_Message_ToJson does not insist on the required fields. *)
ToJson(m) == [f \in DOMAIN msg[m] |-> JsonEncode(msg[m][f], type[f])]

-----------------------------------------------------------------------------
(* Who learns of a write through w: the wrapper itself or nobody. *)

Others(w) == {u \in Wrappers \ WriteHeavy : msg_of[u] = msg_of[w] /\ u # w}

Unnoticed(w) ==
    /\ bypassed' = [u \in Wrappers |->
                      bypassed[u] \/ u \in Others(w) \/ (u = w /\ w \notin WriteHeavy)]
    /\ UNCHANGED <<memo, dirty>>

(* A generated setter marks the memo as stale. *)
MarkDirty(w, f) ==
    /\ dirty' = [dirty EXCEPT ![w] = w \notin WriteHeavy]
    /\ bypassed' = [u \in Wrappers |-> u # w /\ (bypassed[u] \/ u \in Others(w))]
    /\ UNCHANGED memo

(* _xs_clear_memoization_cache *)
ForgetMemo(w) ==
    /\ memo' = [memo EXCEPT ![w] = Empty]
    /\ bypassed' = [u \in Wrappers |-> u # w /\ (bypassed[u] \/ u \in Others(w))]
    /\ UNCHANGED dirty

ClearFields(m, fs) ==
    /\ msg' = [msg EXCEPT ![m] = Without(@, fs)]
    /\ given' = [given EXCEPT ![m] = Without(@, fs)]

(* PerlUpb_Message_SetField: converted first; a croak changes nothing. *)
SetField(m, f, sv) ==
    \E v \in SvToUpb(sv, type[f]) :
        IF f \notin HasPresence /\ v = Default(f)
        THEN ClearFields(m, {f})
        ELSE /\ msg' = [msg EXCEPT ![m] = Put(@, Only(f, v))]
             /\ given' = [given EXCEPT ![m] = Put(@, Only(f, Told(f, sv)))]

-----------------------------------------------------------------------------
(* The generated accessors. *)

(* PerlUpb_FastAccessor with a value, and PerlUpb_FastSetter. *)
FastSet(w, f, sv) == SetField(msg_of[w], f, sv) /\ MarkDirty(w, f)

(* PerlUpb_FastClear *)
FastClear(w, f) == ClearFields(msg_of[w], {f}) /\ MarkDirty(w, f)

(* What PerlUpb_FastAccessor without a value returns: it bypasses the memo  *)
(* of a write-heavy wrapper, and a stale one.                              *)
FastValue(w, f) ==
    IF w \notin WriteHeavy /\ ~dirty[w] /\ f \in DOMAIN memo[w]
    THEN memo[w][f] ELSE GetField(msg_of[w], f)

(* PerlUpb_FastHas, and what PerlUpb_InstallFastAccessors puts into the     *)
(* class of a message for a field.                                         *)
FastHas(w, f) == HasField(msg_of[w], f)
Accessors(f) == {"", "set_", "clear_"} \cup (IF f \in HasPresence THEN {"has_"} ELSE {})

FastGet(w, f) ==
    /\ w \notin WriteHeavy
    /\ LET kept == IF dirty[w] THEN Empty ELSE memo[w]
       IN  memo' = [memo EXCEPT ![w] =
                      [g \in DOMAIN kept \cup {f} |->
                         IF g \in DOMAIN kept THEN kept[g] ELSE FastValue(w, f)]]
    /\ dirty' = [dirty EXCEPT ![w] = FALSE]
    /\ bypassed' = [bypassed EXCEPT ![w] = @ /\ ~dirty[w]]
    /\ UNCHANGED <<msg, given>>

-----------------------------------------------------------------------------
(* The methods of Protobuf::Message. *)

(* set: _xs_set *)
GenericSet(w, f, sv) == SetField(msg_of[w], f, sv) /\ Unnoticed(w)

(* clear_field: _xs_clear;  PerlUpb_Message_Clear: all of them. *)
GenericClear(w, fs) == ClearFields(msg_of[w], fs) /\ Unnoticed(w)

(* PerlUpb_Message_MergeFrom; different descriptors croak. *)
MergeFrom(w, src) ==
    /\ ForgetMemo(w)
    /\ IF mdef[msg_of[w]] = mdef[src]
       THEN /\ msg' = [msg EXCEPT ![msg_of[w]] = Put(@, msg[src])]
            /\ given' = [given EXCEPT ![msg_of[w]] = Put(@, given[src])]
       ELSE UNCHANGED <<msg, given>>

(* Faulty variant: the memo is kept when the copy fails.                   *)
Faulty_CopyFrom(w, src) ==
    /\ IF mdef[msg_of[w]] = mdef[src] THEN ForgetMemo(w)
                                      ELSE UNCHANGED <<memo, dirty, bypassed>>
    /\ msg' = [msg EXCEPT ![msg_of[w]] =
                 IF mdef[msg_of[w]] = mdef[src] /\ src # msg_of[w] THEN msg[src] ELSE Empty]
    /\ given' = [given EXCEPT ![msg_of[w]] =
                 IF mdef[msg_of[w]] = mdef[src] /\ src # msg_of[w] THEN given[src] ELSE Empty]

(* PerlUpb_Message_CopyFrom: the fields are cleared before the source is    *)
(* looked at, so a source of another type, or the message itself, leaves   *)
(* it empty.                                                               *)
CopyFrom(w, src) ==
    /\ ForgetMemo(w)
    /\ msg' = [msg EXCEPT ![msg_of[w]] =
                 IF mdef[msg_of[w]] = mdef[src] /\ src # msg_of[w] THEN msg[src] ELSE Empty]
    /\ given' = [given EXCEPT ![msg_of[w]] =
                 IF mdef[msg_of[w]] = mdef[src] /\ src # msg_of[w] THEN given[src] ELSE Empty]

(* PerlUpb_Message_ParseFrom of what src serializes to, or of the part of   *)
(* it before the place where it is damaged: upb_Decode has merged the      *)
(* fields that came before when it fails.                                  *)
ParseFrom(w, src) ==
    /\ mdef[msg_of[w]] = mdef[src]
    /\ Serializes(src)
    /\ ForgetMemo(w)
    /\ \E decoded \in SUBSET DOMAIN msg[src] :
          /\ msg' = [msg EXCEPT ![msg_of[w]] = Put(@, Restrict(msg[src], decoded))]
          /\ given' = [given EXCEPT ![msg_of[w]] = Put(@, Restrict(given[src], decoded))]

(* A new message takes the place of m in the program. *)
Replace(m, fields, src) ==
    /\ msg' = [msg EXCEPT ![m] = fields]
    /\ given' = [given EXCEPT ![m] = given[src]]
    /\ memo' = [w \in Wrappers |-> IF msg_of[w] = m THEN Empty ELSE memo[w]]
    /\ dirty' = [w \in Wrappers |-> msg_of[w] # m /\ dirty[w]]
    /\ bypassed' = [w \in Wrappers |-> msg_of[w] # m /\ bypassed[w]]

(* PerlUpb_Message_Parse; damaged data leave no message. *)
Parse(m, src) == mdef[m] = mdef[src] /\ Serializes(src) /\ Replace(m, msg[src], src)

(* PerlUpb_Message_FromJson; a value that is refused leaves no message. *)
FromJson(m, src) ==
    /\ mdef[m] = mdef[src]
    /\ \A f \in DOMAIN msg[src] : JsonDecode(ToJson(src)[f], type[f]) # {}
    /\ Replace(m, [f \in DOMAIN msg[src] |->
                     CHOOSE v \in JsonDecode(ToJson(src)[f], type[f]) : TRUE], src)

Next ==
    \/ \E w \in Wrappers, f \in Fields :
          \/ \E sv \in Inputs : FastSet(w, f, sv) \/ GenericSet(w, f, sv)
          \/ FastClear(w, f)
          \/ FastGet(w, f)
          \/ GenericClear(w, {f})
    \/ \E w \in Wrappers : GenericClear(w, Fields)
    \/ \E w \in Wrappers, src \in Msgs :
          \/ MergeFrom(w, src)
          \/ CopyFrom(w, src)
          \/ ParseFrom(w, src)
    \/ \E m, src \in Msgs : Parse(m, src) \/ FromJson(m, src)

Spec == Init /\ [][Next]_vars

-----------------------------------------------------------------------------
(* Properties. *)

(* What a field holds is what the program last gave it, through every set,  *)
(* merge, copy and parse, binary or JSON, however the scalar was written   *)
(* down (integer, float, string, Math::BigInt): a number in the field's    *)
(* range is stored as it is, one outside it never gets into a 32-bit       *)
(* field, and the value read back and set again is the same value.  The    *)
(* exception: of a string with an exponent a 64-bit field takes the digits *)
(* before it, where strtoll stops, and no error is raised.                 *)
FieldHoldsWhatWasGiven ==
    \A m \in Msgs : \A f \in DOMAIN msg[m] :
        LET v == msg[m][f]
            sv == given[m][f]
        IN  /\ SvToUpb(UpbToSv(v, type[f]), type[f]) = {v}
            /\ HasNumber(sv) /\ type[f] \in {"int32", "uint32"} =>
                  v = Number(sv) /\ InRange(v, type[f])
            /\ HasNumber(sv) /\ type[f] \in {"int64", "uint64"} =>
                  (InRange(Digits(sv), type[f]) => v = Digits(sv))

(* A generated getter returns what the message holds, unless a write went   *)
(* past the memo and no generated setter ran since: also for the fields a  *)
(* write to another one cleared, and after a merge, copy or parse that     *)
(* failed half way.                                                        *)
GettersAreFresh ==
    \A w \in Wrappers : ~bypassed[w] =>
        \A f \in Fields : FastValue(w, f) = GetField(msg_of[w], f)

(* At most one field of a oneof is set, whatever is merged or parsed into   *)
(* the message, and everything that tells which one agrees: the has_        *)
(* accessors (every member of a oneof has one), which_oneof and the list   *)
(* of the fields that are set.                                             *)
OneofIsExclusive ==
    \A w \in Wrappers : \A f \in Oneof :
        LET m == msg_of[w]
        IN  /\ "has_" \in Accessors(f)
            /\ FastHas(w, f) = {IF WhichOneof(m) = f THEN 1 ELSE 0}
            /\ (f \in MessageFields(m)) <=> (WhichOneof(m) = f)
=============================================================================
