------------------------------ MODULE Repeated ------------------------------
(***************************************************************************)
(* xs/repeated/*.c with the list part of xs/convert: repeated fields and   *)
(* the tied arrays the program reaches them through.  A tied array names   *)
(* an upb_Array, not a field: a get makes the array if the field has none, *)
(* an assignment puts a new array in the field, and what was got before    *)
(* goes on writing to the old one.  A generated getter keeps what it got   *)
(* in the wrapper's memo until a generated setter or clearer runs; set and *)
(* clear by name leave the memo alone.                                     *)
(*                                                                         *)
(* An element of a message field is the message itself, 0 being NULL; one  *)
(* of a string or bytes field is the memory its view points into; one of a *)
(* number field is the number.  All lists of one behaviour have one type:  *)
(* the list of another type is refused (sv_to_upb.c:362) before anything   *)
(* changes.                                                                *)
(***************************************************************************)
EXTENDS Convert, FiniteSets, FiniteSetsExt, SequencesExt

CONSTANTS
    RepeatedFields,
    MaxArrays,        \* bound: arrays made
    MaxLen,           \* bound: elements of an array
    MaxMessages,      \* bound: messages that are elements
    Elements          \* the scalars the program puts into lists

(* A scalar has a number, whatever its kind. *)
ASSUME RepeatedAssumption ==
    /\ MaxLen \in Nat
    /\ \A sv \in Elements : sv.n \in Int

VARIABLES
    etype,            \* the type of the elements
    arrays,           \* every upb_Array made in the arena
    field,            \* the array of each field, 0: none yet
    handle,           \* the array that was got from each field, 0: none
    memo,             \* _cache of the wrapper: the array kept for a field, or 0
    other,            \* another message with a list, "live" or "gone"
    stale,            \* the field was assigned or cleared since (history)
    bypassed,         \* set or clear by name went past its memo (history)
    torn              \* an insert died half way (history)

rvars == <<etype, arrays, field, handle, memo, other, stale, bypassed, torn>>

(* Where the bytes of a string lie: in the message's arena, where a null    *)
(* view counts too, or in the other message's.                             *)
Own == 0
Foreign == 1

RepeatedTypeOK ==
    /\ etype \in {"int32", "string", "message"}
    /\ Len(arrays) <= MaxArrays
    /\ \A a \in DOMAIN arrays : Len(arrays[a]) <= MaxLen
    /\ field \in [RepeatedFields -> 0 .. Len(arrays)]
    /\ handle \in [RepeatedFields -> 0 .. Len(arrays)]
    /\ memo \in [RepeatedFields -> 0 .. Len(arrays)]
    /\ other \in {"live", "gone"}
    /\ stale \in [RepeatedFields -> BOOLEAN]
    /\ bypassed \subseteq RepeatedFields
    /\ torn \in BOOLEAN

RepeatedInit ==
    /\ etype \in {"int32", "string", "message"}
    /\ arrays = <<>>
    /\ field = [f \in RepeatedFields |-> 0]
    /\ handle = [f \in RepeatedFields |-> 0]
    /\ memo = [f \in RepeatedFields |-> 0]
    /\ other = "live"
    /\ stale = [f \in RepeatedFields |-> FALSE]
    /\ bypassed = {}
    /\ torn = FALSE

-----------------------------------------------------------------------------
(* The messages that are elements, and n different ones that are not: new   *)
(* messages in the arena.                                                  *)
Used == UNION {ToSet(arrays[a]) : a \in DOMAIN arrays}
Fresh(n) ==
    CHOOSE s \in [1 .. n -> (1 .. Cardinality(Used) + n) \ Used] : IsInjective(s)

(* PerlUpb_SvToUpb_Element: the elements a scalar converts to, {} when it   *)
(* croaks.  A message or a hash is copied into a new message, a string into *)
(* the arena.                                                              *)
Element(sv) ==
    CASE etype = "message" -> IF sv.k = "ref" THEN {Fresh(1)[1]} ELSE {}
      [] etype = "string" -> {Own : s \in ConvertSingular(sv, etype)}
      [] etype = "int32" -> ConvertSingular(sv, etype)

(* PerlUpb_SvToUpb of a plain list: numbers take the batch conversion,      *)
(* strings and messages the one for elements.                              *)
FromList(svs) ==
    IF etype = "int32" THEN {[i \in DOMAIN svs |-> BatchRaw(svs[i], etype)]}
    ELSE IF \E i \in DOMAIN svs : Element(svs[i]) = {} THEN {}
    ELSE {IF etype = "message" THEN Fresh(Len(svs)) ELSE [i \in DOMAIN svs |-> Own]}

(* PerlUpb_Message_ToSv of a list of numbers: the batch conversion back. *)
ToSvList(arr) == [i \in DOMAIN arr |-> UpbToSv_BatchRaw(arr[i], etype)]

(* PerlUpb_SvToUpb of a tied list: the elements are copied, messages deep,  *)
(* but of a string only the view.                                          *)
FromTied(src) ==
    IF etype = "message" THEN Fresh(Len(src)) ELSE src

Bounded == etype = "message" => Used' \subseteq 0 .. MaxMessages

-----------------------------------------------------------------------------
(* The message's side. *)

Make(a) == Len(arrays) < MaxArrays /\ arrays' = Append(arrays, a) /\ Bounded
Same == UNCHANGED <<etype, other, torn>>
KeepMemo == UNCHANGED <<memo, bypassed>>

(* PerlUpb_Message_GetField of a repeated field, PerlUpb_UpbToSv and        *)
(* PerlUpb_Repeated_New: upb_Message_Mutable makes the array if there is   *)
(* none; the object cache gives every array one wrapper, which keeps its   *)
(* tied array in _public.                                                  *)
Fetch(f) ==
    /\ IF field[f] = 0 THEN Make(<<>>) /\ field' = [field EXCEPT ![f] = Len(arrays')]
                       ELSE UNCHANGED <<arrays, field>>
    /\ handle' = [handle EXCEPT ![f] = field'[f]]
    /\ stale' = [stale EXCEPT ![f] = FALSE]
    /\ Same

(* get by name, and a generated getter of a write-heavy wrapper. *)
GetRepeated(f) == Fetch(f) /\ KeepMemo

(* PerlUpb_FastAccessor without a value: the memo, else the field's array,  *)
(* which is remembered.                                                    *)
FastGetRepeated(f) ==
    IF memo[f] # 0
    THEN /\ handle' = [handle EXCEPT ![f] = memo[f]]
         /\ stale' = [stale EXCEPT ![f] = f \in bypassed]
         /\ UNCHANGED <<arrays, field>> /\ KeepMemo /\ Same
    ELSE /\ Fetch(f)
         /\ memo' = [memo EXCEPT ![f] = field'[f]]
         /\ UNCHANGED bypassed

(* Faulty variant: a generated clearer or setter does not mark the memo.   *)
Faulty_TellMemo(f, fast) ==
    /\ bypassed' = IF memo[f] # 0 /\ ~fast THEN bypassed \cup {f} ELSE bypassed
    /\ UNCHANGED memo

(* What a write does to the memo.  A generated setter or clearer (fast)     *)
(* marks all of it as stale, and the next generated getter, the first to   *)
(* look, drops it.                                                         *)
TellMemo(f, fast) ==
    IF fast THEN memo' = [g \in RepeatedFields |-> 0] /\ bypassed' = {}
    ELSE /\ bypassed' = IF memo[f] # 0 THEN bypassed \cup {f} ELSE bypassed
         /\ UNCHANGED memo

Assign(f, a, fast) ==
    /\ Make(a)
    /\ field' = [field EXCEPT ![f] = Len(arrays')]
    /\ stale' = [stale EXCEPT ![f] = TRUE]
    /\ TellMemo(f, fast)
    /\ UNCHANGED handle /\ Same

SetList(f, svs, fast) == \E a \in FromList(svs) : Assign(f, a, fast)

(* Faulty variant: the field takes the array of the list it is given.      *)
Faulty_SetTied(f, g, fast) ==
    /\ handle[g] # 0
    /\ field' = [field EXCEPT ![f] = handle[g]]
    /\ stale' = [stale EXCEPT ![f] = TRUE]
    /\ TellMemo(f, fast)
    /\ UNCHANGED <<arrays, handle>> /\ Same

(* $m->f($m->g): a NULL message in the source would end the process. *)
SetTied(f, g, fast) ==
    /\ handle[g] # 0
    /\ etype = "message" => \A i \in DOMAIN arrays[handle[g]] : arrays[handle[g]][i] # 0
    /\ Assign(f, FromTied(arrays[handle[g]]), fast)

(* $m->f($other->f): the list of the other message, of one element. *)
SetOther(f, fast) ==
    /\ other = "live"
    /\ Assign(f, FromTied(<<IF etype = "string" THEN Foreign ELSE 0>>), fast)

(* The other message goes, and its arena with it: a tied list holds its own *)
(* arena, and nothing ties the two arenas together.                        *)
DropOther ==
    /\ other' = "gone"
    /\ UNCHANGED <<etype, arrays, field, handle, stale, torn>> /\ KeepMemo

ClearRepeated(f, fast) ==
    /\ field' = [field EXCEPT ![f] = 0]
    /\ stale' = [stale EXCEPT ![f] = TRUE]
    /\ TellMemo(f, fast)
    /\ UNCHANGED <<arrays, handle>> /\ Same

-----------------------------------------------------------------------------
(* The array's side: the operations of Protobuf::Internal::Repeated.  An    *)
(* index out of bounds and a scalar that does not convert croak first, but *)
(* for Insert.                                                             *)

arr(f) == arrays[handle[f]]
Write(f, a) ==
    /\ Len(a) <= MaxLen
    /\ arrays' = [arrays EXCEPT ![handle[f]] = a]
    /\ Bounded
    /\ UNCHANGED <<field, handle, stale, etype, other>> /\ KeepMemo

SetItem(f, i, sv) ==
    /\ i \in DOMAIN arr(f)
    /\ \E e \in Element(sv) : Write(f, [arr(f) EXCEPT ![i] = e])
    /\ UNCHANGED torn

AppendItem(f, sv) ==
    /\ \E e \in Element(sv) : Write(f, Append(arr(f), e))
    /\ UNCHANGED torn

(* PerlUpb_Repeated_Add *)
Add(f) ==
    /\ etype = "message"
    /\ Write(f, Append(arr(f), Fresh(1)[1]))
    /\ UNCHANGED torn

(* What lies behind the last element, when a slot there is not written. *)
Garbage ==
    IF etype = "int32" THEN Least(etype) .. Greatest(etype) ELSE Used \cup {0}

(* The slot is opened before the scalar is converted.  The conversion dies  *)
(* rather than return false, so nothing closes the slot again: it holds    *)
(* what lay there, the element that moved up or what is behind the last.   *)
Insert(f, i, sv) ==
    /\ i \in 1 .. Len(arr(f)) + 1
    /\ IF Element(sv) # {}
       THEN /\ \E e \in Element(sv) : Write(f, InsertAt(arr(f), i, e))
            /\ UNCHANGED torn
       ELSE /\ torn' = TRUE
            /\ IF i <= Len(arr(f)) THEN Write(f, InsertAt(arr(f), i, arr(f)[i]))
               ELSE \E v \in Garbage : Write(f, Append(arr(f), v))

(* Delete of count elements from i, as many as there are; POP and SHIFT.    *)
Delete(f, i, count) ==
    /\ i \in 1 .. Len(arr(f)) + 1
    /\ Write(f, SubSeq(arr(f), 1, i - 1) \o SubSeq(arr(f), i + count, Len(arr(f))))
    /\ UNCHANGED torn

(* Resize; Clear is a resize to 0. *)
Resize(f, size) ==
    /\ Write(f, [i \in 1 .. size |-> IF i <= Len(arr(f)) THEN arr(f)[i] ELSE 0])
    /\ UNCHANGED torn

Lists == UNION {[1 .. n -> Elements] : n \in 0 .. MaxLen}

OnField(f) ==
    \/ GetRepeated(f)
    \/ FastGetRepeated(f)
    \/ \E fast \in BOOLEAN :
          \/ ClearRepeated(f, fast)
          \/ \E svs \in Lists : SetList(f, svs, fast)
          \/ \E g \in RepeatedFields : SetTied(f, g, fast)
          \/ SetOther(f, fast)
    \/ /\ handle[f] # 0
       /\ \/ Add(f)
          \/ \E sv \in Elements :
                \/ AppendItem(f, sv)
                \/ \E i \in 1 .. MaxLen : SetItem(f, i, sv) \/ Insert(f, i, sv)
          \/ \E i \in 1 .. MaxLen, count \in 1 .. MaxLen : Delete(f, i, count)
          \/ \E size \in 0 .. MaxLen : Resize(f, size)

RepeatedNext == DropOther \/ \E f \in RepeatedFields : OnField(f)

-----------------------------------------------------------------------------
(* Properties. *)

(* What the program writes through the list it got from a field, by name or *)
(* from a generated getter and its memo, is what the message holds, also   *)
(* when the field was empty at the time, until the field is assigned or    *)
(* cleared; after a set or clear by name that went past the memo, a        *)
(* generated getter returns the old list.  And the plain list that the     *)
(* message returns its numbers in gives the same numbers when assigned.    *)
HandlesReachTheField ==
    \A f \in RepeatedFields :
        /\ handle[f] # 0 /\ ~stale[f] => field[f] = handle[f]
        /\ field[f] # 0 /\ etype = "int32" =>
              FromList(ToSvList(arrays[field[f]])) = {arrays[field[f]]}

(* No two fields have one array and no message is an element twice, however *)
(* lists are assigned to each other, unless an insert died half way: it    *)
(* leaves the element that moved up in two places.  Strings do share their *)
(* bytes: see StringsAreInMemory.                                          *)
NothingIsShared ==
    /\ \A f, g \in RepeatedFields : field[f] = field[g] /\ field[f] # 0 => f = g
    /\ etype = "message" /\ ~torn =>
          \A a, b \in DOMAIN arrays : \A i \in DOMAIN arrays[a], j \in DOMAIN arrays[b] :
              arrays[a][i] = arrays[b][j] /\ arrays[a][i] # 0 => a = b /\ i = j

=============================================================================
