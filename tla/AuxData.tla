------------------------------- MODULE AuxData -------------------------------
(***************************************************************************)
(* xs/unknown_fields/set.c and xs/extension_dict/*.c: what a message keeps *)
(* outside its fields.  upb holds both in one list (aux_data): an item is  *)
(* an extension with its value, or a chunk of unknown fields.  A chunk is  *)
(* a sequence of entries: fields with a number, of a wire type set.c can   *)
(* skip, and what stops it: a group, or bytes given to add that are no     *)
(* field (a wire type there is none of, an overlong varint).  A field cut  *)
(* off at the end of what add is given is left out: the bytes that come    *)
(* after it would be read as its rest.                                     *)
(***************************************************************************)
EXTENDS Integers, Sequences, FiniteSets, SequencesExt

CONSTANTS
    Extensions,
    Tags,
    MaxAux,           \* bound: items of the list
    MaxUnknown        \* bound: unknown fields

VARIABLES
    aux,              \* aux_data
    ext_iter,         \* the items the extension iterator has passed
    ext_ended,        \* it has returned undef
    ext_returned,     \* the extensions it has returned (history)
    shifted,          \* items were taken out since it was made (history)
    want,             \* the unknown fields there should be (history)
    lost              \* delete_tag met what stops it (history)

avars == <<aux, ext_iter, ext_ended, ext_returned, shifted, want, lost>>

Entries == [tag : Tags, stops : BOOLEAN]
Ext(f) == [k |-> "ext", f |-> f, es |-> <<>>]
Chunk(es) == [k |-> "unknown", f |-> "", es |-> es]
IsExt(item) == item.k = "ext"
IsUnknown(item) == item.k = "unknown"

AuxTypeOK ==
    /\ Len(aux) <= MaxAux
    /\ \A i \in DOMAIN aux : IF IsExt(aux[i]) THEN aux[i].f \in Extensions
                                              ELSE aux[i].es \in Seq(Entries) \ {<<>>}
    /\ want \in Seq(Entries)

AuxInit ==
    /\ aux = <<>>
    /\ ext_iter = 0
    /\ ext_ended = FALSE
    /\ ext_returned = <<>>
    /\ shifted = FALSE
    /\ want = <<>>
    /\ lost = FALSE

-----------------------------------------------------------------------------
(* upb's part. *)

Present(a) == {a[i].f : i \in {j \in DOMAIN a : IsExt(a[j])}}
DiscardUnknown(a) == FlattenSeq([i \in DOMAIN a |-> IF IsExt(a[i]) THEN <<a[i]>> ELSE <<>>])

(* _upb_Message_AddUnknown: a chunk of its own, or the last chunk extended  *)
(* when the arena has room behind it.                                      *)
AddUnknown(a, es) ==
    {Append(a, Chunk(es))} \cup
    {[a EXCEPT ![Len(a)].es = @ \o es] : i \in {j \in DOMAIN a : j = Len(a) /\ IsUnknown(a[j])}}

Shrunk == shifted' = (shifted \/ Len(aux') < Len(aux) \/ DiscardUnknown(aux) # aux)
Iterating == UNCHANGED <<ext_iter, ext_ended, ext_returned>>

-----------------------------------------------------------------------------
(* xs/unknown_fields/set.c *)

(* GetData: the chunks one after the other. *)
GetData(a) == FlattenSeq([i \in DOMAIN a |-> a[i].es])

UnknownAdd(es) ==
    /\ Len(want) + Len(es) <= MaxUnknown
    /\ aux' \in AddUnknown(aux, es)
    /\ Len(aux') <= MaxAux
    /\ want' = want \o es
    /\ UNCHANGED <<lost, shifted>> /\ Iterating

UnknownClear ==
    /\ aux' = DiscardUnknown(aux)
    /\ want' = <<>>
    /\ Shrunk
    /\ UNCHANGED lost /\ Iterating

(* Where decode_varint or skip_value returns NULL the loop over the chunk   *)
(* ends: the rest of it is not read.                                       *)
Readable(es) ==
    LET stops == {i \in DOMAIN es : es[i].stops}
    IN  SubSeq(es, 1, CHOOSE n \in 0 .. Len(es) :
                          /\ \A i \in stops : n < i
                          /\ n = Len(es) \/ n + 1 \in stops)

Others(es, tag) == FlattenSeq([i \in DOMAIN es |-> IF es[i].tag # tag THEN <<es[i]>> ELSE <<>>])

(* Faulty variant: the loop over the chunks ends where a chunk does.       *)
Faulty_Scrubbed(a, tag) ==
    LET chunks == SelectSeq(a, IsUnknown)
    IN  IF chunks = <<>> THEN <<>>
        ELSE Others(Readable(Head(chunks).es), tag)

(* The fields delete_tag copies: chunk by chunk what can be read and has    *)
(* another number.                                                         *)
Scrubbed(a, tag) == FlattenSeq([i \in DOMAIN a |-> Others(Readable(a[i].es), tag)])

DeleteTag(tag) ==
    /\ LET kept == Scrubbed(aux, tag)
       IN  IF kept = <<>> THEN aux' = DiscardUnknown(aux)
                          ELSE aux' \in AddUnknown(DiscardUnknown(aux), kept)
    /\ want' = Others(want, tag)
    /\ lost' = (lost \/ \E i \in DOMAIN want : want[i].stops)
    /\ Shrunk
    /\ Iterating

-----------------------------------------------------------------------------
(* xs/extension_dict/dict.c and iterator.c *)

(* SetItem of an extension: in its item, or in a new one at the end. *)
ExtSetItem(f) ==
    /\ f \notin Present(aux)
    /\ Len(aux) < MaxAux
    /\ aux' = Append(aux, Ext(f))
    /\ UNCHANGED <<shifted, want, lost>> /\ Iterating

ExtGetIterator ==
    /\ ext_iter' = 0
    /\ ext_ended' = FALSE
    /\ ext_returned' = <<>>
    /\ shifted' = FALSE
    /\ UNCHANGED <<aux, want, lost>>

(* Iterator_Next: the next item that is an extension.  The fields that come *)
(* before are skipped.                                                     *)
ExtNext ==
    LET ahead == {i \in DOMAIN aux : i > ext_iter /\ IsExt(aux[i])}
        next == CHOOSE i \in ahead : \A j \in ahead : i <= j
    IN  /\ ~ext_ended
        /\ IF ahead = {} THEN ext_ended' = TRUE /\ ext_iter' = Len(aux) /\ UNCHANGED ext_returned
           ELSE /\ ext_iter' = next
                /\ ext_returned' = Append(ext_returned, aux[next].f)
                /\ UNCHANGED ext_ended
        /\ UNCHANGED <<aux, shifted, want, lost>>

AuxNext ==
    \/ \E e, d \in Entries : UnknownAdd(<<e>>) \/ UnknownAdd(<<e, d>>)
    \/ UnknownClear
    \/ \E tag \in Tags : DeleteTag(tag)
    \/ \E f \in Extensions : ExtSetItem(f)
    \/ ExtGetIterator
    \/ ExtNext

-----------------------------------------------------------------------------
(* Properties. *)

IsSubsequence(s, t) ==
    \E at \in [DOMAIN s -> DOMAIN t] :
        /\ \A i, j \in DOMAIN s : i < j => at[i] < at[j]
        /\ \A i \in DOMAIN s : s[i] = t[at[i]]

(* delete_tag takes the fields of one number out and leaves the others in   *)
(* their order, in however many chunks they lie; only a group, or bytes    *)
(* that are no field, make it lose fields, and then it makes none up.      *)
ScrubKeepsTheRest ==
    IF lost THEN IsSubsequence(GetData(aux), want) ELSE GetData(aux) = want

(* An iteration over the extensions returns every one that is set when it   *)
(* ends, none twice, also when extensions and unknown fields are added     *)
(* meanwhile; discarding unknown fields moves the items, so there it may   *)
(* miss one.                                                               *)
ExtensionsAreComplete ==
    ext_ended /\ ~shifted =>
        /\ IsInjective(ext_returned)
        /\ ToSet(ext_returned) \subseteq Present(aux)
        /\ \A i \in DOMAIN aux : i <= ext_iter /\ IsExt(aux[i]) => aux[i].f \in ToSet(ext_returned)
=============================================================================
