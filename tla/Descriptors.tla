----------------------------- MODULE Descriptors -----------------------------
(***************************************************************************)
(* xs/descriptor/*.c, xs/descriptor_containers/*.c and the parts of        *)
(* xs/descriptor_pool/{pool,find}.c and xs/protobuf/utils.c they rest on.  *)
(* A definition lies at an address in the memory of its pool.  Its wrapper *)
(* is a class and the address: it keeps no pool alive, and the object      *)
(* cache, the cache of classes and the table of fingerprints, all keyed by *)
(* address or made from one, are not told when a pool is freed.            *)
(*                                                                         *)
(* A definition is [kind, name, number, fields]; the fields of a message   *)
(* are addresses in the order of the message.                              *)
(***************************************************************************)
EXTENDS Integers, Sequences, FiniteSets

CONSTANTS
    Addrs,
    generated,        \* the definitions of the generated pool, by address
    Layouts,          \* the definitions of another pool, wherever it may lie
    fnv               \* FNV-1a of the full names

Undef == ""
NoDef == [kind |-> Undef, name |-> Undef, number |-> 0, fields |-> <<>>]

(* The definitions of a pool: the fields of a message are definitions of    *)
(* fields in the same pool, and upb refuses two of one name or one number. *)
IsLayout(defs) ==
    /\ DOMAIN defs \subseteq Addrs
    /\ \A a \in DOMAIN defs :
          /\ defs[a].kind \in {"message", "field", "file"}
          /\ defs[a].fields \in Seq({b \in DOMAIN defs : defs[b].kind = "field"})
          /\ \A i, j \in DOMAIN defs[a].fields :
                LET f == defs[defs[a].fields[i]]
                    g == defs[defs[a].fields[j]]
                IN  f.name = g.name \/ f.number = g.number => i = j

ASSUME DescriptorsAssumption ==
    /\ Undef \notin Addrs
    /\ IsLayout(generated)
    /\ \A defs \in Layouts : IsLayout(defs)

VARIABLES
    mem,              \* the definition at each address
    gen_pool,         \* the generated pool: "none", "wrapped" or "bare"
    other_pool,       \* the addresses of the other pool, {} if there is none
    wrappers,         \* the class of the wrapper in the cache, or Undef
    stash_cache,      \* reg->stash_cache: address -> class
    fingerprints,     \* reg->descriptor_fingerprints: fingerprint -> wrapper
    view,             \* a map of a message's fields: [parent, by, alive]
    cursor,           \* its iterator: [index, key, ended]
    pairs,            \* what it has returned (history)
    freed             \* the addresses that were freed (history)

dvars == <<mem, gen_pool, other_pool, wrappers, stash_cache, fingerprints, view,
           cursor, pairs, freed>>

NoView == [parent |-> Undef, by |-> Undef, alive |-> FALSE]
NoCursor == [index |-> -1, key |-> Undef, ended |-> FALSE]
HasCursor == cursor.index >= 0

DescriptorsTypeOK ==
    /\ gen_pool \in {"none", "wrapped", "bare"}
    /\ \A a \in Addrs : wrappers[a] \in {Undef, "message", "field", "file"}
    /\ DOMAIN stash_cache \subseteq Addrs
    /\ \A n \in DOMAIN fingerprints : wrappers[fingerprints[n]] # Undef

DescriptorsInit ==
    /\ mem = [a \in Addrs |-> NoDef]
    /\ gen_pool = "none"
    /\ other_pool = {}
    /\ wrappers = [a \in Addrs |-> Undef]
    /\ stash_cache = [a \in {} |-> Undef]
    /\ fingerprints = [n \in {} |-> Undef]
    /\ view = NoView
    /\ cursor = NoCursor
    /\ pairs = {}
    /\ freed = {}

Free(as) == \A a \in as : mem[a] = NoDef
Placed(defs) == [a \in Addrs |-> IF a \in DOMAIN defs THEN defs[a] ELSE mem[a]]
KeepView == UNCHANGED <<view, cursor, pairs>>
KeepTables == UNCHANGED <<stash_cache, fingerprints>>
KeepMemory == UNCHANGED <<mem, gen_pool, other_pool, freed>>

-----------------------------------------------------------------------------
(* Pools *)

(* PerlUpb_DescriptorPool_GeneratedPool makes the pool once and wraps it    *)
(* again when its wrapper is gone.                                         *)
GeneratedPool ==
    /\ gen_pool # "wrapped"
    /\ gen_pool = "none" => Free(DOMAIN generated)
    /\ gen_pool' = "wrapped"
    /\ mem' = IF gen_pool = "none" THEN Placed(generated) ELSE mem
    /\ UNCHANGED <<other_pool, wrappers, freed>> /\ KeepTables /\ KeepView

(* PerlUpb_DescriptorPool_New, and files added to it. *)
NewPool(defs) ==
    /\ other_pool = {}
    /\ Free(DOMAIN defs)
    /\ other_pool' = DOMAIN defs
    /\ mem' = Placed(defs)
    /\ UNCHANGED <<gen_pool, wrappers, freed>> /\ KeepTables /\ KeepView

(* Faulty variant: the generated pool is freed with its wrapper.           *)
Faulty_DestroyRaw ==
    \/ /\ gen_pool = "wrapped"
       /\ gen_pool' = "none"
       /\ mem' = [a \in Addrs |-> IF a \in DOMAIN generated THEN NoDef ELSE mem[a]]
       /\ UNCHANGED <<other_pool, freed>>
    \/ /\ other_pool # {}
       /\ mem' = [a \in Addrs |-> IF a \in other_pool THEN NoDef ELSE mem[a]]
       /\ freed' = freed \cup other_pool
       /\ other_pool' = {}
       /\ UNCHANGED gen_pool

(* PerlUpb_DescriptorPool_DestroyRaw: a pool that is not the generated one  *)
(* is freed, and its own entry leaves the cache; the generated pool stays, *)
(* and so does its entry (see ObjCache).                                   *)
DestroyRaw ==
    \/ /\ gen_pool = "wrapped"
       /\ gen_pool' = "bare"
       /\ UNCHANGED <<mem, other_pool, freed>>
    \/ /\ other_pool # {}
       /\ mem' = [a \in Addrs |-> IF a \in other_pool THEN NoDef ELSE mem[a]]
       /\ freed' = freed \cup other_pool
       /\ other_pool' = {}
       /\ UNCHANGED gen_pool

(* PerlUpb_DescriptorPool_Free, when the wrapper of a pool goes. *)
FreePool == DestroyRaw /\ UNCHANGED wrappers /\ KeepTables /\ KeepView

-----------------------------------------------------------------------------
(* Wrappers *)

(* RETURN_CACHED_OR_CREATE_BLESSED: what is cached for the address, of      *)
(* whatever class, or a new wrapper of the class of the call.              *)
Wrapped(a, class) == [wrappers EXCEPT ![a] = IF @ = Undef THEN class ELSE @]

(* EXTRACT_CACHED_DESCRIPTOR: the address, or an error for another class. *)
Extracts(a, class) == wrappers[a] = class

(* The Find...ByName of a pool and PerlUpb_Message_File: each wraps what    *)
(* it finds.                                                               *)
Find(a) ==
    /\ mem[a] # NoDef
    /\ wrappers' = Wrapped(a, mem[a].kind)
    /\ KeepMemory /\ KeepTables /\ KeepView

(* wrapper_cleanup.  A wrapper in the table of fingerprints and the parent  *)
(* of a map stay.                                                          *)
DropWrapper(a) ==
    /\ wrappers[a] # Undef
    /\ \A n \in DOMAIN fingerprints : fingerprints[n] # a
    /\ view.alive => view.parent # a
    /\ wrappers' = [wrappers EXCEPT ![a] = Undef]
    /\ KeepMemory /\ KeepTables /\ KeepView

(* A message that the program reaches by its wrapper.  What a freed         *)
(* definition holds is undefined; the program of this model does not look. *)
Reached(a) == Extracts(a, "message") /\ mem[a].kind = "message"

(* PerlUpb_MessageDef_PerlClassName: the cache of PerlUpb_GetMessageStash   *)
(* first.                                                                  *)
PerlClassName(a) ==
    /\ Reached(a)
    /\ stash_cache' = [b \in DOMAIN stash_cache \cup {a} |->
                          IF b \in DOMAIN stash_cache THEN stash_cache[b] ELSE mem[a].name]
    /\ UNCHANGED <<wrappers, fingerprints>> /\ KeepMemory /\ KeepView

GetFingerprint(a) == fnv[mem[a].name]

(* PerlUpb_MessageDef_RegisterFingerprint: the last message of a            *)
(* fingerprint has it.                                                     *)
RegisterFingerprint(a) ==
    /\ mem[a].kind = "message"
    /\ wrappers' = Wrapped(a, "message")
    /\ fingerprints' = [n \in DOMAIN fingerprints \cup {GetFingerprint(a)} |->
                           IF n = GetFingerprint(a) THEN a ELSE fingerprints[n]]
    /\ UNCHANGED stash_cache /\ KeepMemory /\ KeepView

FindByFingerprint(n) ==
    IF n \in DOMAIN fingerprints /\ Extracts(fingerprints[n], "message")
    THEN fingerprints[n] ELSE Undef

-----------------------------------------------------------------------------
(* Containers: a map of the fields of a message, by name or by number.     *)

(* The accessors of xs/descriptor/field.c: a default where there is no      *)
(* field.                                                                  *)
FieldName(f) == IF f = Undef THEN Undef ELSE mem[f].name
FieldNumber(f) == IF f = Undef THEN 0 ELSE mem[f].number

(* PerlUpb_GenericSequence_GetItem with the functions for fields. *)
Count == Len(mem[view.parent].fields)
Item(i) == IF i \in 1 .. Count THEN mem[view.parent].fields[i] ELSE Undef

(* PerlUpb_ByNameMap_Key and PerlUpb_ByNumberMap_Key *)
NameKey(i) == FieldName(Item(i))
NumberKey(i) == FieldNumber(Item(i))
Key(i) == IF view.by = "name" THEN NameKey(i) ELSE NumberKey(i)

(* PerlUpb_ByNumberMap_Lookup, PerlUpb_ByNameMap_Lookup with                *)
(* PerlUpb_MessageDef_FindFieldByNameWithSize: the first field that has it. *)
Lookup(key) ==
    LET hits == {i \in 1 .. Count : Key(i) = key}
    IN  IF hits = {} THEN Undef ELSE Item(CHOOSE i \in hits : \A j \in hits : i <= j)

(* PerlUpb_ByNameMap_AsHash, which a map by number has not: a key that      *)
(* comes twice has its last value.                                         *)
AsHash ==
    [key \in {Key(i) : i \in 1 .. Count} |->
        Item(CHOOSE i \in 1 .. Count : Key(i) = key /\ \A j \in i + 1 .. Count : Key(j) # key)]

NewMap(a, by) ==
    /\ view = NoView
    /\ Reached(a)
    /\ view' = [parent |-> a, by |-> by, alive |-> TRUE]
    /\ UNCHANGED <<wrappers, cursor, pairs>> /\ KeepMemory /\ KeepTables

NewByNameMap(a) == NewMap(a, "name")
NewByNumberMap(a) == NewMap(a, "number")

(* The map is freed: its iterator finds no map any more. *)
FreeMap ==
    /\ view.alive
    /\ view' = IF ~HasCursor THEN NoView ELSE [view EXCEPT !.alive = FALSE]
    /\ UNCHANGED <<wrappers, cursor, pairs>> /\ KeepMemory /\ KeepTables

NewIterator ==
    /\ view.alive
    /\ cursor' = [NoCursor EXCEPT !.index = 0]
    /\ pairs' = {}
    /\ UNCHANGED <<view, wrappers>> /\ KeepMemory /\ KeepTables

FreeIterator ==
    /\ HasCursor
    /\ cursor' = NoCursor
    /\ pairs' = {}
    /\ view' = IF view.alive THEN view ELSE NoView
    /\ UNCHANGED wrappers /\ KeepMemory /\ KeepTables

MapIsUsable == view.alive => mem[view.parent].kind = "message"

(* PerlUpb_DescriptorMapIterator_NextKey moves on, NextValue looks one      *)
(* back.                                                                   *)
DescNextKey ==
    /\ HasCursor /\ MapIsUsable
    /\ cursor' = IF view.alive /\ cursor.index < Count
                 THEN [cursor EXCEPT !.index = @ + 1, !.key = Key(cursor.index + 1)]
                 ELSE [cursor EXCEPT !.key = Undef, !.ended = TRUE]
    /\ UNCHANGED <<wrappers, view, pairs>> /\ KeepMemory /\ KeepTables

Current == cursor.index

(* The value is wrapped, and the program reads its name.  After the end it  *)
(* is the last value again.                                                *)
DescNextValue ==
    /\ HasCursor /\ MapIsUsable
    /\ view.alive /\ Current \in 1 .. Count
    /\ wrappers' = Wrapped(Item(Current), "field")
    /\ pairs' = IF cursor.ended THEN pairs ELSE pairs \cup {<<cursor.key, Item(Current)>>}
    /\ UNCHANGED <<view, cursor>> /\ KeepMemory /\ KeepTables

DescriptorsNext ==
    \/ GeneratedPool
    \/ \E defs \in Layouts : NewPool(defs)
    \/ FreePool
    \/ \E a \in Addrs : Find(a) \/ DropWrapper(a) \/ PerlClassName(a) \/ RegisterFingerprint(a)
    \/ \E a \in Addrs : NewByNameMap(a) \/ NewByNumberMap(a)
    \/ FreeMap
    \/ NewIterator
    \/ FreeIterator
    \/ DescNextKey
    \/ DescNextValue

-----------------------------------------------------------------------------
(* Properties. *)

(* The generated pool outlives its wrappers, and what is kept about its     *)
(* definitions stays right while other pools come and go: each wrapper has *)
(* the class of its definition, each cached class belongs to its message.  *)
(* A fingerprint leads to a message that has it.  All this holds as long   *)
(* as the address was never part of a freed pool: nothing purges the       *)
(* caches then, and what they hold of such an address may be anything.     *)
GeneratedDescriptorsStay ==
    /\ gen_pool # "none" =>
          \A a \in DOMAIN generated \ freed :
              /\ mem[a] = generated[a]
              /\ wrappers[a] \in {Undef, generated[a].kind}
    /\ \A a \in DOMAIN stash_cache \ freed : stash_cache[a] = mem[a].name
    /\ \A n \in DOMAIN fingerprints :
          fingerprints[n] \notin freed =>
              /\ FindByFingerprint(n) # Undef
              /\ mem[FindByFingerprint(n)].kind = "message"
              /\ fnv[mem[FindByFingerprint(n)].name] = n

(* A loop over a map of fields that asks for the key and then for the value *)
(* gets them in pairs that the map's own lookup, and for a map by name its *)
(* as_hash, agree with, also when the map is freed on the way.             *)
KeysComeWithTheirValues ==
    view.alive /\ view.parent \notin freed =>
        \A p \in pairs : /\ Lookup(p[1]) = p[2]
                         /\ view.by = "name" => AsHash[p[1]] = p[2]
=============================================================================
